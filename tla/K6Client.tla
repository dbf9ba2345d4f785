----------------------------- MODULE K6Client -----------------------------
(***************************************************************************)
(* The load-test client (xk6-pitaya/client.go).  Request and ConsumePush   *)
(* return promises that a goroutine of their own settles: with what comes  *)
(* through a channel of capacity one, or on a timeout.  The channels are   *)
(* kept by message id and by route, and whoever asks for one first makes   *)
(* it: the caller, or the listener of a connection that has a message for  *)
(* it.                                                                     *)
(***************************************************************************)
EXTENDS Integers, Sequences, FiniteSets

CONSTANTS Requests,     \* message ids of the requests, positive numbers
          Consumers,    \* calls of ConsumePush
          MaxPushes,    \* bound: pushes the server sends
          Listeners     \* one per call of Connect

NoChannel == [of |-> 0, n |-> 0]
ResponseChannels == [of : Requests, n : 1..2]
Push == [of |-> 0, n |-> 1]
Channels == ResponseChannels \cup {Push}
Idle == [at |-> "idle", ch |-> NoChannel, mid |-> 0]

VARIABLES
  promise,    \* by request: none, sent, wait, resolved or rejected
  waitsOn,    \* by request: the channel its goroutine waits on
  consumer,   \* by ConsumePush call: none, wait, resolved or rejected
  responses,  \* by message id: the channel in the map
  made,       \* by message id: channels made for it
  full,       \* channels with a value in their buffer
  listener,   \* by connection: what its goroutine is doing
  inbox,      \* by connection: the client's MsgChannel
  answered,   \* requests the server has answered
  handed,     \* requests whose response a listener has put in a channel
  pushed      \* pushes sent by the server

vars == <<promise, waitsOn, consumer, responses, made, full, listener, inbox,
          answered, handed, pushed>>

Init ==
  /\ promise = [m \in Requests |-> "none"]
  /\ waitsOn = [m \in Requests |-> NoChannel]
  /\ consumer = [c \in Consumers |-> "none"]
  /\ responses = [m \in Requests |-> NoChannel] /\ made = [m \in Requests |-> 0]
  /\ full = {} /\ listener = [l \in Listeners |-> [Idle EXCEPT !.at = "off"]]
  /\ inbox = [l \in Listeners |-> <<>>]
  /\ answered = {} /\ handed = {} /\ pushed = 0

(* getResponseChannelForID, one critical section of responsesMutex.        *)
getResponseChannelForID(m) ==
  IF responses[m] # NoChannel THEN responses[m] ELSE [of |-> m, n |-> made[m] + 1]

Enter(m) ==
  /\ responses' = [responses EXCEPT ![m] = getResponseChannelForID(m)]
  /\ made' = [made EXCEPT ![m] = getResponseChannelForID(m).n]
-----------------------------------------------------------------------------
Connect(l) ==
  /\ listener[l].at = "off"
  /\ listener' = [listener EXCEPT ![l] = Idle]
  /\ UNCHANGED <<promise, waitsOn, consumer, responses, made, full, inbox,
                 answered, handed, pushed>>

(* Request sends first; a send that fails rejects the promise.             *)
Request(m) ==
  /\ promise[m] = "none" /\ \E l \in Listeners : listener[l].at # "off"
  /\ \E p \in {"sent", "rejected"} : promise' = [promise EXCEPT ![m] = p]
  /\ UNCHANGED <<waitsOn, consumer, responses, made, full, listener, inbox,
                 answered, handed, pushed>>

(* Only then does it ask for the channel of the answer.                    *)
RequestWaits(m) ==
  /\ promise[m] = "sent"
  /\ promise' = [promise EXCEPT ![m] = "wait"]
  /\ waitsOn' = [waitsOn EXCEPT ![m] = getResponseChannelForID(m)]
  /\ Enter(m)
  /\ UNCHANGED <<consumer, full, listener, inbox, answered, handed, pushed>>

Settle(m, how) ==
  /\ promise' = [promise EXCEPT ![m] = how]
  /\ UNCHANGED <<waitsOn, consumer, responses, made, listener, inbox, answered,
                 handed, pushed>>

Resolve(m) ==
  /\ promise[m] = "wait" /\ waitsOn[m] \in full
  /\ full' = full \ {waitsOn[m]}
  /\ Settle(m, "resolved")

Timeout(m) ==
  /\ promise[m] = "wait"
  /\ Settle(m, "rejected")
  /\ UNCHANGED full

(* ConsumePush and the end of its wait.  A listener that is blocked on the *)
(* channel fills it again in the same step, as a receive on a full Go      *)
(* channel does.                                                           *)
ConsumePush(c) ==
  /\ consumer[c] = "none"
  /\ consumer' = [consumer EXCEPT ![c] = "wait"]
  /\ UNCHANGED <<promise, waitsOn, responses, made, full, listener, inbox,
                 answered, handed, pushed>>

Blocked(l) == listener[l].at = "send" /\ listener[l].ch \in full

Consumed(c) ==
  /\ consumer[c] = "wait" /\ Push \in full
  /\ consumer' = [consumer EXCEPT ![c] = "resolved"]
  /\ IF \E l \in Listeners : Blocked(l)
     THEN /\ \E l \in Listeners : Blocked(l) /\ listener' = [listener EXCEPT ![l] = Idle]
          /\ UNCHANGED full
     ELSE full' = full \ {Push} /\ UNCHANGED listener
  /\ UNCHANGED <<promise, waitsOn, responses, made, inbox, answered, handed, pushed>>

ConsumeTimeout(c) ==
  /\ consumer[c] = "wait"
  /\ consumer' = [consumer EXCEPT ![c] = "rejected"]
  /\ UNCHANGED <<promise, waitsOn, responses, made, full, listener, inbox,
                 answered, handed, pushed>>
-----------------------------------------------------------------------------
(* The server answers a request or pushes, through some connection.        *)
Arrives(l) ==
  /\ listener[l].at # "off"
  /\ \/ /\ pushed < MaxPushes
        /\ pushed' = pushed + 1 /\ UNCHANGED answered
        /\ inbox' = [inbox EXCEPT ![l] = Append(@, 0)]
     \/ \E m \in Requests \ answered :
          /\ promise[m] \in {"sent", "wait"}
          /\ answered' = answered \cup {m} /\ UNCHANGED pushed
          /\ inbox' = [inbox EXCEPT ![l] = Append(@, m)]
  /\ UNCHANGED <<promise, waitsOn, consumer, responses, made, full, listener, handed>>

Taken(l) == listener[l].at = "idle" /\ inbox[l] # <<>>
Took(l) == inbox' = [inbox EXCEPT ![l] = Tail(@)]

(* A response: the listener asks for the channel of its id, ...            *)
ListenResponse(l) ==
  LET m == Head(inbox[l])
  IN  /\ Taken(l) /\ m # 0
      /\ Took(l) /\ Enter(m)
      /\ listener' = [listener EXCEPT ![l] =
                        [at |-> "send", ch |-> getResponseChannelForID(m), mid |-> m]]
      /\ UNCHANGED <<promise, waitsOn, consumer, full, answered, handed, pushed>>

(* ... fills it, and takes it out of the map: removeResponseChannelForID.  *)
removeResponseChannelForID(l) ==
  /\ listener[l].at = "remove"
  /\ responses' = [responses EXCEPT ![listener[l].mid] = NoChannel]
  /\ listener' = [listener EXCEPT ![l] = Idle]
  /\ UNCHANGED <<promise, waitsOn, consumer, made, full, inbox, answered, handed,
                 pushed>>

(* A push is dropped if one waits to be consumed.                          *)
ListenPushAlways(l) ==
  /\ Taken(l) /\ Head(inbox[l]) = 0
  /\ Took(l)
  /\ listener' = [listener EXCEPT ![l] = [at |-> "send", ch |-> Push, mid |-> 0]]
  /\ UNCHANGED <<promise, waitsOn, consumer, responses, made, full, answered, handed,
                 pushed>>

ListenPush(l) ==
  /\ Taken(l) /\ Head(inbox[l]) = 0
  /\ Took(l)
  /\ listener' = IF Push \in full THEN listener
                 ELSE [listener EXCEPT ![l] = [at |-> "send", ch |-> Push, mid |-> 0]]
  /\ UNCHANGED <<promise, waitsOn, consumer, responses, made, full, answered, handed,
                 pushed>>

(* The send itself waits while the channel is full.                        *)
Send(l) ==
  LET g == listener[l]
  IN  /\ g.at = "send" /\ g.ch \notin full
      /\ full' = full \cup {g.ch}
      /\ handed' = IF g.mid = 0 THEN handed ELSE handed \cup {g.mid}
      /\ listener' = [listener EXCEPT ![l] = IF g.mid = 0 THEN Idle
                                             ELSE [g EXCEPT !.at = "remove"]]
      /\ UNCHANGED <<promise, waitsOn, consumer, responses, made, inbox, answered,
                     pushed>>
-----------------------------------------------------------------------------
Next ==
  \/ \E m \in Requests : Request(m) \/ RequestWaits(m) \/ Resolve(m) \/ Timeout(m)
  \/ \E c \in Consumers : ConsumePush(c) \/ Consumed(c) \/ ConsumeTimeout(c)
  \/ \E l \in Listeners :
       \/ Connect(l) \/ Arrives(l) \/ ListenResponse(l) \/ ListenPush(l) \/ Send(l)
       \/ removeResponseChannelForID(l)

Spec == Init /\ [][Next]_vars
-----------------------------------------------------------------------------
(* A connection goes on reading: of the listeners there always is one that *)
(* is not blocked on a full channel, so a client that connected once never *)
(* is, however many pushes nobody consumes and however late the answers.   *)
ListenerReads ==
  LET on == {l \in Listeners : listener[l].at # "off"}
  IN  on # {} => \E l \in on : ~Blocked(l)

(* "returns a promise that will be resolved when the response is           *)
(* received": once a listener has handed a response over, the request that *)
(* waits for it finds it in its channel.                                   *)
ResponseFound ==
  \A m \in Requests : promise[m] = "wait" /\ m \in handed => waitsOn[m] \in full
=============================================================================
