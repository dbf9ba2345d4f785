-------------------------------- MODULE Rpc ---------------------------------
(***************************************************************************)
(* Remote calls over NATS: the client of one server (NatsRPCClient.Call),  *)
(* and the receiving side of its peers (NatsRPCServer: handleMessages,     *)
(* processMessages and the goroutine pool of each user).                   *)
(*                                                                         *)
(* Requests are numbered in the order in which they are published on the   *)
(* client's connection.  NATS keeps that order for one subject; it stores  *)
(* nothing, and drops what does not fit into the subscriber's channel.     *)
(***************************************************************************)
EXTENDS Naturals, Sequences, FiniteSets

CONSTANTS Peers,       \* the servers that are called
          Users,       \* users whose session a request carries
          NoUser,      \* a request without session
          BadUser,     \* a user id that GoWithUser refuses (not a number > 0)
          Nil,         \* no peer, no request
          MaxRequests, \* bound on the requests of a behaviour
          Buffer,      \* capacity of subChan
          TaskBuffer   \* capacity of a user's task queue

RpcConstants ==
  /\ IsFiniteSet(Peers)
  /\ MaxRequests \in Nat /\ Buffer \in Nat \ {0} /\ TaskBuffer \in Nat \ {0}
  /\ NoUser \notin Users /\ BadUser \notin Users \cup {NoUser}
  /\ Nil \notin Peers \cup Nat

VARIABLES
  sent,     \* number of requests published
  req,      \* each request: its user, peer, kind, and the caller's result
  wire,     \* requests on their way to each peer
  subChan,  \* requests in each peer's channel
  inHand,     \* the request handleMessages is handing over
  queue,    \* tasks of each peer's user goroutines, in order
  loose,    \* tasks of each peer that run in no particular order
  log,      \* history: requests each peer executed for each user
  replies,  \* replies on their way to the client
  server    \* each peer's receiving side: running, stopping, closed, gone

rpcVars == <<sent, req, wire, subChan, inHand, queue, loose, log, replies, server>>

Numbers == 1 .. MaxRequests
Senders == Users \cup {NoUser, BadUser}
Kinds == {"request", "notify"}
Results == {"none", "waiting", "ok", "error"}
Free == [user |-> NoUser, peer |-> Nil, kind |-> "request", result |-> "none"]

RpcInit ==
  /\ sent = 0 /\ req = [r \in Numbers |-> Free]
  /\ wire = [p \in Peers |-> <<>>] /\ subChan = [p \in Peers |-> <<>>]
  /\ inHand = [p \in Peers |-> Nil]
  /\ queue = [p \in Peers |-> [u \in Users |-> <<>>]]
  /\ loose = [p \in Peers |-> {}]
  /\ log = [p \in Peers |-> [u \in Users |-> <<>>]]
  /\ replies = {} /\ server = [p \in Peers |-> "running"]

server_vars == <<subChan, inHand, queue, loose, log, server>>
-----------------------------------------------------------------------------
(* Call publishes the request and, unless it is a notification, waits.     *)
Call(p, u, kind) ==
  /\ sent < MaxRequests
  /\ sent' = sent + 1
  /\ req' = [req EXCEPT ![sent + 1] =
               [user |-> u, peer |-> p, kind |-> kind,
                result |-> IF kind = "notify" THEN "ok" ELSE "waiting"]]
  /\ wire' = [wire EXCEPT ![p] = Append(@, sent + 1)]
  /\ UNCHANGED <<replies, server_vars>>

Finish(r, result) == req' = [req EXCEPT ![r].result = result]

ReplyToOldest(r, result) ==
  /\ <<r, result>> \in replies
  /\ replies' = replies \ {<<r, result>>}
  /\ LET waiting == {q \in Numbers : req[q].result = "waiting"}
     IN  IF waiting = {} THEN UNCHANGED req
         ELSE Finish(CHOOSE q \in waiting : \A x \in waiting : q <= x, result)
  /\ UNCHANGED <<sent, wire, server_vars>>

(* The reply arrives: at a caller that still waits, or at nobody.          *)
Reply(r, result) ==
  /\ <<r, result>> \in replies
  /\ replies' = replies \ {<<r, result>>}
  /\ IF req[r].result = "waiting" THEN Finish(r, result) ELSE UNCHANGED req
  /\ UNCHANGED <<sent, wire, server_vars>>

Timeout(r) ==
  /\ req[r].result = "waiting"
  /\ Finish(r, "error")
  /\ UNCHANGED <<sent, wire, replies, server_vars>>
-----------------------------------------------------------------------------
(* The peer's process is gone, and with it every task it had not run.      *)
Leave(p) ==
  /\ server' = [server EXCEPT ![p] = "gone"]
  /\ subChan' = [subChan EXCEPT ![p] = <<>>]
  /\ inHand' = [inHand EXCEPT ![p] = Nil]
  /\ queue' = [queue EXCEPT ![p] = [u \in Users |-> <<>>]]
  /\ loose' = [loose EXCEPT ![p] = {}]

ArriveUnbounded(p) ==
  /\ wire[p] # <<>> /\ server[p] # "gone"
  /\ wire' = [wire EXCEPT ![p] = Tail(@)]
  /\ subChan' = [subChan EXCEPT ![p] = Append(@, Head(wire[p]))]
  /\ UNCHANGED <<sent, req, inHand, queue, loose, log, replies, server>>

(* The NATS client of the peer: a full channel drops the message, and a    *)
(* closed one makes the send panic.                                        *)
Arrive(p) ==
  /\ wire[p] # <<>> /\ server[p] # "gone"
  /\ wire' = [wire EXCEPT ![p] = Tail(@)]
  /\ \/ server[p] = "closed" /\ Leave(p)
     \/ /\ server[p] # "closed"
        /\ subChan' = [subChan EXCEPT ![p] =
                          IF Len(@) < Buffer THEN Append(@, Head(wire[p])) ELSE @]
        /\ UNCHANGED <<server, inHand, queue, loose>>
  /\ UNCHANGED <<sent, req, log, replies>>

(* Nobody subscribes to the subject: NATS tells the caller.                *)
NoResponders(p) ==
  /\ wire[p] # <<>> /\ server[p] = "gone"
  /\ wire' = [wire EXCEPT ![p] = Tail(@)]
  /\ LET r == Head(wire[p])
     IN  IF req[r].result = "waiting" THEN Finish(r, "error") ELSE UNCHANGED req
  /\ UNCHANGED <<sent, replies, server_vars>>

(* handleMessages: select on subChan and stopChan.                         *)
HandleMessage(p) ==
  /\ server[p] \in {"running", "stopping"} /\ inHand[p] = Nil /\ subChan[p] # <<>>
  /\ inHand' = [inHand EXCEPT ![p] = Head(subChan[p])]
  /\ subChan' = [subChan EXCEPT ![p] = Tail(@)]
  /\ UNCHANGED <<sent, req, wire, queue, loose, log, replies, server>>

HandleStop(p) ==
  /\ server[p] = "stopping" /\ inHand[p] = Nil
  /\ server' = [server EXCEPT ![p] = "closed"]
  /\ UNCHANGED <<sent, req, wire, subChan, inHand, queue, loose, log, replies>>

DispatchLoose(p) ==
  /\ inHand[p] # Nil /\ req[inHand[p]].user # BadUser
  /\ loose' = [loose EXCEPT ![p] = @ \cup {inHand[p]}]
  /\ inHand' = [inHand EXCEPT ![p] = Nil]
  /\ UNCHANGED <<sent, req, wire, subChan, queue, log, replies, server>>

DispatchWhileRunning(p) ==
  LET r == inHand[p]  u == req[r].user
  IN  /\ r # Nil /\ u # BadUser /\ server[p] = "running"
      /\ \/ /\ u = NoUser
            /\ loose' = [loose EXCEPT ![p] = @ \cup {r}] /\ UNCHANGED queue
         \/ /\ u \in Users /\ Len(queue[p][u]) < TaskBuffer
            /\ queue' = [queue EXCEPT ![p][u] = Append(@, r)] /\ UNCHANGED loose
      /\ inHand' = [inHand EXCEPT ![p] = Nil]
      /\ UNCHANGED <<sent, req, wire, subChan, log, replies, server>>

(* processMessages, one goroutine: GoWithRequest gives the task to the     *)
(* user's goroutine, whose queue may make it wait, or to a free one.       *)
Dispatch(p) ==
  LET r == inHand[p]  u == req[r].user
  IN  /\ r # Nil /\ u # BadUser
      /\ \/ /\ u = NoUser
            /\ loose' = [loose EXCEPT ![p] = @ \cup {r}] /\ UNCHANGED queue
         \/ /\ u \in Users /\ Len(queue[p][u]) < TaskBuffer
            /\ queue' = [queue EXCEPT ![p][u] = Append(@, r)] /\ UNCHANGED loose
      /\ inHand' = [inHand EXCEPT ![p] = Nil]
      /\ UNCHANGED <<sent, req, wire, subChan, log, replies, server>>

(* GoWithUser refuses the id: the task is lost and nobody answers.         *)
Refuse(p) ==
  /\ inHand[p] # Nil /\ req[inHand[p]].user = BadUser
  /\ inHand' = [inHand EXCEPT ![p] = Nil]
  /\ UNCHANGED <<sent, req, wire, subChan, queue, loose, log, replies, server>>

(* GetContextFromRequest fails: answered at once with an error.            *)
Reject(p) ==
  /\ inHand[p] # Nil
  /\ replies' = IF req[inHand[p]].kind = "notify" THEN replies
                ELSE replies \cup {<<inHand[p], "error">>}
  /\ inHand' = [inHand EXCEPT ![p] = Nil]
  /\ UNCHANGED <<sent, req, wire, subChan, queue, loose, log, server>>

Respond(r) == replies' \in IF req[r].kind = "notify" THEN {replies}
                           ELSE {replies \cup {<<r, result>>} : result \in {"ok", "error"}}

(* A task runs the remote and publishes its response.                      *)
Run(p, u) ==
  /\ queue[p][u] # <<>>
  /\ queue' = [queue EXCEPT ![p][u] = Tail(@)]
  /\ log' = [log EXCEPT ![p][u] = Append(@, Head(queue[p][u]))]
  /\ Respond(Head(queue[p][u]))
  /\ UNCHANGED <<sent, req, wire, subChan, inHand, loose, server>>

RunLoose(p, r) ==
  /\ r \in loose[p]
  /\ loose' = [loose EXCEPT ![p] = @ \ {r}]
  /\ log' = IF req[r].user \in Users
            THEN [log EXCEPT ![p][req[r].user] = Append(@, r)] ELSE log
  /\ Respond(r)
  /\ UNCHANGED <<sent, req, wire, subChan, inHand, queue, server>>

RpcShutdown(p) ==
  /\ server[p] = "running"
  /\ server' = [server EXCEPT ![p] = "stopping"]
  /\ UNCHANGED <<sent, req, wire, subChan, inHand, queue, loose, log, replies>>

Exit(p) ==
  /\ server[p] = "closed" /\ Leave(p)
  /\ UNCHANGED <<sent, req, wire, log, replies>>
-----------------------------------------------------------------------------
RpcNext ==
  \/ \E p \in Peers, u \in Senders, kind \in {"request", "notify"} : Call(p, u, kind)
  \/ \E r \in Numbers, result \in {"ok", "error"} : Reply(r, result)
  \/ \E r \in Numbers : Timeout(r)
  \/ \E p \in Peers : \/ Arrive(p) \/ NoResponders(p) \/ HandleMessage(p) \/ HandleStop(p)
                       \/ Dispatch(p) \/ Refuse(p) \/ Reject(p) \/ RpcShutdown(p) \/ Exit(p)
  \/ \E p \in Peers, u \in Users : Run(p, u)
  \/ \E p \in Peers, r \in Numbers : RunLoose(p, r)

RpcSpec == RpcInit /\ [][RpcNext]_rpcVars

(* Goroutines run, messages travel, remotes return and timers fire.        *)
RpcFairness ==
  /\ \A r \in Numbers : WF_rpcVars(Timeout(r))
  /\ \A p \in Peers : /\ WF_rpcVars(HandleMessage(p)) /\ WF_rpcVars(HandleStop(p))
                      /\ WF_rpcVars(Dispatch(p)) /\ WF_rpcVars(Refuse(p))
                      /\ \A u \in Users : WF_rpcVars(Run(p, u))

RpcFairSpec == RpcSpec /\ RpcFairness
-----------------------------------------------------------------------------
(* Every variable holds a value of its kind; no channel or task queue      *)
(* holds more than its capacity (ChanSubscribe on subChan, a user's task   *)
(* buffer).                                                                *)
RpcTypeOK ==
  /\ sent \in 0 .. MaxRequests
  /\ \A r \in Numbers : /\ req[r].user \in Senders /\ req[r].peer \in Peers \cup {Nil}
                         /\ req[r].kind \in Kinds /\ req[r].result \in Results
  /\ \A p \in Peers :
       /\ wire[p] \in Seq(Numbers) /\ subChan[p] \in Seq(Numbers) /\ Len(subChan[p]) <= Buffer
       /\ inHand[p] \in Numbers \cup {Nil} /\ loose[p] \subseteq Numbers
       /\ \A u \in Users : /\ queue[p][u] \in Seq(Numbers) /\ Len(queue[p][u]) <= TaskBuffer
                           /\ log[p][u] \in Seq(Numbers)
       /\ server[p] \in {"running", "stopping", "closed", "gone"}
  /\ replies \subseteq Numbers \X {"ok", "error"}

(* processMessages runs as one goroutine "to keep the order of delivery":  *)
(* a server runs the requests of one user in the order in which they were  *)
(* sent, each at most once, whatever was dropped, timed out, mixed with    *)
(* notifications or met a shutdown.                                        *)
UserOrder ==
  \A p \in Peers, u \in Users : \A i, j \in DOMAIN log[p][u] :
    i < j => log[p][u][i] < log[p][u][j]

(* Call returns a response only if the peer it was sent to ran this very   *)
(* request; a reply that comes after the timeout, or belongs to another    *)
(* call of the same user, is never taken for it.                           *)
OwnAnswer ==
  \A r \in Numbers : req[r].result = "ok" /\ req[r].kind # "notify" /\ req[r].user \in Users
     => \E i \in DOMAIN log[req[r].peer][req[r].user] : log[req[r].peer][req[r].user][i] = r

(* The answers of a server are in order and are the caller's own: both of  *)
(* the above at once.                                                      *)
CallsServed == UserOrder /\ OwnAnswer

(* After Shutdown handleMessages ends: it is not left blocked on handing   *)
(* over a request to processMessages.                                      *)
StopCompletes == \A p \in Peers : server[p] = "stopping" ~> server[p] \in {"closed", "gone"}
=============================================================================
