------------------------------ MODULE Client ------------------------------
(***************************************************************************)
(* The Go client of client/client.go.  A successful ConnectTo creates a    *)
(* connection generation with its own connection, pending requests, slots  *)
(* and loops; the client publishes at most one as current.  Connecting,    *)
(* Disconnect, the loops of every generation ever created and any number   *)
(* of SendRequest calls run concurrently.  The application is assumed to   *)
(* read the message channel of a generation (deliver can then proceed).    *)
(***************************************************************************)
EXTENDS Naturals, FiniteSets

CONSTANTS Gens,          \* numbers of the attempts and of the generations they become
          Calls,         \* SendRequest calls; a call is also its request id
          None,          \* no attempt, no generation, no writer
          InflightLimit  \* clientInflightLimit

ASSUME ClientAssumption ==
  /\ Gens \subseteq Nat /\ IsFiniteSet(Gens) /\ IsFiniteSet(Calls) /\ None \notin Gens \cup Calls
  /\ InflightLimit \in Nat \ {0}

VARIABLES
  state,      \* Client.state
  attempt,    \* Client.attempt
  current,    \* Client.current
  stage,      \* how far connectToContext is for an attempt
  open,       \* the attempt's or generation's connection is open
  cancelled,  \* attempts whose context is done
  waiting,    \* attempts a Disconnect call waits for
  closing,    \* how far closeOnce of a generation is
  notified,   \* how often onDisconnected was called for a generation
  pending,    \* gen.pending
  sent,       \* calls whose pending entry has a sentAt
  slots,      \* gen.slots: tokens in the channel
  writer,     \* the holder of gen.writeMu
  pc,         \* where a SendRequest call is
  gen,        \* the generation a call took
  arriving,   \* responses on the wire or in packetChan
  answered,   \* calls the server has answered
  handing,    \* the response handlePackets is delivering
  reaping,    \* expired requests reapPending has still to deliver
  outcomes    \* how often a message for a call was delivered

linkVars == <<state, attempt, current, stage, open, cancelled, waiting, closing, notified>>
requestVars == <<pending, sent, slots, writer, pc, gen>>
replyVars == <<arriving, answered, handing, reaping, outcomes>>
vars == <<linkVars, requestVars, replyVars>>

Init ==
  /\ state = "idle" /\ attempt = None /\ current = None
  /\ stage = [g \in Gens |-> "none"] /\ open = [g \in Gens |-> FALSE]
  /\ cancelled = {} /\ waiting = {}
  /\ closing = [g \in Gens |-> "no"] /\ notified = [g \in Gens |-> 0]
  /\ pending = [g \in Gens |-> {}] /\ sent = {} /\ slots = [g \in Gens |-> 0]
  /\ writer = [g \in Gens |-> None]
  /\ pc = [c \in Calls |-> "idle"] /\ gen = [c \in Calls |-> None]
  /\ arriving = {} /\ answered = {}
  /\ handing = [g \in Gens |-> None] /\ reaping = [g \in Gens |-> {}]
  /\ outcomes = [c \in Calls |-> 0]
-----------------------------------------------------------------------------
(* Connecting.                                                             *)

ConnectTo(g) ==
  /\ stage[g] = "none" /\ \A h \in Gens : h < g => stage[h] # "none"
  /\ state = "idle"
  /\ stage' = [stage EXCEPT ![g] = "dial"]
  /\ state' = "connecting" /\ attempt' = g
  /\ UNCHANGED <<current, open, cancelled, waiting, closing, notified, requestVars, replyVars>>

(* The attempt's context ends by its timeout; AfterFunc then closes the    *)
(* connection of an attempt that is past dialling.                         *)
Timeout(g) ==
  /\ stage[g] \in {"dial", "shake", "publish"} /\ g \notin cancelled
  /\ cancelled' = cancelled \cup {g}
  /\ open' = [open EXCEPT ![g] = @ /\ stage[g] = "publish"]
  /\ UNCHANGED <<state, attempt, current, stage, waiting, closing, notified, requestVars, replyVars>>

Dialled(g) ==
  /\ stage[g] = "dial" /\ attempt = g /\ state = "connecting"
  /\ stage' = [stage EXCEPT ![g] = "shake"]
  /\ open' = [open EXCEPT ![g] = g \notin cancelled]
  /\ UNCHANGED <<state, attempt, current, cancelled, waiting, closing, notified, requestVars, replyVars>>

Shaken(g) ==
  /\ stage[g] = "shake" /\ open[g]
  /\ stage' = [stage EXCEPT ![g] = "publish"]
  /\ UNCHANGED <<state, attempt, current, open, cancelled, waiting, closing, notified, requestVars, replyVars>>

FailEarly(g) ==
  /\ stage[g] \in {"dial", "shake"}
  /\ stage' = [stage EXCEPT ![g] = "gone"]
  /\ open' = [open EXCEPT ![g] = FALSE]
  /\ attempt' = None /\ state' = "idle"
  /\ UNCHANGED <<current, cancelled, waiting, closing, notified, requestVars, replyVars>>

(* failConnectAttempt: dialling or the handshake failed, or the context    *)
(* ended before the generation was published.                              *)
Fail(g) ==
  /\ \/ stage[g] \in {"dial", "shake"}
     \/ stage[g] = "publish" /\ (g \in cancelled \/ attempt # g \/ state # "connecting")
  /\ stage' = [stage EXCEPT ![g] = "gone"]
  /\ open' = [open EXCEPT ![g] = FALSE]
  /\ IF attempt = g THEN attempt' = None /\ state' = "idle"
     ELSE UNCHANGED <<attempt, state>>
  /\ UNCHANGED <<current, cancelled, waiting, closing, notified, requestVars, replyVars>>

PublishAnyway(g) ==
  /\ stage[g] = "publish" /\ attempt = g /\ state = "connecting"
  /\ stage' = [stage EXCEPT ![g] = "live"]
  /\ current' = g /\ state' = "connected" /\ attempt' = None
  /\ UNCHANGED <<open, cancelled, waiting, closing, notified, requestVars, replyVars>>

Publish(g) ==
  /\ stage[g] = "publish" /\ g \notin cancelled
  /\ attempt = g /\ state = "connecting"
  /\ stage' = [stage EXCEPT ![g] = "live"]
  /\ current' = g /\ state' = "connected" /\ attempt' = None
  /\ UNCHANGED <<open, cancelled, waiting, closing, notified, requestVars, replyVars>>
-----------------------------------------------------------------------------
(* Disconnecting.                                                          *)

(* Disconnect while connecting: the context is cancelled, the connection   *)
(* closed, and the call waits until the attempt is over.                   *)
CancelAttempt(g) ==
  /\ state = "connecting" /\ attempt = g
  /\ cancelled' = cancelled \cup {g}
  /\ open' = [open EXCEPT ![g] = FALSE]
  /\ waiting' = waiting \cup {g}
  /\ UNCHANGED <<state, attempt, current, stage, closing, notified, requestVars, replyVars>>

DisconnectReturns(g) ==
  /\ g \in waiting /\ stage[g] \in {"live", "gone"}
  /\ waiting' = waiting \ {g}
  /\ UNCHANGED <<state, attempt, current, stage, open, cancelled, closing, notified, requestVars, replyVars>>

(* disconnectGeneration starts: Disconnect of the current generation, or a *)
(* loop of g that failed to read, timed out, got a kick or cannot decode.  *)
(* The pending requests are dropped with their slots.                      *)
CloseBeginKeepsSlots(g) ==
  /\ stage[g] = "live" /\ closing[g] = "no"
  /\ closing' = [closing EXCEPT ![g] = "drained"]
  /\ pending' = [pending EXCEPT ![g] = {}]
  /\ UNCHANGED <<state, attempt, current, stage, open, cancelled, waiting, notified,
                 sent, slots, writer, pc, gen, replyVars>>

CloseBegin(g) ==
  /\ stage[g] = "live" /\ closing[g] = "no"
  /\ closing' = [closing EXCEPT ![g] = "drained"]
  /\ pending' = [pending EXCEPT ![g] = {}]
  /\ slots' = [slots EXCEPT ![g] = @ - Cardinality(pending[g])]
  /\ UNCHANGED <<state, attempt, current, stage, open, cancelled, waiting, notified,
                 sent, writer, pc, gen, replyVars>>

(* closeCh and the connection are closed.                                  *)
CloseShut(g) ==
  /\ closing[g] = "drained"
  /\ closing' = [closing EXCEPT ![g] = "shut"]
  /\ open' = [open EXCEPT ![g] = FALSE]
  /\ UNCHANGED <<state, attempt, current, stage, cancelled, waiting, notified, requestVars, replyVars>>

(* The generation is unpublished if it is still the current one, and then  *)
(* the application is told.                                                *)
CloseUnpublish(g) ==
  /\ closing[g] = "shut"
  /\ closing' = [closing EXCEPT ![g] = "done"]
  /\ IF current = g
     THEN /\ current' = None /\ state' = "idle"
          /\ notified' = [notified EXCEPT ![g] = @ + 1]
     ELSE UNCHANGED <<current, state, notified>>
  /\ UNCHANGED <<attempt, stage, open, cancelled, waiting, requestVars, replyVars>>
-----------------------------------------------------------------------------
(* SendRequest.                                                            *)

Shut(g) == closing[g] \in {"shut", "done"}
Holding(g) == {c \in Calls : gen[c] = g /\ pc[c] = "register"}
Goto(c, l) == pc' = [pc EXCEPT ![c] = l]

SendRequest(c) ==
  /\ pc[c] = "idle" /\ current # None
  /\ gen' = [gen EXCEPT ![c] = current]
  /\ Goto(c, "slot")
  /\ UNCHANGED <<linkVars, pending, sent, slots, writer, replyVars>>

(* registerPending: a slot is taken, or the closed generation noticed.     *)
TakeSlot(c) ==
  LET g == gen[c]
  IN  /\ pc[c] = "slot"
      /\ slots[g] < InflightLimit
      /\ slots' = [slots EXCEPT ![g] = @ + 1]
      /\ Goto(c, "register")
      /\ UNCHANGED <<linkVars, pending, sent, writer, gen, replyVars>>

NoSlot(c) ==
  /\ pc[c] = "slot" /\ Shut(gen[c])
  /\ Goto(c, "failed")
  /\ UNCHANGED <<linkVars, pending, sent, slots, writer, gen, replyVars>>

RegisterOnClosed(c) ==
  LET g == gen[c]
  IN  /\ pc[c] = "register"
      /\ pending' = [pending EXCEPT ![g] = @ \cup {c}]
      /\ Goto(c, "write") /\ UNCHANGED slots
      /\ UNCHANGED <<linkVars, sent, writer, gen, replyVars>>

(* The entry is made under pendingMu, unless the generation was closed     *)
(* since the slot was taken.                                               *)
Register(c) ==
  LET g == gen[c]
  IN  /\ pc[c] = "register"
      /\ IF closing[g] # "no"
         THEN /\ slots' = [slots EXCEPT ![g] = @ - 1]
              /\ Goto(c, "failed") /\ UNCHANGED pending
         ELSE /\ pending' = [pending EXCEPT ![g] = @ \cup {c}]
              /\ Goto(c, "write") /\ UNCHANGED slots
      /\ UNCHANGED <<linkVars, sent, writer, gen, replyVars>>

WriteBeginUntimed(c) ==
  LET g == gen[c]
  IN  /\ pc[c] = "write" /\ writer[g] = None
      /\ IF Shut(g) THEN Goto(c, "take") /\ UNCHANGED writer
         ELSE writer' = [writer EXCEPT ![g] = c] /\ Goto(c, "writing")
      /\ UNCHANGED <<linkVars, pending, sent, slots, gen, replyVars>>

(* Under writeMu: the timeout of a request that is still pending starts,   *)
(* then the packet is written.                                             *)
WriteBegin(c) ==
  LET g == gen[c]
  IN  /\ pc[c] = "write" /\ writer[g] = None
      /\ IF Shut(g) THEN Goto(c, "take") /\ UNCHANGED <<writer, sent>>
         ELSE /\ writer' = [writer EXCEPT ![g] = c]
              /\ sent' = IF c \in pending[g] THEN sent \cup {c} ELSE sent
              /\ Goto(c, "writing")
      /\ UNCHANGED <<linkVars, pending, slots, gen, replyVars>>

WriteEnds(c) ==
  /\ pc[c] = "writing"
  /\ writer' = [writer EXCEPT ![gen[c]] = None]
  /\ \/ open[gen[c]] /\ Goto(c, "sent")
     \/ Goto(c, "take")
  /\ UNCHANGED <<linkVars, pending, sent, slots, gen, replyVars>>

(* takePending(id): an entry and its slot go together.                     *)
TakeAlways(g, c) ==
  /\ pending' = [pending EXCEPT ![g] = @ \ {c}]
  /\ slots' = [slots EXCEPT ![g] = @ - 1]

Take(g, c) ==
  IF c \in pending[g]
  THEN /\ pending' = [pending EXCEPT ![g] = @ \ {c}]
       /\ slots' = [slots EXCEPT ![g] = @ - 1]
  ELSE UNCHANGED <<pending, slots>>

(* The write failed: the request is withdrawn and the call fails.          *)
Withdraw(c) ==
  /\ pc[c] = "take"
  /\ Take(gen[c], c)
  /\ Goto(c, "failed")
  /\ UNCHANGED <<linkVars, sent, writer, gen, replyVars>>
-----------------------------------------------------------------------------
(* Responses and timeouts.                                                 *)

(* The server answers a request that has reached it.                       *)
ServerAnswers(c) ==
  /\ pc[c] \in {"writing", "sent"} /\ c \notin answered /\ open[gen[c]]
  /\ answered' = answered \cup {c} /\ arriving' = arriving \cup {c}
  /\ UNCHANGED <<linkVars, requestVars, handing, reaping, outcomes>>

(* handlePackets: a response without a pending request is dropped.         *)
HandleResponse(c) ==
  LET g == gen[c]
  IN  /\ c \in arriving /\ handing[g] = None /\ stage[g] = "live"
      /\ arriving' = arriving \ {c}
      /\ Take(g, c)
      /\ handing' = IF c \in pending[g] THEN [handing EXCEPT ![g] = c] ELSE handing
      /\ UNCHANGED <<linkVars, sent, writer, pc, gen, answered, reaping, outcomes>>

(* deliver: into the channel, or not at all once closeCh is closed.        *)
Deliver(g) ==
  /\ handing[g] # None
  /\ handing' = [handing EXCEPT ![g] = None]
  /\ outcomes' = [outcomes EXCEPT ![handing[g]] = @ + 1]
  /\ UNCHANGED <<linkVars, requestVars, arriving, answered, reaping>>

(* The loops of a closed generation leave without delivering.              *)
LoopsLeave(g) ==
  /\ Shut(g) /\ (handing[g] # None \/ reaping[g] # {})
  /\ handing' = [handing EXCEPT ![g] = None]
  /\ reaping' = [reaping EXCEPT ![g] = {}]
  /\ UNCHANGED <<linkVars, requestVars, arriving, answered, outcomes>>

(* takeExpiredPending: any of the sent requests may have expired.          *)
Reapable(g) == pending[g] \cap sent

Reap(g) ==
  /\ stage[g] = "live" /\ ~Shut(g) /\ reaping[g] = {}
  /\ \E E \in SUBSET Reapable(g) :
       /\ E # {}
       /\ pending' = [pending EXCEPT ![g] = @ \ E]
       /\ slots' = [slots EXCEPT ![g] = @ - Cardinality(E)]
       /\ reaping' = [reaping EXCEPT ![g] = E]
  /\ UNCHANGED <<linkVars, sent, writer, pc, gen, arriving, answered, handing, outcomes>>

DeliverTimeout(g) ==
  /\ \E c \in reaping[g] :
       /\ reaping' = [reaping EXCEPT ![g] = @ \ {c}]
       /\ outcomes' = [outcomes EXCEPT ![c] = @ + 1]
  /\ UNCHANGED <<linkVars, requestVars, arriving, answered, handing>>
-----------------------------------------------------------------------------
Connecting(g) == Dialled(g) \/ Shaken(g) \/ Fail(g) \/ Publish(g)
Disconnecting(g) == CloseShut(g) \/ CloseUnpublish(g)
Sending(c) ==
  TakeSlot(c) \/ NoSlot(c) \/ Register(c) \/ WriteBegin(c) \/ WriteEnds(c) \/ Withdraw(c)
Delivering(g) == Deliver(g) \/ DeliverTimeout(g) \/ LoopsLeave(g)

Next ==
  \/ \E g \in Gens :
       \/ ConnectTo(g) \/ Timeout(g) \/ Connecting(g)
       \/ CancelAttempt(g) \/ DisconnectReturns(g) \/ CloseBegin(g) \/ Disconnecting(g)
       \/ Reap(g) \/ Delivering(g)
  \/ \E c \in Calls :
       SendRequest(c) \/ Sending(c) \/ ServerAnswers(c) \/ HandleResponse(c)

Spec == Init /\ [][Next]_vars

(* Every goroutine of the client runs, an attempt ends at the latest by    *)
(* its timeout, a write by its deadline, the reaper's ticker fires, and    *)
(* the application reads the channel.  The server need not answer.         *)
Fairness ==
  /\ \A g \in Gens :
       /\ WF_vars(Connecting(g)) /\ WF_vars(DisconnectReturns(g))
       /\ WF_vars(Disconnecting(g)) /\ WF_vars(Delivering(g))
       /\ WF_vars(Reap(g))
  /\ \A c \in Calls : SF_vars(TakeSlot(c)) /\ SF_vars(WriteBegin(c))
                      /\ WF_vars(Sending(c))

FairSpec == Spec /\ Fairness
-----------------------------------------------------------------------------
(* Every variable keeps its type.                                          *)
TypeOK ==
  /\ state \in {"idle", "connecting", "connected"}
  /\ attempt \in Gens \cup {None} /\ current \in Gens \cup {None}
  /\ stage \in [Gens -> {"none", "dial", "shake", "publish", "live", "gone"}]
  /\ open \in [Gens -> BOOLEAN]
  /\ cancelled \subseteq Gens /\ waiting \subseteq Gens
  /\ closing \in [Gens -> {"no", "drained", "shut", "done"}]
  /\ notified \in [Gens -> Nat]
  /\ pending \in [Gens -> SUBSET Calls] /\ sent \subseteq Calls
  /\ slots \in [Gens -> Nat] /\ writer \in [Gens -> Calls \cup {None}]
  /\ pc \in [Calls -> {"idle", "slot", "register", "write", "writing", "take", "sent", "failed"}]
  /\ gen \in [Calls -> Gens \cup {None}]
  /\ arriving \subseteq Calls /\ answered \subseteq Calls
  /\ handing \in [Gens -> Calls \cup {None}] /\ reaping \in [Gens -> SUBSET Calls]
  /\ outcomes \in [Calls -> Nat]

(* The slot channel of a generation holds one token per pending request    *)
(* and one per call between taking a slot and registering, so the receive  *)
(* from it under pendingMu (takePending, takeExpiredPending, the drain of  *)
(* disconnectGeneration) never blocks, and a slot is never lost.           *)
SlotsMatch ==
  \A g \in Gens :
    /\ slots[g] = Cardinality(pending[g]) + Cardinality(Holding(g))
    /\ slots[g] <= InflightLimit

(* A request is answered by at most one message, the response or the       *)
(* timeout, whichever takes the pending entry first; a call that returned  *)
(* an error leaves nothing behind, and neither does a closed generation.   *)
OneOutcome ==
  /\ \A c \in Calls : LET g == gen[c] IN
       /\ outcomes[c] <= 1
       /\ g # None /\ (c \in pending[g] \/ c = handing[g] \/ c \in reaping[g]) => outcomes[c] = 0
       /\ pc[c] = "failed" => c \notin pending[g]
  /\ \A g \in Gens : closing[g] # "no" => pending[g] = {}

(* The client's state belongs to one attempt or one generation, and an     *)
(* open connection is always the attempt's or the current generation's: an *)
(* old generation that is closed late, or an attempt that was cancelled,   *)
(* neither replaces the newer connection nor stays open behind it.  An     *)
(* attempt that Disconnect has cancelled never goes live, and the          *)
(* application is told of the end of a generation exactly once.            *)
OneConnection ==
  /\ state = "connecting" <=> attempt # None
  /\ state = "connected" <=> current # None
  /\ \A g \in Gens :
       /\ open[g] => g \in {attempt, current}
       /\ stage[g] = "live" /\ closing[g] # "done" => current = g
       /\ notified[g] = IF closing[g] = "done" THEN 1 ELSE 0
       /\ g \in waiting => stage[g] # "live"

(* Disconnect returns, also when it races the end of the handshake.        *)
DisconnectEnds == \A g \in Gens : g \in waiting ~> g \notin waiting

(* Every call returns, and a request that was sent gets its message or     *)
(* loses its generation: a silent server, lost responses and full slots do *)
(* not leave a caller waiting for ever.                                    *)
CallsEnd ==
  \A c \in Calls :
    pc[c] # "idle" ~> pc[c] = "failed" \/ outcomes[c] = 1
                        \/ (gen[c] # None /\ Shut(gen[c]) /\ pc[c] = "sent")

(* No caller of the client waits for ever: both of the above.              *)
CallersReturn == DisconnectEnds /\ CallsEnd

=============================================================================
