----------------------------- MODULE Frontend -----------------------------
(***************************************************************************)
(* The connections of one frontend server: the session pool                *)
(* (session/session.go), the agent of each connection (agent/agent.go) and *)
(* the goroutine that reads its packets (service/handler.go).  A session   *)
(* is closed from three places that do not exclude each other: the reader  *)
(* when it ends, Bind when the user is already bound on this server, and   *)
(* CloseAll at shutdown.  Agents are closed by those, by their own         *)
(* goroutines, by a kick and by a refused handshake.                       *)
(***************************************************************************)
EXTENDS Integers, FiniteSets

CONSTANTS Sessions,     \* session ids, given out once each
          Users,        \* user ids
          None,         \* no user, no session
          MaxPackets,   \* bound: packets in one received message
          MaxRequests   \* bound: requests a session has served by handlers

Start == 0
Handshaked == 1
Working == 2
Closed == 3

(* Who calls Session.Close: the reader of a session, a handler of a        *)
(* session that is inside Bind, and CloseAll.                              *)
Callers == ({"reader", "bind"} \X Sessions) \cup {<<"all", None>>}
CloseSteps == {"idle", "count", "uid", "id", "entity"}
NoClose == [of |-> None, at |-> "idle"]
NoTask == [at |-> "idle", user |-> None]

ASSUME FrontendAssumption ==
  /\ IsFiniteSet(Sessions) /\ None \notin Sessions /\ None \notin Users
  /\ MaxPackets \in Nat /\ MaxRequests \in Nat

VARIABLES
  reader,       \* the goroutine of HandlerService.Handle
  hand,         \* packets of the message the reader is processing
  status,       \* agent.state
  dead,         \* agent.chDie is closed
  conn,         \* the connection is open on this side
  told,         \* how often the close callbacks were run
  uid,          \* session.uid
  task,         \* the request a handler of the session is working on
  served,       \* requests handed to handlers
  inflight,     \* sessions with a request in flight
  byID,         \* sessionsByID
  byUID,        \* sessionsByUID
  sessionCount, \* SessionCount
  userCount,    \* UserCount
  closes,       \* the Close call each caller is inside of
  all           \* where CloseAll is and what its Range has still to visit

agentVars == <<status, dead, conn, told>>
indexVars == <<byID, byUID, sessionCount, userCount>>
vars == <<reader, hand, agentVars, uid, task, served, inflight,
          indexVars, closes, all>>

Init ==
  /\ reader = [s \in Sessions |-> "none"] /\ hand = [s \in Sessions |-> 0]
  /\ status = [s \in Sessions |-> Start]
  /\ dead = [s \in Sessions |-> FALSE] /\ conn = [s \in Sessions |-> FALSE]
  /\ told = [s \in Sessions |-> 0] /\ uid = [s \in Sessions |-> None]
  /\ task = [s \in Sessions |-> NoTask] /\ served = [s \in Sessions |-> 0]
  /\ inflight = {} /\ byID = {} /\ byUID = [u \in Users |-> None]
  /\ sessionCount = 0 /\ userCount = 0
  /\ closes = [c \in Callers |-> NoClose]
  /\ all = [at |-> "off", left |-> {}]
-----------------------------------------------------------------------------
(* The agent.                                                              *)

(* agent.Close, one critical section of closeMutex.  A closed status ends  *)
(* it at once; chDie tells whether the callbacks have run, because a late  *)
(* packet may have set the status back.                                    *)
AgentCloseByStatus(s) ==
  IF status[s] = Closed THEN UNCHANGED agentVars
  ELSE /\ status' = [status EXCEPT ![s] = Closed]
       /\ told' = [told EXCEPT ![s] = @ + 1]
       /\ dead' = [dead EXCEPT ![s] = TRUE]
       /\ conn' = [conn EXCEPT ![s] = FALSE]

AgentClose(s) ==
  IF status[s] = Closed THEN UNCHANGED agentVars
  ELSE /\ status' = [status EXCEPT ![s] = Closed]
       /\ told' = IF dead[s] THEN told
                  ELSE [told EXCEPT ![s] = @ + 1]
       /\ dead' = [dead EXCEPT ![s] = TRUE]
       /\ conn' = [conn EXCEPT ![s] = FALSE]

(* A goroutine of the agent ends, and its deferred call closes the agent:  *)
(* the heartbeat of a silent client times out, a write fails, or chDie is  *)
(* closed.  Which of the three goroutines it is makes no difference.       *)
GoroutineEnds(s) ==
  /\ reader[s] # "none"
  /\ AgentClose(s)
  /\ UNCHANGED <<reader, hand, uid, task, served, inflight, indexVars, closes, all>>

(* Session.Kick: the kick packet is written, then the agent is closed; the *)
(* session itself is left to the reader.  A failed write changes nothing.  *)
Kick(s) ==
  /\ conn[s]
  /\ AgentClose(s)
  /\ UNCHANGED <<reader, hand, uid, task, served, inflight,
                 indexVars, closes, all>>
-----------------------------------------------------------------------------
(* The reader.                                                             *)

(* A client connects: newAgent, NewSession and the agent's goroutines.     *)
Connect(s) ==
  /\ reader[s] = "none"
  /\ reader' = [reader EXCEPT ![s] = "read"]
  /\ conn' = [conn EXCEPT ![s] = TRUE]
  /\ byID' = byID \cup {s}
  /\ sessionCount' = sessionCount + 1
  /\ UNCHANGED <<hand, status, dead, told, uid, task, served, inflight,
                 byUID, userCount, closes, all>>

(* The reader of s returns, and its deferred call closes the session.      *)
Return(s) ==
  /\ reader' = [reader EXCEPT ![s] = "closing"]
  /\ hand' = [hand EXCEPT ![s] = 0]
  /\ closes' = [closes EXCEPT ![<<"reader", s>>] = [of |-> s, at |-> "count"]]

Received(s) ==
  /\ reader[s] = "read" /\ hand[s] = 0 /\ conn[s]
  /\ \E n \in 1..MaxPackets : hand' = [hand EXCEPT ![s] = n]
  /\ UNCHANGED <<reader, agentVars, uid, task, served, inflight,
                 indexVars, closes, all>>

ReadFailsContinue(s) ==
  /\ reader[s] = "read" /\ hand[s] = 0
  /\ UNCHANGED vars

(* The connection is closed by either side, or the message cannot be       *)
(* decoded into packets.                                                   *)
ReadFails(s) ==
  /\ reader[s] = "read" /\ hand[s] = 0
  /\ Return(s)
  /\ UNCHANGED <<agentVars, uid, task, served, inflight,
                 indexVars, all>>

Packet(s) == reader[s] = "read" /\ hand[s] > 0
Consume(s) == hand' = [hand EXCEPT ![s] = @ - 1] /\ UNCHANGED <<reader, closes>>

(* A handshake that decodes and validates is answered, unless the write    *)
(* fails.                                                                  *)
Handshake(s) ==
  /\ Packet(s)
  /\ conn[s]
  /\ Consume(s)
  /\ status' = [status EXCEPT ![s] = Handshaked]
  /\ UNCHANGED <<dead, conn, told, uid, task, served, inflight,
                 indexVars, all>>

(* A handshake that is refused closes the agent and ends the reader.       *)
HandshakeRefused(s) ==
  /\ Packet(s)
  /\ AgentClose(s)
  /\ Return(s)
  /\ UNCHANGED <<uid, task, served, inflight, indexVars, all>>

HandshakeAck(s) ==
  /\ Packet(s)
  /\ Consume(s)
  /\ status' = [status EXCEPT ![s] = Working]
  /\ UNCHANGED <<dead, conn, told, uid, task, served, inflight,
                 indexVars, all>>

(* A packet ends the reader: data before the acknowledgement, a message    *)
(* that does not decode, or an answer that cannot be written.              *)
PacketFails(s) ==
  /\ Packet(s)
  /\ Return(s)
  /\ UNCHANGED <<agentVars, uid, task, served, inflight,
                 indexVars, all>>

(* Heartbeats and requests that leave the session alone.                   *)
PlainPacket(s) ==
  /\ Packet(s)
  /\ Consume(s)
  /\ UNCHANGED <<agentVars, uid, task, served, inflight,
                 indexVars, all>>

(* A data packet whose request is handed to the session's goroutine.       *)
Dispatch(s) ==
  /\ Packet(s) /\ status[s] >= Working
  /\ served[s] < MaxRequests /\ task[s] = NoTask
  /\ Consume(s)
  /\ served' = [served EXCEPT ![s] = @ + 1]

(* The request goes to another server: it is in flight until the answer.   *)
Forward(s) ==
  /\ Dispatch(s)
  /\ task' = [task EXCEPT ![s] = [at |-> "remote", user |-> None]]
  /\ inflight' = inflight \cup {s}
  /\ UNCHANGED <<agentVars, uid, indexVars, all>>

Answered(s) ==
  /\ task[s].at = "remote"
  /\ task' = [task EXCEPT ![s] = NoTask]
  /\ inflight' = inflight \ {s}
  /\ UNCHANGED <<reader, hand, agentVars, uid, served, indexVars,
                 closes, all>>
-----------------------------------------------------------------------------
(* Session.Bind on a frontend.                                             *)

(* The handler calls Bind: refused when bound to another user, otherwise   *)
(* the uid is set before the callbacks run.                                *)
BindBegin(s, u) ==
  /\ Dispatch(s)
  /\ uid[s] \in {None, u}
  /\ uid' = [uid EXCEPT ![s] = u]
  /\ task' = [task EXCEPT ![s] = [at |-> "callbacks", user |-> u]]
  /\ UNCHANGED <<agentVars, inflight, indexVars, all>>

(* A bind callback fails: the uid is taken back.                           *)
BindRefused(s) ==
  /\ task[s].at = "callbacks"
  /\ uid' = [uid EXCEPT ![s] = None]
  /\ task' = [task EXCEPT ![s] = NoTask]
  /\ UNCHANGED <<reader, hand, agentVars, served, inflight,
                 indexVars, closes, all>>

BindLoadEarly(s) ==
  LET old == byUID[task[s].user]
  IN  /\ task[s].at = "callbacks"
      /\ task' = [task EXCEPT ![s].at = "store"]
      /\ closes' = IF old = None THEN closes
                   ELSE [closes EXCEPT ![<<"bind", s>>] = [of |-> old, at |-> "count"]]
      /\ UNCHANGED <<reader, hand, agentVars, uid, served, inflight, indexVars, all>>

(* The callbacks passed: a session that holds the user is closed first.    *)
BindLoad(s) ==
  LET old == byUID[task[s].user]
  IN  /\ task[s].at = "callbacks"
      /\ task' = [task EXCEPT ![s].at = IF old = None THEN "store" ELSE "close"]
      /\ closes' = IF old = None THEN closes
                   ELSE [closes EXCEPT ![<<"bind", s>>] = [of |-> old, at |-> "count"]]
      /\ UNCHANGED <<reader, hand, agentVars, uid, served,
                     inflight, indexVars, all>>

BindStore(s) ==
  /\ task[s].at = "store"
  /\ byUID' = [byUID EXCEPT ![task[s].user] = s]
  /\ userCount' = userCount + 1
  /\ task' = [task EXCEPT ![s] = NoTask]
  /\ UNCHANGED <<reader, hand, agentVars, uid, served, inflight,
                 byID, sessionCount, closes, all>>
-----------------------------------------------------------------------------
(* Session.Close, one step per shared structure it changes.                *)

At(c, step) == closes[c].at = step
Advance(c, step) == closes' = [closes EXCEPT ![c].at = step]

CloseCountBound(c) ==
  /\ At(c, "count")
  /\ sessionCount' = IF uid[closes[c].of] = None THEN sessionCount ELSE sessionCount - 1
  /\ Advance(c, "uid")
  /\ UNCHANGED <<reader, hand, agentVars, uid, task, served, inflight, byID,
                 byUID, userCount, all>>

CloseCount(c) ==
  /\ At(c, "count")
  /\ sessionCount' = sessionCount - 1
  /\ Advance(c, "uid")
  /\ UNCHANGED <<reader, hand, agentVars, uid, task, served,
                 inflight, byID, byUID, userCount, all>>

(* The user's entry is deleted, whichever session it holds.                *)
CloseUID(c) ==
  LET u == uid[closes[c].of]
  IN  /\ At(c, "uid")
      /\ IF u = None THEN UNCHANGED <<byUID, userCount>>
         ELSE /\ byUID' = [byUID EXCEPT ![u] = None]
              /\ userCount' = userCount - 1
      /\ Advance(c, "id")
      /\ UNCHANGED <<reader, hand, agentVars, uid, task, served,
                     inflight, byID, sessionCount, all>>

(* The session's own entries: by id, and by user if it is still there.     *)
CloseID(c) ==
  LET s == closes[c].of
  IN  /\ At(c, "id")
      /\ byID' = byID \ {s}
      /\ byUID' = [u \in Users |-> IF u = uid[s] /\ byUID[u] = s THEN None
                                   ELSE byUID[u]]
      /\ Advance(c, "entity")
      /\ UNCHANGED <<reader, hand, agentVars, uid, task, served,
                     inflight, sessionCount, userCount, all>>

(* The agent is closed and Close returns to its caller.                    *)
CloseEntity(c) ==
  /\ At(c, "entity")
  /\ AgentClose(closes[c].of)
  /\ closes' = [closes EXCEPT ![c] = NoClose]
  /\ reader' = IF c[1] = "reader" THEN [reader EXCEPT ![c[2]] = "done"] ELSE reader
  /\ task' = IF c[1] = "bind" THEN [task EXCEPT ![c[2]].at = "store"] ELSE task
  /\ all' = IF c[1] = "all" THEN [all EXCEPT !.at = "range"] ELSE all
  /\ UNCHANGED <<hand, uid, served, inflight, indexVars>>
-----------------------------------------------------------------------------
(* SessionPool.CloseAll.                                                   *)

CloseAllAtZero ==
  /\ all.at \in {"off", "sleep"}
  /\ all' = IF sessionCount >= 0 THEN [at |-> "range", left |-> byID]
            ELSE [at |-> "done", left |-> {}]
  /\ UNCHANGED <<reader, hand, agentVars, uid, task, served, inflight,
                 indexVars, closes>>

CloseAll ==
  /\ all.at \in {"off", "sleep"}
  /\ all' = IF sessionCount > 0 THEN [at |-> "range", left |-> byID]
            ELSE [at |-> "done", left |-> {}]
  /\ UNCHANGED <<reader, hand, agentVars, uid, task, served,
                 inflight, indexVars, closes>>

(* Range comes to a session: one with a request in flight ends the round,  *)
(* any other is closed.                                                    *)
RangeVisit(s) ==
  /\ all.at = "range" /\ s \in all.left
  /\ IF s \in inflight
     THEN all' = [at |-> "sleep", left |-> {}] /\ UNCHANGED closes
     ELSE /\ all' = [at |-> "close", left |-> all.left \ {s}]
          /\ closes' = [closes EXCEPT ![<<"all", None>>] = [of |-> s, at |-> "count"]]
  /\ UNCHANGED <<reader, hand, agentVars, uid, task, served,
                 inflight, indexVars>>

RangeEnds ==
  /\ all.at = "range" /\ all.left = {}
  /\ all' = [at |-> "sleep", left |-> {}]
  /\ UNCHANGED <<reader, hand, agentVars, uid, task, served,
                 inflight, indexVars, closes>>
-----------------------------------------------------------------------------
Peer(s) ==
  \/ Connect(s) \/ Received(s) \/ Kick(s)
  \/ Handshake(s) \/ HandshakeRefused(s) \/ HandshakeAck(s)
  \/ PacketFails(s) \/ PlainPacket(s) \/ Forward(s)
  \/ \E u \in Users : BindBegin(s, u)

Handler(s) == Answered(s) \/ BindRefused(s) \/ BindLoad(s) \/ BindStore(s)

Closing(c) == CloseCount(c) \/ CloseUID(c) \/ CloseID(c) \/ CloseEntity(c)

Sweep == CloseAll \/ RangeEnds \/ \E s \in Sessions : RangeVisit(s)

Next ==
  \/ \E s \in Sessions :
       Peer(s) \/ ReadFails(s) \/ Handler(s) \/ GoroutineEnds(s)
  \/ \E c \in Callers : Closing(c)
  \/ Sweep

Spec == Init /\ [][Next]_vars

(* Goroutines run: a read on a closed connection returns, packets in hand  *)
(* are processed, handlers and Close calls finish, the answer of a request *)
(* arrives (the RPC layer bounds it by a timeout), and CloseAll keeps      *)
(* going once started.                                                     *)
Process(s) == PlainPacket(s) \/ PacketFails(s) \/ HandshakeAck(s) \/ Handshake(s)

Fairness ==
  /\ \A s \in Sessions :
       /\ WF_vars(~conn[s] /\ ReadFails(s)) /\ WF_vars(Process(s))
       /\ WF_vars(Handler(s))
  /\ \A c \in Callers : WF_vars(Closing(c))
  /\ WF_vars(all.at # "off" /\ Sweep)

FairSpec == Spec /\ Fairness
-----------------------------------------------------------------------------
CloseCall == [of : Sessions, at : CloseSteps \ {"idle"}] \cup {NoClose}
Task == [at : {"remote"}, user : {None}] \cup {NoTask}
          \cup [at : {"callbacks", "close", "store"}, user : Users]

(* Every variable keeps its type; a caller is inside Close exactly while   *)
(* the code that called it waits for it.                                   *)
TypeOK ==
  /\ reader \in [Sessions -> {"none", "read", "closing", "done"}]
  /\ hand \in [Sessions -> 0..MaxPackets]
  /\ status \in [Sessions -> {Start, Handshaked, Working, Closed}]
  /\ dead \in [Sessions -> BOOLEAN] /\ conn \in [Sessions -> BOOLEAN]
  /\ told \in [Sessions -> Nat]
  /\ uid \in [Sessions -> Users \cup {None}]
  /\ task \in [Sessions -> Task] /\ served \in [Sessions -> 0..MaxRequests]
  /\ inflight \subseteq Sessions /\ byID \subseteq Sessions
  /\ byUID \in [Users -> Sessions \cup {None}]
  /\ sessionCount \in Int /\ userCount \in Int
  /\ closes \in [Callers -> CloseCall]
  /\ all \in [at : {"off", "range", "close", "sleep", "done"}, left : SUBSET Sessions]
  /\ \A s \in Sessions :
       /\ (closes[<<"reader", s>>] # NoClose) <=> (reader[s] = "closing")
       /\ (closes[<<"bind", s>>] # NoClose) <=> (task[s].at = "close")
  /\ (closes[<<"all", None>>] # NoClose) <=> (all.at = "close")

(* The close callbacks of a session run once, however many goroutines      *)
(* close its agent and whatever a late packet does to the status; when the *)
(* reader has ended they have run and the connection and status are        *)
(* closed.                                                                 *)
ClosedOnce ==
  \A s \in Sessions :
    /\ told[s] = IF dead[s] THEN 1 ELSE 0
    /\ dead[s] => ~conn[s]
    /\ reader[s] = "done" => dead[s] /\ status[s] = Closed /\ s \notin byID

(* SessionCount never claims a session that the pool no longer holds, so   *)
(* CloseAll cannot wait for a session nobody will close.                   *)
NeverOvercounts == sessionCount <= Cardinality(byID)

(* Closing is exact, for the session and for the count: both of the above. *)
CloseExact == ClosedOnce /\ NeverOvercounts

(* A dead agent's session leaves the pool: its reader notices the closed   *)
(* connection and closes the session.                                      *)
DeadSessionsLeave ==
  \A s \in Sessions : dead[s] ~> reader[s] = "done"

(* CloseAll returns, however requests in flight, rebinds and clients that  *)
(* leave by themselves interleave with its rounds.                         *)
CloseAllReturns == all.at # "off" ~> all.at = "done"

(* Every session that has to end does end, one by one and in CloseAll:     *)
(* both of the above.                                                      *)
SessionsEnd == DeadSessionsLeave /\ CloseAllReturns

(* What the comment in Session.Close promises: closing a session removes   *)
(* the user's entry only if the entry holds that session, so a user who    *)
(* has already reconnected keeps their valid session.                      *)
KeepsReconnected ==
  [][\A u \in Users :
       byUID[u] # None /\ byUID'[u] = None
         => \E c \in Callers : closes[c].of = byUID[u]]_vars

=============================================================================
