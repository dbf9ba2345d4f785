--------------------------- MODULE FrontendProofs ---------------------------
(***************************************************************************)
(* For any sessions and users: however the reader, Bind and CloseAll close *)
(* a session at once, its close callbacks run once, and SessionCount never *)
(* counts a session that the pool no longer holds.                         *)
(*                                                                         *)
(* Neither is inductive.  A session that nobody connected yet is in no     *)
(* index and in no Close call (Unborn), so connecting it opens a live      *)
(* agent; a Close call that comes to the agent has taken its session out   *)
(* of the pool (Calls).  CloseCount and CloseID of one call are apart, and *)
(* a second call may run between them: what bounds SessionCount is the     *)
(* number of sessions in the pool that no call has uncounted (Counted).    *)
(***************************************************************************)
EXTENDS Frontend, TLAPS

(* Sessions before their Connect.                                          *)
Unborn ==
  \A s \in Sessions : reader[s] = "none" =>
    /\ ~dead[s] /\ ~conn[s] /\ task[s] = NoTask
    /\ s \notin byID /\ s \notin all.left
    /\ \A u \in Users : byUID[u] # s
    /\ \A c \in Callers : closes[c].of # s

(* What chDie, the connection and the status of an agent say of one        *)
(* another.                                                                *)
Agents ==
  \A s \in Sessions :
    /\ told[s] = IF dead[s] THEN 1 ELSE 0
    /\ dead[s] => ~conn[s]
    /\ status[s] = Closed => dead[s]
    /\ reader[s] = "done" => status[s] = Closed

(* Where a Close call is, and whether its session is still in the pool.    *)
Calls ==
  /\ \A s \in Sessions : closes[<<"reader", s>>].of \in {s, None}
  /\ \A c \in Callers : closes[c].at = "entity" => closes[c].of \notin byID
  /\ \A s \in Sessions : reader[s] = "done" => s \notin byID

(* The sessions of the pool that no Close call has uncounted.              *)
Uncounted(s) == \E c \in Callers : closes[c].of = s /\ closes[c].at \in {"uid", "id"}
Counted == {s \in byID : ~Uncounted(s)}

(* What a step may do to the count: it leaves both alone, counts a new     *)
(* session, or takes off one that then no longer needs to be counted.      *)
Counting ==
  \/ sessionCount' = sessionCount /\ Counted \subseteq Counted'
  \/ \E s : sessionCount' = sessionCount + 1 /\ s \notin Counted /\ Counted \cup {s} \subseteq Counted'
  \/ \E s : sessionCount' = sessionCount - 1 /\ Counted \ {s} \subseteq Counted'

-----------------------------------------------------------------------------
(* TypeOK in two parts: what the variables hold, and who is inside Close.  *)
Types ==
  /\ reader \in [Sessions -> {"none", "read", "closing", "done"}]
  /\ hand \in [Sessions -> 0..MaxPackets]
  /\ status \in [Sessions -> {Start, Handshaked, Working, Closed}]
  /\ dead \in [Sessions -> BOOLEAN] /\ conn \in [Sessions -> BOOLEAN]
  /\ told \in [Sessions -> Nat]
  /\ uid \in [Sessions -> Users \cup {None}]
  /\ task \in [Sessions -> Task] /\ served \in [Sessions -> 0..MaxRequests]
  /\ inflight \subseteq Sessions /\ byID \subseteq Sessions
  /\ byUID \in [Users -> Sessions \cup {None}]
  /\ sessionCount \in Int /\ userCount \in Int
  /\ closes \in [Callers -> CloseCall]
  /\ all \in [at : {"off", "range", "close", "sleep", "done"}, left : SUBSET Sessions]

(* A caller is inside Close exactly while its goroutine waits for it.      *)
Links ==
  /\ \A s \in Sessions :
       /\ (closes[<<"reader", s>>] # NoClose) <=> (reader[s] = "closing")
       /\ (closes[<<"bind", s>>] # NoClose) <=> (task[s].at = "close")
  /\ (closes[<<"all", None>>] # NoClose) <=> (all.at = "close")

(* What every step keeps, whatever the count is.                           *)
Sound == Types /\ Links /\ Unborn /\ Agents /\ Calls

(* The two parts are TypeOK of the pool and its agents.                    *)
LEMMA TypeParts == TypeOK <=> Types /\ Links
BY DEF TypeOK, Types, Links

(* Callers of Session.Close are told apart by their kind.                  *)
LEMMA CallerFacts ==
  /\ <<"all", None>> \in Callers
  /\ \A s \in Sessions : <<"reader", s>> \in Callers /\ <<"bind", s>> \in Callers
  /\ \A s, t \in Sessions : <<"reader", s>> # <<"bind", t>>
  /\ \A s \in Sessions : <<"all", None>> # <<"reader", s>> /\ <<"all", None>> # <<"bind", s>>
BY DEF Callers

(* A Close call that nobody makes is idle.                                 *)
LEMMA CloseCallFacts ==
  ASSUME NEW call \in CloseCall
  PROVE  /\ call # NoClose => call.of \in Sessions /\ call.at \in {"count", "uid", "id", "entity"}
         /\ call = NoClose <=> call.at = "idle"
         /\ call = NoClose <=> call.of = None
BY FrontendAssumption DEF CloseCall, NoClose, CloseSteps

(* The entry of a caller that is in no Close call names no session.        *)
LEMMA IdleCall == NoClose.of = None /\ NoClose.at = "idle" /\ None \notin Sessions
BY FrontendAssumption DEF NoClose

(* Packets of a message and requests of a client stay within their bounds. *)
LEMMA Bounds ==
  /\ \A n \in 1..MaxPackets : n \in 0..MaxPackets
  /\ \A n \in 0..MaxPackets : n > 0 => n - 1 \in 0..MaxPackets
  /\ \A n \in 0..MaxRequests : n < MaxRequests => n + 1 \in 0..MaxRequests
BY FrontendAssumption

(* The entry of a task, by the place it is at.                             *)
LEMMA TaskFacts ==
  ASSUME NEW t \in Task
  PROVE  /\ t.at \in {"idle", "remote", "callbacks", "close", "store"}
         /\ t.at \in {"callbacks", "close", "store"} =>
              /\ t.user \in Users
              /\ \A w \in {"callbacks", "close", "store"} : [t EXCEPT !.at = w] \in Task
         /\ t.at = "idle" <=> t = NoTask
BY DEF Task, NoTask
-----------------------------------------------------------------------------
(* agent.Close keeps what holds of agents, and leaves the agent closed:    *)
(* chDie decides whether the callbacks run.                                *)
AgentTypes ==
  /\ status \in [Sessions -> {Start, Handshaked, Working, Closed}]
  /\ dead \in [Sessions -> BOOLEAN] /\ conn \in [Sessions -> BOOLEAN]
  /\ told \in [Sessions -> Nat]

(* Agents, for one session and without its reader.                         *)
AgentSound(s) ==
  /\ told[s] = IF dead[s] THEN 1 ELSE 0
  /\ dead[s] => ~conn[s]
  /\ status[s] = Closed => dead[s]

(* AgentClose keeps both and leaves only agent x changed.                  *)
LEMMA AgentCloses ==
  ASSUME AgentTypes, NEW x \in Sessions, AgentClose(x), \A s \in Sessions : AgentSound(s)
  PROVE  /\ AgentTypes' /\ status'[x] = Closed
         /\ \A s \in Sessions : AgentSound(s)'
         /\ \A s \in Sessions \ {x} : dead'[s] = dead[s] /\ conn'[s] = conn[s] /\ status'[s] = status[s]
<1>1. CASE status[x] = Closed
  BY <1>1 DEF AgentClose, AgentTypes, AgentSound, agentVars
<1>2. CASE status[x] # Closed
  <2>1. /\ status' = [status EXCEPT ![x] = Closed]
        /\ told' = IF dead[x] THEN told ELSE [told EXCEPT ![x] = @ + 1]
        /\ dead' = [dead EXCEPT ![x] = TRUE]
        /\ conn' = [conn EXCEPT ![x] = FALSE]
    BY <1>2 DEF AgentClose
  <2>2. AgentTypes'
    BY <2>1 DEF AgentTypes
  <2>3. \A s \in Sessions \ {x} : AgentSound(s)'
    BY <2>1 DEF AgentTypes, AgentSound
  <2>4. AgentSound(x)'
    BY <2>1 DEF AgentTypes, AgentSound
  <2>q. QED
    BY <2>1, <2>2, <2>3, <2>4 DEF AgentTypes
<1>q. QED
  BY <1>1, <1>2
-----------------------------------------------------------------------------
(* The count of sessions, by what a step does to the pool and to the calls *)
(* in progress.                                                            *)

(* A step that leaves the pool, the count and the calls alone.             *)
LEMMA CountsFrame ==
  ASSUME UNCHANGED <<sessionCount, byID, closes>>
  PROVE  Counting
BY DEF Counting, Counted, Uncounted

(* A caller moves on in its call without counting: from idle to its first  *)
(* step, from one uncounted step to the next, or out of it.                *)
LEMMA CountsMove ==
  ASSUME Types, NEW c \in Callers, NEW call \in CloseCall,
         closes' = [closes EXCEPT ![c] = call], UNCHANGED <<sessionCount, byID>>,
         \/ closes[c].at \notin {"uid", "id"} /\ call.at \notin {"uid", "id"}
         \/ closes[c].of = call.of /\ closes[c].at \in {"uid", "id"} /\ call.at \in {"uid", "id"}
  PROVE  Counting
<1>1. \A s : Uncounted(s)' <=> Uncounted(s)
  BY DEF Uncounted, Types
<1>2. Counted' = Counted
  BY <1>1 DEF Counted
<1>q. QED
  BY <1>2 DEF Counting

(* CloseCount: the session may lose its place among the counted ones.      *)
LEMMA CountsUncount ==
  ASSUME Types, NEW c \in Callers, NEW call \in CloseCall, call.of = closes[c].of,
         closes' = [closes EXCEPT ![c] = call], byID' = byID, sessionCount' = sessionCount - 1,
         closes[c].at = "count"
  PROVE  Counting
<1>1. Counted \ {call.of} \subseteq Counted'
  BY DEF Counted, Uncounted, Types
<1>q. QED
  BY <1>1 DEF Counting

(* CloseID: the session that leaves the pool was uncounted already.        *)
LEMMA CountsOut ==
  ASSUME Types, NEW c \in Callers, NEW call \in CloseCall, closes[c].at = "id",
         call.of = closes[c].of, call.at = "entity",
         closes' = [closes EXCEPT ![c] = call],
         byID' = byID \ {closes[c].of}, sessionCount' = sessionCount
  PROVE  Counting
<1>1. Uncounted(closes[c].of)
  BY DEF Uncounted
<1>2. \A s : s # closes[c].of => (Uncounted(s)' <=> Uncounted(s))
  BY DEF Uncounted, Types
<1>3. Counted' = Counted
  BY <1>1, <1>2 DEF Counted
<1>q. QED
  BY <1>3 DEF Counting

(* Connect: the new session is in no Close call, and is counted.           *)
LEMMA CountsConnect ==
  ASSUME NEW s \in Sessions, s \notin byID, \A c \in Callers : closes[c].of # s,
         byID' = byID \cup {s}, closes' = closes, sessionCount' = sessionCount + 1
  PROVE  Counting
<1>1. Counted' = Counted \cup {s} /\ s \notin Counted
  BY DEF Counted, Uncounted
<1>q. QED
  BY <1>1 DEF Counting
-----------------------------------------------------------------------------
(* The initial states: nobody is connected.                                *)
LEMMA SoundInitially == Init => Sound
<1> SUFFICES ASSUME Init PROVE Sound
  OBVIOUS
<1>1. Types
  BY FrontendAssumption DEF Init, Types, Task, CloseCall, Start
<1>2. Links
  BY CallerFacts DEF Init, Links, NoTask
<1>3. Unborn
  BY FrontendAssumption DEF Init, Unborn, NoClose
<1>4. Agents
  BY DEF Init, Agents, Start, Closed
<1>5. Calls
  BY ZenonT(20), CallerFacts DEF Init, Calls, NoClose
<1>q. QED
  BY <1>1, <1>2, <1>3, <1>4, <1>5 DEF Sound

(* A step that closes agent x, or none, and leaves the rest alone: the     *)
(* goroutines of an agent that end, and a kick.                            *)
LEMMA AgentStep ==
  ASSUME Types, Links, Unborn, Agents, Calls,
         NEW x \in Sessions, reader[x] # "none", AgentClose(x),
         UNCHANGED <<reader, hand, uid, task, served, inflight, indexVars, closes, all>>
  PROVE  Sound' /\ Counting
<1>1. AgentTypes /\ \A s \in Sessions : AgentSound(s)
  BY DEF Types, AgentTypes, Agents, AgentSound
<1>2. /\ AgentTypes' /\ status'[x] = Closed
      /\ \A s \in Sessions : AgentSound(s)'
      /\ \A s \in Sessions \ {x} : dead'[s] = dead[s] /\ conn'[s] = conn[s] /\ status'[s] = status[s]
  BY <1>1, AgentCloses
<1>3. Types' /\ Links'
  BY <1>2 DEF Types, Links, AgentTypes, indexVars
<1>4. Unborn'
  BY <1>2 DEF Unborn, indexVars
<1>5. Agents'
  BY <1>2 DEF Agents, AgentSound
<1>6. Calls' /\ Counting
  BY CountsFrame DEF Calls, indexVars
<1>q. QED
  BY <1>3, <1>4, <1>5, <1>6 DEF Sound

(* Connect: an unborn session gets a live agent and its place in the pool. *)
LEMMA ConnectStep ==
  ASSUME Types, Links, Unborn, Agents, Calls,
         NEW s \in Sessions, Connect(s)
  PROVE  Sound' /\ Counting
<1>1. /\ reader[s] = "none" /\ reader' = [reader EXCEPT ![s] = "read"]
      /\ conn' = [conn EXCEPT ![s] = TRUE] /\ byID' = byID \cup {s}
      /\ sessionCount' = sessionCount + 1
      /\ UNCHANGED <<hand, status, dead, told, uid, task, served, inflight, byUID, userCount, closes, all>>
  BY DEF Connect
<1>2. ~dead[s] /\ s \notin byID /\ \A c \in Callers : closes[c].of # s
  BY <1>1 DEF Unborn
<1>3. Types'
  BY <1>1 DEF Types
<1>4. Links'
  BY <1>1 DEF Links, Types
<1>5. Unborn'
  BY <1>1 DEF Unborn, Types
<1>6. Agents'
  BY <1>1, <1>2 DEF Agents, Types
<1>7. Calls'
  BY <1>1, <1>2 DEF Calls, Types
<1>8. Counting
  BY <1>1, <1>2, CountsConnect
<1>q. QED
  BY <1>3, <1>4, <1>5, <1>6, <1>7, <1>8 DEF Sound

(* A message is received, or a packet of it is consumed: at most the       *)
(* status of an agent changes, to one of an agent that is not closed, and  *)
(* only while its reader reads.                                            *)
LEMMA PacketStep ==
  ASSUME Types, Links, Unborn, Agents, Calls,
         NEW s \in Sessions, reader[s] = "read",
         NEW n \in 0..MaxPackets, hand' = [hand EXCEPT ![s] = n],
         NEW st \in {Start, Handshaked, Working, Closed}, st = Closed => status[s] = Closed,
         status' = [status EXCEPT ![s] = st],
         UNCHANGED <<reader, dead, conn, told, uid, task, served, inflight, indexVars, closes, all>>
  PROVE  Sound' /\ Counting
<1>1. Types'
  BY DEF Types, indexVars
<1>2. Links' /\ Unborn' /\ Calls' /\ Counting
  BY CountsFrame DEF Links, Unborn, Calls, indexVars
<1>3. Agents'
  BY DEF Agents, Types
<1>q. QED
  BY <1>1, <1>2, <1>3 DEF Sound

(* The reader returns: its deferred Close begins.  agent.Close may have    *)
(* run before, when a handshake was refused.                               *)
LEMMA ReturnStep ==
  ASSUME Types, Links, Unborn, Agents, Calls,
         NEW s \in Sessions, reader[s] = "read", Return(s),
         AgentClose(s) \/ UNCHANGED agentVars,
         UNCHANGED <<uid, task, served, inflight, indexVars, all>>
  PROVE  Sound' /\ Counting
<1> DEFINE c == <<"reader", s>>
           call == [of |-> s, at |-> "count"]
<1>1. /\ reader' = [reader EXCEPT ![s] = "closing"] /\ hand' = [hand EXCEPT ![s] = 0]
      /\ closes' = [closes EXCEPT ![c] = call]
  BY DEF Return
<1>2. c \in Callers /\ call \in CloseCall /\ call # NoClose
  BY ZenonT(20), CallerFacts, FrontendAssumption DEF CloseCall, CloseSteps, NoClose
<1>3. AgentTypes /\ \A t \in Sessions : AgentSound(t)
  BY DEF Types, AgentTypes, Agents, AgentSound
<1>4. /\ AgentTypes' /\ \A t \in Sessions : AgentSound(t)'
      /\ \A t \in Sessions \ {s} : dead'[t] = dead[t] /\ conn'[t] = conn[t] /\ status'[t] = status[t]
  <2>1. CASE AgentClose(s)
    BY <2>1, <1>3, AgentCloses
  <2>2. CASE UNCHANGED agentVars
    BY <2>2, <1>3 DEF agentVars, AgentTypes, AgentSound
  <2>q. QED
    BY <2>1, <2>2
<1>5. Types'
  <2>1. closes' \in [Callers -> CloseCall]
    BY <1>1, <1>2 DEF Types
  <2>2. reader' \in [Sessions -> {"none", "read", "closing", "done"}] /\ hand' \in [Sessions -> 0..MaxPackets]
    BY <1>1, FrontendAssumption DEF Types
  <2>q. QED
    BY <2>1, <2>2, <1>4 DEF Types, AgentTypes, indexVars
<1>6. Links'
  BY <1>1, <1>2, CallerFacts DEF Links, Types
<1>7. closes[c] = NoClose
  BY ZenonT(20) DEF Links
<1>8. Unborn'
  <2>1. SUFFICES ASSUME NEW t \in Sessions, reader'[t] = "none"
                 PROVE  /\ ~dead'[t] /\ ~conn'[t] /\ task'[t] = NoTask
                        /\ t \notin byID' /\ t \notin all'.left
                        /\ \A u \in Users : byUID'[u] # t
                        /\ \A d \in Callers : closes'[d].of # t
    BY DEF Unborn
  <2>2. t # s /\ reader[t] = "none"
    BY <2>1, <1>1 DEF Types
  <2>3. \A d \in Callers : closes'[d].of # t
    BY <2>2, <1>1, <1>2 DEF Unborn, Types
  <2>q. QED
    BY ZenonT(30), <2>2, <2>3, <1>4 DEF Unborn, indexVars
<1>9. Agents'
  BY <1>1, <1>4 DEF Agents, AgentSound, Types
<1>10. Calls'
  <2>1. \A t \in Sessions : closes'[<<"reader", t>>].of \in {t, None}
    BY ZenonT(30), <1>1, CallerFacts DEF Calls, Types
  <2>2. \A d \in Callers : closes'[d].at = "entity" => closes'[d].of \notin byID'
    BY <1>1 DEF Calls, Types, indexVars
  <2>3. \A t \in Sessions : reader'[t] = "done" => t \notin byID'
    BY <1>1 DEF Calls, Types, indexVars
  <2>q. QED
    BY <2>1, <2>2, <2>3 DEF Calls
<1>11. Counting
  <2>1. closes[c].at \notin {"uid", "id"} /\ call.at \notin {"uid", "id"}
    BY <1>7 DEF NoClose
  <2>2. UNCHANGED <<sessionCount, byID>>
    BY DEF indexVars
  <2>q. QED
    BY ZenonT(30), <2>1, <2>2, <1>1, <1>2, CountsMove
<1>q. QED
  BY <1>5, <1>6, <1>8, <1>9, <1>10, <1>11 DEF Sound

(* A handler of a connected session moves on, outside of Close: a request  *)
(* is forwarded or answered, Bind begins, is refused, or stores the user.  *)
LEMMA TaskStep ==
  ASSUME Types, Links, Unborn, Agents, Calls,
         NEW s \in Sessions, reader[s] # "none", task[s].at # "close",
         NEW t \in Task, t.at # "close", task' = [task EXCEPT ![s] = t],
         hand' \in [Sessions -> 0..MaxPackets], served' \in [Sessions -> 0..MaxRequests],
         uid' \in [Sessions -> Users \cup {None}], inflight' \subseteq Sessions,
         byUID' \in [Users -> Sessions \cup {None}], \A u \in Users : byUID'[u] \in {byUID[u], s},
         userCount' \in Int,
         UNCHANGED <<reader, agentVars, byID, sessionCount, closes, all>>
  PROVE  Sound' /\ Counting
<1>1. Types'
  BY ZenonT(30) DEF Types, agentVars
<1>2. Links'
  BY DEF Links, Types
<1>3. Unborn'
  <2>1. SUFFICES ASSUME NEW x \in Sessions, reader[x] = "none"
                 PROVE  /\ task'[x] = NoTask /\ \A u \in Users : byUID'[u] # x
    BY DEF Unborn, agentVars
  <2>q. QED
    BY <2>1 DEF Unborn, Types
<1>4. Agents' /\ Calls' /\ Counting
  BY CountsFrame DEF Agents, Calls, agentVars
<1>q. QED
  BY <1>1, <1>2, <1>3, <1>4 DEF Sound

(* Bind and CloseAll begin to close a connected session: caller c, who was *)
(* in no Close call, is now in one.                                        *)
LEMMA BeginStep ==
  ASSUME Types, Links, Unborn, Agents, Calls,
         NEW c \in Callers, NEW x \in Sessions, reader[x] # "none",
         closes[c] = NoClose, \A s \in Sessions : c # <<"reader", s>>,
         closes' = [closes EXCEPT ![c] = [of |-> x, at |-> "count"]],
         task' \in [Sessions -> Task],
         all' \in [at : {"off", "range", "close", "sleep", "done"}, left : SUBSET Sessions],
         all'.left \subseteq all.left,
         \A s \in Sessions : reader[s] = "none" => task'[s] = task[s],
         \A s \in Sessions : (closes'[<<"bind", s>>] # NoClose) <=> (task'[s].at = "close"),
         (closes'[<<"all", None>>] # NoClose) <=> (all'.at = "close"),
         UNCHANGED <<reader, hand, agentVars, uid, served, inflight, indexVars>>
  PROVE  Sound' /\ Counting
<1> DEFINE call == [of |-> x, at |-> "count"]
<1>1. call \in CloseCall
  BY DEF CloseCall, CloseSteps
<1>2. closes' \in [Callers -> CloseCall]
  BY <1>1 DEF Types
<1>3. Types'
  BY <1>2 DEF Types, agentVars, indexVars
<1>4. \A s \in Sessions : closes'[<<"reader", s>>] = closes[<<"reader", s>>]
  BY ZenonT(30), CallerFacts DEF Types
<1>5. Links'
  <2>1. ASSUME NEW s \in Sessions PROVE (closes'[<<"reader", s>>] # NoClose) <=> (reader'[s] = "closing")
    <3>1. (closes[<<"reader", s>>] # NoClose) <=> (reader[s] = "closing")
      BY ZenonT(30) DEF Links
    <3>2. closes'[<<"reader", s>>] = closes[<<"reader", s>>] /\ reader'[s] = reader[s]
      BY <1>4
    <3>q. QED
      BY <3>1, <3>2
  <2>2. \A s \in Sessions : (closes'[<<"bind", s>>] # NoClose) <=> (task'[s].at = "close")
    BY ZenonT(30)
  <2>q. QED
    BY <2>1, <2>2, Zenon DEF Links
<1>6. Unborn'
  <2>1. SUFFICES ASSUME NEW s \in Sessions, reader[s] = "none"
                 PROVE  /\ task'[s] = NoTask /\ s \notin all'.left
                        /\ \A d \in Callers : closes'[d].of # s
    BY DEF Unborn, agentVars, indexVars
  <2>2. \A d \in Callers : closes'[d].of # s
    BY <2>1 DEF Unborn, Types
  <2>q. QED
    BY <2>1, <2>2 DEF Unborn
<1>7. Agents'
  BY DEF Agents, agentVars
<1>8. Calls'
  <2>1. \A d \in Callers : closes'[d].at = "entity" => closes'[d].of \notin byID'
    BY DEF Calls, Types, indexVars
  <2>q. QED
    BY <2>1, <1>4 DEF Calls, indexVars
<1>9. Counting
  <2>1. closes[c].at \notin {"uid", "id"} /\ call.at \notin {"uid", "id"}
    BY DEF NoClose
  <2>2. UNCHANGED <<sessionCount, byID>>
    BY DEF indexVars
  <2>q. QED
    BY ZenonT(20), <2>1, <2>2, <1>1, CountsMove
<1>q. QED
  BY <1>3, <1>5, <1>6, <1>7, <1>8, <1>9 DEF Sound

(* A Close call goes on to its next step; the indexes may change, but only *)
(* by entries that go.                                                     *)
LEMMA AdvanceStep ==
  ASSUME Types, Links, Unborn, Agents, Calls,
         NEW c \in Callers, closes[c] # NoClose,
         NEW step \in {"uid", "id", "entity"}, Advance(c, step),
         byID' \subseteq byID, step = "entity" => closes[c].of \notin byID',
         byUID' \in [Users -> Sessions \cup {None}], \A u \in Users : byUID'[u] \in {byUID[u], None},
         sessionCount' \in Int, userCount' \in Int, Counting,
         UNCHANGED <<reader, hand, agentVars, uid, task, served, inflight, all>>
  PROVE  Sound' /\ Counting
<1>1. closes' = [closes EXCEPT ![c].at = step]
  BY DEF Advance
<1>2. closes[c] \in CloseCall /\ closes[c].of \in Sessions
  BY CloseCallFacts DEF Types
<1>3. closes'[c] = [of |-> closes[c].of, at |-> step]
  BY <1>1, <1>2 DEF Types, CloseCall, NoClose
<1>4. \A d \in Callers : d # c => closes'[d] = closes[d]
  BY <1>1 DEF Types
<1>5. closes'[c] \in CloseCall /\ closes'[c] # NoClose
  BY <1>2, <1>3 DEF CloseCall, CloseSteps, NoClose
<1>6. closes' \in [Callers -> CloseCall]
  BY <1>1, <1>4, <1>5 DEF Types
<1>7. Types'
  BY ZenonT(30), <1>6 DEF Types, agentVars
<1>8. \A d \in Callers : closes'[d] # NoClose <=> closes[d] # NoClose
  BY <1>4, <1>5
<1>9. Links'
  BY <1>8, CallerFacts DEF Links
<1>10. \A d \in Callers : closes'[d].of = closes[d].of
  BY <1>3, <1>4
<1>11. Unborn'
  <2>1. SUFFICES ASSUME NEW s \in Sessions, reader[s] = "none"
                 PROVE  /\ s \notin byID' /\ \A u \in Users : byUID'[u] # s
                        /\ \A d \in Callers : closes'[d].of # s
    BY DEF Unborn, agentVars
  <2>q. QED
    BY <2>1, <1>10, FrontendAssumption DEF Unborn
<1>12. Agents'
  BY DEF Agents, agentVars
<1>13. Calls'
  <2>1. \A s \in Sessions : closes'[<<"reader", s>>].of \in {s, None}
    BY ZenonT(30), <1>10, CallerFacts DEF Calls
  <2>2. \A d \in Callers : closes'[d].at = "entity" => closes'[d].of \notin byID'
    BY <1>3, <1>4 DEF Calls
  <2>3. \A s \in Sessions : reader'[s] = "done" => s \notin byID'
    BY ZenonT(30) DEF Calls
  <2>q. QED
    BY <2>1, <2>2, <2>3 DEF Calls
<1>q. QED
  BY <1>7, <1>9, <1>11, <1>12, <1>13 DEF Sound

(* Close comes to the agent and returns to its caller: the reader is done, *)
(* Bind goes on, or Range does.                                            *)
LEMMA EntityStep ==
  ASSUME Types, Links, Unborn, Agents, Calls,
         NEW c \in Callers, CloseEntity(c)
  PROVE  Sound' /\ Counting
<1> DEFINE x == closes[c].of
<1>1. /\ closes[c].at = "entity" /\ AgentClose(x)
      /\ closes' = [closes EXCEPT ![c] = NoClose]
      /\ UNCHANGED <<hand, uid, served, inflight, indexVars>>
  BY DEF CloseEntity, At
<1>2. closes[c] \in CloseCall /\ closes[c] # NoClose /\ x \in Sessions
  BY ZenonT(30), <1>1, CloseCallFacts DEF Types, NoClose
<1>3. x \notin byID /\ reader[x] # "none"
  BY <1>1, <1>2 DEF Calls, Unborn
<1>4. AgentTypes /\ \A t \in Sessions : AgentSound(t)
  BY ZenonT(30) DEF Types, AgentTypes, Agents, AgentSound
<1>5. /\ AgentTypes' /\ status'[x] = Closed /\ \A t \in Sessions : AgentSound(t)'
      /\ \A t \in Sessions \ {x} : dead'[t] = dead[t] /\ conn'[t] = conn[t] /\ status'[t] = status[t]
  BY <1>1, <1>2, <1>4, AgentCloses
<1>6. closes' \in [Callers -> CloseCall] /\ \A d \in Callers : d # c => closes'[d] = closes[d]
  BY <1>1 DEF Types, CloseCall
<1>7. closes'[c] = NoClose
  BY ZenonT(30), <1>1 DEF Types
<1>8. /\ reader' \in [Sessions -> {"none", "read", "closing", "done"}]
      /\ task' \in [Sessions -> Task]
      /\ all' \in [at : {"off", "range", "close", "sleep", "done"}, left : SUBSET Sessions]
      /\ all'.left = all.left
      /\ Links'
      /\ \A s \in Sessions : reader'[s] = "none" => reader[s] = "none"
      /\ \A s \in Sessions : reader[s] = "none" => task'[s] = task[s]
      /\ \A s \in Sessions : reader'[s] = "done" => reader[s] = "done" \/ s = x
  <2>1. CASE \E r \in Sessions : c = <<"reader", r>>
    <3>1. PICK r \in Sessions : c = <<"reader", r>>
      BY <2>1
    <3>2. reader' = [reader EXCEPT ![r] = "done"] /\ task' = task /\ all' = all
      BY <3>1 DEF CloseEntity
    <3>3. x = r /\ reader[r] = "closing"
      BY ZenonT(20), <3>1, <1>2, FrontendAssumption DEF Calls, Links
    <3>4. Links'
      BY <3>1, <3>2, <1>6, <1>7, CallerFacts DEF Links, Types
    <3>q. QED
      BY <3>2, <3>3, <3>4 DEF Types
  <2>2. CASE \E b \in Sessions : c = <<"bind", b>>
    <3>1. PICK b \in Sessions : c = <<"bind", b>>
      BY <2>2
    <3>2. reader' = reader /\ task' = [task EXCEPT ![b].at = "store"] /\ all' = all
      BY <3>1 DEF CloseEntity
    <3>3. task[b].at = "close"
      BY ZenonT(20), <3>1, <1>2 DEF Links
    <3>4. [task[b] EXCEPT !.at = "store"] \in Task /\ [task[b] EXCEPT !.at = "store"].at = "store"
      <4>1. task[b] \in Task
        BY DEF Types
      <4>2. [task[b] EXCEPT !.at = "store"] \in Task
        BY ZenonT(20), <3>3, <4>1, TaskFacts
      <4>3. [task[b] EXCEPT !.at = "store"].at = "store"
        BY <3>3, <4>1 DEF Task, NoTask
      <4>q. QED
        BY <4>2, <4>3
    <3>5. task' = [task EXCEPT ![b] = [task[b] EXCEPT !.at = "store"]]
      BY <3>2
    <3>6. task' \in [Sessions -> Task] /\ task'[b].at = "store" /\ \A s \in Sessions : s # b => task'[s] = task[s]
      BY <3>4, <3>5 DEF Types
    <3>7. reader[b] # "none"
      BY <3>3 DEF Unborn, NoTask
    <3>8. Links'
      BY <3>1, <3>2, <3>6, <1>6, <1>7, CallerFacts DEF Links
    <3>q. QED
      BY <3>2, <3>6, <3>7, <3>8 DEF Types
  <2>3. CASE c = <<"all", None>>
    <3>1. reader' = reader /\ task' = task /\ all' = [all EXCEPT !.at = "range"]
      BY <2>3 DEF CloseEntity
    <3>2. /\ all' \in [at : {"off", "range", "close", "sleep", "done"}, left : SUBSET Sessions]
          /\ all'.left = all.left /\ all'.at = "range"
      BY <3>1 DEF Types
    <3>3. Links'
      BY ZenonT(30), <2>3, <3>1, <3>2, <1>6, <1>7, CallerFacts DEF Links
    <3>q. QED
      BY <3>1, <3>2, <3>3 DEF Types
  <2>q. QED
    BY <2>1, <2>2, <2>3 DEF Callers
<1>9. Types'
  BY <1>1, <1>5, <1>6, <1>8 DEF Types, AgentTypes, indexVars
<1>10. Unborn'
  <2>1. SUFFICES ASSUME NEW s \in Sessions, reader[s] = "none"
                 PROVE  /\ ~dead'[s] /\ ~conn'[s] /\ task'[s] = NoTask
                        /\ s \notin byID' /\ s \notin all'.left
                        /\ \A u \in Users : byUID'[u] # s
                        /\ \A d \in Callers : closes'[d].of # s
    BY ZenonT(30), <1>8 DEF Unborn
  <2>2. ~dead'[s] /\ ~conn'[s]
    BY ZenonT(30), <2>1, <1>3, <1>5 DEF Unborn
  <2>3. \A d \in Callers : closes'[d].of # s
    BY ZenonT(30), <2>1, <1>6, <1>7, IdleCall DEF Unborn
  <2>q. QED
    BY ZenonT(30), <2>1, <2>2, <2>3, <1>1, <1>8 DEF Unborn, indexVars
<1>11. Agents'
  <2>1. \A t \in Sessions : reader'[t] = "done" => status'[t] = Closed
    BY ZenonT(30), <1>5, <1>8 DEF Agents
  <2>q. QED
    BY <1>5, <2>1 DEF Agents, AgentSound
<1>12. Calls'
  <2>1. ASSUME NEW s \in Sessions PROVE closes'[<<"reader", s>>].of \in {s, None}
    <3>1. <<"reader", s>> \in Callers /\ closes[<<"reader", s>>].of \in {s, None}
      BY ZenonT(20), CallerFacts DEF Calls
    <3>q. QED
      BY <3>1, <1>6, <1>7 DEF NoClose
  <2>2. \A d \in Callers : closes'[d].at = "entity" => closes'[d].of \notin byID'
    BY ZenonT(30), <1>1, <1>6, <1>7 DEF Calls, NoClose, indexVars
  <2>3. \A s \in Sessions : reader'[s] = "done" => s \notin byID'
    BY ZenonT(30), <1>1, <1>3, <1>8 DEF Calls, indexVars
  <2>q. QED
    BY <2>1, <2>2, <2>3 DEF Calls
<1>13. Counting
  <2>1. closes[c].at \notin {"uid", "id"} /\ NoClose.at \notin {"uid", "id"} /\ NoClose \in CloseCall
    BY <1>1 DEF NoClose, CloseCall
  <2>2. UNCHANGED <<sessionCount, byID>>
    BY <1>1 DEF indexVars
  <2>q. QED
    BY ZenonT(20), <2>1, <2>2, <1>1, CountsMove
<1>q. QED
  BY <1>8, <1>9, <1>10, <1>11, <1>12, <1>13 DEF Sound

(* The other steps of a Close call.                                        *)
LEMMA ClosingStep ==
  ASSUME Types, Links, Unborn, Agents, Calls,
         NEW c \in Callers, Closing(c)
  PROVE  Sound' /\ Counting
<1>1. closes[c] \in CloseCall
  BY DEF Types
<1>2. ASSUME NEW step \in {"uid", "id", "entity"}, closes[c] # NoClose
      PROVE  /\ [closes EXCEPT ![c].at = step] = [closes EXCEPT ![c] = [closes[c] EXCEPT !.at = step]]
             /\ [closes[c] EXCEPT !.at = step] \in CloseCall
             /\ [closes[c] EXCEPT !.at = step].at = step
             /\ [closes[c] EXCEPT !.at = step].of = closes[c].of
  BY <1>1, <1>2 DEF CloseCall, CloseSteps, NoClose
<1>3. CASE CloseCount(c)
  <2>1. /\ closes[c].at = "count" /\ sessionCount' = sessionCount - 1 /\ Advance(c, "uid")
        /\ UNCHANGED <<reader, hand, agentVars, uid, task, served, inflight, byID, byUID, userCount, all>>
    BY <1>3 DEF CloseCount, At
  <2>2. closes[c] # NoClose
    BY <2>1 DEF NoClose
  <2>3. closes' = [closes EXCEPT ![c] = [closes[c] EXCEPT !.at = "uid"]]
    BY <2>1, <2>2, <1>2 DEF Advance
  <2>4. Counting
    BY ZenonT(30), <1>2, <2>1, <2>2, <2>3, CountsUncount
  <2>5. sessionCount' \in Int /\ userCount' \in Int /\ byUID' \in [Users -> Sessions \cup {None}]
    BY <2>1 DEF Types
  <2>q. QED
    BY <2>1, <2>2, <2>4, <2>5, AdvanceStep
<1>4. CASE CloseUID(c)
  <2> DEFINE u == uid[closes[c].of]
  <2>1. /\ closes[c].at = "uid" /\ Advance(c, "id")
        /\ IF u = None THEN UNCHANGED <<byUID, userCount>>
           ELSE byUID' = [byUID EXCEPT ![u] = None] /\ userCount' = userCount - 1
        /\ UNCHANGED <<reader, hand, agentVars, uid, task, served, inflight, byID, sessionCount, all>>
    BY <1>4 DEF CloseUID, At
  <2>2. closes[c] # NoClose
    BY <2>1 DEF NoClose
  <2>3. closes' = [closes EXCEPT ![c] = [closes[c] EXCEPT !.at = "id"]]
    BY <2>1, <2>2, <1>2 DEF Advance
  <2>4. Counting
    BY ZenonT(20), <1>2, <2>1, <2>2, <2>3, CountsMove
  <2>5. sessionCount' \in Int /\ userCount' \in Int
    BY <2>1 DEF Types
  <2>6. byUID' \in [Users -> Sessions \cup {None}] /\ \A v \in Users : byUID'[v] \in {byUID[v], None}
    BY ZenonT(30), <2>1 DEF Types
  <2>q. QED
    BY ZenonT(30), <2>1, <2>2, <2>4, <2>5, <2>6, AdvanceStep
<1>5. CASE CloseID(c)
  <2> DEFINE s == closes[c].of
  <2>1. /\ closes[c].at = "id" /\ Advance(c, "entity") /\ byID' = byID \ {s}
        /\ byUID' = [u \in Users |-> IF u = uid[s] /\ byUID[u] = s THEN None ELSE byUID[u]]
        /\ UNCHANGED <<reader, hand, agentVars, uid, task, served, inflight, sessionCount, userCount, all>>
    BY <1>5 DEF CloseID, At
  <2>2. closes[c] # NoClose
    BY <2>1 DEF NoClose
  <2>3. closes' = [closes EXCEPT ![c] = [closes[c] EXCEPT !.at = "entity"]]
    BY <2>1, <2>2, <1>2 DEF Advance
  <2>4. Counting
    BY ZenonT(20), <1>2, <2>1, <2>2, <2>3, CountsOut
  <2>5. sessionCount' \in Int /\ userCount' \in Int
    BY <2>1 DEF Types
  <2>6. byUID' \in [Users -> Sessions \cup {None}] /\ \A v \in Users : byUID'[v] \in {byUID[v], None}
    BY <2>1 DEF Types
  <2>q. QED
    BY <2>1, <2>2, <2>4, <2>5, <2>6, AdvanceStep
<1>q. QED
  BY <1>3, <1>4, <1>5, EntityStep DEF Closing

(* The packets of a client, and its connection.                            *)
LEMMA PeerStep ==
  ASSUME Types, Links, Unborn, Agents, Calls,
         NEW s \in Sessions, Peer(s) \/ ReadFails(s) \/ GoroutineEnds(s)
  PROVE  Sound' /\ Counting
<1>1. CASE Connect(s)
  BY <1>1, ConnectStep
<1>2. CASE Received(s)
  <2>1. PICK n \in 1..MaxPackets : hand' = [hand EXCEPT ![s] = n]
    BY ZenonT(30), <1>2 DEF Received
  <2>2. /\ n \in 0..MaxPackets /\ status[s] \in {Start, Handshaked, Working, Closed}
        /\ status' = [status EXCEPT ![s] = status[s]]
    BY ZenonT(30), <1>2, Bounds DEF Received, Types, agentVars
  <2>q. QED
    BY ZenonT(20), <1>2, <2>1, <2>2, PacketStep DEF Received, agentVars
<1>3. CASE Kick(s) \/ GoroutineEnds(s)
  <2>1. reader[s] # "none"
    BY <1>3 DEF Kick, GoroutineEnds, Unborn
  <2>q. QED
    BY <1>3, <2>1, AgentStep DEF Kick, GoroutineEnds
<1>4. ASSUME Packet(s), Consume(s)
      PROVE  /\ reader[s] = "read" /\ hand[s] - 1 \in 0..MaxPackets /\ hand' = [hand EXCEPT ![s] = hand[s] - 1]
             /\ hand' \in [Sessions -> 0..MaxPackets] /\ UNCHANGED <<reader, closes>>
  BY <1>4, FrontendAssumption DEF Packet, Consume, Types
<1>5. CASE Handshake(s)
  <2>1. Handshaked \in {Start, Handshaked, Working, Closed} /\ Handshaked # Closed
    BY DEF Handshaked, Closed
  <2>2. Packet(s) /\ Consume(s) /\ status' = [status EXCEPT ![s] = Handshaked]
        /\ UNCHANGED <<dead, conn, told, uid, task, served, inflight, indexVars, all>>
    BY <1>5 DEF Handshake
  <2>q. QED
    BY ZenonT(20), <1>4, <2>1, <2>2, PacketStep
<1>6. CASE HandshakeAck(s)
  <2>1. Working \in {Start, Handshaked, Working, Closed} /\ Working # Closed
    BY DEF Working, Closed
  <2>2. Packet(s) /\ Consume(s) /\ status' = [status EXCEPT ![s] = Working]
        /\ UNCHANGED <<dead, conn, told, uid, task, served, inflight, indexVars, all>>
    BY <1>6 DEF HandshakeAck
  <2>q. QED
    BY ZenonT(20), <1>4, <2>1, <2>2, PacketStep
<1>7. CASE PlainPacket(s)
  <2>1. status[s] \in {Start, Handshaked, Working, Closed} /\ status' = [status EXCEPT ![s] = status[s]]
    BY ZenonT(30), <1>7 DEF PlainPacket, Types, agentVars
  <2>q. QED
    BY ZenonT(30), <1>4, <1>7, <2>1, PacketStep DEF PlainPacket, agentVars
<1>8. CASE HandshakeRefused(s) \/ PacketFails(s) \/ ReadFails(s)
  BY ZenonT(30), <1>8, ReturnStep DEF HandshakeRefused, PacketFails, ReadFails, Packet
<1>9. ASSUME Dispatch(s)
       PROVE  /\ served' \in [Sessions -> 0..MaxRequests] /\ task[s] = NoTask /\ task[s].at # "close"
              /\ reader[s] # "none" /\ hand' \in [Sessions -> 0..MaxPackets] /\ UNCHANGED <<reader, closes>>
  <2>1. Packet(s) /\ Consume(s) /\ served[s] < MaxRequests /\ served' = [served EXCEPT ![s] = @ + 1] /\ task[s] = NoTask
    BY <1>9 DEF Dispatch
  <2>2. served' \in [Sessions -> 0..MaxRequests]
    BY <2>1, FrontendAssumption DEF Types
  <2>3. task[s].at # "close"
    BY <2>1 DEF NoTask
  <2>4. reader[s] # "none" /\ hand' \in [Sessions -> 0..MaxPackets] /\ UNCHANGED <<reader, closes>>
    BY <2>1, <1>4
  <2>q. QED
    BY ZenonT(30), <2>1, <2>2, <2>3, <2>4
<1>10. CASE Forward(s)
  <2>1. [at |-> "remote", user |-> None] \in Task
    BY DEF Task
  <2>2. inflight' \subseteq Sessions /\ userCount' \in Int /\ uid' \in [Sessions -> Users \cup {None}]
        /\ byUID' \in [Users -> Sessions \cup {None}] /\ byUID' = byUID
    BY <1>10 DEF Forward, Types, indexVars
  <2>q. QED
    BY ZenonT(20), <1>9, <1>10, <2>1, <2>2, TaskStep DEF Forward, indexVars
<1>11. CASE \E u \in Users : BindBegin(s, u)
  <2>1. PICK u \in Users : BindBegin(s, u)
    BY ZenonT(30), <1>11
  <2>2. [at |-> "callbacks", user |-> u] \in Task
    BY DEF Task
  <2>3. inflight' \subseteq Sessions /\ userCount' \in Int /\ uid' \in [Sessions -> Users \cup {None}]
        /\ byUID' \in [Users -> Sessions \cup {None}] /\ byUID' = byUID
    BY <2>1 DEF BindBegin, Types, indexVars
  <2>q. QED
    BY ZenonT(20), <1>9, <2>1, <2>2, <2>3, TaskStep DEF BindBegin, indexVars
<1>q. QED
  BY <1>1, <1>2, <1>3, <1>5, <1>6, <1>7, <1>8, <1>10, <1>11 DEF Peer

(* The handlers of a session.                                              *)
LEMMA HandlerStep ==
  ASSUME Types, Links, Unborn, Agents, Calls,
         NEW s \in Sessions, Handler(s)
  PROVE  Sound' /\ Counting
<1>1. task[s] \in Task /\ task[s].at # "idle" /\ task[s] # NoTask
  BY DEF Handler, Answered, BindRefused, BindLoad, BindStore, Types, NoTask
<1>2. reader[s] # "none"
  BY <1>1 DEF Unborn
<1>3. NoTask \in Task /\ NoTask.at # "close"
  BY DEF Task, NoTask
<1>4. CASE Answered(s)
  <2>1. /\ inflight' \subseteq Sessions /\ userCount' \in Int /\ uid' \in [Sessions -> Users \cup {None}]
        /\ byUID' \in [Users -> Sessions \cup {None}] /\ byUID' = byUID /\ task[s].at # "close"
        /\ hand' \in [Sessions -> 0..MaxPackets] /\ served' \in [Sessions -> 0..MaxRequests]
    BY <1>4 DEF Answered, Types, indexVars
  <2>q. QED
    BY ZenonT(20), <1>2, <1>3, <1>4, <2>1, TaskStep DEF Answered, indexVars
<1>5. CASE BindRefused(s)
  <2>1. /\ inflight' \subseteq Sessions /\ userCount' \in Int /\ uid' \in [Sessions -> Users \cup {None}]
        /\ byUID' \in [Users -> Sessions \cup {None}] /\ byUID' = byUID /\ task[s].at # "close"
        /\ hand' \in [Sessions -> 0..MaxPackets] /\ served' \in [Sessions -> 0..MaxRequests]
    BY <1>5 DEF BindRefused, Types, indexVars
  <2>q. QED
    BY ZenonT(20), <1>2, <1>3, <1>5, <2>1, TaskStep DEF BindRefused, indexVars
<1>6. CASE BindStore(s)
  <2>1. task[s].user \in Users /\ task[s].at # "close"
    BY ZenonT(30), <1>1, <1>6, TaskFacts DEF BindStore
  <2>2. /\ inflight' \subseteq Sessions /\ userCount' \in Int /\ uid' \in [Sessions -> Users \cup {None}]
        /\ hand' \in [Sessions -> 0..MaxPackets] /\ served' \in [Sessions -> 0..MaxRequests]
    BY <1>6 DEF BindStore, Types
  <2>3. byUID' \in [Users -> Sessions \cup {None}] /\ \A u \in Users : byUID'[u] \in {byUID[u], s}
    BY <1>6, <2>1 DEF BindStore, Types
  <2>q. QED
    BY ZenonT(20), <1>2, <1>3, <1>6, <2>1, <2>2, <2>3, TaskStep DEF BindStore
<1>7. CASE BindLoad(s)
  <2> DEFINE old == byUID[task[s].user]
             at == IF old = None THEN "store" ELSE "close"
             t == [task[s] EXCEPT !.at = at]
  <2>1. /\ task[s].at = "callbacks" /\ task' = [task EXCEPT ![s].at = at]
        /\ closes' = IF old = None THEN closes
                     ELSE [closes EXCEPT ![<<"bind", s>>] = [of |-> old, at |-> "count"]]
        /\ UNCHANGED <<reader, hand, agentVars, uid, served, inflight, indexVars, all>>
    BY <1>7 DEF BindLoad
  <2>2. task[s].user \in Users /\ old \in Sessions \cup {None}
    BY ZenonT(20), <1>1, <2>1, TaskFacts DEF Types
  <2>3. t \in Task /\ t.at = at
    BY <1>1, <2>1, TaskFacts DEF Task, NoTask
  <2>4. task' = [task EXCEPT ![s] = t]
    BY <2>1
  <2>5. CASE old = None
    <3>1. /\ inflight' \subseteq Sessions /\ userCount' \in Int /\ uid' \in [Sessions -> Users \cup {None}]
          /\ byUID' \in [Users -> Sessions \cup {None}] /\ byUID' = byUID /\ task[s].at # "close"
          /\ hand' \in [Sessions -> 0..MaxPackets] /\ served' \in [Sessions -> 0..MaxRequests]
      BY <2>1 DEF Types, indexVars
    <3>2. t.at # "close" /\ closes' = closes
      BY <2>1, <2>3, <2>5
    <3>3. UNCHANGED <<reader, agentVars, byID, sessionCount, closes, all>>
      BY <2>1, <3>2 DEF indexVars
    <3> HIDE DEF t
    <3>q. QED
      BY ZenonT(20), <1>2, <2>3, <2>4, <3>1, <3>2, <3>3, TaskStep
  <2>6. CASE old # None
    <3> DEFINE c == <<"bind", s>>
    <3>1. closes' = [closes EXCEPT ![c] = [of |-> old, at |-> "count"]] /\ old \in Sessions /\ t.at = "close"
      BY <2>1, <2>2, <2>3, <2>6
    <3>2. c \in Callers /\ closes[c] = NoClose /\ \A x \in Sessions : c # <<"reader", x>>
      BY ZenonT(20), <2>1, CallerFacts DEF Links
    <3>3. reader[old] # "none"
      BY <2>2, <3>1 DEF Unborn
    <3>4. task' \in [Sessions -> Task] /\ task'[s] = t /\ \A x \in Sessions : x # s => task'[x] = task[x]
      BY <2>3, <2>4 DEF Types
    <3>5. closes'[c] # NoClose /\ \A x \in Sessions : x # s => closes'[<<"bind", x>>] = closes[<<"bind", x>>]
      BY <3>1, <3>2, CallerFacts DEF Types, NoClose
    <3>6. ASSUME NEW x \in Sessions PROVE (closes'[<<"bind", x>>] # NoClose) <=> (task'[x].at = "close")
      <4>1. CASE x = s
        BY <4>1, <3>1, <3>4, <3>5
      <4>2. CASE x # s
        BY ZenonT(30), <4>2, <3>4, <3>5 DEF Links
      <4>q. QED
        BY <4>1, <4>2
    <3>7. closes'[<<"all", None>>] = closes[<<"all", None>>]
      BY <3>1, <3>2, CallerFacts DEF Types
    <3>8. /\ (closes'[<<"all", None>>] # NoClose) <=> (all'.at = "close")
          /\ all' \in [at : {"off", "range", "close", "sleep", "done"}, left : SUBSET Sessions]
          /\ all'.left \subseteq all.left
      BY <2>1, <3>7 DEF Links, Types
    <3>9. \A x \in Sessions : reader[x] = "none" => task'[x] = task[x]
      BY <1>2, <3>4
    <3>10. UNCHANGED <<reader, hand, agentVars, uid, served, inflight, indexVars>>
      BY <2>1
    <3> HIDE DEF c, old
    <3>q. QED
      BY ZenonT(30), <3>1, <3>2, <3>3, <3>4, <3>6, <3>8, <3>9, <3>10, BeginStep
  <2>q. QED
    BY <2>5, <2>6
<1>q. QED
  BY <1>4, <1>5, <1>6, <1>7 DEF Handler

(* CloseAll and its rounds.                                                *)
LEMMA SweepStep ==
  ASSUME Types, Links, Unborn, Agents, Calls, Sweep
  PROVE  Sound' /\ Counting
<1>1. ASSUME all' \in [at : {"off", "range", "sleep", "done"}, left : SUBSET Sessions],
             all'.left \subseteq byID, all.at # "close",
             UNCHANGED <<reader, hand, agentVars, uid, task, served, inflight, indexVars, closes>>
      PROVE  Sound' /\ Counting
  <2>1. Types'
    BY ZenonT(30), <1>1 DEF Types, agentVars, indexVars
  <2>2. Links'
    BY <1>1 DEF Links
  <2>3. Unborn'
    BY ZenonT(30), <1>1 DEF Unborn, agentVars, indexVars
  <2>4. Agents' /\ Calls' /\ Counting
    BY ZenonT(30), <1>1, CountsFrame DEF Agents, Calls, agentVars, indexVars
  <2>q. QED
    BY <2>1, <2>2, <2>3, <2>4 DEF Sound
<1>2. CASE CloseAll
  BY <1>1, <1>2 DEF CloseAll, Types
<1>3. CASE RangeEnds
  BY <1>1, <1>3 DEF RangeEnds, Types
<1>4. ASSUME NEW s \in Sessions, RangeVisit(s) PROVE Sound' /\ Counting
  <2>1. CASE s \in inflight
    BY <1>1, <1>4, <2>1 DEF RangeVisit, Types
  <2>2. CASE s \notin inflight
    <3> DEFINE c == <<"all", None>>
    <3>1. /\ all.at = "range" /\ s \in all.left /\ all' = [at |-> "close", left |-> all.left \ {s}]
          /\ closes' = [closes EXCEPT ![c] = [of |-> s, at |-> "count"]]
          /\ UNCHANGED <<reader, hand, agentVars, uid, task, served, inflight, indexVars>>
      BY ZenonT(30), <1>4, <2>2 DEF RangeVisit
    <3>2. c \in Callers /\ closes[c] = NoClose /\ \A x \in Sessions : c # <<"reader", x>>
      BY ZenonT(30), <3>1, CallerFacts DEF Links
    <3>3. reader[s] # "none"
      BY ZenonT(30), <3>1 DEF Unborn
    <3>4. closes'[c] # NoClose /\ \A x \in Sessions : closes'[<<"bind", x>>] = closes[<<"bind", x>>]
      BY <3>1, <3>2, CallerFacts DEF Types, NoClose
    <3>5. \A x \in Sessions : (closes'[<<"bind", x>>] # NoClose) <=> (task'[x].at = "close")
      BY ZenonT(30), <3>1, <3>4 DEF Links
    <3>6. /\ (closes'[c] # NoClose) <=> (all'.at = "close")
          /\ all' \in [at : {"off", "range", "close", "sleep", "done"}, left : SUBSET Sessions]
          /\ all'.left \subseteq all.left /\ task' \in [Sessions -> Task]
      BY ZenonT(30), <3>1, <3>4 DEF Types
    <3>7. \A x \in Sessions : reader[x] = "none" => task'[x] = task[x]
      BY ZenonT(30), <3>1
    <3>q. QED
      BY ZenonT(30), <3>1, <3>2, <3>3, <3>5, <3>6, <3>7, BeginStep
  <2>q. QED
    BY ZenonT(30), <2>1, <2>2
<1>q. QED
  BY <1>2, <1>3, <1>4 DEF Sweep
-----------------------------------------------------------------------------
(* Every step of the frontend keeps it, and counts.                        *)
LEMMA SoundStep == Sound /\ [Next]_vars => Sound' /\ Counting
<1> SUFFICES ASSUME Types, Links, Unborn, Agents, Calls, [Next]_vars PROVE Sound' /\ Counting
  BY DEF Sound
<1>1. CASE Next
  BY <1>1, PeerStep, HandlerStep, ClosingStep, SweepStep DEF Next
<1>2. CASE UNCHANGED vars
  <2>1. Counting
    BY <1>2, CountsFrame DEF vars, indexVars
  <2>q. QED
    BY ZenonT(30), <1>2, <2>1 DEF vars, agentVars, indexVars, Sound, Types, Links, Unborn, Agents, Calls
<1>q. QED
  BY <1>1, <1>2

(* TypeOK: the variables of the pool, the agents and the readers keep      *)
(* their types, and a caller is inside Session.Close exactly while the     *)
(* reader, Bind or CloseAll waits for it.                                  *)
THEOREM FrontendTypes == Spec => []TypeOK
<1>1. Sound => TypeOK
  BY TypeParts DEF Sound
<1>2. Sound /\ [Next]_vars => Sound'
  BY SoundStep
<1>q. QED
  BY <1>1, <1>2, SoundInitially, PTL DEF Spec
-----------------------------------------------------------------------------
INSTANCE FiniteSetTheorems

(* The sessions that are counted are finitely many.                        *)
LEMMA CountedFinite ==
  ASSUME Types
  PROVE  /\ IsFiniteSet(byID) /\ IsFiniteSet(Counted)
         /\ Cardinality(byID) \in Nat /\ Cardinality(Counted) \in Nat
         /\ Cardinality(Counted) <= Cardinality(byID)
<1>1. IsFiniteSet(byID)
  BY FrontendAssumption, FS_Subset DEF Types
<1>2. Counted \subseteq byID
  BY DEF Counted
<1>q. QED
  BY ZenonT(30), <1>1, <1>2, FS_Subset, FS_CardinalityType

(* SessionCount is at most the number of counted sessions: the inductive   *)
(* invariant.                                                              *)
Counts == sessionCount <= Cardinality(Counted)
IInv == Sound /\ Counts

(* Nobody is connected, and nobody counted.                                *)
LEMMA Initially == Init => IInv
<1> SUFFICES ASSUME Init PROVE IInv
  OBVIOUS
<1>1. Counted = {}
  BY DEF Init, Counted
<1>2. Counts
  BY <1>1, FS_EmptySet DEF Init, Counts
<1>q. QED
  BY <1>2, SoundInitially DEF IInv

(* A step that counts keeps the bound.                                     *)
LEMMA CountsStep ==
  ASSUME Types, Types', Counts, Counting
  PROVE  Counts'
<1>1. IsFiniteSet(Counted) /\ Cardinality(Counted) \in Nat /\ sessionCount \in Int
  BY ZenonT(30), CountedFinite DEF Types
<1>2. Counted' \subseteq byID' /\ IsFiniteSet(byID')
  BY FrontendAssumption, FS_Subset DEF Types, Counted
<1>3. IsFiniteSet(Counted') /\ Cardinality(Counted') \in Nat
  BY <1>2, FS_Subset, FS_CardinalityType
<1>4. CASE sessionCount' = sessionCount /\ Counted \subseteq Counted'
  <2>1. Cardinality(Counted) <= Cardinality(Counted')
    BY <1>3, <1>4, FS_Subset
  <2>q. QED
    BY <1>1, <1>3, <1>4, <2>1 DEF Counts
<1>5. ASSUME NEW s, sessionCount' = sessionCount + 1, s \notin Counted, Counted \cup {s} \subseteq Counted'
      PROVE  Counts'
  <2>1. Cardinality(Counted \cup {s}) = Cardinality(Counted) + 1
    BY ZenonT(20), <1>1, <1>5, FS_AddElement
  <2>2. Cardinality(Counted \cup {s}) <= Cardinality(Counted')
    BY <1>3, <1>5, FS_Subset
  <2>q. QED
    BY <1>1, <1>3, <1>5, <2>1, <2>2 DEF Counts
<1>6. ASSUME NEW s, sessionCount' = sessionCount - 1, Counted \ {s} \subseteq Counted'
      PROVE  Counts'
  <2>1. Cardinality(Counted \ {s}) = IF s \in Counted THEN Cardinality(Counted) - 1 ELSE Cardinality(Counted)
    BY ZenonT(20), <1>1, FS_RemoveElement
  <2>2. Cardinality(Counted \ {s}) <= Cardinality(Counted')
    BY <1>3, <1>6, FS_Subset
  <2>q. QED
    BY <1>1, <1>3, <1>6, <2>1, <2>2 DEF Counts
<1>q. QED
  BY ZenonT(30), <1>4, <1>5, <1>6 DEF Counting

(* Every step of the frontend keeps the inductive invariant.               *)
LEMMA Inductive == IInv /\ [Next]_vars => IInv'
<1> SUFFICES ASSUME IInv, [Next]_vars PROVE IInv'
  OBVIOUS
<1>1. Types /\ Counts /\ Sound' /\ Counting
  BY SoundStep DEF IInv, Sound
<1>2. Types'
  BY <1>1 DEF Sound
<1>q. QED
  BY <1>1, <1>2, CountsStep DEF IInv

(* CloseExact: for any number of sessions that connect, bind, are kicked,  *)
(* fail and are swept by CloseAll at once, agent.Close runs the callbacks  *)
(* of each once, a reader that is done has left a closed agent and an      *)
(* empty place in the pool, and SessionCount is at most the number of      *)
(* sessions the pool holds, although Session.Close may uncount one twice.  *)
THEOREM ClosingIsExact == Spec => []CloseExact
<1>1. IInv => CloseExact
  <2> SUFFICES ASSUME IInv PROVE CloseExact
    OBVIOUS
  <2>1. Types /\ Agents /\ Calls /\ Counts
    BY DEF IInv, Sound
  <2>2. ClosedOnce
    BY ZenonT(30), <2>1 DEF Agents, Calls, ClosedOnce
  <2>3. NeverOvercounts
    BY <2>1, CountedFinite DEF Counts, Types, NeverOvercounts
  <2>q. QED
    BY <2>2, <2>3 DEF CloseExact
<1>q. QED
  BY <1>1, Initially, Inductive, PTL DEF Spec
=============================================================================
