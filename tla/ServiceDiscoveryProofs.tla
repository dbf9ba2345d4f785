----------------------- MODULE ServiceDiscoveryProofs -----------------------
(***************************************************************************)
(* The theorems about service discovery, for every set of keys in which no *)
(* server id is registered under two types (OneKeyPerId).                  *)
(***************************************************************************)
EXTENDS ServiceDiscoveryCache, TLAPS

(* The loops and the shutdown leave the cache and the listeners alone, and *)
(* take the lock only when it is free.                                     *)
LEMMA OthersListen ==
  ASSUME Loops \/ Life \/ UNCHANGED vars
  PROVE  /\ UNCHANGED <<cache, changes, view>> /\ (listening' => listening)
         /\ phase' \in {"idle", "read"} => phase' = phase \/ mu = None
<1> USE DEF lockVars, watchVars, downVars
<1>1. CASE Loops
  BY <1>1 DEF Loops, SyncRead, SyncFail, Receive, StreamEnds, WatchLoop, MaySync, ApplyBegin, TickerStops
<1>2. CASE Life
  BY <1>2 DEF Life, BeforeShutdown, Shutdown, ShutdownJoins
<1>3. CASE UNCHANGED vars
  BY <1>3 DEF vars
<1> QED
  BY <1>1, <1>2, <1>3

(* A revision etcd appends changes nothing about the earlier ones.         *)
LEMMA ReflectsKept ==
  ASSUME NEW k \in Keys, NEW srv, NEW r \in 0..Now, Now \in Nat,
         \A q \in 1..Now : etcd'[q] = etcd[q]
  PROVE  Reflects(srv, r, k) <=> Reflects(srv, r, k)'
<1>1. \A q \in 1..r : At(q)' = At(q)
  BY DEF At
<1>2. CASE r = 0
  BY <1>2 DEF Reflects
<1>3. CASE r # 0
  <2>1. At(r)' = At(r)
    BY <1>1, <1>3
  <2> QED
    BY <1>1, <2>1, <1>3 DEF Reflects
<1> QED
  BY <1>2, <1>3

(* The revision a key's cache entry stands at lies in etcd's history.      *)
LEMMA LevelRange ==
  ASSUME TypeOK, LockInv, NEW k \in Keys
  PROVE  Level(k) \in 0..Now
<1>0. /\ Len(etcd) \in Nat /\ applied \in Nat /\ revision \in Nat
      /\ hand \in [from : Nat, to : Nat]
  BY DEF TypeOK
<1> QED
  BY <1>0 DEF Level, LockInv, Now

(* Each store, each removal and each skipped event leaves the entry of its *)
(* key at the revision that key has reached.                               *)
LEMMA CacheStep ==
  ASSUME OneKeyPerId, TypeOK, LockInv, EtcdInv, EventInv, CacheInv,
         NoEventSkipped, [Next]_vars
  PROVE  CacheInv'
<1> USE DEF lockVars, watchVars, downVars
<1>0. /\ Now \in Nat /\ applied \in Nat /\ revision \in Nat
      /\ hand \in [from : Nat, to : Nat] /\ cache \in [Ids -> Cell]
  BY DEF TypeOK, Now
<1>1. CASE Etcd
  <2>1. PICK keys \in SUBSET Keys, doc \in Docs \cup {Bad, None} : Commit(keys, doc)
    BY <1>1, EtcdCommits
  <2>2. \A r \in 1..Now : etcd'[r] = etcd[r]
    BY <2>1, CommitAppends
  <2>3. UNCHANGED <<cache, applied, lockVars, watchVars>>
    BY ZenonT(30), <2>1 DEF Commit
  <2> SUFFICES ASSUME NEW k \in Keys
               PROVE  Reflects(cache[KeyId[k]].srv, Level(k), k)'
    BY DEF CacheInv
  <2>4. Level(k)' = Level(k) /\ Level(k) \in 0..Now
    BY <2>3, LevelRange DEF Level
  <2>5. Reflects(cache[KeyId[k]].srv, Level(k), k)
    BY ZenonT(30) DEF CacheInv
  <2>6. (Reflects(cache[KeyId[k]].srv, Level(k), k))' <=> Reflects(cache[KeyId[k]].srv, Level(k), k)
    BY ZenonT(30), <1>0, <2>2, <2>3, <2>4, ReflectsKept
  <2> QED
    BY ZenonT(30), <2>5, <2>6
<1>2. ASSUME etcd' = etcd, NEW k \in Keys, Level(k)' \in 0..Now,
             Reflects(cache'[KeyId[k]].srv, Level(k)', k)
      PROVE  Reflects(cache[KeyId[k]].srv, Level(k), k)'
  BY <1>0, <1>2, ReflectsKept
<1>3. \A k \in Keys : /\ Level(k) \in 0..Now /\ KeyId[k] \in Ids
                      /\ Reflects(cache[KeyId[k]].srv, Level(k), k)
  BY ZenonT(30), LevelRange, KeysAssumption DEF CacheInv
<1>4. ASSUME UNCHANGED <<etcd, cache>>, \A k \in Keys : Level(k)' = Level(k)
      PROVE  CacheInv'
  BY <1>2, <1>3, <1>4 DEF CacheInv
<1>5. CASE SyncPlan
  <2>1. CASE phase' = "store"
    <3>1. /\ UNCHANGED <<etcd, cache, applied, revision>>
          /\ todo' = {id \in Ids : Differs(id)}
          /\ phase = "read" /\ applied <= revision /\ revision \in 1..Now
      BY <1>0, <1>5, <2>1 DEF SyncPlan, Release, LockInv
    <3>2. ASSUME NEW k \in Keys
          PROVE  Reflects(cache[KeyId[k]].srv, Level(k), k)'
      <4>1. Level(k) = applied /\ Level(k)' = IF KeyId[k] \in todo' THEN applied ELSE revision
        BY <2>1, <3>1 DEF Level
      <4>2. KeyId[k] \notin todo' => cache[KeyId[k]].srv = Synced(revision, KeyId[k])
        BY <1>3, <3>1 DEF Differs
      <4>3. Reflects(Synced(revision, KeyId[k]), revision, k)
        BY <1>0, <1>3, <3>1, <4>1, SyncedReflects
      <4> QED
        BY <1>0, <1>2, <1>3, <3>1, <4>1, <4>2, <4>3
    <3> QED
      BY ZenonT(30), <3>2 DEF CacheInv
  <2>2. CASE phase' # "store"
    <3>1. UNCHANGED <<etcd, cache, applied>> /\ phase = "read" /\ phase' = "idle"
      BY <1>5, <2>2 DEF SyncPlan, Release
    <3> QED
      BY <1>4, <3>1 DEF Level
  <2> QED
    BY <2>1, <2>2
<1>6. ASSUME NEW id \in Ids, SyncStore(id) \/ SyncRemove(id)
      PROVE  CacheInv'
  <2>1. /\ UNCHANGED <<etcd, applied, phase, revision>>
        /\ todo' = todo \ {id} /\ phase = "store" /\ id \in todo
        /\ cache'[id].srv = Synced(revision, id)
        /\ \A i \in Ids \ {id} : cache'[i] = cache[i]
    BY <1>0, <1>6 DEF SyncStore, SyncRemove, storeServerLocked, removeServerLocked
  <2>2. applied <= revision /\ revision \in 1..Now
    BY <2>1 DEF LockInv
  <2>3. ASSUME NEW k \in Keys
        PROVE  Reflects(cache[KeyId[k]].srv, Level(k), k)'
    <3>1. CASE KeyId[k] = id
      <4>1. Level(k) = applied /\ Level(k)' = revision
        BY ZenonT(30), <2>1, <3>1 DEF Level
      <4>2. Reflects(Synced(revision, id), revision, k)
        BY <1>3, <2>1, <2>2, <3>1, <4>1, SyncedReflects
      <4> QED
        BY <1>0, <1>2, <2>1, <2>2, <3>1, <4>1, <4>2
    <3>2. CASE KeyId[k] # id
      <4>1. Level(k)' = Level(k) /\ cache'[KeyId[k]] = cache[KeyId[k]]
        BY <1>3, <2>1, <3>2 DEF Level
      <4> QED
        BY <1>2, <1>3, <2>1, <4>1
    <3> QED
      BY ZenonT(30), <3>1, <3>2
  <2> QED
    BY ZenonT(30), <2>3 DEF CacheInv
<1>7. CASE SyncCommit
  <2>1. \A k \in Keys : Level(k)' = Level(k)
    BY ZenonT(30), <1>7 DEF SyncCommit, Level
  <2> QED
    BY <1>4, <1>7, <2>1 DEF SyncCommit
<1>8. CASE ApplyBegin
  <2>1. SUFFICES ASSUME ~Cancelled
                 PROVE  CacheInv'
    <3>1. Cancelled => UNCHANGED <<etcd, cache, applied, phase>> /\ phase = "idle"
      BY <1>8 DEF ApplyBegin, LockInv
    <3>2. Cancelled => \A k \in Keys : Level(k)' = Level(k)
      BY ZenonT(30), <3>1 DEF Level
    <3> QED
      BY ZenonT(30), <1>4, <2>1, <3>1, <3>2
  <2>2. /\ UNCHANGED <<etcd, cache, applied, hand>>
        /\ todo' = etcd[hand.from].touched
        /\ phase = "idle" /\ phase' = "events" /\ hand.from \in 1..Now
    BY <1>0, <1>8, <2>1 DEF ApplyBegin, LockInv
  <2>3. \A r \in applied + 1 .. hand.from - 1 : etcd[r].touched = {}
    BY ZenonT(30), <1>0, <1>8, <2>1 DEF ApplyBegin, NoEventSkipped, Awaited, LockInv
  <2>4. ASSUME NEW k \in Keys
        PROVE  Reflects(cache[KeyId[k]].srv, Level(k), k)'
    <3>1. Level(k) = applied
      BY <2>2 DEF Level
    <3>2. Level(k)' = IF hand.from <= applied THEN applied
                      ELSE IF k \in etcd[hand.from].touched THEN hand.from - 1
                      ELSE hand.from
      BY <2>2 DEF Level
    <3>3. Level(k)' \in 0..Now /\ applied \in 0..Level(k)'
      BY <1>0, <1>3, <2>2, <3>1, <3>2
    <3>4. \A s \in applied + 1 .. Level(k)' : k \notin etcd[s].touched
      BY <1>0, <2>2, <2>3, <3>2
    <3>5. Reflects(cache[KeyId[k]].srv, Level(k)', k)
      BY ZenonT(30), <1>3, <3>1, <3>3, <3>4, ReflectsQuiet
    <3> QED
      BY <1>2, <2>2, <3>3, <3>5
  <2> QED
    BY <2>4 DEF CacheInv
<1>9. ASSUME NEW k \in Keys, ApplyEvent(k)
      PROVE  CacheInv'
  <2> DEFINE id == KeyId[k]
             doc == At(hand.from)[k]
  <2>1. /\ UNCHANGED <<etcd, applied, phase, hand>>
        /\ todo' = todo \ {k} /\ k \in todo /\ phase = "events"
        /\ hand.from \in 1..Now /\ hand.to \in Nat
    BY <1>0, <1>9, EventFrame DEF LockInv
  <2>2. \A i \in Ids \ {id} : cache'[i] = cache[i]
    BY ZenonT(30), <1>0, <1>9, EventCell
  <2>3. ASSUME NEW j \in Keys, j # k
        PROVE  Reflects(cache[KeyId[j]].srv, Level(j), j)'
    <3>1. KeyId[j] # id
      BY <2>3 DEF OneKeyPerId
    <3>2. Level(j)' = Level(j) /\ cache'[KeyId[j]] = cache[KeyId[j]]
      BY <1>3, <2>1, <2>2, <2>3, <3>1 DEF Level
    <3> QED
      BY <1>2, <1>3, <2>1, <3>2
  <2>4. Reflects(cache[id].srv, Level(k), k)'
    <3>1. CASE hand.from <= applied
      <4>1. cache' = cache
        BY <1>0, <1>9, <3>1, EventCell
      <4>2. Level(k)' = Level(k)
        BY ZenonT(30), <2>1, <3>1 DEF Level
      <4> QED
        BY ZenonT(30), <1>2, <1>3, <2>1, <4>1, <4>2
    <3>2. CASE ~(hand.from <= applied)
      <4>1. Level(k) = hand.from - 1 /\ Level(k)' = hand.from
        BY <2>1, <3>2 DEF Level
      <4>2. hand.from > applied
        BY <1>0, <2>1, <3>2
      <4>3. doc \in Docs \cup {Bad, None}
        BY ZenonT(30), <2>1, RevisionType
      <4>4. \/ Visible(k) /\ doc \in Docs /\ cache'[id].srv = Registration(k, doc)
            \/ Visible(k) /\ doc = None /\ cache'[id].srv = None
            \/ /\ ~Visible(k) \/ doc = Bad \/ (doc = None /\ cache[id].srv = None)
               /\ cache'[id].srv = cache[id].srv
        BY ZenonT(30), <1>0, <1>9, <4>2, EventCell
      <4>5. Reflects(cache[id].srv, hand.from - 1, k)
        BY ZenonT(30), <1>3, <4>1
      <4>6. cache[id].srv = None \/ \E q \in 1..hand.from - 1 : cache[id].srv = Registration(k, At(q)[k])
        BY <2>1, <4>5, ReflectsPast
      <4>7. ~Visible(k) => cache[id].srv = None
        BY <4>5 DEF Reflects
      <4>8. hand.from # 0 /\ \A q \in 1..hand.from - 1 : q \in 1..hand.from
        BY <2>1
      <4>9. Reflects(cache'[id].srv, hand.from, k)
        BY ZenonT(30), <4>3, <4>4, <4>6, <4>7, <4>8, KeysAssumption DEF Reflects
      <4> QED
        BY <1>0, <1>2, <2>1, <4>1, <4>9
    <3> QED
      BY <3>1, <3>2
  <2> QED
    BY ZenonT(30), <2>3, <2>4 DEF CacheInv
<1>10. CASE ApplyNext
  <2>1. /\ UNCHANGED <<etcd, cache, applied, phase>> /\ phase = "events" /\ todo = {}
        /\ hand'.from = hand.from + 1 /\ todo' = etcd[hand.from + 1].touched
        /\ hand.from \in 1..Now /\ hand.from + 1 \in 1..Now
    BY <1>0, <1>10 DEF ApplyNext, LockInv
  <2>2. ASSUME NEW k \in Keys
        PROVE  Reflects(cache[KeyId[k]].srv, Level(k), k)'
    <3>1. Level(k) = IF hand.from <= applied THEN applied ELSE hand.from
      BY <2>1 DEF Level
    <3>2. Level(k)' = IF hand.from + 1 <= applied THEN applied
                      ELSE IF k \in etcd[hand.from + 1].touched THEN hand.from
                      ELSE hand.from + 1
      BY <1>0, <2>1 DEF Level
    <3>3. Level(k)' \in 0..Now /\ Level(k) \in 0..Level(k)'
      BY <1>0, <1>3, <2>1, <3>1, <3>2
    <3>4. \A s \in Level(k) + 1 .. Level(k)' : k \notin etcd[s].touched
      BY <1>0, <2>1, <3>1, <3>2
    <3>5. Reflects(cache[KeyId[k]].srv, Level(k)', k)
      BY ZenonT(30), <1>3, <3>3, <3>4, ReflectsQuiet
    <3> QED
      BY <1>2, <2>1, <3>3, <3>5
  <2> QED
    BY <2>2 DEF CacheInv
<1>11. CASE ApplyCommit
  <2>1. /\ UNCHANGED <<etcd, cache>> /\ phase = "events" /\ phase' = "notify"
        /\ todo = {} /\ applied' = revision
        /\ hand.from \in 1..Now /\ revision <= Now /\ applied <= revision
    BY <1>0, <1>11 DEF ApplyCommit, LockInv
  <2>2. /\ revision = applied \/ revision <= hand.from
        /\ \A r \in revision + 1 .. hand.from : etcd[r].touched = {}
    BY <1>0, <2>1 DEF EventInv
  <2>3. ASSUME NEW k \in Keys
        PROVE  Reflects(cache[KeyId[k]].srv, Level(k), k)'
    <3>1. Level(k) = IF hand.from <= applied THEN applied ELSE hand.from
      BY <2>1 DEF Level
    <3>2. Level(k)' = revision
      BY <2>1 DEF Level
    <3>3. Level(k) \in 0..Now /\ revision \in 0..Level(k) /\ revision \in 0..Now
      BY <1>0, <1>3, <2>1, <2>2, <3>1
    <3>4. \A s \in revision + 1 .. Level(k) : k \notin etcd[s].touched
      BY <1>0, <2>1, <2>2, <3>1
    <3>5. Reflects(cache[KeyId[k]].srv, revision, k)
      BY <1>3, <3>3, <3>4, ReflectsQuiet
    <3> QED
      BY ZenonT(30), <1>2, <2>1, <3>2, <3>3, <3>5
  <2> QED
    BY <2>3 DEF CacheInv
<1>12. CASE Notify \/ Unlock
  <2>1. UNCHANGED <<etcd, cache, applied>> /\ phase = "notify" /\ phase' \in {"notify", "idle"}
    BY <1>12 DEF Notify, Unlock, Release
  <2> QED
    BY <1>4, <2>1 DEF Level
<1>13. ASSUME NEW p \in Callers, SyncRead(p)
       PROVE  CacheInv'
  <2>1. UNCHANGED <<etcd, cache, applied>> /\ phase = "idle" /\ phase' = "read"
    BY <1>13 DEF SyncRead, MaySync, LockInv
  <2> QED
    BY <1>4, <2>1 DEF Level
<1>14. ASSUME UNCHANGED <<etcd, cache, applied, phase, revision, todo>>,
              phase # "events" \/ hand' = hand
       PROVE  CacheInv'
  BY ZenonT(30), <1>4, <1>14 DEF Level
<1>15. ASSUME NEW to \in 1..MaxRevision, Receive(to)
       PROVE  CacheInv'
  BY ZenonT(30), <1>14, <1>15 DEF Receive, LockInv
<1>16. CASE StreamEnds \/ WatchLoop \/ TickerStops \/ \E p \in Callers : SyncFail(p)
  BY <1>14, <1>16 DEF StreamEnds, WatchLoop, TickerStops, SyncFail
<1>17. CASE Life
  BY <1>14, <1>17 DEF Life, BeforeShutdown, Shutdown, ShutdownJoins
<1>18. CASE UNCHANGED vars
  BY <1>14, <1>18 DEF vars
<1> QED
  BY <1>1, <1>5, <1>6, <1>7, <1>8, <1>9, <1>10, <1>11, <1>12, <1>13, <1>15,
     <1>16, <1>17, <1>18 DEF Next, Holder, Loops
-----------------------------------------------------------------------------
(* The invariant holds when the server has just registered itself.         *)
LEMMA InvInit ==
  ASSUME OneKeyPerId, Init
  PROVE  IInv
<1>1. PICK d \in Docs :
        etcd = << [at |-> [k \in Keys |-> IF k = SelfKey THEN d ELSE None],
                   touched |-> {SelfKey}] >>
  BY Zenon DEF Init
<1> DEFINE first == [at |-> [k \in Keys |-> IF k = SelfKey THEN d ELSE None],
                     touched |-> {SelfKey}]
<1>2. first \in Revision /\ first.touched = {SelfKey}
      /\ \A k \in Keys \ {SelfKey} : first.at[k] = None
  BY KeysAssumption DEF Revision
<1> HIDE DEF first
<1>3. etcd = <<first>>
  BY <1>1 DEF first
<1>4. Now = 1 /\ etcd[1] = first /\ etcd \in Seq(Revision)
  BY <1>2, <1>3 DEF Now
<1>5. EmptyCell \in Cell /\ EmptyCell.srv = None
  BY DEF EmptyCell, Cell
<1>6. TypeOK
  BY <1>4, <1>5 DEF Init, TypeOK, NoHand, Callers
<1>7. LockInv
  BY <1>4 DEF Init, LockInv, NoHand
<1>8. EtcdInv
  BY <1>2, <1>4 DEF EtcdInv, At
<1>9. EventInv /\ NoEventSkipped
  BY DEF Init, EventInv, NoEventSkipped
<1>10. CacheInv
  <2>1. \A k \in Keys : cache[KeyId[k]].srv = None /\ Level(k) = 0
    BY <1>5, KeysAssumption DEF Init, Level
  <2> QED
    BY <2>1 DEF CacheInv, Reflects
<1> QED
  BY <1>6, <1>7, <1>8, <1>9, <1>10 DEF IInv

(* The conjuncts of the invariant are inductive together.                  *)
LEMMA InvStep ==
  ASSUME OneKeyPerId, IInv, [Next]_vars
  PROVE  IInv'
BY TypeStep, LockStep, EtcdStep, EventStep, CacheStep, StreamStep DEF IInv

(* The invariant holds in every state.                                     *)
LEMMA InvHolds ==
  ASSUME OneKeyPerId
  PROVE  Spec => []IInv
BY InvInit, InvStep, PTL DEF Spec

(* Every variable of the discovery cache keeps its type; that a snapshot   *)
(* only stores servers needs the lock invariant.                           *)
THEOREM TypeTheorem ==
  ASSUME OneKeyPerId
  PROVE  Spec => []TypeOK
<1>1. IInv => TypeOK
  BY DEF IInv
<1> QED
  BY <1>1, InvHolds, PTL

(* However snapshots of the ticker, of callers and of the watch loop, the  *)
(* events of streams broken and rebuilt, and failed reads interleave, the  *)
(* cache that applyWatchResponse and syncServersLocked maintain is always  *)
(* the registry of exactly the applied revision.                           *)
THEOREM CacheTheorem ==
  ASSUME OneKeyPerId
  PROVE  Spec => []CacheIsSnapshot
<1>1. IInv => CacheIsSnapshot
  BY DEF IInv, CacheInv, CacheIsSnapshot, Readable, Level
<1> QED
  BY <1>1, InvHolds, PTL

(* watchEtcdChanges loses no event between the snapshot and the stream.    *)
THEOREM StreamTheorem ==
  ASSUME OneKeyPerId
  PROVE  Spec => []NoEventSkipped
<1>1. IInv => NoEventSkipped
  BY DEF IInv
<1> QED
  BY <1>1, InvHolds, PTL

(* Both together: what the cache holds is a revision of the registry, and  *)
(* no later one is lost on the way to it.                                  *)
THEOREM ExactTheorem ==
  ASSUME OneKeyPerId
  PROVE  Spec => []CacheExact
<1>1. CacheIsSnapshot /\ NoEventSkipped => CacheExact
  BY DEF CacheExact
<1> QED
  BY <1>1, CacheTheorem, StreamTheorem, PTL

(* The revision the cache stands at never goes back, whichever goroutine   *)
(* commits, and only the holder of reconcileMu changes the cache.          *)
THEOREM AdvanceTheorem ==
  ASSUME OneKeyPerId
  PROVE  Spec => RevisionsAdvance
<1> DEFINE Goal == applied' >= applied /\ (cache' # cache => mu \in Callers /\ mu' = mu)
<1>1. ASSUME IInv, [Next]_vars PROVE [Goal]_vars
  <2> USE <1>1 DEF lockVars, watchVars, downVars
  <2>0. /\ applied \in Nat /\ revision \in Nat /\ mu \in Callers \cup {None}
        /\ mu = None <=> phase = "idle"
        /\ phase \in {"store", "events"} => applied <= revision
    BY DEF IInv, TypeOK, LockInv
  <2>1. CASE Etcd
    <3>1. PICK keys \in SUBSET Keys, doc \in Docs \cup {Bad, None} : Commit(keys, doc)
      BY <2>1, EtcdCommits
    <3> QED
      BY <2>0, <3>1 DEF Commit
  <2>2. CASE \E id \in Ids : SyncStore(id) \/ SyncRemove(id)
    BY <2>0, <2>2 DEF SyncStore, SyncRemove
  <2>3. CASE \E k \in Keys : ApplyEvent(k)
    BY <2>0, <2>3, EventFrame
  <2>4. CASE SyncCommit \/ ApplyCommit
    BY <2>0, <2>4 DEF SyncCommit, ApplyCommit
  <2>5. CASE SyncPlan \/ ApplyNext \/ Notify \/ Unlock
    BY <2>0, <2>5 DEF SyncPlan, ApplyNext, Notify, Unlock
  <2>6. CASE Loops
    BY <2>0, <2>6 DEF Loops, SyncRead, SyncFail, Receive, StreamEnds, WatchLoop,
                      ApplyBegin, TickerStops
  <2>7. CASE Life
    BY <2>0, <2>7 DEF Life, BeforeShutdown, Shutdown, ShutdownJoins
  <2> QED
    BY <2>1, <2>2, <2>3, <2>4, <2>5, <2>6, <2>7 DEF Next, Holder
<1> QED
  BY <1>1, InvHolds, PTL DEF Spec, RevisionsAdvance

-----------------------------------------------------------------------------
(* The indexes of every id agree after each single store and removal.      *)
CellAgrees(id, cell) ==
  LET own == IF cell.srv = None THEN {} ELSE {cell.srv.type} IN
  cell.types = own /\ cell.rings = IF id = Self THEN {} ELSE own

(* storeServerLocked leaves the three indexes of an id in agreement.       *)
LEMMA StoreAgrees ==
  ASSUME NEW id \in Ids, NEW cell \in Cell, NEW sv \in Server, CellAgrees(id, cell)
  PROVE  CellAgrees(id, storeServerLocked(id, cell, sv))
<1>1. sv # None
  BY KeysAssumption
<1> QED
  BY <1>1 DEF CellAgrees, storeServerLocked

(* removeServerLocked leaves the three indexes of an id in agreement.      *)
LEMMA RemoveAgrees ==
  ASSUME NEW id \in Ids, NEW cell \in Cell, cell.srv # None, CellAgrees(id, cell)
  PROVE  CellAgrees(id, removeServerLocked(cell))
BY DEF CellAgrees, removeServerLocked

(* An id that is in no index agrees.                                       *)
LEMMA EmptyAgrees == ASSUME NEW id PROVE CellAgrees(id, EmptyCell)
BY DEF CellAgrees, EmptyCell

(* The invariant behind IndexesAgree.                                      *)
IndexInv == \A id \in Ids : CellAgrees(id, cache[id])

(* No step leaves the indexes of an id in disagreement.                    *)
LEMMA IndexStep ==
  ASSUME OneKeyPerId, IInv, IndexInv, [Next]_vars
  PROVE  IndexInv'
<1>0. cache \in [Ids -> Cell] /\ TypeOK /\ LockInv
  BY DEF IInv, TypeOK
<1>1. CASE cache' = cache
  BY <1>1 DEF IndexInv
<1>2. ASSUME NEW id \in Ids, SyncStore(id) PROVE IndexInv'
  <2>1. Synced(revision, id) \in Server
    BY <1>0, <1>2, SnapshotType DEF SyncStore, LockInv
  <2>2. cache' = [cache EXCEPT ![id] = storeServerLocked(id, cache[id], Synced(revision, id))]
    BY <1>2 DEF SyncStore
  <2> QED
    BY <1>0, <2>1, <2>2, StoreAgrees DEF IndexInv
<1>3. ASSUME NEW id \in Ids, SyncRemove(id) PROVE IndexInv'
  <2>1. cache[id].srv # None
    BY <1>0, <1>3 DEF SyncRemove, LockInv, Differs
  <2>2. cache' = [cache EXCEPT ![id] = removeServerLocked(cache[id])]
    BY <1>3 DEF SyncRemove
  <2> QED
    BY <1>0, <2>1, <2>2, RemoveAgrees DEF IndexInv
<1>4. ASSUME NEW k \in Keys, ApplyEvent(k) PROVE IndexInv'
  <2> DEFINE id == KeyId[k]
             sv == Registration(k, At(hand.from)[k])
  <2>1. id \in Ids
    BY KeysAssumption
  <2>2. At(hand.from)[k] \in Docs => sv \in Server
    BY ZenonT(30), KeysAssumption DEF Registration, Server
  <2>3. \/ sv \in Server /\ cache' = [cache EXCEPT ![id] = storeServerLocked(id, cache[id], sv)]
        \/ cache[id].srv # None /\ cache' = [cache EXCEPT ![id] = removeServerLocked(cache[id])]
        \/ cache' = cache
    BY <1>4, <2>2, EventCases
  <2> HIDE DEF id, sv
  <2> QED
    BY <1>0, <1>1, <2>1, <2>3, StoreAgrees, RemoveAgrees DEF IndexInv
<1>5. ASSUME Etcd PROVE cache' = cache
  BY Zenon, <1>5, EtcdCommits DEF Commit
<1>6. Loops \/ Life \/ UNCHANGED vars => cache' = cache
  BY DEF Loops, Life, SyncRead, SyncFail, Receive, StreamEnds, WatchLoop,
         ApplyBegin, TickerStops, BeforeShutdown, Shutdown, ShutdownJoins, vars
<1>7. SyncPlan \/ SyncCommit \/ ApplyNext \/ ApplyCommit \/ Notify \/ Unlock => cache' = cache
  BY DEF SyncPlan, SyncCommit, ApplyNext, ApplyCommit, Notify, Unlock
<1> QED
  BY <1>1, <1>2, <1>3, <1>4, <1>5, <1>6, <1>7 DEF Next, Holder

(* storeServerLocked and removeServerLocked keep serverMapByID, the map by *)
(* type and the hash rings in agreement.                                   *)
THEOREM IndexTheorem ==
  ASSUME OneKeyPerId
  PROVE  Spec => []IndexesAgree
<1>1. Init => IndexInv
  BY ZenonT(30), EmptyAgrees DEF Init, IndexInv
<1>2. IndexInv => IndexesAgree
  BY DEF IndexInv, CellAgrees, IndexesAgree
<1>3. IInv /\ IndexInv /\ [Next]_vars => IndexInv'
  BY IndexStep
<1> QED
  BY <1>1, <1>2, <1>3, InvHolds, PTL DEF Spec

(* Once Shutdown returned no reconciliation runs: the join on the lock     *)
(* covers public SyncServers calls too.                                    *)
THEOREM ShutdownTheorem ==
  ASSUME OneKeyPerId
  PROVE  Spec => []QuietAfterShutdown
<1>1. Init => QuietAfterShutdown
  BY DEF Init, QuietAfterShutdown
<1>2. ASSUME IInv, QuietAfterShutdown, [Next]_vars PROVE QuietAfterShutdown'
  <2> USE <1>2 DEF lockVars, watchVars, downVars
  <2>1. mu = None <=> phase = "idle"
    BY DEF IInv, LockInv
  <2>2. CASE Etcd
    BY Zenon, <2>2, EtcdCommits DEF Commit, QuietAfterShutdown
  <2>3. CASE Holder
    <3>1. phase # "idle" /\ down' = down
      BY <2>3 DEF Holder, SyncPlan, SyncStore, SyncRemove, SyncCommit, ApplyEvent,
                  ApplyNext, ApplyCommit, Notify, Unlock
    <3> QED
      BY <3>1 DEF QuietAfterShutdown
  <2>4. CASE Loops
    BY <2>4 DEF Loops, SyncRead, SyncFail, Receive, StreamEnds, WatchLoop,
                ApplyBegin, TickerStops, Cancelled, QuietAfterShutdown
  <2>5. CASE Life
    BY <2>1, <2>5 DEF Life, BeforeShutdown, Shutdown, ShutdownJoins, QuietAfterShutdown
  <2> QED
    BY <2>2, <2>3, <2>4, <2>5 DEF Next, vars, QuietAfterShutdown
<1> QED
  BY <1>1, <1>2, InvHolds, PTL DEF Spec

-----------------------------------------------------------------------------
(* What a listener takes the server of a change to be once it has heard it.*)
Heard(ch) == IF ch.action = "DEL" THEN None ELSE ch.server

(* No change of the positions S of a list is about an id.                  *)
Silent(id, chs, S) == \A i \in S : chs[i].id # id

(* The changes still to be notified lead from what the listeners know of   *)
(* an id (told) to what the cache holds of it (held), and each is an ADD   *)
(* exactly when the one before it left the id unknown.                     *)
Leads(id, chs, told, held) ==
  /\ Silent(id, chs, 1..Len(chs)) => told = held
  /\ \A j \in 1..Len(chs) : chs[j].id = id =>
       /\ Silent(id, chs, 1..(j - 1)) => (chs[j].action = "ADD" <=> told = None)
       /\ Silent(id, chs, (j + 1)..Len(chs)) => Heard(chs[j]) = held
       /\ \A i \in 1..(j - 1) : chs[i].id = id /\ Silent(id, chs, (i + 1)..(j - 1)) =>
            (chs[j].action = "ADD" <=> Heard(chs[i]) = None)

(* While somebody listens, that is so for every other server; changes wait *)
(* only in the hands of the holder of the lock.                            *)
ListenInv ==
  /\ phase \in {"idle", "read"} => changes = <<>>
  /\ listening => \A id \in Ids \ {Self} : Leads(id, changes, view[id], cache[id].srv)

(* A change of an id that fits what the cache held extends its list.       *)
LEMMA LeadsOn ==
  ASSUME NEW id, NEW chs \in Seq(ServerChange), NEW told, NEW held,
         NEW ch \in ServerChange, ch.id = id, Leads(id, chs, told, held),
         ch.action = "ADD" <=> held = None
  PROVE  Leads(id, Append(chs, ch), told, Heard(ch))
<1> DEFINE n == Len(chs)
           new == Append(chs, ch)
<1>0. n \in Nat
  OBVIOUS
<1>1. n \in Nat /\ Len(new) = n + 1 /\ new[n + 1] = ch /\ \A i \in 1..n : new[i] = chs[i]
  OBVIOUS
<1> HIDE DEF n, new
<1>2. ASSUME NEW a \in Nat, NEW b \in 0..n, 1 <= a
      PROVE  Silent(id, new, a..b) <=> Silent(id, chs, a..b)
  BY <1>1, <1>2 DEF Silent
<1>3. ~Silent(id, new, 1..(n + 1))
  BY <1>1 DEF Silent
<1>4. \A j \in 1..n : ~Silent(id, new, (j + 1)..(n + 1))
  BY <1>1 DEF Silent
<1>5. Silent(id, chs, 1..n) => told = held
  BY DEF Leads, n
<1>6. ASSUME NEW j \in 1..n, chs[j].id = id
      PROVE  /\ Silent(id, chs, 1..(j - 1)) => (chs[j].action = "ADD" <=> told = None)
             /\ Silent(id, chs, (j + 1)..n) => Heard(chs[j]) = held
             /\ \A i \in 1..(j - 1) : chs[i].id = id /\ Silent(id, chs, (i + 1)..(j - 1)) =>
                  (chs[j].action = "ADD" <=> Heard(chs[i]) = None)
  BY <1>6 DEF Leads, n
<1>7. ASSUME NEW j \in 1..(n + 1), new[j].id = id
      PROVE  /\ Silent(id, new, 1..(j - 1)) => (new[j].action = "ADD" <=> told = None)
             /\ Silent(id, new, (j + 1)..(n + 1)) => Heard(new[j]) = Heard(ch)
             /\ \A i \in 1..(j - 1) : new[i].id = id /\ Silent(id, new, (i + 1)..(j - 1)) =>
                  (new[j].action = "ADD" <=> Heard(new[i]) = None)
  <2>1. CASE j \in 1..n
    <3>1. new[j] = chs[j] /\ \A i \in 1..(j - 1) : new[i] = chs[i]
      BY <1>1, <2>1
    <3>2. Silent(id, new, 1..(j - 1)) <=> Silent(id, chs, 1..(j - 1))
      BY <1>1, <1>2, <2>1
    <3>3. ASSUME NEW i \in 1..(j - 1)
          PROVE  Silent(id, new, (i + 1)..(j - 1)) <=> Silent(id, chs, (i + 1)..(j - 1))
      <4>1. i + 1 \in Nat /\ 1 <= i + 1 /\ j - 1 \in 0..n
        BY <1>0, <2>1
      <4> QED
        BY <1>2, <4>1
    <3> QED
      BY <1>4, <1>6, <1>7, <2>1, <3>1, <3>2, <3>3
  <2>2. CASE j = n + 1
    <3>1. /\ new[j] = ch /\ j - 1 = n /\ \A i \in 1..(j - 1) : new[i] = chs[i]
          /\ Silent(id, new, 1..n) <=> Silent(id, chs, 1..n)
          /\ \A i \in 1..n : Silent(id, new, (i + 1)..n) <=> Silent(id, chs, (i + 1)..n)
      BY <1>1, <1>2, <2>2
    <3>2. \A i \in 1..n : chs[i].id = id /\ Silent(id, chs, (i + 1)..n) => Heard(chs[i]) = held
      BY <1>6
    <3> QED
      BY <1>5, <3>1, <3>2
  <2> QED
    BY <1>1, <2>1, <2>2
<1>8. Leads(id, new, told, Heard(ch))
  BY <1>1, <1>3, <1>7 DEF Leads
<1> QED
  BY <1>8 DEF new

(* A change of another id is no concern of this one.                       *)
LEMMA LeadsPast ==
  ASSUME NEW id, NEW chs \in Seq(ServerChange), NEW told, NEW held,
         NEW ch \in ServerChange, ch.id # id, Leads(id, chs, told, held)
  PROVE  Leads(id, Append(chs, ch), told, held)
<1> DEFINE n == Len(chs)
           new == Append(chs, ch)
<1>1. n \in Nat /\ Len(new) = n + 1 /\ new[n + 1] = ch /\ \A i \in 1..n : new[i] = chs[i]
  OBVIOUS
<1> HIDE DEF n, new
<1>2. ASSUME NEW a \in Nat, NEW b \in 0..n, 1 <= a
      PROVE  Silent(id, new, a..b) <=> Silent(id, chs, a..b)
  BY <1>1, <1>2 DEF Silent
<1>3. ASSUME NEW a \in Nat, 1 <= a
      PROVE  Silent(id, new, a..(n + 1)) <=> Silent(id, chs, a..n)
  BY <1>1, <1>3 DEF Silent
<1>4. \A j \in 1..(n + 1) : new[j].id = id => j \in 1..n /\ new[j] = chs[j]
  BY <1>1
<1>5. /\ Silent(id, chs, 1..n) => told = held
      /\ \A j \in 1..n : chs[j].id = id =>
           /\ Silent(id, chs, 1..(j - 1)) => (chs[j].action = "ADD" <=> told = None)
           /\ Silent(id, chs, (j + 1)..n) => Heard(chs[j]) = held
           /\ \A i \in 1..(j - 1) : chs[i].id = id /\ Silent(id, chs, (i + 1)..(j - 1)) =>
                (chs[j].action = "ADD" <=> Heard(chs[i]) = None)
  BY DEF Leads, n
<1>6. ASSUME NEW j \in 1..(n + 1), new[j].id = id
      PROVE  /\ Silent(id, new, 1..(j - 1)) => (new[j].action = "ADD" <=> told = None)
             /\ Silent(id, new, (j + 1)..(n + 1)) => Heard(new[j]) = held
             /\ \A i \in 1..(j - 1) : new[i].id = id /\ Silent(id, new, (i + 1)..(j - 1)) =>
                  (new[j].action = "ADD" <=> Heard(new[i]) = None)
  <2>1. /\ j \in 1..n /\ new[j] = chs[j] /\ \A i \in 1..(j - 1) : new[i] = chs[i]
        /\ Silent(id, new, 1..(j - 1)) <=> Silent(id, chs, 1..(j - 1))
        /\ Silent(id, new, (j + 1)..(n + 1)) <=> Silent(id, chs, (j + 1)..n)
        /\ \A i \in 1..(j - 1) : Silent(id, new, (i + 1)..(j - 1)) <=> Silent(id, chs, (i + 1)..(j - 1))
    BY <1>1, <1>2, <1>3, <1>4, <1>6
  <2> QED
    BY ZenonT(30), <1>5, <1>6, <2>1
<1>7. Silent(id, new, 1..(n + 1)) => told = held
  BY <1>1, <1>3, <1>5
<1>8. Leads(id, new, told, held)
  BY <1>1, <1>6, <1>7 DEF Leads
<1> QED
  BY <1>8 DEF new

(* Telling the first change leaves a list that leads on from there.        *)
LEMMA LeadsAfter ==
  ASSUME NEW id, NEW chs \in Seq(ServerChange), chs # <<>>, NEW told, NEW held,
         Leads(id, chs, told, held)
  PROVE  Leads(id, Tail(chs), IF Head(chs).id = id THEN Heard(Head(chs)) ELSE told, held)
<1> DEFINE n == Len(chs)
           new == Tail(chs)
           know == IF chs[1].id = id THEN Heard(chs[1]) ELSE told
<1>1. /\ n \in Nat \ {0} /\ Len(new) = n - 1 /\ Head(chs) = chs[1]
      /\ \A i \in 1..(n - 1) : new[i] = chs[i + 1]
  OBVIOUS
<1>2. /\ Silent(id, chs, 1..n) => told = held
      /\ \A j \in 1..n : chs[j].id = id =>
           /\ Silent(id, chs, 1..(j - 1)) => (chs[j].action = "ADD" <=> told = None)
           /\ Silent(id, chs, (j + 1)..n) => Heard(chs[j]) = held
           /\ \A i \in 1..(j - 1) : chs[i].id = id /\ Silent(id, chs, (i + 1)..(j - 1)) =>
                (chs[j].action = "ADD" <=> Heard(chs[i]) = None)
  BY DEF Leads
<1> HIDE DEF n, new
<1>3. ASSUME NEW a \in Nat, NEW b \in 0..(n - 1), 1 <= a
      PROVE  Silent(id, new, a..b) <=> Silent(id, chs, (a + 1)..(b + 1))
  <2>1. ASSUME Silent(id, new, a..b), NEW i \in (a + 1)..(b + 1) PROVE chs[i].id # id
    <3>1. i - 1 \in a..b /\ new[i - 1] = chs[i]
      BY <1>1, <1>3
    <3> QED
      BY <2>1, <3>1 DEF Silent
  <2>2. ASSUME Silent(id, chs, (a + 1)..(b + 1)), NEW i \in a..b PROVE new[i].id # id
    <3>1. i + 1 \in (a + 1)..(b + 1) /\ new[i] = chs[i + 1]
      BY <1>1, <1>3
    <3> QED
      BY <2>2, <3>1 DEF Silent
  <2> QED
    BY <2>1, <2>2 DEF Silent
<1>4. ASSUME NEW b \in 1..n
      PROVE  Silent(id, chs, 1..b) <=> (chs[1].id # id /\ Silent(id, chs, 2..b))
  BY <1>4 DEF Silent
<1>5. Silent(id, new, 1..(n - 1)) => know = held
  <2>1. Silent(id, new, 1..(n - 1)) <=> Silent(id, chs, 2..n)
    BY <1>1, <1>3
  <2>2. chs[1].id = id /\ Silent(id, chs, 2..n) => Heard(chs[1]) = held
    BY <1>1, <1>2
  <2>3. chs[1].id # id /\ Silent(id, chs, 2..n) => told = held
    BY <1>1, <1>2, <1>4
  <2> QED
    BY <2>1, <2>2, <2>3
<1>6. ASSUME NEW j \in 1..(n - 1), new[j].id = id
      PROVE  /\ Silent(id, new, 1..(j - 1)) => (new[j].action = "ADD" <=> know = None)
             /\ Silent(id, new, (j + 1)..(n - 1)) => Heard(new[j]) = held
             /\ \A i \in 1..(j - 1) : new[i].id = id /\ Silent(id, new, (i + 1)..(j - 1)) =>
                  (new[j].action = "ADD" <=> Heard(new[i]) = None)
  <2>1. j + 1 \in 1..n /\ new[j] = chs[j + 1] /\ chs[j + 1].id = id
    BY <1>1, <1>6
  <2>2. Silent(id, new, 1..(j - 1)) <=> Silent(id, chs, 2..j)
    BY <1>1, <1>3, <2>1
  <2>3. Silent(id, new, (j + 1)..(n - 1)) <=> Silent(id, chs, (j + 2)..n)
    BY <1>1, <1>3, <2>1
  <2>4. Silent(id, chs, 2..j) => (chs[j + 1].action = "ADD" <=> know = None)
    <3>1. CASE chs[1].id = id
      <4>1. 1 \in 1..((j + 1) - 1) /\ (j + 1) - 1 = j /\ 1 + 1 = 2
        OBVIOUS
      <4> QED
        BY <1>2, <2>1, <3>1, <4>1
    <3>2. CASE chs[1].id # id
      <4>1. Silent(id, chs, 2..j) => Silent(id, chs, 1..((j + 1) - 1))
        BY <1>1, <1>4, <3>2
      <4> QED
        BY <1>2, <2>1, <3>2, <4>1
    <3> QED
      BY <3>1, <3>2
  <2>5. Silent(id, chs, (j + 2)..n) => Heard(chs[j + 1]) = held
    <3>1. (j + 1) + 1 = j + 2
      OBVIOUS
    <3> QED
      BY <1>2, <2>1, <3>1
  <2>6. ASSUME NEW i \in 1..(j - 1), new[i].id = id, Silent(id, new, (i + 1)..(j - 1))
        PROVE  new[j].action = "ADD" <=> Heard(new[i]) = None
    <3>1. new[i] = chs[i + 1] /\ i + 1 \in 1..((j + 1) - 1)
      BY <1>1
    <3>2. Silent(id, chs, ((i + 1) + 1)..((j + 1) - 1))
      <4>1. Silent(id, chs, ((i + 1) + 1)..((j - 1) + 1))
        BY <1>1, <1>3, <2>6
      <4>2. (j - 1) + 1 = (j + 1) - 1
        OBVIOUS
      <4> QED
        BY <4>1, <4>2
    <3> QED
      BY <1>2, <2>1, <2>6, <3>1, <3>2
  <2> QED
    BY <2>1, <2>2, <2>3, <2>4, <2>5, <2>6
<1>7. Leads(id, new, know, held)
  BY ZenonT(30), <1>1, <1>5, <1>6 DEF Leads
<1> QED
  BY <1>1, <1>7 DEF new

(* No step breaks the lead from what the listeners know to the cache.      *)
LEMMA ListenStep ==
  ASSUME OneKeyPerId, IInv, ListenInv, [Next]_vars
  PROVE  ListenInv'
<1> USE DEF lockVars, watchVars, downVars
<1>0. /\ TypeOK /\ LockInv /\ cache \in [Ids -> Cell] /\ changes \in Seq(ServerChange)
      /\ view \in [Ids -> Server \cup {None}] /\ None \notin Server
  BY ZenonT(30), KeysAssumption DEF IInv, TypeOK
<1>1. ASSUME NEW id \in Ids, NEW cell \in Cell, NEW ch \in ServerChange,
             ch.id = id, ch.action = "ADD" <=> cache[id].srv = None, cell.srv = Heard(ch),
             cache' = [cache EXCEPT ![id] = cell], changes' = Append(changes, ch),
             UNCHANGED <<phase, listening, view>>, phase \in {"store", "events"}
      PROVE  ListenInv'
  <2>1. ASSUME listening, NEW i \in Ids \ {Self}
        PROVE  Leads(i, Append(changes, ch), view[i], cache'[i].srv)
    <3>1. Leads(i, changes, view[i], cache[i].srv)
      BY <2>1 DEF ListenInv
    <3>2. CASE i = id
      <4>1. cache'[i].srv = Heard(ch)
        BY ZenonT(30), <1>0, <1>1, <3>2
      <4> QED
        BY <1>0, <1>1, <3>1, <3>2, <4>1, LeadsOn
    <3>3. CASE i # id
      <4>1. cache'[i] = cache[i]
        BY <1>0, <1>1, <3>3
      <4> QED
        BY ZenonT(30), <1>0, <1>1, <3>1, <3>3, <4>1, LeadsPast
    <3> QED
      BY <3>2, <3>3
  <2> QED
    BY <1>1, <2>1 DEF ListenInv
<1>2. ASSUME UNCHANGED <<cache, changes, view>>, listening' => listening,
             phase' \in {"idle", "read"} => changes = <<>>
      PROVE  ListenInv'
  BY <1>2 DEF ListenInv
<1>3. ASSUME NEW id \in Ids, SyncStore(id) PROVE ListenInv'
  <2> DEFINE sv == Synced(revision, id)
             cell == storeServerLocked(id, cache[id], sv)
             ch == StoreChange(id, sv)
  <2>1. sv \in Server
    BY <1>0, <1>3, SnapshotType DEF SyncStore, LockInv
  <2>2. /\ cache' = [cache EXCEPT ![id] = cell] /\ changes' = Append(changes, ch)
        /\ UNCHANGED <<phase, listening, view>> /\ phase = "store"
    BY <1>3 DEF SyncStore
  <2> HIDE DEF sv
  <2>3. cell \in Cell /\ cell.srv = sv
    <3>1. cache[id] \in Cell /\ sv.type \in Types
      BY <1>0, <2>1 DEF Server
    <3> QED
      BY <2>1, <3>1 DEF storeServerLocked, Cell
  <2>4. /\ ch \in ServerChange /\ ch.id = id /\ Heard(ch) = sv
        /\ ch.action = "ADD" <=> cache[id].srv = None
    BY <2>1 DEF StoreChange, Change, ServerChange, Heard
  <2> HIDE DEF cell, ch
  <2> QED
    BY ZenonT(30), <1>1, <2>2, <2>3, <2>4
<1>4. ASSUME NEW id \in Ids, SyncRemove(id) PROVE ListenInv'
  <2> DEFINE cell == removeServerLocked(cache[id])
             ch == DeleteChange(id)
  <2>1. cache[id].srv \in Server
    BY <1>0, <1>4 DEF SyncRemove, LockInv, Differs, Cell
  <2>2. /\ cache' = [cache EXCEPT ![id] = cell] /\ changes' = Append(changes, ch)
        /\ UNCHANGED <<phase, listening, view>> /\ phase = "store"
    BY <1>4 DEF SyncRemove
  <2>3. cell \in Cell /\ cell.srv = None
    <3>1. cache[id] \in Cell
      BY <1>0
    <3> QED
      BY <3>1 DEF removeServerLocked, Cell
  <2>4. /\ ch \in ServerChange /\ ch.id = id /\ Heard(ch) = None
        /\ ch.action = "ADD" <=> cache[id].srv = None
    BY ZenonT(30), <1>0, <2>1 DEF DeleteChange, Change, ServerChange, Heard
  <2> HIDE DEF cell, ch
  <2> QED
    BY ZenonT(30), <1>1, <2>2, <2>3, <2>4
<1>5. ASSUME NEW k \in Keys, ApplyEvent(k) PROVE ListenInv'
  <2> DEFINE id == KeyId[k]
             sv == Registration(k, At(hand.from)[k])
             put == storeServerLocked(id, cache[id], sv)
             gone == removeServerLocked(cache[id])
  <2>1. id \in Ids /\ cache[id] \in Cell
    BY ZenonT(30), <1>0, KeysAssumption
  <2>2. UNCHANGED <<phase, listening, view>> /\ phase = "events"
    BY ZenonT(30), <1>5 DEF ApplyEvent
  <2>3. CASE /\ At(hand.from)[k] \in Docs /\ cache' = [cache EXCEPT ![id] = put]
             /\ changes' = Append(changes, StoreChange(id, sv))
    <3>1. sv \in Server /\ sv.type \in Types
      BY ZenonT(30), <2>3, KeysAssumption DEF Registration, Server
    <3> HIDE DEF sv, id
    <3>2. put \in Cell /\ put.srv = sv
      BY <2>1, <3>1 DEF storeServerLocked, Cell
    <3>3. /\ StoreChange(id, sv) \in ServerChange /\ StoreChange(id, sv).id = id
          /\ Heard(StoreChange(id, sv)) = sv
          /\ StoreChange(id, sv).action = "ADD" <=> cache[id].srv = None
      BY <2>1, <3>1 DEF StoreChange, Change, ServerChange, Heard
    <3> HIDE DEF put
    <3> QED
      BY ZenonT(30), <1>1, <2>1, <2>2, <2>3, <3>2, <3>3
  <2>4. CASE /\ cache[id].srv # None /\ cache' = [cache EXCEPT ![id] = gone]
             /\ changes' = Append(changes, DeleteChange(id))
    <3> HIDE DEF id
    <3>1. cache[id].srv \in Server
      BY ZenonT(30), <2>1, <2>4 DEF Cell
    <3>2. gone \in Cell /\ gone.srv = None
      BY <2>1 DEF removeServerLocked, Cell
    <3>3. /\ DeleteChange(id) \in ServerChange /\ DeleteChange(id).id = id
          /\ Heard(DeleteChange(id)) = None
          /\ DeleteChange(id).action = "ADD" <=> cache[id].srv = None
      BY <1>0, <2>1, <3>1 DEF DeleteChange, Change, ServerChange, Heard
    <3> HIDE DEF gone
    <3> QED
      BY ZenonT(30), <1>1, <2>1, <2>2, <2>4, <3>2, <3>3
  <2>5. CASE UNCHANGED <<cache, changes>>
    BY <1>2, <2>2, <2>5
  <2> QED
    BY ZenonT(30), <1>5, <2>3, <2>4, <2>5 DEF ApplyEvent
<1>6. ASSUME Notify PROVE ListenInv'
  <2> DEFINE ch == Head(changes)
  <2>1. /\ phase = "notify" /\ phase' = phase /\ changes # <<>> /\ changes' = Tail(changes)
        /\ UNCHANGED <<cache, listening>>
        /\ view' = IF listening /\ Told(ch)
                     THEN [view EXCEPT ![ch.id] = IF ch.action = "DEL" THEN None ELSE ch.server]
                     ELSE view
    BY <1>6 DEF Notify
  <2>a. ch \in ServerChange
    BY <1>0, <2>1
  <2> HIDE DEF ch
  <2>2. ch.id \in Ids
    BY <2>a DEF ServerChange
  <2>3. ASSUME listening, NEW id \in Ids \ {Self}
        PROVE  Leads(id, Tail(changes), view'[id], cache[id].srv)
    <3>1. view'[id] = IF ch.id = id THEN Heard(ch) ELSE view[id]
      BY <1>0, <2>1, <2>2, <2>3 DEF Heard, Told
    <3>2. Leads(id, changes, view[id], cache[id].srv)
      BY ZenonT(30), <2>3 DEF ListenInv
    <3>3. Leads(id, Tail(changes), IF Head(changes).id = id THEN Heard(Head(changes)) ELSE view[id],
                cache[id].srv)
      BY <1>0, <2>1, <3>2, LeadsAfter
    <3> QED
      BY <3>1, <3>3 DEF ch
  <2> QED
    BY <2>1, <2>3 DEF ListenInv
<1>7. ASSUME Etcd PROVE ListenInv'
  <2>1. PICK keys \in SUBSET Keys, doc \in Docs \cup {Bad, None} : Commit(keys, doc)
    BY <1>7, EtcdCommits
  <2>2. UNCHANGED <<cache, changes, view, listening, phase>>
    BY <2>1 DEF Commit
  <2> QED
    BY <1>2, <2>2 DEF ListenInv
<1>8. ASSUME SyncPlan \/ SyncCommit \/ ApplyNext \/ ApplyCommit \/ Unlock PROVE ListenInv'
  <2>1. /\ UNCHANGED <<cache, view, listening>>
        /\ changes' = changes \/ (changes' = <<>> /\ (phase = "read" \/ changes = <<>>))
        /\ phase' \in {"idle", "read"} => changes = <<>> \/ phase = "read"
    BY <1>8 DEF SyncPlan, SyncCommit, ApplyNext, ApplyCommit, Unlock, Release
  <2> QED
    BY <1>2, <2>1 DEF ListenInv
<1>9. ASSUME Loops \/ Life \/ UNCHANGED vars PROVE ListenInv'
  <2>1. /\ UNCHANGED <<cache, changes, view>> /\ (listening' => listening)
        /\ phase' \in {"idle", "read"} => phase' = phase \/ mu = None
    BY ZenonT(30), <1>9, OthersListen
  <2>2. mu = None => phase = "idle"
    BY ZenonT(30), <1>0 DEF LockInv
  <2> QED
    BY ZenonT(30), <1>2, <2>1, <2>2 DEF ListenInv
<1> QED
  BY <1>3, <1>4, <1>5, <1>6, <1>7, <1>8, <1>9 DEF Next, Holder

(* notifyChanges, called with reconcileMu still held, leaves the listeners *)
(* knowing exactly the cache, and announces as an addition exactly what    *)
(* they did not know.                                                      *)
THEOREM ListenTheorem ==
  ASSUME OneKeyPerId
  PROVE  Spec => []ListenersInSync
<1>1. Init => ListenInv
  <2>1. ASSUME Init, NEW id \in Ids PROVE Leads(id, changes, view[id], cache[id].srv)
    BY <2>1 DEF Init, Leads, Silent, EmptyCell
  <2> QED
    BY ZenonT(30), <2>1 DEF Init, ListenInv
<1>2. IInv /\ ListenInv => ListenersInSync
  <2> SUFFICES ASSUME IInv, ListenInv, listening PROVE ListenersInSync
    BY ZenonT(30) DEF ListenersInSync
  <2>1. ASSUME mu = None, NEW id \in Ids \ {Self} PROVE view[id] = cache[id].srv
    <3>1. changes = <<>>
      BY <2>1 DEF IInv, LockInv, ListenInv
    <3>2. Silent(id, changes, 1..Len(changes))
      BY <3>1 DEF Silent
    <3> QED
      BY <2>1, <3>2 DEF ListenInv, Leads
  <2>2. ASSUME changes # <<>>, Head(changes).id # Self
        PROVE  Head(changes).action = "ADD" <=> view[Head(changes).id] = None
    <3> DEFINE id == Head(changes).id
    <3>1. changes \in Seq(ServerChange)
      BY DEF IInv, TypeOK
    <3>2. 1 \in 1..Len(changes) /\ Head(changes) = changes[1] /\ changes[1] \in ServerChange
      BY <2>2, <3>1
    <3>3. id \in Ids \ {Self} /\ changes[1].id = id
      BY <2>2, <3>2 DEF ServerChange
    <3>4. Silent(id, changes, 1..(1 - 1))
      BY DEF Silent
    <3> HIDE DEF id
    <3>5. changes[1].action = "ADD" <=> view[id] = None
      BY <3>2, <3>3, <3>4 DEF ListenInv, Leads
    <3> QED
      BY <3>2, <3>5 DEF id
  <2> QED
    BY <2>1, <2>2 DEF ListenersInSync
<1>3. IInv /\ ListenInv /\ [Next]_vars => ListenInv'
  BY ListenStep
<1> QED
  BY <1>1, <1>2, <1>3, InvHolds, PTL DEF Spec
=============================================================================
