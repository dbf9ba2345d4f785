----------------------- MODULE ServiceDiscoveryCache ------------------------
(***************************************************************************)
(* The invariant of the discovery cache.  First types and the lock: what a *)
(* snapshot contains, what each step of the holder of reconcileMu leaves,  *)
(* and what the holder knows of the revision it works at (LockInv).  Then  *)
(* etcd, the events of a batch, the position of the stream, and the cache  *)
(* itself, where each store, each removal and each skipped event leaves    *)
(* the entry of its key at the revision that key has reached.              *)
(*                                                                         *)
(* While a snapshot or a batch is being applied the cache is partly old:   *)
(* Level(k) is the revision the entry of key k stands at, and CacheInv says*)
(* that every entry reflects its level.                                    *)
(***************************************************************************)
EXTENDS ServiceDiscovery, TLAPS

(* What a snapshot gives an id that only key k names.                      *)
LEMMA SnapshotOfKey ==
  ASSUME OneKeyPerId, NEW k \in Keys, NEW reg, NEW held
  PROVE  Snapshot(reg, held, KeyId[k]) =
           IF ~Visible(k) \/ reg[k] = None THEN None
           ELSE IF reg[k] = Bad THEN held
           ELSE Registration(k, reg[k])
<1> DEFINE id == KeyId[k]
           counts == {j \in Keys : /\ KeyId[j] = id /\ Visible(j) /\ reg[j] # None
                                   /\ reg[j] = Bad => held # None}
           last == CHOOSE j \in counts : \A i \in counts : KeyRank[i] <= KeyRank[j]
<1>1. \A j \in counts : j = k
  BY DEF OneKeyPerId
<1>2. CASE counts = {}
  <2>1. k \notin counts
    BY <1>2
  <2>2. ~Visible(k) \/ reg[k] = None \/ (reg[k] = Bad /\ held = None)
    BY <2>1
  <2>3. Snapshot(reg, held, id) = None
    BY <1>2 DEF Snapshot
  <2> QED
    BY <2>2, <2>3, KeysAssumption
<1>3. CASE counts # {}
  <2>1. counts = {k}
    BY <1>1, <1>3
  <2>2. KeyRank[k] <= KeyRank[k]
    BY KeysAssumption
  <2>3. last = k
    BY <2>1, <2>2
  <2>4. Visible(k) /\ reg[k] # None
    BY <2>1
  <2>5. Snapshot(reg, held, id) = IF counts = {} THEN None
                                  ELSE IF reg[last] = Bad THEN held
                                  ELSE Registration(last, reg[last])
    BY Zenon DEF Snapshot
  <2> HIDE DEF counts, last
  <2> QED
    BY <1>3, <2>3, <2>4, <2>5
<1> QED
  BY <1>2, <1>3

(* The registrations and the touched keys of a revision.                   *)
LEMMA RevisionType ==
  ASSUME TypeOK, NEW r \in 1..Now
  PROVE  /\ At(r) \in [Keys -> Docs \cup {Bad, None}]
         /\ etcd[r].touched \in SUBSET Keys
<1>1. etcd[r] \in Revision
  BY DEF TypeOK, Now
<1> QED
  BY <1>1 DEF Revision, At

(* A snapshot gives a server or nothing.                                   *)
LEMMA SnapshotType ==
  ASSUME OneKeyPerId, TypeOK, NEW r \in 1..Now, NEW id \in Ids
  PROVE  Synced(r, id) \in Server \cup {None}
<1>1. PICK k \in Keys : id = KeyId[k]
  BY DEF Ids
<1>2. At(r)[k] \in Docs \cup {Bad, None}
  BY RevisionType
<1>3. cache[id].srv \in Server \cup {None}
  BY DEF TypeOK, Cell
<1>4. KeyType[k] \in Types
  BY <1>1, KeysAssumption
<1>5. \A d \in Docs : Registration(k, d) \in Server
  BY <1>4 DEF Registration, Server
<1> QED
  BY <1>1, <1>2, <1>3, <1>5, SnapshotOfKey DEF Synced

-----------------------------------------------------------------------------
(* Who holds the lock, what it is doing, and how the response in hand lies *)
(* in the stream.                                                          *)
LockInv ==
  /\ applied <= Now /\ 1 <= Now /\ 1 <= stream /\ stream <= Now + 1
  /\ mu = None <=> phase = "idle"
  /\ phase = "read" => revision \in 1..Now
  /\ phase = "store" => /\ revision \in 1..Now /\ applied <= revision
                        /\ todo \subseteq Ids
                        /\ \A id \in todo : Differs(id)
  /\ phase = "events" => /\ mu = "watch" /\ hand.from <= hand.to
                         /\ todo \subseteq etcd[hand.from].touched
                         /\ applied <= revision /\ revision <= Now
  /\ (mu = "watch" /\ phase # "events") => hand.to < hand.from
  /\ (mu = "watch" /\ phase \in {"read", "store"}) => watcher = "sync"
  /\ hand.from <= hand.to => /\ watcher = "open" /\ 1 <= hand.from
                             /\ hand.to + 1 = stream /\ hand.to <= Now

(* No step of etcd, of a reconciliation or of the watch loop gives a       *)
(* variable a value of another type.                                       *)
LEMMA TypeStep ==
  ASSUME OneKeyPerId, TypeOK, LockInv, [Next]_vars
  PROVE  TypeOK'
<1> USE DEF TypeOK, lockVars, watchVars, downVars
<1>1. ASSUME NEW keys \in SUBSET Keys, NEW doc \in Docs \cup {Bad, None},
             Commit(keys, doc)
      PROVE  TypeOK'
  <2> DEFINE new == [at |-> [k \in Keys |-> IF k \in keys THEN doc
                                            ELSE At(Now)[k]],
                     touched |-> keys]
  <2>1. Now \in 1..Now
    BY DEF LockInv, Now
  <2>2. At(Now) \in [Keys -> Docs \cup {Bad, None}]
    BY <2>1, RevisionType
  <2>3. new \in Revision
    BY <2>2 DEF Revision
  <2>4. etcd' = Append(etcd, new)
    BY <1>1 DEF Commit
  <2> HIDE DEF new
  <2>5. etcd' \in Seq(Revision)
    BY <2>3, <2>4
  <2> QED
    BY <1>1, <2>5 DEF Commit
<1>2. ASSUME NEW p \in Callers, SyncRead(p) \/ SyncFail(p)
      PROVE  TypeOK'
  BY <1>2 DEF SyncRead, SyncFail, Now, Callers
<1>3. CASE SyncPlan
  <2> DEFINE ids == {id \in Ids : Differs(id)}
  <2>1. ids \in SUBSET (Ids \cup Keys)
    OBVIOUS
  <2>2. (todo' = {} /\ changes' = <<>>) \/ (todo' = ids /\ changes' = changes)
    BY <1>3, Zenon DEF SyncPlan, Release
  <2> HIDE DEF ids
  <2>3. todo' \in SUBSET (Ids \cup Keys)
    <3>1. CASE todo' = {}
      BY <3>1
    <3> QED
      BY <3>1, <2>1, <2>2
  <2>4. changes' \in Seq(ServerChange)
    <3>1. <<>> \in Seq(ServerChange)
      OBVIOUS
    <3>2. changes \in Seq(ServerChange)
      OBVIOUS
    <3> QED
      BY <2>2, <3>1, <3>2, Zenon
  <2> QED
    BY <1>3, <2>3, <2>4 DEF SyncPlan, Release, FirstRevision
<1>4. ASSUME NEW id \in Ids, SyncStore(id)
      PROVE  TypeOK'
  <2> DEFINE sv == Synced(revision, id)
  <2>1. sv \in Server
    BY <1>4, SnapshotType DEF SyncStore, LockInv
  <2>2. storeServerLocked(id, cache[id], sv) \in Cell
    BY <2>1 DEF storeServerLocked, Cell, Server
  <2>3. StoreChange(id, sv) \in ServerChange
    BY <2>1 DEF StoreChange, Change, ServerChange
  <2> QED
    BY <1>4, <2>2, <2>3 DEF SyncStore
<1>5. ASSUME NEW id \in Ids, SyncRemove(id)
      PROVE  TypeOK'
  <2>1. cache[id].srv \in Server
    BY <1>5 DEF SyncRemove, LockInv, Differs, Cell
  <2>2. removeServerLocked(cache[id]) \in Cell
    BY DEF removeServerLocked, Cell
  <2>3. DeleteChange(id) \in ServerChange
    BY <2>1 DEF DeleteChange, Change, ServerChange
  <2> QED
    BY <1>5, <2>2, <2>3 DEF SyncRemove
<1>6. CASE SyncCommit \/ ApplyCommit
  BY <1>6 DEF SyncCommit, ApplyCommit, NoHand
<1>7. ASSUME NEW to \in 1..MaxRevision, Receive(to)
      PROVE  TypeOK'
  BY <1>7 DEF Receive, Now
<1>8. CASE StreamEnds \/ WatchLoop
  BY <1>8 DEF StreamEnds, WatchLoop
<1>9. CASE ApplyBegin
  <2>1. hand.from \in 1..Now
    BY <1>9 DEF ApplyBegin, LockInv, Now
  <2>2. etcd[hand.from].touched \in SUBSET Keys
    BY <2>1, RevisionType
  <2> QED
    BY <1>9, <2>2 DEF ApplyBegin, NoHand, Callers
<1>10. ASSUME NEW k \in Keys, ApplyEvent(k)
       PROVE  TypeOK'
  <2> DEFINE id == KeyId[k]
             doc == At(hand.from)[k]
             sv == Registration(k, doc)
  <2>1. id \in Ids
    BY KeysAssumption
  <2>2. ASSUME doc \in Docs
        PROVE  /\ storeServerLocked(id, cache[id], sv) \in Cell
               /\ StoreChange(id, sv) \in ServerChange
    <3>1. sv \in Server
      BY <2>2, KeysAssumption DEF Registration, Server
    <3> HIDE DEF id, sv
    <3> QED
      BY <2>1, <3>1 DEF storeServerLocked, Cell, Server, StoreChange, Change, ServerChange
  <2>3. ASSUME cache[id].srv # None
        PROVE  /\ removeServerLocked(cache[id]) \in Cell
               /\ DeleteChange(id) \in ServerChange
    <3> HIDE DEF id
    <3> QED
      BY <2>1, <2>3 DEF removeServerLocked, Cell, DeleteChange, Change, ServerChange
  <2>4. cache' \in [Ids -> Cell] /\ changes' \in Seq(ServerChange)
    <3>1. CASE doc \in Docs /\ cache' = [cache EXCEPT ![id] = storeServerLocked(id, @, sv)]
               /\ changes' = Append(changes, StoreChange(id, sv))
      <4> HIDE DEF id, doc, sv
      <4> QED  BY <2>1, <2>2, <3>1
    <3>2. CASE cache[id].srv # None /\ cache' = [cache EXCEPT ![id] = removeServerLocked(@)]
               /\ changes' = Append(changes, DeleteChange(id))
      <4> HIDE DEF id
      <4> QED  BY <2>1, <2>3, <3>2
    <3>3. CASE UNCHANGED <<cache, changes>>
      BY <3>3
    <3> QED
      BY <1>10, <3>1, <3>2, <3>3 DEF ApplyEvent
  <2>5. todo' \in SUBSET (Ids \cup Keys) /\ revision' \in Nat
    BY <1>10 DEF ApplyEvent
  <2> QED
    BY <1>10, <2>4, <2>5 DEF ApplyEvent
<1>11. CASE ApplyNext
  <2>1. hand.from + 1 \in 1..Now
    BY <1>11 DEF ApplyNext, LockInv, Now
  <2>2. etcd[hand.from + 1].touched \in SUBSET Keys
    BY <2>1, RevisionType
  <2> QED
    BY <1>11, <2>2 DEF ApplyNext
<1>12. CASE Notify
  <2>1. Head(changes) \in ServerChange
    BY <1>12 DEF Notify
  <2> QED
    BY <1>12, <2>1 DEF Notify, ServerChange
<1>13. CASE Unlock
  BY <1>13 DEF Unlock, Release, FirstRevision
<1>14. CASE BeforeShutdown \/ Shutdown \/ TickerStops \/ ShutdownJoins
  BY Zenon, <1>14 DEF BeforeShutdown, Shutdown, TickerStops, ShutdownJoins
<1>15. CASE UNCHANGED vars
  BY <1>15 DEF vars
<1>16. ASSUME Etcd PROVE TypeOK'
  BY Zenon, <1>1, <1>16, KeysAssumption DEF Etcd, Put, Withdraw, WriteElsewhere
<1> QED
  BY Zenon, <1>2, <1>3, <1>4, <1>5, <1>6, <1>7, <1>8, <1>9, <1>10, <1>11, <1>12,
     <1>13, <1>14, <1>15, <1>16 DEF Next, Holder, Loops, Life

-----------------------------------------------------------------------------
(* etcd only appends: the revisions there are stay as they are, the keys a *)
(* revision does not touch keep their documents.                           *)
LEMMA CommitAppends ==
  ASSUME TypeOK, LockInv, NEW keys \in SUBSET Keys,
         NEW doc \in Docs \cup {Bad, None}, Commit(keys, doc)
  PROVE  /\ Now' = Now + 1
         /\ \A r \in 1..Now : etcd'[r] = etcd[r]
         /\ etcd'[Now + 1].touched = keys
         /\ \A k \in Keys \ keys : etcd'[Now + 1].at[k] = At(Now)[k]
<1> DEFINE new == [at |-> [k \in Keys |-> IF k \in keys THEN doc ELSE At(Now)[k]],
                   touched |-> keys]
<1>1. etcd \in Seq(Revision) /\ etcd' = Append(etcd, new)
  BY DEF TypeOK, Commit
<1>2. new.touched = keys /\ \A k \in Keys \ keys : new.at[k] = At(Now)[k]
  OBVIOUS
<1> HIDE DEF new
<1>3. Len(etcd) \in Nat
  BY <1>1
<1>4. /\ Len(etcd') = Len(etcd) + 1
      /\ \A r \in 1..Len(etcd) : etcd'[r] = etcd[r]
      /\ etcd'[Len(etcd) + 1] = new
  BY <1>1
<1> QED
  BY <1>2, <1>4 DEF Now

(* What the step of applyWatchResponse for one event changes beside the    *)
(* cache.                                                                  *)
LEMMA EventFrame ==
  ASSUME NEW k \in Keys, ApplyEvent(k)
  PROVE  /\ UNCHANGED <<etcd, applied, mu, phase, watcher, stream, hand, down>>
         /\ todo' = todo \ {k} /\ k \in todo /\ phase = "events"
         /\ revision' = IF hand.from > applied /\ hand.from > revision
                          THEN hand.from ELSE revision
BY ZenonT(30) DEF ApplyEvent, PastBoundary, watchVars, downVars

(* What that step does to the cache: it stores, removes or skips.          *)
LEMMA EventCases ==
  ASSUME NEW k \in Keys, ApplyEvent(k)
  PROVE  LET id == KeyId[k]
             doc == At(hand.from)[k]
             looked == hand.from > applied /\ Visible(k)
         IN  \/ /\ looked /\ doc \in Docs
                /\ cache' = [cache EXCEPT
                               ![id] = storeServerLocked(id, cache[id], Registration(k, doc))]
             \/ /\ looked /\ doc = None /\ cache[id].srv # None
                /\ cache' = [cache EXCEPT ![id] = removeServerLocked(cache[id])]
             \/ /\ ~looked \/ doc = Bad \/ (doc = None /\ cache[id].srv = None)
                /\ cache' = cache
BY DEF ApplyEvent, PastBoundary

(* Only the cell of the event's server changes, and how its record does.   *)
LEMMA EventCell ==
  ASSUME NEW k \in Keys, ApplyEvent(k), cache \in [Ids -> Cell]
  PROVE  LET id == KeyId[k]
             doc == At(hand.from)[k]
         IN  /\ \A i \in Ids \ {id} : cache'[i] = cache[i]
             /\ ~(hand.from > applied) => cache' = cache
             /\ hand.from > applied =>
                  \/ Visible(k) /\ doc \in Docs /\ cache'[id].srv = Registration(k, doc)
                  \/ Visible(k) /\ doc = None /\ cache'[id].srv = None
                  \/ /\ ~Visible(k) \/ doc = Bad \/ (doc = None /\ cache[id].srv = None)
                     /\ cache'[id].srv = cache[id].srv
<1> DEFINE id == KeyId[k]
           doc == At(hand.from)[k]
           sv == Registration(k, doc)
<1>1. id \in Ids
  BY KeysAssumption
<1>2. storeServerLocked(id, cache[id], sv).srv = sv /\ removeServerLocked(cache[id]).srv = None
  BY DEF storeServerLocked, removeServerLocked
<1>3. \/ /\ hand.from > applied /\ Visible(k) /\ doc \in Docs
         /\ cache' = [cache EXCEPT ![id] = storeServerLocked(id, cache[id], sv)]
      \/ /\ hand.from > applied /\ Visible(k) /\ doc = None
         /\ cache' = [cache EXCEPT ![id] = removeServerLocked(cache[id])]
      \/ /\ \/ ~(hand.from > applied /\ Visible(k)) \/ doc = Bad
            \/ doc = None /\ cache[id].srv = None
         /\ cache' = cache
  BY EventCases
<1> HIDE DEF id, doc, sv
<1>4. /\ \A i \in Ids \ {id} : cache'[i] = cache[i]
      /\ ~(hand.from > applied) => cache' = cache
      /\ hand.from > applied =>
           \/ Visible(k) /\ doc \in Docs /\ cache'[id].srv = sv
           \/ Visible(k) /\ doc = None /\ cache'[id].srv = None
           \/ /\ ~Visible(k) \/ doc = Bad \/ (doc = None /\ cache[id].srv = None)
              /\ cache'[id].srv = cache[id].srv
  BY <1>1, <1>2, <1>3
<1> QED
  BY <1>4 DEF id, doc, sv

(* Whatever etcd does appends one revision.                                *)
LEMMA EtcdCommits ==
  ASSUME Etcd
  PROVE  \E keys \in SUBSET Keys, doc \in Docs \cup {Bad, None} : Commit(keys, doc)
<1>1. ASSUME NEW keys \in Batches, NEW doc \in Docs \cup {Bad}, Put(keys, doc)
      PROVE  \E x \in SUBSET Keys, d \in Docs \cup {Bad, None} : Commit(x, d)
  BY <1>1, KeysAssumption DEF Put
<1>2. ASSUME NEW keys \in Batches, Withdraw(keys)
      PROVE  \E x \in SUBSET Keys, d \in Docs \cup {Bad, None} : Commit(x, d)
  BY <1>2, KeysAssumption DEF Withdraw
<1>3. ASSUME WriteElsewhere
      PROVE  \E x \in SUBSET Keys, d \in Docs \cup {Bad, None} : Commit(x, d)
  BY <1>3 DEF WriteElsewhere
<1> QED
  BY <1>1, <1>2, <1>3 DEF Etcd

(* The lock, the phase of its holder and the response in hand stay in      *)
(* step.                                                                   *)
LEMMA LockStep ==
  ASSUME OneKeyPerId, TypeOK, LockInv, [Next]_vars
  PROVE  LockInv'
<1> USE DEF lockVars, watchVars, downVars
<1>0. /\ Len(etcd) \in Nat /\ applied \in Nat /\ revision \in Nat /\ stream \in Nat
      /\ hand \in [from : Nat, to : Nat] /\ None \notin Callers
  BY KeysAssumption DEF TypeOK
<1>1. ASSUME Etcd PROVE LockInv'
  <2>1. PICK keys \in SUBSET Keys, doc \in Docs \cup {Bad, None} : Commit(keys, doc)
    BY <1>1, EtcdCommits
  <2>2. Now' = Now + 1 /\ \A r \in 1..Now : etcd'[r] = etcd[r]
    BY <2>1, CommitAppends
  <2>3. UNCHANGED <<cache, applied, lockVars, watchVars>>
    BY <2>1 DEF Commit
  <2>4. ASSUME phase = "store", NEW id \in todo PROVE Differs(id)'
    <3>1. revision \in 1..Now /\ Differs(id)
      BY <2>4 DEF LockInv
    <3>2. At(revision)' = At(revision)
      BY <3>1, <2>2, <2>3 DEF At
    <3> QED
      BY <3>1, <3>2, <2>3 DEF Differs, Synced
  <2>5. ASSUME phase = "events" PROVE etcd'[hand.from] = etcd[hand.from]
    BY <1>0, <2>2, <2>5 DEF LockInv, Now
  <2> QED
    BY <1>0, <2>2, <2>3, <2>4, <2>5 DEF LockInv, Now
<1>2. ASSUME NEW p \in Callers, SyncRead(p) \/ SyncFail(p)
      PROVE  LockInv'
  BY <1>0, <1>2 DEF SyncRead, SyncFail, MaySync, LockInv, Now, Callers
<1>3. CASE SyncPlan
  <2>1. CASE phase' = "store"
    <3>1. /\ UNCHANGED <<etcd, cache, applied, mu, revision, watcher, stream, hand>>
          /\ todo' = {id \in Ids : Differs(id)}
          /\ phase = "read" /\ ~(revision < applied)
      BY <1>3, <2>1 DEF SyncPlan, Release
    <3>2. \A id \in todo' : id \in Ids /\ Differs(id)'
      BY <3>1, Zenon DEF Differs, Synced, At
    <3> QED
      BY <1>0, <2>1, <3>1, <3>2 DEF LockInv, Now
  <2>2. CASE phase' # "store"
    BY <1>0, <1>3, <2>2 DEF SyncPlan, Release, FirstRevision, LockInv, Now, Callers, TypeOK
  <2> QED
    BY <2>1, <2>2
<1>4. ASSUME NEW id \in Ids, SyncStore(id) \/ SyncRemove(id)
      PROVE  LockInv'
  <2>1. /\ UNCHANGED <<etcd, applied, mu, phase, revision, watcher, stream, hand>>
        /\ todo' = todo \ {id} /\ phase = "store"
    BY ZenonT(30), <1>4 DEF SyncStore, SyncRemove
  <2>2. \A i \in todo' : cache'[i] = cache[i]
    BY <1>4, <2>1 DEF SyncStore, SyncRemove, LockInv, TypeOK
  <2>3. \A i \in todo' : Differs(i)'
    BY <2>1, <2>2 DEF LockInv, Differs, Synced, At
  <2> QED
    BY <1>0, <2>1, <2>3 DEF LockInv, Now
<1>5. CASE SyncCommit \/ ApplyCommit
  BY <1>0, <1>5 DEF SyncCommit, ApplyCommit, NoHand, LockInv, Now
<1>6. ASSUME NEW to \in 1..MaxRevision, Receive(to)
      PROVE  LockInv'
  BY <1>0, <1>6 DEF Receive, LockInv, Now, Differs, Synced, At
<1>7. CASE StreamEnds \/ WatchLoop
  BY <1>0, <1>7 DEF StreamEnds, WatchLoop, LockInv, Now, Differs, Synced, At
<1>8. CASE ApplyBegin
  BY <1>0, <1>8 DEF ApplyBegin, NoHand, LockInv, Now
<1>9. ASSUME NEW k \in Keys, ApplyEvent(k)
      PROVE  LockInv'
  <2>1. /\ UNCHANGED <<etcd, applied, mu, phase, watcher, stream, hand>>
        /\ todo' = todo \ {k} /\ phase = "events"
        /\ revision' = IF hand.from > applied /\ hand.from > revision
                         THEN hand.from ELSE revision
    BY <1>9, EventFrame
  <2> QED
    BY <1>0, <2>1 DEF LockInv, Now
<1>10. CASE ApplyNext
  <2>1. /\ UNCHANGED <<etcd, applied, mu, phase, revision, watcher, stream>>
        /\ hand'.from = hand.from + 1 /\ hand'.to = hand.to
        /\ todo' = etcd[hand.from + 1].touched
        /\ phase = "events" /\ hand.from < hand.to
    BY <1>0, <1>10 DEF ApplyNext
  <2> QED
    BY <1>0, <2>1 DEF LockInv, Now
<1>11. CASE Notify
  BY <1>0, <1>11 DEF Notify, LockInv, Now
<1>12. CASE Unlock
  <2>1. /\ UNCHANGED <<etcd, applied, hand>>
        /\ mu' = None /\ phase' = "idle" /\ phase = "notify"
        /\ \/ mu = "watch" /\ watcher' = "open" /\ stream' = applied + 1
           \/ UNCHANGED <<watcher, stream>>
    BY SMTT(20), <1>12 DEF Unlock, Release, FirstRevision
  <2> QED
    BY <1>0, <2>1 DEF LockInv, Now, Callers
<1>13. CASE BeforeShutdown \/ Shutdown \/ TickerStops \/ ShutdownJoins
  BY ZenonT(30), <1>0, <1>13 DEF BeforeShutdown, Shutdown, TickerStops, ShutdownJoins,
                     LockInv, Now, Differs, Synced, At
<1>14. CASE UNCHANGED vars
  BY <1>0, <1>14 DEF vars, LockInv, Now, Differs, Synced, At
<1> QED
  BY <1>1, <1>2, <1>3, <1>4, <1>5, <1>6, <1>7, <1>8, <1>9, <1>10, <1>11, <1>12,
     <1>13, <1>14 DEF Next, Holder, Loops, Life
-----------------------------------------------------------------------------
(* A key no revision after q touched is at r as it was at q.               *)
EtcdInv ==
  \A k \in Keys, r \in 1..Now : \A q \in 0..r :
    (\A s \in q + 1 .. r : k \notin etcd[s].touched)
      => IF q = 0 THEN At(r)[k] = None ELSE At(r)[k] = At(q)[k]

(* The revision the cached entry of a key stands at: a batch moves the     *)
(* keys one by one from the applied revision to the one it commits.        *)
Level(k) ==
  CASE phase = "store" -> IF KeyId[k] \in todo THEN applied ELSE revision
    [] phase = "events" -> IF hand.from <= applied THEN applied
                           ELSE IF k \in todo THEN hand.from - 1 ELSE hand.from
    [] OTHER -> applied

CacheInv == \A k \in Keys : Reflects(cache[KeyId[k]].srv, Level(k), k)

(* Inside a response, no revision after the local one touched anything but *)
(* the events still to be applied.                                         *)
EventInv ==
  phase = "events" =>
    /\ revision = applied \/ revision <= hand.from
    /\ \A r \in revision + 1 .. hand.from - 1 : etcd[r].touched = {}
    /\ revision < hand.from => etcd[hand.from].touched = todo

IInv == /\ TypeOK /\ LockInv /\ EtcdInv /\ EventInv /\ CacheInv
        /\ NoEventSkipped

-----------------------------------------------------------------------------
(* Every step but etcd's own leaves etcd alone.                            *)
LEMMA OnlyEtcdWrites ==
  ASSUME [Next]_vars
  PROVE  Etcd \/ etcd' = etcd
<1>1. Holder => etcd' = etcd
  BY DEF Holder, SyncPlan, SyncStore, SyncRemove, SyncCommit, ApplyEvent,
         ApplyNext, ApplyCommit, Notify, Unlock
<1>2. Loops => etcd' = etcd
  BY DEF Loops, SyncRead, SyncFail, Receive, StreamEnds, WatchLoop, ApplyBegin,
         TickerStops
<1>3. Life => etcd' = etcd
  BY DEF Life, BeforeShutdown, Shutdown, ShutdownJoins
<1> QED
  BY <1>1, <1>2, <1>3 DEF Next, vars

(* Every revision keeps the documents of the keys it does not touch.       *)
LEMMA EtcdStep ==
  ASSUME TypeOK, LockInv, EtcdInv, [Next]_vars
  PROVE  EtcdInv'
<1>1. CASE etcd' = etcd
  BY <1>1 DEF EtcdInv, At, Now
<1>2. CASE Etcd
  <2>1. PICK keys \in SUBSET Keys, doc \in Docs \cup {Bad, None} : Commit(keys, doc)
    BY <1>2, EtcdCommits
  <2>2. /\ Now' = Now + 1
        /\ \A r \in 1..Now : etcd'[r] = etcd[r]
        /\ etcd'[Now + 1].touched = keys
        /\ \A k \in Keys \ keys : etcd'[Now + 1].at[k] = At(Now)[k]
    BY <2>1, CommitAppends
  <2>3. Now \in Nat /\ 1 <= Now
    BY DEF TypeOK, LockInv, Now
  <2> SUFFICES ASSUME NEW k \in Keys, NEW r \in 1..Now', NEW q \in 0..r,
                      \A s \in q + 1 .. r : k \notin etcd'[s].touched
               PROVE  IF q = 0 THEN etcd'[r].at[k] = None
                      ELSE etcd'[r].at[k] = etcd'[q].at[k]
    BY DEF EtcdInv, At
  <2>4. CASE r \in 1..Now
    <3>1. \A s \in q + 1 .. r : k \notin etcd[s].touched
      BY <2>2, <2>3, <2>4
    <3>2. IF q = 0 THEN At(r)[k] = None ELSE At(r)[k] = At(q)[k]
      BY <2>4, <3>1 DEF EtcdInv
    <3> QED
      BY <2>2, <2>3, <2>4, <3>2 DEF At
  <2>5. CASE r = Now + 1 /\ q # r
    <3>1. k \in Keys \ keys
      BY <2>2, <2>3, <2>5
    <3>2. \A s \in q + 1 .. Now : k \notin etcd[s].touched
      BY <2>2, <2>3, <2>5
    <3>3. IF q = 0 THEN At(Now)[k] = None ELSE At(Now)[k] = At(q)[k]
      BY <2>3, <2>5, <3>2 DEF EtcdInv
    <3> QED
      BY <2>2, <2>3, <2>5, <3>1, <3>3 DEF At
  <2>6. CASE r = Now + 1 /\ q = r
    BY <2>3, <2>6
  <2> QED
    BY <2>2, <2>3, <2>4, <2>5, <2>6
<1> QED
  BY <1>1, <1>2, OnlyEtcdWrites

-----------------------------------------------------------------------------
(* An entry that reflects a revision is nothing or a past registration.    *)
LEMMA ReflectsPast ==
  ASSUME NEW k \in Keys, NEW r \in Nat, NEW srv, Reflects(srv, r, k)
  PROVE  srv = None \/ \E q \in 1..r : srv = Registration(k, At(q)[k])
BY DEF Reflects

(* If nothing touched the key between two revisions, what reflects one     *)
(* reflects the other.                                                     *)
LEMMA ReflectsQuiet ==
  ASSUME EtcdInv, TypeOK, NEW k \in Keys, NEW srv,
         NEW r \in 0..Now, NEW q \in 0..r,
         \A s \in q + 1 .. r : k \notin etcd[s].touched
  PROVE  Reflects(srv, q, k) <=> Reflects(srv, r, k)
<1>0. Now \in Nat
  BY DEF TypeOK, Now
<1>1. CASE r = 0
  BY <1>1, <1>0
<1>2. CASE r # 0
  <2>1. r \in 1..Now
    BY <1>0, <1>2
  <2>2. IF q = 0 THEN At(r)[k] = None ELSE At(r)[k] = At(q)[k]
    BY <2>1 DEF EtcdInv
  <2>3. CASE q = 0
    BY <1>2, <2>2, <2>3 DEF Reflects
  <2>4. CASE q # 0
    <3>1. ASSUME NEW p \in 1..r, At(q)[k] = Bad, srv = Registration(k, At(p)[k])
          PROVE  \E x \in 1..q : srv = Registration(k, At(x)[k])
      <4>1. CASE p <= q
        BY <1>0, <3>1, <4>1
      <4>2. CASE p > q
        <5>1. \A s \in q + 1 .. p : k \notin etcd[s].touched
          BY <1>0, <2>1, <4>2
        <5>2. At(p)[k] = At(q)[k]
          BY <1>0, <2>1, <2>4, <4>2, <5>1 DEF EtcdInv
        <5> QED
          BY <1>0, <2>4, <3>1, <5>2
      <4> QED
        BY <1>0, <4>1, <4>2
    <3>2. \A x \in 1..q : x \in 1..r
      BY <1>0
    <3> QED
      BY <1>2, <2>2, <2>4, <3>1, <3>2 DEF Reflects
  <2> QED
    BY <2>3, <2>4
<1> QED
  BY <1>1, <1>2

(* What a snapshot of a later revision gives reflects that revision.       *)
LEMMA SyncedReflects ==
  ASSUME OneKeyPerId, TypeOK, NEW k \in Keys, NEW q \in Nat, NEW r \in 1..Now,
         q <= r, Reflects(cache[KeyId[k]].srv, q, k)
  PROVE  Reflects(Synced(r, KeyId[k]), r, k)
<1> DEFINE held == cache[KeyId[k]].srv
<1>1. held = None \/ \E p \in 1..q : held = Registration(k, At(p)[k])
  BY ReflectsPast
<1>2. Synced(r, KeyId[k]) = IF ~Visible(k) \/ At(r)[k] = None THEN None
                            ELSE IF At(r)[k] = Bad THEN held
                            ELSE Registration(k, At(r)[k])
  BY SnapshotOfKey DEF Synced
<1>3. r # 0 /\ \A p \in 1..q : p \in 1..r
  OBVIOUS
<1> QED
  BY <1>1, <1>2, <1>3 DEF Reflects

-----------------------------------------------------------------------------
(* The events of the response in hand that are not yet applied are exactly *)
(* the keys still to do.                                                   *)
LEMMA EventStep ==
  ASSUME TypeOK, LockInv, EventInv, NoEventSkipped, [Next]_vars
  PROVE  EventInv'
<1> USE DEF lockVars, watchVars, downVars
<1>0. /\ Len(etcd) \in Nat /\ applied \in Nat /\ revision \in Nat /\ stream \in Nat
      /\ hand \in [from : Nat, to : Nat]
  BY DEF TypeOK
<1>1. CASE Etcd
  <2>1. PICK keys \in SUBSET Keys, doc \in Docs \cup {Bad, None} : Commit(keys, doc)
    BY <1>1, EtcdCommits
  <2>2. Now' = Now + 1 /\ \A r \in 1..Now : etcd'[r] = etcd[r]
    BY <2>1, CommitAppends
  <2>3. UNCHANGED <<applied, lockVars, watchVars>>
    BY <2>1 DEF Commit
  <2>4. phase = "events" => hand.from <= Now
    BY <1>0 DEF LockInv, Now
  <2> QED
    BY <1>0, <2>2, <2>3, <2>4 DEF EventInv, Now
<1>2. CASE ApplyBegin
  <2>1. SUFFICES ASSUME ~Cancelled
                 PROVE  EventInv'
    BY <1>2, <2>1 DEF ApplyBegin, EventInv, LockInv
  <2>2. /\ UNCHANGED <<etcd, applied, hand>> /\ revision' = applied
        /\ todo' = etcd[hand.from].touched
    BY <1>2, <2>1 DEF ApplyBegin
  <2>3. \A r \in applied + 1 .. hand.from - 1 : etcd[r].touched = {}
    BY <1>0, <1>2, <2>1 DEF ApplyBegin, NoEventSkipped, Awaited, LockInv
  <2> QED
    BY <1>0, <2>2, <2>3 DEF EventInv
<1>3. ASSUME NEW k \in Keys, ApplyEvent(k)
      PROVE  EventInv'
  <2>1. /\ UNCHANGED <<etcd, applied, hand>> /\ todo' = todo \ {k} /\ k \in todo
        /\ phase = "events"
        /\ revision' = IF hand.from > applied /\ hand.from > revision
                         THEN hand.from ELSE revision
    BY <1>3, EventFrame
  <2> QED
    BY <1>0, <2>1 DEF EventInv, LockInv
<1>4. CASE ApplyNext
  <2>1. /\ UNCHANGED <<etcd, applied, revision>> /\ phase = "events" /\ todo = {}
        /\ hand'.from = hand.from + 1 /\ todo' = etcd[hand.from + 1].touched
    BY <1>0, <1>4 DEF ApplyNext
  <2> QED
    BY <1>0, <2>1 DEF EventInv
<1>5. CASE phase' # "events"
  BY <1>5 DEF EventInv
<1>6. CASE UNCHANGED <<etcd, applied, phase, revision, todo, hand>>
  BY ZenonT(30), <1>6 DEF EventInv
<1>7. Holder => \/ phase' # "events" \/ ApplyNext
                \/ \E k \in Keys : ApplyEvent(k)
  BY ZenonT(30) DEF Holder, SyncPlan, SyncStore, SyncRemove, SyncCommit, ApplyCommit,
         Notify, Unlock, Release
<1>8. Loops => \/ phase' # "events" \/ ApplyBegin
               \/ UNCHANGED <<etcd, applied, phase, revision, todo, hand>>
  BY DEF Loops, SyncRead, SyncFail, Receive, StreamEnds, WatchLoop, TickerStops, LockInv
<1>9. Life => UNCHANGED <<etcd, applied, phase, revision, todo, hand>>
  BY DEF Life, BeforeShutdown, Shutdown, ShutdownJoins
<1>10. UNCHANGED vars => UNCHANGED <<etcd, applied, phase, revision, todo, hand>>
  BY DEF vars
<1> QED
  BY <1>1, <1>2, <1>3, <1>4, <1>5, <1>6, <1>7, <1>8, <1>9, <1>10 DEF Next

(* watchEtcdChanges starts its stream at the revision after the applied    *)
(* one, and applying a response moves both together.                       *)
LEMMA StreamStep ==
  ASSUME TypeOK, LockInv, EventInv, NoEventSkipped, [Next]_vars
  PROVE  NoEventSkipped'
<1> USE DEF lockVars, watchVars, downVars
<1>0. /\ Len(etcd) \in Nat /\ applied \in Nat /\ revision \in Nat /\ stream \in Nat
      /\ hand \in [from : Nat, to : Nat]
  BY DEF TypeOK
<1>1. CASE Etcd
  <2>1. PICK keys \in SUBSET Keys, doc \in Docs \cup {Bad, None} : Commit(keys, doc)
    BY <1>1, EtcdCommits
  <2>2. Now' = Now + 1 /\ \A r \in 1..Now : etcd'[r] = etcd[r]
    BY <2>1, CommitAppends
  <2>3. UNCHANGED <<applied, lockVars, watchVars, down>>
    BY <2>1 DEF Commit, downVars
  <2>4. Awaited' = Awaited /\ Awaited \in Nat /\ Awaited - 1 <= Now
    BY <1>0, <2>3 DEF Awaited, LockInv, Now
  <2>5. \A r \in applied + 1 .. Awaited - 1 : r \in 1..Now
    BY <1>0, <2>4 DEF Now
  <2> QED
    BY <2>2, <2>3, <2>4, <2>5 DEF NoEventSkipped, Cancelled
<1>2. CASE Unlock
  <2>1. /\ UNCHANGED <<etcd, applied, hand, down>> /\ phase = "notify"
        /\ \/ mu = "watch" /\ stream' = applied + 1
           \/ UNCHANGED <<watcher, stream>>
    BY <1>2 DEF Unlock, FirstRevision
  <2> QED
    BY <1>0, <2>1 DEF NoEventSkipped, Awaited, Cancelled, LockInv
<1>3. CASE SyncPlan
  <2>1. /\ UNCHANGED <<etcd, applied, hand, down>> /\ phase = "read"
        /\ \/ mu = "watch" /\ stream' = applied + 1
           \/ UNCHANGED <<watcher, stream>>
    BY <1>3 DEF SyncPlan, FirstRevision
  <2> QED
    BY <1>0, <2>1 DEF NoEventSkipped, Awaited, Cancelled, LockInv
<1>4. CASE SyncCommit
  BY <1>0, <1>4 DEF SyncCommit, NoEventSkipped, Awaited, Cancelled, LockInv
<1>5. CASE ApplyCommit
  <2>1. /\ UNCHANGED <<etcd, watcher, stream, down>> /\ applied' = revision
        /\ hand'.from = 1 /\ hand'.to = 0 /\ phase = "events" /\ todo = {}
        /\ hand.from = hand.to
    BY <1>5 DEF ApplyCommit, NoHand
  <2>2. Awaited' = hand.from + 1
    BY <1>0, <2>1 DEF Awaited, LockInv
  <2> QED
    BY <1>0, <2>1, <2>2 DEF NoEventSkipped, EventInv
<1>6. ASSUME NEW to \in 1..MaxRevision, Receive(to)
      PROVE  NoEventSkipped'
  BY <1>0, <1>6 DEF Receive, NoEventSkipped, Awaited, Cancelled
<1>7. CASE ApplyBegin
  BY <1>0, <1>7 DEF ApplyBegin, NoEventSkipped, Awaited, Cancelled, NoHand
<1>8. CASE ApplyNext \/ \E k \in Keys : ApplyEvent(k)
  <2>1. phase' = "events"
    BY <1>8, EventFrame DEF ApplyNext
  <2> QED
    BY <2>1 DEF NoEventSkipped
<1>9. CASE watcher' # "open"
  BY <1>9 DEF NoEventSkipped
<1>10. CASE /\ UNCHANGED <<etcd, applied, watcher, stream, hand>>
            /\ (phase = "events" => phase' = "events") /\ (Cancelled => Cancelled')
  BY <1>10 DEF NoEventSkipped, Awaited
<1>11. ASSUME NEW id \in Ids, SyncStore(id) \/ SyncRemove(id)
       PROVE  NoEventSkipped'
  BY <1>10, <1>11 DEF SyncStore, SyncRemove, Cancelled
<1>12. CASE Notify
  BY <1>10, <1>12 DEF Notify, Cancelled
<1>13. ASSUME NEW p \in Callers, SyncRead(p) \/ SyncFail(p)
       PROVE  NoEventSkipped'
  BY <1>9, <1>10, <1>13 DEF SyncRead, SyncFail, MaySync, Cancelled, LockInv
<1>14. CASE StreamEnds \/ WatchLoop
  BY <1>9, <1>14 DEF StreamEnds, WatchLoop
<1>15. CASE BeforeShutdown \/ Shutdown \/ TickerStops \/ ShutdownJoins
  BY <1>10, <1>15 DEF BeforeShutdown, Shutdown, TickerStops, ShutdownJoins, Cancelled
<1>16. CASE UNCHANGED vars
  BY ZenonT(30), <1>10, <1>16 DEF vars, Cancelled
<1> QED
  BY <1>1, <1>2, <1>3, <1>4, <1>5, <1>6, <1>7, <1>8, <1>11, <1>12, <1>13, <1>14,
     <1>15, <1>16 DEF Next, Holder, Loops, Life
=============================================================================
