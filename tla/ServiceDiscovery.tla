------------------------- MODULE ServiceDiscovery -------------------------
(***************************************************************************)
(* The server cache of cluster/etcd_service_discovery.go: one server keeps *)
(* a copy of the registrations under the etcd prefix "servers/".  Three    *)
(* kinds of goroutine change the copy, all under reconcileMu: the watch    *)
(* loop (a snapshot, then the events of a stream opened at the next        *)
(* revision), the ticker loop (a snapshot every interval) and callers of   *)
(* the public SyncServers.  etcd is external: a sequence of revisions.     *)
(***************************************************************************)
EXTENDS Naturals, Sequences, FiniteSets

CONSTANTS Keys,         \* the keys under "servers/" that are ever written
          KeyType,      \* the server type a key names
          KeyId,        \* the server id a key names
          KeyRank,      \* the byte order in which a prefix read returns keys
          Malformed,    \* keys that parseEtcdKey refuses
          Blacklist,    \* serverTypesBlacklist
          Self,         \* sd.server.ID
          SelfKey,      \* the key bootstrap registered before the loops start
          Docs,         \* valid registration documents
          Bad,          \* a document that does not decode or match its key
          Batches,      \* the sets of keys one transaction writes or deletes
          None,         \* no document, no server, no lock holder
          MaxRevision,  \* bound: revisions etcd ever creates
          MaxFailures   \* bound: failed reads and broken streams

Ids == {KeyId[k] : k \in Keys}
Types == {KeyType[k] : k \in Keys}
Server == [type : Types, doc : Docs]
Callers == {"watch", "tick", "public"}

ASSUME KeysAssumption ==
  /\ KeyType \in [Keys -> Types] /\ KeyId \in [Keys -> Ids]
  /\ KeyRank \in [Keys -> Nat]
  /\ \A j, k \in Keys : KeyRank[j] = KeyRank[k] => j = k
  /\ IsFiniteSet(Keys) /\ SelfKey \in Keys /\ KeyId[SelfKey] = Self
  /\ Batches \subseteq SUBSET Keys
  /\ Docs # {} /\ Bad \notin Docs /\ None \notin Docs \cup {Bad}
  /\ None \notin Server /\ None \notin Callers

VARIABLES
  etcd,       \* revision r: the registrations at r and the keys r touched
  cache,      \* serverMapByID, serverMapByType and consistentHash, by id
  applied,    \* appliedRevision
  mu,         \* the holder of reconcileMu
  phase,      \* what the holder is doing
  revision,   \* the holder's local revision: the one it will commit
  todo,       \* ids or keys of the batch the holder has still to process
  changes,    \* the changes the holder has still to collect or to notify
  watcher,    \* where watchEtcdChanges is
  stream,     \* the next revision the open stream delivers
  hand,       \* the revisions of a received response not yet applied
  ticker,     \* whether the ticker loop still runs
  listening,  \* FALSE once BeforeShutdown dropped the listeners
  view,       \* what the listeners have been told, by id
  down,       \* how far Shutdown has come
  failures    \* failed reads and broken streams so far

lockVars == <<mu, phase, revision, todo, changes>>
watchVars == <<watcher, stream, hand>>
downVars == <<ticker, listening, down>>
vars == <<etcd, cache, applied, lockVars, watchVars, downVars, view, failures>>

-----------------------------------------------------------------------------
(* The registrations at a revision; before revision 1 there are none. *)
At(r) == etcd[r].at
Now == Len(etcd)
Cancelled == down # "up"

(* A key whose events and snapshot entries are looked at: it parses, and   *)
(* its type is not blacklisted unless it is this server's own.             *)
Visible(k) == k \notin Malformed /\ (KeyType[k] \in Blacklist => KeyId[k] = Self)

Registration(k, doc) == [type |-> KeyType[k], doc |-> doc]

(* What one id has in the three indexes: its entry in serverMapByID, the   *)
(* types whose serverMapByType holds it, the types whose ring holds it.    *)
Cell == [srv : Server \cup {None}, types : SUBSET Types, rings : SUBSET Types]
EmptyCell == [srv |-> None, types |-> {}, rings |-> {}]

(* Mutant: a server that changes type stays listed under the old one.      *)
storeServerLockedStale(id, cell, sv) ==
  [srv   |-> sv,
   types |-> cell.types \cup {sv.type},
   rings |-> cell.rings \cup (IF id = Self THEN {} ELSE {sv.type})]

storeServerLocked(id, cell, sv) ==
  LET left == IF cell.srv # None /\ cell.srv.type # sv.type
                THEN {cell.srv.type} ELSE {}
  IN  [srv   |-> sv,
       types |-> (cell.types \ left) \cup {sv.type},
       rings |-> (cell.rings \ left) \cup (IF id = Self THEN {} ELSE {sv.type})]

removeServerLocked(cell) ==
  [srv   |-> None,
   types |-> cell.types \ {cell.srv.type},
   rings |-> cell.rings \ {cell.srv.type}]

NoHand == [from |-> 1, to |-> 0]

Change(action, id, sv) == [action |-> action, id |-> id, server |-> sv]

(* Mutants: every store is announced as an addition; a removal is told     *)
(* without its server.                                                     *)
StoreChangeAlwaysAdd(id, sv) == Change("ADD", id, sv)
DeleteChangeNil(id) == Change("DEL", id, None)

StoreChange(id, sv) ==
  Change(IF cache[id].srv = None THEN "ADD" ELSE "Modify", id, sv)
DeleteChange(id) == Change("DEL", id, cache[id].srv)

(* The entry a snapshot reg gives an id whose cached entry is held: that   *)
(* of its last key, in the order of the read, that is valid or keeps held. *)
Snapshot(reg, held, id) ==
  LET counts == {k \in Keys : /\ KeyId[k] = id /\ Visible(k) /\ reg[k] # None
                              /\ reg[k] = Bad => held # None}
      last == CHOOSE k \in counts : \A j \in counts : KeyRank[j] <= KeyRank[k]
  IN  IF counts = {} THEN None
      ELSE IF reg[last] = Bad THEN held
      ELSE Registration(last, reg[last])
Synced(r, id) == Snapshot(At(r), cache[id].srv, id)

-----------------------------------------------------------------------------
Init ==
  /\ \E d \in Docs :
       etcd = << [at |-> [k \in Keys |-> IF k = SelfKey THEN d ELSE None],
                  touched |-> {SelfKey}] >>
  /\ cache = [id \in Ids |-> EmptyCell]
  /\ applied = 0
  /\ mu = None /\ phase = "idle" /\ revision = 0 /\ todo = {} /\ changes = <<>>
  /\ watcher = "sync" /\ stream = 1 /\ hand = NoHand
  /\ ticker = TRUE /\ listening = TRUE /\ down = "up"
  /\ view = [id \in Ids |-> None]
  /\ failures = 0

(* etcd: servers register or refresh their documents, leases expire or are *)
(* revoked, and other prefixes of the cluster are written.                 *)
Commit(keys, doc) ==
  /\ Now < MaxRevision
  /\ etcd' = Append(etcd, [at |-> [k \in Keys |-> IF k \in keys THEN doc
                                                   ELSE At(Now)[k]],
                           touched |-> keys])
  /\ UNCHANGED <<cache, applied, lockVars, watchVars, downVars, view, failures>>

Put(keys, doc) == Commit(keys, doc)
Withdraw(keys) ==
  /\ \A k \in keys : At(Now)[k] # None
  /\ Commit(keys, None)
WriteElsewhere == Commit({}, None)

-----------------------------------------------------------------------------
(* Mutant: the stream starts at etcd's current revision.                   *)
FirstRevisionNow == Now + 1

(* The revision a new stream starts at: WithRev(revision+1).               *)
FirstRevision == applied + 1

(* A snapshot.  The watch loop takes it at its top, the ticker on a tick,  *)
(* anyone through SyncServers.  The read is linearizable and is made with  *)
(* the lock held.                                                          *)
MaySync(p) ==
  /\ mu = None
  /\ p = "watch" => watcher = "sync"
  /\ p = "tick" => ticker

SyncRead(p) ==
  /\ MaySync(p) /\ ~Cancelled
  /\ mu' = p /\ phase' = "read" /\ revision' = Now
  /\ UNCHANGED <<etcd, cache, applied, todo, changes, watchVars, downVars,
                 view, failures>>

(* The read fails: the cache stays, and the watch loop waits and retries.  *)
SyncFail(p) ==
  /\ MaySync(p)
  /\ Cancelled \/ failures < MaxFailures
  /\ failures' = IF Cancelled THEN failures ELSE failures + 1
  /\ watcher' = IF p = "watch" THEN "wait" ELSE watcher
  /\ UNCHANGED <<etcd, cache, applied, lockVars, stream, hand, downVars, view>>

Release ==
  /\ mu' = None /\ phase' = "idle" /\ revision' = 0 /\ todo' = {}
  /\ changes' = <<>>

(* Mutant: the keys-only synchronisation: a known id is never compared.    *)
DiffersUnknown(id) ==
  (Synced(revision, id) = None) # (cache[id].srv = None)

(* The ids a snapshot stores or removes: the others are deeply equal.      *)
Differs(id) == Synced(revision, id) # cache[id].srv

(* The read returned: give up if the context is done or the snapshot is    *)
(* older than the cache, else find the ids that it changes.                *)
SyncPlan ==
  /\ phase = "read"
  /\ IF Cancelled \/ revision < applied
       THEN /\ Release
            /\ IF mu = "watch"
                 THEN /\ watcher' = IF Cancelled THEN "wait" ELSE "open"
                      /\ stream' = FirstRevision
                 ELSE UNCHANGED <<watcher, stream>>
       ELSE /\ phase' = "store"
            /\ todo' = {id \in Ids : Differs(id)}
            /\ UNCHANGED <<mu, revision, changes, watcher, stream>>
  /\ UNCHANGED <<etcd, cache, applied, hand, downVars, view, failures>>

SyncStore(id) ==
  /\ phase = "store" /\ id \in todo
  /\ LET sv == Synced(revision, id) IN
       /\ sv # None
       /\ cache' = [cache EXCEPT ![id] = storeServerLocked(id, @, sv)]
       /\ changes' = Append(changes, StoreChange(id, sv))
  /\ todo' = todo \ {id}
  /\ UNCHANGED <<etcd, applied, mu, phase, revision, watchVars, downVars, view,
                 failures>>

(* Once everything is stored, the ids the snapshot does not have go. *)
SyncRemove(id) ==
  /\ phase = "store" /\ id \in todo
  /\ \A i \in todo : Synced(revision, i) = None
  /\ cache' = [cache EXCEPT ![id] = removeServerLocked(@)]
  /\ changes' = Append(changes, DeleteChange(id))
  /\ todo' = todo \ {id}
  /\ UNCHANGED <<etcd, applied, mu, phase, revision, watchVars, downVars, view,
                 failures>>

SyncCommit ==
  /\ phase = "store" /\ todo = {}
  /\ applied' = revision
  /\ phase' = "notify"
  /\ UNCHANGED <<etcd, cache, mu, revision, todo, changes, watchVars, downVars,
                 view, failures>>

-----------------------------------------------------------------------------
(* The watch stream delivers whole revisions in order, several at a time.  *)
Receive(to) ==
  /\ watcher = "open" /\ hand.from > hand.to /\ mu # "watch"
  /\ to \in stream..Now
  /\ hand' = [from |-> stream, to |-> to]
  /\ stream' = to + 1
  /\ UNCHANGED <<etcd, cache, applied, lockVars, watcher, downVars, view,
                 failures>>

(* The channel closes or a response carries an error (compaction, a lost   *)
(* connection), or the context is done: the loop waits and starts over.    *)
StreamEnds ==
  /\ watcher = "open" /\ hand.from > hand.to /\ mu # "watch"
  /\ Cancelled \/ failures < MaxFailures
  /\ failures' = IF Cancelled THEN failures ELSE failures + 1
  /\ watcher' = "wait"
  /\ UNCHANGED <<etcd, cache, applied, lockVars, stream, hand, downVars, view>>

(* Mutant: the loop does not look at the context.                          *)
WatchLoopForever ==
  /\ watcher = "wait"
  /\ watcher' = "sync"
  /\ UNCHANGED <<etcd, cache, applied, lockVars, stream, hand, downVars, view,
                 failures>>

(* The timer of a second fires, or the context is done. *)
WatchLoop ==
  /\ watcher = "wait"
  /\ watcher' = IF Cancelled THEN "done" ELSE "sync"
  /\ UNCHANGED <<etcd, cache, applied, lockVars, stream, hand, downVars, view,
                 failures>>

(* applyWatchResponse takes the lock; with the context done it returns.    *)
ApplyBegin ==
  /\ mu = None /\ hand.from <= hand.to
  /\ IF Cancelled
       THEN hand' = NoHand /\ UNCHANGED lockVars
       ELSE /\ mu' = "watch" /\ phase' = "events"
            /\ revision' = applied /\ todo' = etcd[hand.from].touched
            /\ UNCHANGED <<hand, changes>>
  /\ UNCHANGED <<etcd, cache, applied, watcher, stream, downVars, view, failures>>

(* Mutant: queued events are applied over a newer snapshot.                *)
PastBoundaryAlways(r) == TRUE

(* applied is the boundary of a batch: it moves only after the batch.      *)
PastBoundary(r) == r > applied

(* One event of the response.                                              *)
ApplyEvent(k) ==
  LET id == KeyId[k]
      doc == At(hand.from)[k]
      looked == PastBoundary(hand.from) /\ Visible(k)
  IN
  /\ phase = "events" /\ k \in todo
  /\ todo' = todo \ {k}
  /\ revision' = IF PastBoundary(hand.from) /\ hand.from > revision
                   THEN hand.from ELSE revision
  /\ \/ /\ looked /\ doc \in Docs
        /\ cache' = [cache EXCEPT
                       ![id] = storeServerLocked(id, @, Registration(k, doc))]
        /\ changes' = Append(changes, StoreChange(id, Registration(k, doc)))
     \/ /\ looked /\ doc = None /\ cache[id].srv # None
        /\ cache' = [cache EXCEPT ![id] = removeServerLocked(@)]
        /\ changes' = Append(changes, DeleteChange(id))
     \/ /\ \/ ~looked
           \/ doc = Bad
           \/ doc = None /\ cache[id].srv = None
        /\ UNCHANGED <<cache, changes>>
  /\ UNCHANGED <<etcd, applied, mu, phase, watchVars, downVars, view, failures>>

(* The events of the next revision of the response. *)
ApplyNext ==
  /\ phase = "events" /\ todo = {} /\ hand.from < hand.to
  /\ hand' = [hand EXCEPT !.from = @ + 1]
  /\ todo' = etcd[hand.from + 1].touched
  /\ UNCHANGED <<etcd, cache, applied, mu, phase, revision, changes, watcher,
                 stream, downVars, view, failures>>

(* Mutant: the revision of the response is taken as it is.                 *)
ApplyCommitLast ==
  /\ phase = "events" /\ todo = {} /\ hand.from = hand.to
  /\ hand' = NoHand
  /\ applied' = hand.to
  /\ phase' = "notify"
  /\ UNCHANGED <<etcd, cache, mu, revision, todo, changes, watcher, stream,
                 downVars, view, failures>>

ApplyCommit ==
  /\ phase = "events" /\ todo = {} /\ hand.from = hand.to
  /\ hand' = NoHand
  /\ applied' = revision
  /\ phase' = "notify"
  /\ UNCHANGED <<etcd, cache, mu, revision, todo, changes, watcher, stream,
                 downVars, view, failures>>

-----------------------------------------------------------------------------
(* Mutant: removals of other servers are not passed on.                    *)
ToldStores(ch) == ch.action # "DEL" /\ ch.id # Self

(* notifyChanges: one change at a time, the server's own additions and     *)
(* modifications left out.                                                 *)
Told(ch) == ch.action = "DEL" \/ ch.id # Self

Notify ==
  /\ phase = "notify" /\ changes # <<>>
  /\ LET ch == Head(changes) IN
       view' = IF listening /\ Told(ch)
                 THEN [view EXCEPT ![ch.id] = IF ch.action = "DEL" THEN None
                                              ELSE ch.server]
                 ELSE view
  /\ changes' = Tail(changes)
  /\ UNCHANGED <<etcd, cache, applied, mu, phase, revision, todo, watchVars,
                 downVars, failures>>

(* The holder unlocks; after a snapshot the watch loop opens its stream at *)
(* the revision after the one it saw under the lock.                       *)
Unlock ==
  /\ phase = "notify" /\ changes = <<>>
  /\ Release
  /\ IF mu = "watch" /\ watcher = "sync"
       THEN watcher' = "open" /\ stream' = FirstRevision
       ELSE UNCHANGED <<watcher, stream>>
  /\ UNCHANGED <<etcd, cache, applied, hand, downVars, view, failures>>

-----------------------------------------------------------------------------
BeforeShutdown ==
  /\ listening /\ down = "up"
  /\ listening' = FALSE
  /\ UNCHANGED <<etcd, cache, applied, lockVars, watchVars, ticker, down, view,
                 failures>>

Shutdown ==
  /\ down = "up"
  /\ down' = "cancelled"
  /\ UNCHANGED <<etcd, cache, applied, lockVars, watchVars, ticker, listening,
                 view, failures>>

TickerStops ==
  /\ Cancelled /\ ticker /\ mu # "tick"
  /\ ticker' = FALSE
  /\ UNCHANGED <<etcd, cache, applied, lockVars, watchVars, listening, down,
                 view, failures>>

(* Mutant: Shutdown waits for the loops only.                              *)
ShutdownJoinsLoops ==
  /\ down = "cancelled" /\ watcher = "done" /\ ~ticker
  /\ down' = "down"
  /\ UNCHANGED <<etcd, cache, applied, lockVars, watchVars, ticker, listening,
                 view, failures>>

(* loops.Wait, then one passage through the lock. *)
ShutdownJoins ==
  /\ down = "cancelled" /\ watcher = "done" /\ ~ticker
  /\ mu = None
  /\ down' = "down"
  /\ UNCHANGED <<etcd, cache, applied, lockVars, watchVars, ticker, listening,
                 view, failures>>

-----------------------------------------------------------------------------
Etcd ==
  \/ \E keys \in Batches, doc \in Docs \cup {Bad} : Put(keys, doc)
  \/ \E keys \in Batches : Withdraw(keys)
  \/ WriteElsewhere

Holder ==
  \/ SyncPlan
  \/ \E id \in Ids : SyncStore(id) \/ SyncRemove(id)
  \/ SyncCommit
  \/ \E k \in Keys : ApplyEvent(k)
  \/ ApplyNext \/ ApplyCommit
  \/ Notify \/ Unlock

Loops ==
  \/ \E p \in Callers : SyncRead(p) \/ SyncFail(p)
  \/ \E to \in 1..MaxRevision : Receive(to)
  \/ StreamEnds \/ WatchLoop \/ ApplyBegin
  \/ TickerStops

Life == BeforeShutdown \/ Shutdown \/ ShutdownJoins

Next == Etcd \/ Holder \/ Loops \/ Life

Spec == Init /\ [][Next]_vars

(* The loops are goroutines that run when they can; etcd answers, delivers *)
(* and callbacks return.  A goroutine that keeps asking for reconcileMu    *)
(* gets it (sync.Mutex hands over to a waiter starved for a millisecond),  *)
(* hence strong fairness for the steps that take the lock.                 *)
Fairness ==
  /\ WF_vars(Holder)
  /\ WF_vars(WatchLoop) /\ WF_vars(TickerStops)
  /\ WF_vars(\E to \in 1..MaxRevision : Receive(to))
  /\ WF_vars(StreamEnds /\ Cancelled)
  /\ SF_vars(ApplyBegin) /\ SF_vars(ShutdownJoins)
  /\ \A p \in {"watch", "tick"} : SF_vars(SyncRead(p))
  /\ WF_vars(SyncFail("watch") /\ Cancelled)

FairSpec == Spec /\ Fairness

-----------------------------------------------------------------------------
Revision == [at : [Keys -> Docs \cup {Bad, None}], touched : SUBSET Keys]
ServerChange == [action : {"ADD", "DEL", "Modify"}, id : Ids, server : Server]

TypeOK ==
  /\ etcd \in Seq(Revision)
  /\ cache \in [Ids -> Cell]
  /\ applied \in Nat /\ revision \in Nat /\ failures \in Nat
  /\ mu \in Callers \cup {None}
  /\ phase \in {"idle", "read", "store", "events", "notify"}
  /\ todo \in SUBSET (Ids \cup Keys)
  /\ changes \in Seq(ServerChange)
  /\ watcher \in {"sync", "open", "wait", "done"}
  /\ stream \in Nat /\ hand \in [from : Nat, to : Nat]
  /\ ticker \in BOOLEAN /\ listening \in BOOLEAN
  /\ view \in [Ids -> Server \cup {None}]
  /\ down \in {"up", "cancelled", "down"}

(* Readers of the indexes take mapByTypeLock, which the holder of          *)
(* reconcileMu keeps while it stores a snapshot or applies a response.     *)
Readable == phase \notin {"store", "events"}

(* Every key names its own server: no id is registered under two types.    *)
OneKeyPerId == \A j, k \in Keys : KeyId[j] = KeyId[k] => j = k

(* srv is what the registry of revision r holds under key k: nothing when  *)
(* the key is absent or not looked at, and for an invalid document an      *)
(* earlier valid one or nothing.                                           *)
Reflects(srv, r, k) ==
  IF r = 0 \/ ~Visible(k) THEN srv = None
  ELSE IF At(r)[k] = None THEN srv = None
  ELSE IF At(r)[k] = Bad
    THEN srv = None \/ \E q \in 1..r : srv = Registration(k, At(q)[k])
  ELSE srv = Registration(k, At(r)[k])

(* Whenever the indexes can be read, the cache is the registry of exactly  *)
(* the applied revision: what a transaction wrote is there whole, nothing  *)
(* that an older event, a slower snapshot or a rebuilt stream brought has  *)
(* overwritten it, and an invalid document leaves an older valid one.      *)
CacheIsSnapshot ==
  Readable => \A k \in Keys : Reflects(cache[KeyId[k]].srv, applied, k)

(* The three indexes agree whenever they can be read: a server is listed   *)
(* under its own type and no other, and is in that type's ring unless it   *)
(* is this server, which never routes to itself.                           *)
IndexesAgree ==
  Readable => \A id \in Ids :
    LET own == IF cache[id].srv = None THEN {} ELSE {cache[id].srv.type} IN
    /\ cache[id].types = own
    /\ cache[id].rings = IF id = Self THEN {} ELSE own

(* No event is lost between a snapshot and the stream: every revision past *)
(* the applied one that touched a registration is still to come, in the    *)
(* response in hand or later on the open stream.                           *)
Awaited == IF hand.from <= hand.to THEN hand.from ELSE stream
NoEventSkipped ==
  (watcher = "open" /\ phase # "events" /\ ~Cancelled) =>
    \A r \in applied + 1 .. Awaited - 1 : etcd[r].touched = {}

(* The cache is never wrong about the past and never misses the future:    *)
(* it is the registry of the applied revision, and every later revision is *)
(* still to come.                                                          *)
CacheExact == CacheIsSnapshot /\ NoEventSkipped

(* Once every notification of a batch is out, the listeners know the cache *)
(* and nothing else, whatever mix of snapshots and events led there; and a *)
(* listener hears ADD only for a server it does not know, and Modify and   *)
(* DEL only for one it knows: grpcClient keys its connections on that.     *)
ListenersInSync ==
  /\ listening /\ mu = None => \A id \in Ids \ {Self} : view[id] = cache[id].srv
  /\ listening /\ phase = "notify" /\ changes # <<>> /\ Head(changes).id # Self =>
       (Head(changes).action = "ADD" <=> view[Head(changes).id] = None)

(* When Shutdown returns nobody is storing, applying or notifying, and     *)
(* nobody will again: the loops are gone and a late public SyncServers     *)
(* stops at the cancelled context.                                         *)
QuietAfterShutdown == down = "down" => phase = "idle"

(* The applied revision never goes back, and the cache changes only in the *)
(* hands of the lock holder.                                               *)
RevisionsAdvance ==
  [][applied' >= applied /\ (cache' # cache => mu \in Callers /\ mu' = mu)]_vars

(* When etcd stops changing, the cache becomes what a fresh snapshot of it *)
(* would be, and stays so, unless the server shuts down first.             *)
Current == \A id \in Ids : cache[id].srv = Synced(Now, id)
Converges == <>[](Current \/ Cancelled)

(* Shutdown returns, whoever holds the lock when it is called.             *)
ShutdownReturns == (down = "cancelled") ~> (down = "down")

=============================================================================
