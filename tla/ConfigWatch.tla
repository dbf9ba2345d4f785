---------------------------- MODULE ConfigWatch ----------------------------
(***************************************************************************)
(* The configuration of config/viper_config.go.  NewConfig pins what it is *)
(* given and fills in the defaults; InitLoad reads the remote document;    *)
(* the config module reloads every loader and then supervises a watch of   *)
(* the remote document until it is shut down.  A loader owns an object the *)
(* document is decoded into; one that hands out the same object again may  *)
(* keep data of its own in fields excluded from the configuration.         *)
(* Remote documents and viper's copy of them (viper is not in this         *)
(* repository) are modelled from how superviseWatch uses them: a watch     *)
(* begins with the current document, and a later change first replaces     *)
(* viper's copy and then sends a response.                                 *)
(***************************************************************************)
EXTENDS Naturals, Sequences, FiniteSets, SequencesExt

CONSTANTS Fields,      \* configuration fields
          Pointers,    \* fields that are pointers to structs with an excluded field
          Documents,   \* remote documents: functions from fields to values, Absent or Bad
          Given,       \* values NewConfig was given, by field
          Default,     \* the value of a field nobody sets
          Absent,      \* a document, or an object, without the field
          Bad,         \* a value the field's type cannot hold
          Own,         \* the loader that is the Config itself
          Others,      \* the loaders added with AddLoader
          MaxChanges, MaxErrors, MaxPanics

ConfigConstants ==
  /\ Pointers \subseteq Fields /\ DOMAIN Given \subseteq Fields /\ Own \notin Others
  /\ \A d \in Documents : DOMAIN d = Fields

Loaders == Others \cup {Own}

VARIABLES
  remote,     \* the document in etcd
  store,      \* viper's copy
  last,       \* superviseWatch's last
  loaders,    \* Config.loaders
  object,     \* what a loader's object holds: field |-> [v, extra]
  inited,     \* InitLoad was called
  watchAt,    \* where superviseWatch is
  todo,       \* loaders reloadSnapshot has still to call
  snapshot,   \* the snapshot being reloaded
  updates,    \* responses in the updates channel
  stopping,   \* how far stopWatch is
  missed,     \* loaders the last reload passed over: added since, or behind a panic
  lateReload, \* a loader was called after stopWatch returned
  budget      \* changes, errors and panics still allowed

cfgVars == <<remote, store, last, loaders, object, inited, watchAt, todo, snapshot, updates,
             stopping, missed, lateReload, budget>>

Unset == [v |-> Absent, extra |-> FALSE]
Nothing == [f \in Fields |-> Absent]

Init ==
  /\ remote \in Documents /\ store = Nothing /\ last = Nothing /\ loaders = <<Own>>
  /\ object = [l \in Loaders |-> [f \in Fields |-> Unset]]
  /\ inited = FALSE /\ watchAt = "none" /\ todo = << >> /\ snapshot = Nothing
  /\ updates = 0 /\ stopping = "no" /\ missed = {} /\ lateReload = FALSE
  /\ budget = [changes |-> MaxChanges, errors |-> MaxErrors, panics |-> MaxPanics]
-----------------------------------------------------------------------------
(* Decoding.                                                               *)

(* fillDefaultValues: a parameter that NewConfig finds set is set again,   *)
(* above every other source; the others get a default below them.          *)
fillDefaultValues(d) ==
  [f \in Fields |-> IF f \in DOMAIN Given THEN Given[f]
                    ELSE IF d[f] # Absent THEN d[f]
                    ELSE Default]

(* What a loader's key selects: the Config reads the pitaya parameters,    *)
(* the other loaders keys of the document itself.                          *)
Section(l, d) == IF l = Own THEN fillDefaultValues(d) ELSE d

Decodable(l, d) == \A f \in Fields : Section(l, d)[f] # Bad

(* seedConfigDecodeShape and the decoder: a fresh value.                   *)
Decoded(l, d) == [f \in Fields |-> [v |-> Section(l, d)[f], extra |-> FALSE]]

(* applyConfigValue: a pointer that is set on both sides is followed, so   *)
(* the excluded field behind it stays; everything else is replaced.        *)
applyConfigValue(old, new) ==
  [f \in Fields |->
     IF f \in Pointers /\ old[f].v # Absent /\ new[f].v # Absent
     THEN [new[f] EXCEPT !.extra = old[f].extra] ELSE new[f]]

(* The document decoded straight into the loader's object.                 *)
reloadInPlace(l, d) ==
  [f \in Fields |-> IF Section(l, d)[f] \in {Absent, Bad} THEN object[l][f]
                    ELSE [object[l][f] EXCEPT !.v = Section(l, d)[f]]]

(* One loader of reloadSnapshot.  The Config provides a new object every   *)
(* time, the other loaders the one they have.                              *)
reloadOne(l, d) ==
  IF ~Decodable(l, d) THEN object[l]
  ELSE applyConfigValue(IF l = Own THEN [f \in Fields |-> Unset] ELSE object[l], Decoded(l, d))

(* reloadAll without concurrency: InitLoad and AfterInit.                  *)
reloadAll(d) == [l \in Loaders |-> IF l \in ToSet(loaders) THEN reloadOne(l, d) ELSE object[l]]
-----------------------------------------------------------------------------
(* InitLoad reads the remote document, or fails.                           *)
InitLoad ==
  /\ ~inited /\ inited' = TRUE
  /\ \/ store' = remote /\ object' = reloadAll(remote) /\ missed' = {}
     \/ UNCHANGED <<store, object, missed>>
  /\ UNCHANGED <<remote, last, loaders, watchAt, todo, snapshot, updates, stopping, lateReload, budget>>

AddLoader(l) ==
  /\ l \notin ToSet(loaders)
  /\ loaders' = Append(loaders, l) /\ missed' = missed \cup {l}
  /\ UNCHANGED <<remote, store, last, object, inited, watchAt, todo, snapshot, updates, stopping,
                 lateReload, budget>>

(* The owner of an object uses the excluded field behind a pointer.        *)
UseObject(l) ==
  /\ \E f \in Pointers : object[l][f].v # Absent /\ ~object[l][f].extra
                         /\ object' = [object EXCEPT ![l][f].extra = TRUE]
  /\ UNCHANGED <<remote, store, last, loaders, inited, watchAt, todo, snapshot, updates, stopping,
                 missed, lateReload, budget>>

(* _ConfigModule.AfterInit: reloadAll, then watch, which starts            *)
(* superviseWatch unless stopWatch was called.                             *)
AfterInit ==
  /\ inited /\ watchAt = "none" /\ stopping = "no"
  /\ object' = reloadAll(store) /\ missed' = {} /\ watchAt' = "begin"
  /\ UNCHANGED <<remote, store, last, loaders, inited, todo, snapshot, updates, stopping,
                 lateReload, budget>>

(* _ConfigModule.Shutdown: stopWatch cancels and waits for watchDone.      *)
stopWatch ==
  /\ inited /\ stopping = "no"
  /\ stopping' = IF watchAt = "none" THEN "done" ELSE "cancelled"
  /\ UNCHANGED <<remote, store, last, loaders, object, inited, watchAt, todo, snapshot, updates,
                 missed, lateReload, budget>>

StopReturnsAtOnce ==
  /\ stopping = "cancelled" /\ stopping' = "done"
  /\ UNCHANGED <<remote, store, last, loaders, object, inited, watchAt, todo, snapshot, updates,
                 missed, lateReload, budget>>

StopReturns ==
  /\ stopping = "cancelled" /\ watchAt = "done" /\ stopping' = "done"
  /\ UNCHANGED <<remote, store, last, loaders, object, inited, watchAt, todo, snapshot, updates,
                 missed, lateReload, budget>>
-----------------------------------------------------------------------------
(* The remote document and viper's watch of it.                            *)

RemoteChange ==
  /\ budget.changes > 0 /\ remote' \in Documents \ {remote}
  /\ budget' = [budget EXCEPT !.changes = @ - 1]
  /\ UNCHANGED <<store, last, loaders, object, inited, watchAt, todo, snapshot, updates, stopping,
                 missed, lateReload>>

Watching == watchAt \in {"compare", "reload", "receive"}

RemoteUpdate ==
  /\ Watching /\ store # remote
  /\ store' = remote /\ updates' = updates + 1
  /\ UNCHANGED <<remote, last, loaders, object, inited, watchAt, todo, snapshot, stopping, missed,
                 lateReload, budget>>
-----------------------------------------------------------------------------
(* superviseWatch.                                                         *)

ctxDone == stopping # "no"

WatchBegins ==
  /\ watchAt = "begin" /\ last' = store /\ watchAt' = "attempt"
  /\ UNCHANGED <<remote, store, loaders, object, inited, todo, snapshot, updates, stopping, missed,
                 lateReload, budget>>

(* WatchRemoteConfigWithChannel reads the document and watches it.         *)
WatchAttempt ==
  /\ watchAt = "attempt" /\ ~ctxDone
  /\ updates' = 0
  /\ \/ store' = remote /\ watchAt' = "compare" /\ UNCHANGED budget
     \/ /\ budget.errors > 0 /\ budget' = [budget EXCEPT !.errors = @ - 1]
        /\ watchAt' = "retry" /\ UNCHANGED store
  /\ UNCHANGED <<remote, last, loaders, object, inited, todo, snapshot, stopping, missed, lateReload>>

(* The watch is taken up again without looking at what it found.           *)
CompareLater ==
  /\ watchAt = "compare"
  /\ IF store = last \/ updates = 0 THEN watchAt' = "receive" /\ UNCHANGED <<todo, snapshot, missed>>
     ELSE watchAt' = "reload" /\ todo' = loaders /\ snapshot' = store /\ missed' = {}
  /\ UNCHANGED <<remote, store, last, loaders, object, inited, updates, stopping, lateReload, budget>>

(* reloadChanged: nothing to do for the same configuration, else the       *)
(* loaders of this moment are called one after the other.                  *)
reloadChanged ==
  /\ watchAt = "compare"
  /\ IF store = last THEN watchAt' = "receive" /\ UNCHANGED <<todo, snapshot, missed>>
     ELSE watchAt' = "reload" /\ todo' = loaders /\ snapshot' = store /\ missed' = {}
  /\ UNCHANGED <<remote, store, last, loaders, object, inited, updates, stopping, lateReload, budget>>

reloadSnapshot ==
  /\ watchAt = "reload" /\ todo # << >>
  /\ object' = [object EXCEPT ![Head(todo)] = reloadOne(Head(todo), snapshot)]
  /\ todo' = Tail(todo) /\ lateReload' = (lateReload \/ stopping = "done")
  /\ UNCHANGED <<remote, store, last, loaders, inited, watchAt, snapshot, updates, stopping, missed,
                 budget>>

(* A loader panics: SafeCall recovers outside the loop, and the snapshot   *)
(* counts as reloaded.                                                     *)
ReloadPanics ==
  /\ watchAt = "reload" /\ todo # << >> /\ budget.panics > 0
  /\ budget' = [budget EXCEPT !.panics = @ - 1]
  /\ missed' = missed \cup ToSet(todo) /\ todo' = << >>
  /\ UNCHANGED <<remote, store, last, loaders, object, inited, watchAt, snapshot, updates, stopping,
                 lateReload>>

Reloaded ==
  /\ watchAt = "reload" /\ todo = << >>
  /\ last' = snapshot /\ watchAt' = "receive"
  /\ UNCHANGED <<remote, store, loaders, object, inited, todo, snapshot, updates, stopping, missed,
                 lateReload, budget>>

Receive ==
  /\ watchAt = "receive" /\ updates > 0
  /\ updates' = updates - 1
  /\ watchAt' = IF ctxDone THEN "receive" ELSE "compare"
  /\ UNCHANGED <<remote, store, last, loaders, object, inited, todo, snapshot, stopping, missed,
                 lateReload, budget>>

(* The channel is closed or brings an error; a second later the watch is   *)
(* tried again.                                                            *)
WatchError ==
  /\ watchAt = "receive" /\ budget.errors > 0
  /\ budget' = [budget EXCEPT !.errors = @ - 1]
  /\ watchAt' = "retry"
  /\ UNCHANGED <<remote, store, last, loaders, object, inited, todo, snapshot, updates, stopping,
                 missed, lateReload>>

Retry ==
  /\ watchAt = "retry" /\ watchAt' = "attempt"
  /\ UNCHANGED <<remote, store, last, loaders, object, inited, todo, snapshot, updates, stopping,
                 missed, lateReload, budget>>

(* The context is done: the loop, the select and the timer end.            *)
WatchEnds ==
  /\ ctxDone /\ watchAt \in {"attempt", "compare", "receive", "retry"}
  /\ watchAt' = "done"
  /\ UNCHANGED <<remote, store, last, loaders, object, inited, todo, snapshot, updates, stopping,
                 missed, lateReload, budget>>

superviseWatch ==
  \/ WatchBegins \/ WatchAttempt \/ reloadChanged \/ reloadSnapshot \/ ReloadPanics \/ Reloaded
  \/ Receive \/ WatchError \/ Retry \/ WatchEnds

Next ==
  \/ InitLoad \/ AfterInit \/ stopWatch \/ StopReturns
  \/ \E l \in Others : AddLoader(l) \/ UseObject(l)
  \/ RemoteChange \/ RemoteUpdate \/ superviseWatch

Spec == Init /\ [][Next]_cfgVars

(* The supervising goroutine runs and viper's watch reports a change.      *)
Fairness == WF_cfgVars(superviseWatch) /\ WF_cfgVars(RemoteUpdate) /\ WF_cfgVars(StopReturns)
FairSpec == Spec /\ Fairness
-----------------------------------------------------------------------------
(* Every variable keeps its type.                                          *)
TypeOK ==
  /\ {remote, store, last, snapshot} \subseteq Documents \cup {Nothing}
  /\ ToSet(loaders) \subseteq Loaders /\ ToSet(todo) \subseteq Loaders /\ missed \subseteq Loaders
  /\ \A l \in Loaders, f \in Fields : object[l][f].extra \in BOOLEAN
  /\ inited \in BOOLEAN /\ lateReload \in BOOLEAN /\ updates \in Nat
  /\ watchAt \in {"none", "begin", "attempt", "compare", "reload", "receive", "retry", "done"}
  /\ stopping \in {"no", "cancelled", "done"}

(* A loader's object holds one document as a whole: what a valid document  *)
(* leaves out does not survive from an earlier one, and a document that    *)
(* cannot be decoded changes nothing (the comment in reloadSnapshot).      *)
ReloadExact ==
  \A l \in Loaders :
    \/ \A f \in Fields : object[l][f] = Unset
    \/ \E d \in Documents \cup {Nothing} :
         Decodable(l, d) /\ \A f \in Fields : object[l][f].v = Section(l, d)[f]

(* Once stopWatch has returned, no loader is called any more: the caller   *)
(* of Shutdown may tear down what the loaders use.                         *)
StopQuiet == ~lateReload

(* Loaders see whole documents, and none after the stop: both of the above *)
(* at once.                                                                *)
ReloadsSound == ReloadExact /\ StopQuiet

Current(l) ==
  ~Decodable(l, remote) \/ \A f \in Fields : object[l][f].v = Section(l, remote)[f]

(* While the watch runs, every loader is brought up to the remote          *)
(* document, also after a failed attempt, a lost watch or changes that     *)
(* arrive during a reload; only a loader added since the last change, or   *)
(* behind one that panicked, has to wait for the next change.              *)
Converges ==
  watchAt # "none" ~>
    (stopping # "no" \/ \A l \in ToSet(loaders) \ missed : Current(l))

=============================================================================
