------------------------------- MODULE Pools -------------------------------
(***************************************************************************)
(* The stateful goroutine pools (co): a task is given to a goroutine by    *)
(* pool and id, and the giver may wait for it.  A giver is the outside     *)
(* world or a task that runs on such a goroutine.  The worker behind an id *)
(* is ants' PoolWithID: one task at a time, in the order of submission,    *)
(* from a bounded buffer.                                                  *)
(***************************************************************************)
EXTENDS Integers, Sequences, FiniteSets

CONSTANTS
  Configured,   \* names of the pools in the configuration
  Builtin,      \* names of the pools that are always there
  Asked,        \* names given with WithPoolName
  Ids,          \* goroutine ids
  TaskBuffer,   \* tasks a worker's buffer holds
  Outside,      \* a goroutine of no pool
  Tasks, None,
  MaxRefused    \* bound: submissions that ants refuses

Threads == Asked \X Ids
Givers == Threads \cup {Outside}
Idle == [at |-> "idle", task |-> None, to |-> None, wait |-> FALSE, ends |-> FALSE]

VARIABLES
  cfgMap,     \* pools that Init has still to make
  pools,      \* pools made
  queue,      \* buffer of each worker
  running,    \* task each worker runs
  task,       \* what became of each task
  giving,     \* the call of Go or Wait each caller is in
  refused,    \* submissions refused
  nilPool     \* a task was given to a pool that is not there: the process ends

poVars == <<cfgMap, pools, queue, running, task, giving, refused, nilPool>>

(* NewStatefulPoolsModule adds the pools that are not configured.          *)
NewStatefulPoolsModule == Configured \cup Builtin

Init ==
  /\ cfgMap = NewStatefulPoolsModule /\ pools = {}
  /\ queue = [t \in Threads |-> <<>>] /\ running = [t \in Threads |-> None]
  /\ task = [k \in Tasks |-> "new"] /\ giving = [c \in Givers |-> Idle]
  /\ refused = 0 /\ nilPool = FALSE

ModuleInit ==
  /\ \E n \in cfgMap :
       cfgMap' = cfgMap \ {n} /\ pools' = pools \cup {n}
  /\ UNCHANGED <<queue, running, task, giving, refused, nilPool>>

(* GoPersist, GoWithID, WaitWithID, GoMain, WaitMain and the rest: find    *)
(* the pool, then give it the task.  A context may end the wait.           *)
MayGive(c) == giving[c] = Idle /\ (c # Outside => running[c] # None)

GoWithID(c) ==
  /\ MayGive(c)
  /\ \E k \in {k \in Tasks : task[k] = "new"}, t \in Threads,
        wait \in BOOLEAN, ends \in BOOLEAN :
       /\ ends => wait
       /\ IF t[1] \in pools
          THEN /\ giving' = [giving EXCEPT ![c] =
                    [at |-> "submit", task |-> k, to |-> t, wait |-> wait,
                     ends |-> ends]]
               /\ task' = [task EXCEPT ![k] = "given"] /\ UNCHANGED nilPool
          ELSE nilPool' = TRUE /\ UNCHANGED <<giving, task>>
  /\ UNCHANGED <<cfgMap, pools, queue, running, refused>>

(* GoWithUser and WaitWithUser of a uid that is not positive do nothing.   *)
GoWithUser(c) ==
  /\ MayGive(c)
  /\ \E k \in {k \in Tasks : task[k] = "new"} :
       task' = [task EXCEPT ![k] = "refused"]
  /\ UNCHANGED <<cfgMap, pools, queue, running, giving, refused, nilPool>>

Given(c) == giving' = [giving EXCEPT ![c] = IF @.wait THEN [@ EXCEPT !.at = "wait"] ELSE Idle]

(* Go of the pool submits, blocking while the worker's buffer is full; a   *)
(* task that is refused is never done, and Wait does not learn of it.      *)
Go(c) ==
  /\ giving[c].at = "submit"
  /\ \/ /\ Len(queue[giving[c].to]) < TaskBuffer
        /\ queue' = [queue EXCEPT ![giving[c].to] = Append(@, giving[c].task)]
        /\ task' = [task EXCEPT ![giving[c].task] = "queued"]
        /\ UNCHANGED refused
     \/ /\ refused < MaxRefused
        /\ refused' = refused + 1
        /\ task' = [task EXCEPT ![giving[c].task] = "refused"]
        /\ UNCHANGED queue
  /\ Given(c)
  /\ UNCHANGED <<cfgMap, pools, running, nilPool>>

Wait(c) ==
  /\ giving[c].at = "wait"
  /\ task[giving[c].task] = "done" \/ giving[c].ends
  /\ giving' = [giving EXCEPT ![c] = Idle]
  /\ UNCHANGED <<cfgMap, pools, queue, running, task, refused, nilPool>>
-----------------------------------------------------------------------------
(* A worker takes the next task, runs it, and closes done when it returns; *)
(* a task that panics is recovered by the worker with done left open.      *)
Take(t) ==
  /\ running[t] = None /\ queue[t] # <<>>
  /\ running' = [running EXCEPT ![t] = Head(queue[t])]
  /\ queue' = [queue EXCEPT ![t] = Tail(@)]
  /\ task' = [task EXCEPT ![Head(queue[t])] = "running"]
  /\ UNCHANGED <<cfgMap, pools, giving, refused, nilPool>>

Ends(t, how) ==
  /\ running[t] # None /\ giving[t] = Idle
  /\ task' = [task EXCEPT ![running[t]] = how]
  /\ running' = [running EXCEPT ![t] = None]
  /\ UNCHANGED <<cfgMap, pools, queue, giving, refused, nilPool>>

taskWithoutDone(t) == Ends(t, "ended")

taskWithDone(t) == Ends(t, "done")

Panics(t) == Ends(t, "panicked")
-----------------------------------------------------------------------------
Next ==
  /\ ~nilPool
  /\ \/ ModuleInit
     \/ \E c \in Givers : GoWithID(c) \/ GoWithUser(c) \/ Go(c) \/ Wait(c)
     \/ \E t \in Threads : Take(t) \/ taskWithDone(t) \/ Panics(t)

Spec == Init /\ [][Next]_poVars
-----------------------------------------------------------------------------
(* Whom a caller's call waits for.                                         *)
Stalls(c) ==
  \/ giving[c].at = "submit" /\ Len(queue[giving[c].to]) = TaskBuffer
  \/ giving[c].at = "wait" /\ ~giving[c].ends /\ task[giving[c].task] # "done"
Abandoned(c) ==
  giving[c].at = "wait" /\ task[giving[c].task] \in {"refused", "panicked"}
Stuck(S) == \A c \in S : Stalls(c) /\ giving[c].to \in S
(* Waiting for tasks comes to a standstill only where tasks wait for each  *)
(* other's goroutines in a circle, or for a task that panicked or was      *)
(* refused: as long as there is neither, a call of Go or Wait that cannot  *)
(* go on waits for a goroutine that can, and no task is lost on the way.   *)
OnlyCircles ==
  LET Held == {t \in Threads : Stalls(t)}
      Hopeless(c) == Abandoned(c) \/ \E S \in SUBSET Held : S # {} /\ Stuck(S)
  IN /\ \A c \in Givers : Stalls(c) =>
          \/ \E d \in Givers : Hopeless(d)
          \/ \E t \in Threads \ Held : running[t] # None \/ queue[t] # <<>>
     /\ \A k \in Tasks : task[k] \in {"queued", "running"} =>
          \E t \in Threads : running[t] = k \/ \E i \in DOMAIN queue[t] : queue[t][i] = k
=============================================================================
