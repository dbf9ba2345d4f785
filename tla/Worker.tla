------------------------------- MODULE Worker -------------------------------
(***************************************************************************)
(* The worker: RPCs put into a queue in Redis and made by jobs, with       *)
(* retries.  The queue, the goroutines that take from it and the counting  *)
(* of retries are the library go-workers; the job is pitaya's.             *)
(***************************************************************************)
EXTENDS Integers

CONSTANTS
  Jobs,
  Options,     \* enqueue options: [Enabled, Max]
  DefaultOpts, \* the worker's own options, a member of Options
  Concurrency, \* jobs made at a time
  MaxCrashes   \* bound: times the process dies

VARIABLES
  registered, workerStarted,
  job,         \* where each job is, and the stage of one that is being made
  opts,        \* options each job was enqueued with
  retries,     \* retries each job has had
  made,        \* times the RPC of each job succeeded
  crashes

woVars == <<registered, workerStarted, job, opts, retries, made, crashes>>

Stages == {"route", "arg", "info", "server", "rpc"}
Busy == {j \in Jobs : job[j] \in Stages \cup {"made"}}

Init ==
  /\ registered = FALSE /\ workerStarted = FALSE
  /\ job = [j \in Jobs |-> "none"] /\ opts = [j \in Jobs |-> DefaultOpts]
  /\ retries = [j \in Jobs |-> 0] /\ made = [j \in Jobs |-> 0] /\ crashes = 0

(* RegisterRPCJob: once.                                                   *)
RegisterRPCJob ==
  /\ ~registered /\ registered' = TRUE
  /\ UNCHANGED <<workerStarted, job, opts, retries, made, crashes>>

Start ==
  /\ ~workerStarted /\ workerStarted' = TRUE
  /\ UNCHANGED <<registered, job, opts, retries, made, crashes>>

(* EnqueueRPC takes the worker's options, EnqueueRPCWithOptions its own.   *)
enqueueOptions(o) == o

Enqueue(j, o) ==
  /\ job[j] = "none"
  /\ job' = [job EXCEPT ![j] = "queued"]
  /\ opts' = [opts EXCEPT ![j] = enqueueOptions(o)]
  /\ UNCHANGED <<registered, workerStarted, retries, made, crashes>>

EnqueueRPC(j) == Enqueue(j, DefaultOpts)
EnqueueRPCWithOptions(j) == \E o \in Options : Enqueue(j, o)

(* go-workers takes a job off the queue when a goroutine is free.          *)
Fetch(j) ==
  /\ registered /\ workerStarted /\ job[j] = "queued"
  /\ \A k \in Jobs \ {j} : k \in Busy => Concurrency > 1
  /\ job' = [job EXCEPT ![j] = "route"]
  /\ UNCHANGED <<registered, workerStarted, opts, retries, made, crashes>>

(* parsedRPCJob: route, argument and reply, the arguments' content, server *)
(* and the RPC; every failure is a panic, which go-workers turns into a    *)
(* retry while there are retries left.                                     *)
After(stage) ==
  CASE stage = "route" -> "arg" [] stage = "arg" -> "info" [] stage = "info" -> "server"
    [] stage = "server" -> "rpc" [] stage = "rpc" -> "made"

unmarshalRouteMetadata(j) ==
  /\ job[j] = "route"
  /\ job' = [job EXCEPT ![j] = After(@)]
  /\ UNCHANGED <<registered, workerStarted, opts, retries, made, crashes>>

parsedRPCJob(j) ==
  /\ job[j] \in Stages \ {"route"}
  /\ job' = [job EXCEPT ![j] = After(@)]
  /\ made' = [made EXCEPT ![j] = IF job[j] = "rpc" THEN @ + 1 ELSE @]
  /\ UNCHANGED <<registered, workerStarted, opts, retries, crashes>>

Ended(j) ==
  /\ job[j] = "made"
  /\ job' = [job EXCEPT ![j] = "gone"]
  /\ UNCHANGED <<registered, workerStarted, opts, retries, made, crashes>>

FailsQuietly(j) ==
  /\ job[j] \in Stages
  /\ job' = [job EXCEPT ![j] = "gone"]
  /\ UNCHANGED <<registered, workerStarted, opts, retries, made, crashes>>

Fails(j) ==
  /\ job[j] \in Stages
  /\ IF opts[j].Enabled /\ retries[j] < opts[j].Max
     THEN /\ retries' = [retries EXCEPT ![j] = @ + 1]
          /\ job' = [job EXCEPT ![j] = "queued"]
     ELSE job' = [job EXCEPT ![j] = "gone"] /\ UNCHANGED retries
  /\ UNCHANGED <<registered, workerStarted, opts, made, crashes>>

(* The process dies: what was being made is queued again, the number of    *)
(* retries with it; the new process registers and starts anew.             *)
Crash ==
  /\ crashes < MaxCrashes /\ crashes' = crashes + 1
  /\ registered' = FALSE /\ workerStarted' = FALSE
  /\ job' = [j \in Jobs |-> IF j \in Busy THEN "queued" ELSE job[j]]
  /\ UNCHANGED <<opts, retries, made>>

Next ==
  \/ RegisterRPCJob \/ Start \/ Crash
  \/ \E j \in Jobs :
       \/ EnqueueRPC(j) \/ EnqueueRPCWithOptions(j) \/ Fetch(j)
       \/ unmarshalRouteMetadata(j) \/ parsedRPCJob(j) \/ Ended(j) \/ Fails(j)

Spec == Init /\ [][Next]_woVars
-----------------------------------------------------------------------------
(* No RPC given to the worker is lost: a job leaves the queue only when    *)
(* its RPC has succeeded or its retries are used up, through failures at   *)
(* any stage and deaths of the process; and an RPC that succeeded is made  *)
(* again only after the process died.                                      *)
JobKept ==
  \A j \in Jobs :
    /\ job[j] = "gone" =>
         made[j] > 0 \/ retries[j] = IF opts[j].Enabled THEN opts[j].Max ELSE 0
    /\ made[j] <= 1 + crashes
=============================================================================
