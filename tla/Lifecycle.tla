------------------------------ MODULE Lifecycle -----------------------------
(***************************************************************************)
(* The life of one server process: App.Start registers and starts the      *)
(* modules, serves until somebody asks it to die, drains sessions, and     *)
(* shuts the modules down; meanwhile service discovery keeps the server's  *)
(* key in etcd under a lease (grantLease, watchLeaseChan, renewLease) and  *)
(* asks the app to die, over appDieChan, when the lease cannot be renewed. *)
(*                                                                         *)
(* A send on appDieChan waits for App.Start's select; a send on the closed *)
(* channel, or a second close of it, panics and ends the process.          *)
(***************************************************************************)
EXTENDS Naturals, Sequences, Functions

CONSTANTS UserModules, \* sequence of the modules the application registered
          Callers,     \* goroutines that call App.Shutdown
          MaxLeases,   \* bound on the leases granted in a behaviour
          grantLeaseMaxRetries

ASSUME LifecycleAssumption ==
  /\ MaxLeases \in Nat \ {0} /\ grantLeaseMaxRetries \in Nat \ {0}
  /\ UserModules \in Seq(Range(UserModules)) /\ "sd" \notin Range(UserModules)

VARIABLES
  main,       \* where App.Start is
  modulesArr, \* the modules in the order of their start
  started,    \* the modules whose Init has returned
  dieChan,    \* "open" or "closed"
  caller,     \* where each caller of App.Shutdown is
  leaseID,    \* sd.leaseID; 0 before the first grant
  granted,    \* number of leases granted
  alive,      \* the leases that live in etcd
  key,        \* the lease of the server's key in etcd; 0: the key is absent
  watcher,    \* where the watchLeaseChan goroutine of each lease is
  failed,     \* failedGrantLeaseAttempts of each watcher
  renewal,    \* where the goroutine that renewLease of each watcher started is
  stopLease   \* stopLeaseChan is closed

app_vars == <<main, modulesArr, started, dieChan, caller>>
sd_vars == <<leaseID, granted, alive, key, watcher, failed, renewal, stopLease>>
vars == <<app_vars, sd_vars>>

Leases == 1 .. MaxLeases
Ended == {"down", "fatal", "panicked"}
Running == main \notin Ended

Init ==
  /\ main = "new" /\ modulesArr = UserModules /\ started = {}
  /\ dieChan = "open" /\ caller = [c \in Callers |-> "idle"]
  /\ leaseID = 0 /\ granted = 0 /\ alive = {} /\ key = 0
  /\ watcher = [l \in Leases |-> "none"] /\ failed = [l \in Leases |-> 0]
  /\ renewal = [l \in Leases |-> "none"] /\ stopLease = FALSE
-----------------------------------------------------------------------------
RegisterModuleBefore(arr, m) == <<m>> \o arr
RegisterModuleAfter(arr, m) == Append(arr, m)

SdFirst(arr) ==
  RegisterModuleBefore(RegisterModuleBefore(RegisterModuleBefore(arr, "rpcServer"), "rpcClient"), "sd")

(* App.Start registers what the cluster needs before it listens.           *)
ClusterModules(arr) ==
  RegisterModuleAfter(RegisterModuleBefore(RegisterModuleBefore(arr, "rpcServer"), "rpcClient"), "sd")

(* App.listen, after the components and acceptors have been started.       *)
ListenModules(arr) ==
  RegisterModuleBefore(RegisterModuleBefore(RegisterModuleAfter(arr, "uniqueSession"),
                                            "configLoader"), "statefulGoPool")

Start ==
  /\ main = "new"
  /\ modulesArr' = ListenModules(ClusterModules(modulesArr))
  /\ main' = "starting"
  /\ UNCHANGED <<started, dieChan, caller, sd_vars>>

(* The loop of startModules has come to the module at i, or to its end.    *)
NextModule(i) == modulesArr[i] \notin started /\ \A j \in 1 .. i - 1 : modulesArr[j] \in started
AllStarted == Range(modulesArr) \subseteq started

(* startModules: the next module's Init returns nil.                       *)
InitModule ==
  /\ main = "starting"
  /\ \E i \in DOMAIN modulesArr : /\ NextModule(i) /\ modulesArr[i] # "sd"
                                  /\ started' = started \cup {modulesArr[i]}
  /\ UNCHANGED <<main, modulesArr, dieChan, caller, sd_vars>>

Fatal ==
  /\ main = "starting" /\ ~AllStarted
  /\ main' = "fatal"
  /\ UNCHANGED <<modulesArr, started, dieChan, caller, sd_vars>>

(* Every module has run; AfterInit of each does nothing the model knows.   *)
Started ==
  /\ main = "starting" /\ AllStarted
  /\ main' = "serving"
  /\ UNCHANGED <<modulesArr, started, dieChan, caller, sd_vars>>
-----------------------------------------------------------------------------
(* grantLease: a new lease, kept alive and watched by a goroutine.         *)
Granted ==
  /\ granted < MaxLeases
  /\ granted' = granted + 1 /\ leaseID' = granted + 1
  /\ alive' = alive \cup {granted + 1}

NoLease == MaxLeases + 1
PutForever == key' = NoLease
(* addServerIntoEtcd: the put names sd.leaseID, and fails if it is dead.   *)
Put == leaseID \in alive /\ key' = leaseID

(* sd.Init: bootstrap grants a lease, then puts the key and syncs.         *)
SdGrant ==
  /\ main = "starting" /\ \E i \in DOMAIN modulesArr : NextModule(i) /\ modulesArr[i] = "sd"
  /\ Granted /\ watcher' = [watcher EXCEPT ![granted + 1] = "watch"]
  /\ main' = "bootstrap"
  /\ UNCHANGED <<modulesArr, started, dieChan, caller, key, failed, renewal, stopLease>>

SdBootstrap ==
  /\ main = "bootstrap"
  /\ \/ /\ Put /\ main' = "starting" /\ started' = started \cup {"sd"}
     \/ /\ (Put \/ UNCHANGED key) /\ main' = "fatal" /\ UNCHANGED started
  /\ UNCHANGED <<modulesArr, dieChan, caller, leaseID, granted, alive, watcher, failed, renewal, stopLease>>

Drop(ls) == alive' = alive \ ls /\ key' = IF key \in ls THEN 0 ELSE key

(* etcd ends a lease that was not kept alive.                              *)
Expire(l) ==
  /\ l \in alive /\ Drop({l})
  /\ UNCHANGED <<app_vars, leaseID, granted, watcher, failed, renewal, stopLease>>
-----------------------------------------------------------------------------
(* watchLeaseChan leaves its select when it is told to stop ...            *)
WatchStop(l) ==
  /\ Running /\ watcher[l] = "watch" /\ stopLease
  /\ watcher' = [watcher EXCEPT ![l] = "end"]
  /\ UNCHANGED <<app_vars, leaseID, granted, alive, key, failed, renewal, stopLease>>

(* ... or when the keep-alive channel is closed, and then calls renewLease.*)
WatchLost(l) ==
  /\ Running /\ watcher[l] = "watch" /\ l \notin alive
  /\ watcher' = [watcher EXCEPT ![l] = "renew"]
  /\ renewal' = [renewal EXCEPT ![l] = "grant"]
  /\ UNCHANGED <<app_vars, leaseID, granted, alive, key, failed, stopLease>>

RenewGrant(l) ==
  /\ Running /\ renewal[l] = "grant" /\ Granted
  /\ watcher' = [watcher EXCEPT ![granted + 1] = "watch"]
  /\ renewal' = [renewal EXCEPT ![l] = "put"]
  /\ UNCHANGED <<app_vars, key, failed, stopLease>>

(* bootstrapServer succeeds: the watcher, if it still waits, is done.      *)
RenewPut(l) ==
  /\ Running /\ renewal[l] = "put" /\ Put
  /\ renewal' = [renewal EXCEPT ![l] = "none"]
  /\ watcher' = [watcher EXCEPT ![l] = IF @ = "renew" THEN "end" ELSE @]
  /\ UNCHANGED <<app_vars, leaseID, granted, alive, failed, stopLease>>

RetryOnceMore(l) ==
  /\ failed' = [failed EXCEPT ![l] = @ + 1]
  /\ \/ /\ failed'[l] > grantLeaseMaxRetries
        /\ watcher' = [watcher EXCEPT ![l] = "dying"]
        /\ renewal' = [renewal EXCEPT ![l] = "none"]
     \/ /\ failed'[l] <= grantLeaseMaxRetries
        /\ renewal' = [renewal EXCEPT ![l] = "grant"] /\ UNCHANGED watcher
RetryForever(l) == renewal' = [renewal EXCEPT ![l] = "grant"] /\ UNCHANGED <<watcher, failed>>
(* What watchLeaseChan does with an error of renewLease.                   *)
Retry(l) ==
  /\ failed' = [failed EXCEPT ![l] = @ + 1]
  /\ \/ /\ failed'[l] >= grantLeaseMaxRetries
        /\ watcher' = [watcher EXCEPT ![l] = "dying"]
        /\ renewal' = [renewal EXCEPT ![l] = "none"]
     \/ /\ failed'[l] < grantLeaseMaxRetries
        /\ renewal' = [renewal EXCEPT ![l] = "grant"] /\ UNCHANGED watcher

(* grantLease, the put or the sync fails; the put may have been made.      *)
RenewFails(l) ==
  /\ Running /\ renewal[l] # "none"
  /\ UNCHANGED key \/ (renewal[l] = "put" /\ Put)
  /\ \/ watcher[l] = "renew" /\ Retry(l)
     \/ /\ watcher[l] # "renew"
        /\ renewal' = [renewal EXCEPT ![l] = "none"] /\ UNCHANGED <<watcher, failed>>
  /\ UNCHANGED <<app_vars, leaseID, granted, alive, stopLease>>

(* grantLeaseTimeout: the watcher gives up, the goroutine goes on.         *)
RenewTimeout(l) ==
  /\ Running /\ watcher[l] = "renew"
  /\ watcher' = [watcher EXCEPT ![l] = "dying"]
  /\ UNCHANGED <<app_vars, leaseID, granted, alive, key, failed, renewal, stopLease>>
-----------------------------------------------------------------------------
(* The select of App.Start: a value sent on dieChan, or its close.         *)
DieReceived(l) ==
  /\ main = "serving" /\ dieChan = "open" /\ watcher[l] = "dying"
  /\ watcher' = [watcher EXCEPT ![l] = "end"]
  /\ main' = "closeAll"
  /\ UNCHANGED <<modulesArr, started, dieChan, caller, leaseID, granted, alive, key, failed, renewal, stopLease>>

DieClosed ==
  /\ main = "serving" /\ dieChan = "closed"
  /\ main' = "closeAll"
  /\ UNCHANGED <<modulesArr, started, dieChan, caller, sd_vars>>

(* SIGTERM drains the sessions first, if that is enabled.                  *)
Signal ==
  /\ main = "serving" /\ main' \in {"draining", "closing"}
  /\ UNCHANGED <<modulesArr, started, dieChan, caller, sd_vars>>

NoDrainEnd == FALSE /\ UNCHANGED vars
(* No session is left, a second signal came, or the drain timed out.       *)
DrainEnd ==
  /\ main = "draining" /\ main' = "closing"
  /\ UNCHANGED <<modulesArr, started, dieChan, caller, sd_vars>>

Blocked == \E l \in Leases : watcher[l] = "dying"
(* close(dieChan) panics on a closed channel, and in a blocked sender.     *)
CloseDie(next) ==
  /\ dieChan' = "closed"
  /\ main' = IF dieChan = "closed" \/ Blocked THEN "panicked" ELSE next

SignalClose ==
  /\ main = "closing" /\ CloseDie("closeAll")
  /\ UNCHANGED <<modulesArr, started, caller, sd_vars>>

SendOnClosed(l) ==
  /\ Running /\ watcher[l] = "dying" /\ dieChan = "closed"
  /\ main' = "panicked"
  /\ UNCHANGED <<modulesArr, started, dieChan, caller, sd_vars>>

(* App.Shutdown: looks whether dieChan is closed, and then closes it.      *)
ShutdownLook(c) ==
  /\ Running /\ caller[c] = "idle"
  /\ caller' = [caller EXCEPT ![c] = IF dieChan = "closed" THEN "done" ELSE "close"]
  /\ UNCHANGED <<main, modulesArr, started, dieChan, sd_vars>>

ShutdownClose(c) ==
  /\ Running /\ caller[c] = "close"
  /\ caller' = [caller EXCEPT ![c] = "done"]
  /\ CloseDie(main)
  /\ UNCHANGED <<modulesArr, started, sd_vars>>
-----------------------------------------------------------------------------
(* sessionPool.CloseAll, then BeforeShutdown of every module, last first:  *)
(* sd closes stopLeaseChan and starts to revoke its lease.                 *)
CloseAll ==
  /\ main = "closeAll" /\ main' = "revoke" /\ stopLease' = TRUE
  /\ UNCHANGED <<modulesArr, started, dieChan, caller, leaseID, granted, alive, key, watcher, failed, renewal>>

(* The revocation succeeds, fails, or is not waited for any longer.        *)
Revoke ==
  /\ main = "revoke" /\ main' = "stopping"
  /\ Drop({leaseID}) \/ UNCHANGED <<alive, key>>
  /\ UNCHANGED <<modulesArr, started, dieChan, caller, leaseID, granted, watcher, failed, renewal, stopLease>>

LateRevoke ==
  /\ main = "stopping" /\ leaseID \in alive /\ Drop({leaseID})
  /\ UNCHANGED <<app_vars, leaseID, granted, watcher, failed, renewal, stopLease>>

(* shutdownModules: the last module still running is shut down.            *)
ShutdownModule ==
  /\ main = "stopping" /\ started # {}
  /\ \E i \in DOMAIN modulesArr :
       /\ modulesArr[i] \in started /\ \A j \in i + 1 .. Len(modulesArr) : modulesArr[j] \notin started
       /\ started' = started \ {modulesArr[i]}
  /\ UNCHANGED <<main, modulesArr, dieChan, caller, sd_vars>>

Stopped ==
  /\ main = "stopping" /\ started = {}
  /\ main' = "down"
  /\ UNCHANGED <<modulesArr, started, dieChan, caller, sd_vars>>
-----------------------------------------------------------------------------
AppNext ==
  \/ Start \/ InitModule \/ Fatal \/ Started \/ SdGrant \/ SdBootstrap
  \/ DieClosed \/ Signal \/ DrainEnd \/ SignalClose
  \/ CloseAll \/ Revoke \/ LateRevoke \/ ShutdownModule \/ Stopped
  \/ \E c \in Callers : ShutdownLook(c) \/ ShutdownClose(c)

LeaseNext(l) ==
  \/ Expire(l) \/ WatchStop(l) \/ WatchLost(l) \/ RenewGrant(l) \/ RenewPut(l)
  \/ RenewFails(l) \/ RenewTimeout(l) \/ DieReceived(l) \/ SendOnClosed(l)

Next == AppNext \/ \E l \in Leases : LeaseNext(l)

Spec == Init /\ [][Next]_vars

(* Start and the lease goroutines run on; renewLease always ends, by its   *)
(* timeout at the latest; a dead process keeps no lease alive.             *)
Fairness ==
  /\ WF_vars(Start \/ InitModule \/ Started \/ SdGrant \/ SdBootstrap)
  /\ WF_vars(DieClosed) /\ WF_vars(DrainEnd) /\ WF_vars(SignalClose)
  /\ WF_vars(CloseAll \/ Revoke \/ ShutdownModule \/ Stopped)
  /\ \A l \in Leases :
       /\ WF_vars(WatchLost(l)) /\ WF_vars(DieReceived(l))
       /\ WF_vars(RenewPut(l) \/ RenewFails(l))
       /\ WF_vars(~Running /\ Expire(l))

FairSpec == Spec /\ Fairness
-----------------------------------------------------------------------------
(* Every variable holds a value of its kind; the key is under a lease that *)
(* lives, and no watcher retries more than grantLeaseMaxRetries times.     *)
TypeOK ==
  /\ main \in Ended \cup {"new", "starting", "bootstrap", "serving", "draining", "closing",
                          "closeAll", "revoke", "stopping"}
  /\ started \subseteq Range(modulesArr) /\ dieChan \in {"open", "closed"}
  /\ caller \in [Callers -> {"idle", "close", "done"}]
  /\ granted \in 0 .. MaxLeases /\ leaseID \in 0 .. granted /\ alive \subseteq 1 .. granted
  /\ key \in alive \cup {0, NoLease}
  /\ watcher \in [Leases -> {"none", "watch", "renew", "dying", "end"}]
  /\ failed \in [Leases -> 0 .. grantLeaseMaxRetries]
  /\ renewal \in [Leases -> {"none", "grant", "put"}] /\ stopLease \in BOOLEAN

(* "Service discovery is the last module to be started to ensure all       *)
(* modules have been properly initialized before the server starts         *)
(* receiving requests": while the server starts or serves and its key is   *)
(* in etcd, the pools, the RPC client and server, the configuration loader *)
(* and the application's modules run.                                      *)
RegisteredWhenReady ==
  key # 0 /\ main \in {"starting", "bootstrap", "serving", "draining"} =>
    Range(modulesArr) \ {"sd", "uniqueSession"} \subseteq started

(* A server whose key has left etcd does not go on serving for ever: it    *)
(* registers again under a new lease, or asks the app to die and leaves    *)
(* the select of App.Start.                                                *)
LeaseLossEnds == (main = "serving" /\ key = 0) ~> (key # 0 \/ main # "serving")

(* Once dieChan is closed the process ends, whatever Start is doing then   *)
(* (starting, serving, draining or stopping), and its key leaves etcd, by  *)
(* the revocation or because its lease is not kept alive.                  *)
DieEnds == dieChan = "closed" ~> (~Running /\ key = 0)

(* A server that lost its lease or was told to die does not stay half      *)
(* alive: both of the above.                                               *)
NoHalfLife == LeaseLossEnds /\ DieEnds
=============================================================================
