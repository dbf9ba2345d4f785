---------------------------- MODULE ServerProofs ----------------------------
(***************************************************************************)
(* Three smaller parts of a server, for every value of their constants:    *)
(* the clients of gRPC, the order in which App.Start brings up its modules *)
(* and registers the server, and the rate limiter of a connection.         *)
(***************************************************************************)
EXTENDS RateLimiter, Grpc, Lifecycle, TLAPS

(***************************************************************************)
(* gRPC: the clients of a remote server and the calls that use them.       *)
(***************************************************************************)

(* Where a call can be, and where it is on its way.                        *)
OnTheWay == {"loaded", "connecting", "ready", "running", "answered", "lost"}
Places == OnTheWay \cup {"idle", "ok", "error"}

(* GrpcTypeOK, by variable.                                                *)
GrpcType ==
  /\ made \in 0 .. MaxClients /\ clientMap \in 0 .. made /\ removing \in {0, clientMap}
  /\ client \in [Clients -> [connected : BOOLEAN, open : Nat]]
  /\ calls \in [Calls -> [kind : GrpcKinds, at : Places, client : 0 .. made]]
  /\ remote \in {"down", "up", "stopping"} /\ ran \subseteq Calls /\ inFlight \subseteq Calls

(* What holds of one call: it was run before its answer travels, it is     *)
(* acknowledged only then, and it is counted while it is on its way.       *)
CallSound(k) ==
  /\ calls[k].at = "answered" => k \in ran
  /\ calls[k].at = "ok" => k \in ran \/ calls[k].kind = "broadcast"
  /\ k \in inFlight <=> calls[k].kind = "call" /\ calls[k].at \in OnTheWay

(* The inductive invariant.                                                *)
GrpcInv == GrpcType /\ OneConnection /\ \A k \in Calls : CallSound(k)

(* connect and disconnect, under the client's lock, open at most one       *)
(* connection and close the one there is.                                  *)
LEMMA ConnectsOnce ==
  ASSUME GrpcType, OneConnection, NEW c, connect(c) \/ disconnect(c) \/ UNCHANGED client
  PROVE  client' \in [Clients -> [connected : BOOLEAN, open : Nat]] /\ OneConnection'
<1> DEFINE T == [connected : BOOLEAN, open : Nat]
<1>0. client \in [Clients -> T] /\ \A d \in Clients : client[d].open = IF client[d].connected THEN 1 ELSE 0
  BY DEF GrpcType, OneConnection
<1>1. ASSUME NEW new \in T, new.open = (IF new.connected THEN 1 ELSE 0), client' = [client EXCEPT ![c] = new]
      PROVE  client' \in [Clients -> T] /\ OneConnection'
  <2>1. client' \in [Clients -> T]
    BY ZenonT(30), <1>0, <1>1
  <2>2. ASSUME NEW d \in Clients PROVE client'[d] = client[d] \/ client'[d] = new
    BY <1>0, <1>1
  <2> QED
    BY <1>0, <1>1, <2>1, <2>2 DEF OneConnection
<1>2. CASE UNCHANGED client
  BY <1>0, <1>2 DEF OneConnection
<1>3. CASE c \notin Clients /\ (connect(c) \/ disconnect(c))
  BY <1>0, <1>2, <1>3 DEF connect, disconnect
<1>4. CASE c \in Clients /\ connect(c)
  <2> DEFINE new == IF client[c].connected THEN client[c] ELSE [connected |-> TRUE, open |-> client[c].open + 1]
  <2>1. new \in T /\ new.open = IF new.connected THEN 1 ELSE 0
    BY <1>0, <1>4
  <2>2. client' = [client EXCEPT ![c] = new]
    BY <1>4 DEF connect
  <2> QED
    BY ZenonT(30), <1>1, <2>1, <2>2
<1>5. CASE c \in Clients /\ disconnect(c)
  <2> DEFINE new == IF client[c].connected THEN [connected |-> FALSE, open |-> client[c].open - 1] ELSE client[c]
  <2>1. new \in T /\ new.open = IF new.connected THEN 1 ELSE 0
    BY <1>0, <1>5
  <2>2. client' = [client EXCEPT ![c] = new]
    BY <1>5 DEF disconnect
  <2> QED
    BY ZenonT(30), <1>1, <2>1, <2>2
<1> QED
  BY <1>2, <1>3, <1>4, <1>5

(* A call moves to another place and keeps its kind; no other call moves.  *)
LEMMA CallMoves ==
  ASSUME GrpcType, NEW k \in Calls, NEW at \in Places, Moves(k, at)
  PROVE  /\ calls' \in [Calls -> [kind : GrpcKinds, at : Places, client : 0 .. made]]
         /\ calls'[k].at = at /\ calls'[k].kind = calls[k].kind
         /\ \A j \in Calls \ {k} : calls'[j] = calls[j]
BY DEF GrpcType, Moves

(* A call finds its client, or ends at once.                               *)
LEMMA CallGoes ==
  ASSUME GrpcType, NEW k \in Calls, NEW kind \in GrpcKinds, NEW at \in Places, NEW c \in 0 .. made,
         Goes(k, kind, at, c)
  PROVE  /\ calls' \in [Calls -> [kind : GrpcKinds, at : Places, client : 0 .. made]]
         /\ calls'[k].at = at /\ calls'[k].kind = kind
         /\ \A j \in Calls \ {k} : calls'[j] = calls[j]
BY DEF GrpcType, Goes

(* A call that a step does not concern stays sound.                        *)
LEMMA CallFrame ==
  ASSUME NEW j, CallSound(j), calls'[j] = calls[j], j \in ran => j \in ran',
         j \in inFlight' <=> j \in inFlight
  PROVE  CallSound(j)'
BY ZenonT(20) DEF CallSound

(* Each way to begin a call: the call is counted exactly if it is a call   *)
(* and found a client.                                                     *)
LEMMA BeginsStep ==
  ASSUME GrpcInv, NEW k \in Calls, Begins(k)
  PROVE  GrpcInv'
<1>1. PICK kind \in GrpcKinds, found \in BOOLEAN, otherwise \in {"ok", "error"} :
        /\ Load(k, kind, found, otherwise)
        /\ otherwise = "ok" => kind = "broadcast"
        /\ kind = "call" => found
  BY ZenonT(30) DEF Begins, GrpcCall, SendKick, BroadcastSessionBind, SendPush, GrpcKinds
<1>2. /\ UNCHANGED <<clientMap, client, made, removing, remote, ran>>
      /\ calls[k].at = "idle"
      /\ inFlight' = IF kind = "call" /\ clientMap # 0 THEN inFlight \cup {k} ELSE inFlight
      /\ IF found /\ clientMap # 0 THEN Goes(k, kind, "loaded", clientMap) ELSE Goes(k, kind, otherwise, 0)
  BY <1>1 DEF Load
<1>3. GrpcType /\ OneConnection /\ (\A j \in Calls : CallSound(j)) /\ 0 \in 0 .. made /\ clientMap \in 0 .. made
  BY DEF GrpcInv, GrpcType
<1>4. PICK at \in {"loaded", "ok", "error"}, c \in 0 .. made :
        /\ Goes(k, kind, at, c)
        /\ at = "loaded" <=> found /\ clientMap # 0
        /\ at = "ok" => kind = "broadcast"
  BY <1>1, <1>2, <1>3
<1>5. /\ calls' \in [Calls -> [kind : GrpcKinds, at : Places, client : 0 .. made]]
      /\ calls'[k].at = at /\ calls'[k].kind = kind
      /\ \A j \in Calls \ {k} : calls'[j] = calls[j]
  <2>1. at \in Places
    BY <1>4 DEF Places, OnTheWay
  <2> QED
    BY ZenonT(20), <1>3, <1>4, <2>1, CallGoes
<1>6. k \notin inFlight
  BY <1>2, <1>3 DEF CallSound, OnTheWay
<1>7. CallSound(k)'
  BY <1>1, <1>2, <1>4, <1>5, <1>6 DEF CallSound, OnTheWay
<1>8. ASSUME NEW j \in Calls \ {k} PROVE CallSound(j)'
  BY <1>2, <1>3, <1>5, CallFrame
<1>9. GrpcType'
  BY <1>2, <1>3, <1>5 DEF GrpcType
<1>10. OneConnection'
  BY <1>2, <1>3 DEF OneConnection
<1> QED
  BY <1>7, <1>8, <1>9, <1>10 DEF GrpcInv

(* A call goes on: it looks at the client, connects it, is sent, is run,   *)
(* answered, or given up.                                                  *)
LEMMA CallStep ==
  ASSUME GrpcInv, NEW k \in Calls,
         Checks(k) \/ Connects(k) \/ Invokes(k) \/ Runs(k) \/ Answered(k) \/ TimesOut(k)
  PROVE  GrpcInv'
<1>1. GrpcType /\ OneConnection /\ (\A j \in Calls : CallSound(j))
  BY DEF GrpcInv
<1>2. PICK at \in {"connecting", "ready", "running", "answered", "ok", "error"} :
        /\ Moves(k, at) /\ calls[k].at \in OnTheWay
        /\ at = "answered" => ran' = ran \cup {k}
        /\ at = "ok" => calls[k].at = "answered"
        /\ ran' = ran \/ ran' = ran \cup {k}
        /\ inFlight' = IF at \in {"ok", "error"} THEN inFlight \ {k} ELSE inFlight
        /\ UNCHANGED <<clientMap, made, removing, remote>>
        /\ client' = client \/ connect(calls[k].client)
  <2>1. CASE Checks(k)
    BY <2>1 DEF Checks, OnTheWay
  <2>2. CASE Connects(k)
    BY <2>2 DEF Connects, OnTheWay
  <2>3. CASE Invokes(k)
    BY <2>3 DEF Invokes, Returns, OnTheWay
  <2>4. CASE Runs(k)
    BY <2>4 DEF Runs, OnTheWay
  <2>5. CASE Answered(k)
    BY <2>5 DEF Answered, Returns, OnTheWay
  <2>6. CASE TimesOut(k)
    BY <2>6 DEF TimesOut, Returns, OnTheWay
  <2> QED
    BY <2>1, <2>2, <2>3, <2>4, <2>5, <2>6
<1>3. /\ calls' \in [Calls -> [kind : GrpcKinds, at : Places, client : 0 .. made]]
      /\ calls'[k].at = at /\ calls'[k].kind = calls[k].kind
      /\ \A j \in Calls \ {k} : calls'[j] = calls[j]
  <2>1. at \in Places
    BY <1>2 DEF Places, OnTheWay
  <2> QED
    BY ZenonT(20), <1>1, <1>2, <2>1, CallMoves
<1>4. client' \in [Clients -> [connected : BOOLEAN, open : Nat]] /\ OneConnection'
  BY ZenonT(20), <1>1, <1>2, ConnectsOnce
<1>5. CallSound(k)'
  BY <1>1, <1>2, <1>3 DEF CallSound, OnTheWay
<1>6. ASSUME NEW j \in Calls \ {k} PROVE CallSound(j)'
  BY <1>1, <1>2, <1>3, CallFrame
<1>7. GrpcType'
  BY <1>1, <1>2, <1>3, <1>4 DEF GrpcType
<1> QED
  BY <1>4, <1>5, <1>6, <1>7 DEF GrpcInv

(* Service discovery adds and removes the server, and the server comes and *)
(* goes: no call is sent, answered or counted by that.                     *)
LEMMA ServerStep ==
  ASSUME GrpcConstants, GrpcInv,
         \/ \E m \in Metadata : AddServer(m)
         \/ RemoveServer \/ RemoveDeletes \/ Serve \/ GrpcShutdown \/ GrpcStopped \/ Crash
         \/ UNCHANGED grpcVars
  PROVE  GrpcInv'
<1>0. GrpcType /\ OneConnection /\ (\A j \in Calls : CallSound(j)) /\ MaxClients \in Nat
  BY DEF GrpcInv, GrpcConstants
<1>1. CASE \E m \in Metadata : AddServer(m)
  <2>1. /\ UNCHANGED <<removing, remote, calls, ran, inFlight>> /\ clientMap = 0
        /\ \/ made' = made + 1 /\ clientMap' = made + 1 /\ made < MaxClients
           \/ made' = made /\ clientMap' = 0
        /\ client' = client \/ connect(made + 1)
    BY <1>1 DEF AddServer
  <2>2. client' \in [Clients -> [connected : BOOLEAN, open : Nat]] /\ OneConnection'
    BY ZenonT(20), <1>0, <2>1, ConnectsOnce
  <2>3. calls' \in [Calls -> [kind : GrpcKinds, at : Places, client : 0 .. made']]
    <3>1. 0 .. made \subseteq 0 .. made'
      BY <1>0, <2>1 DEF GrpcType
    <3> QED
      BY <1>0, <2>1, <3>1 DEF GrpcType
  <2>4. GrpcType'
    BY <1>0, <2>1, <2>2, <2>3 DEF GrpcType
  <2>5. \A j \in Calls : CallSound(j)'
    BY ZenonT(20), <1>0, <2>1, CallFrame
  <2> QED
    BY <2>2, <2>4, <2>5 DEF GrpcInv
<1>2. CASE RemoveServer \/ RemoveDeletes
  <2>1. /\ UNCHANGED <<made, remote, calls, ran, inFlight>>
        /\ (clientMap' = clientMap /\ removing' = clientMap) \/ (clientMap' = 0 /\ removing' = 0)
        /\ client' = client \/ disconnect(clientMap)
    BY <1>2 DEF RemoveServer, RemoveDeletes
  <2>2. client' \in [Clients -> [connected : BOOLEAN, open : Nat]] /\ OneConnection'
    BY ZenonT(20), <1>0, <2>1, ConnectsOnce
  <2>3. GrpcType'
    BY <1>0, <2>1, <2>2 DEF GrpcType
  <2>4. \A j \in Calls : CallSound(j)'
    BY ZenonT(20), <1>0, <2>1, CallFrame
  <2> QED
    BY <2>2, <2>3, <2>4 DEF GrpcInv
<1>3. CASE Serve \/ GrpcShutdown \/ GrpcStopped \/ UNCHANGED grpcVars
  <2>1. UNCHANGED <<clientMap, client, made, removing, calls, ran, inFlight>>
    BY <1>3 DEF Serve, GrpcShutdown, GrpcStopped, grpcVars
  <2>2. remote' \in {"down", "up", "stopping"}
    BY <1>0, <1>3 DEF Serve, GrpcShutdown, GrpcStopped, grpcVars, GrpcType
  <2>3. \A j \in Calls : CallSound(j)'
    BY ZenonT(20), <1>0, <2>1, CallFrame
  <2> QED
    BY ZenonT(20), <1>0, <2>1, <2>2, <2>3 DEF GrpcInv, GrpcType, OneConnection
<1>4. CASE Crash
  <2>1. /\ UNCHANGED <<clientMap, client, made, removing, ran, inFlight>> /\ remote' = "down"
        /\ calls' = [k \in Calls |-> IF calls[k].at = "running" THEN [calls[k] EXCEPT !.at = "lost"] ELSE calls[k]]
    BY <1>4 DEF Crash
  <2>2. /\ calls' \in [Calls -> [kind : GrpcKinds, at : Places, client : 0 .. made]]
        /\ \A k \in Calls : /\ calls'[k].kind = calls[k].kind
                            /\ \/ calls'[k].at = calls[k].at
                               \/ calls[k].at = "running" /\ calls'[k].at = "lost"
    BY <1>0, <2>1 DEF GrpcType, Places, OnTheWay
  <2>3. GrpcType'
    BY <1>0, <2>1, <2>2 DEF GrpcType
  <2>4. \A j \in Calls : CallSound(j)'
    BY <1>0, <2>1, <2>2 DEF CallSound, OnTheWay
  <2> QED
    BY <1>0, <2>1, <2>3, <2>4 DEF GrpcInv, OneConnection
<1> QED
  BY <1>1, <1>2, <1>3, <1>4

(* No client was made and nothing called: the invariant holds.             *)
LEMMA GrpcInitially == ASSUME GrpcConstants, GrpcInit PROVE GrpcInv
BY DEF GrpcConstants, GrpcInit, GrpcInv, GrpcType, GrpcKinds, Places, OnTheWay, OneConnection, CallSound

(* Every step keeps it.                                                    *)
LEMMA GrpcStep == ASSUME GrpcConstants, GrpcInv, [GrpcNext]_grpcVars PROVE GrpcInv'
<1>1. ASSUME NEW k \in Calls, CallNext(k) PROVE GrpcInv'
  BY <1>1, BeginsStep, CallStep DEF CallNext
<1> QED
  BY <1>1, ServerStep DEF GrpcNext

(* RemoteCallsExact: however AddServer, RemoveServer, crashes and          *)
(* time-outs interleave with any number of calls that read `connected'     *)
(* without its lock, a grpcClient has one connection exactly while it is   *)
(* connected, a call that reports success was run, and the session counts  *)
(* exactly the calls that have not returned.                               *)
THEOREM GrpcTheorem == ASSUME GrpcConstants PROVE GrpcSpec => []RemoteCallsExact
<1>1. GrpcInv => RemoteCallsExact
  <2> SUFFICES ASSUME GrpcInv PROVE RemoteCallsExact
    OBVIOUS
  <2>1. OneConnection /\ inFlight \subseteq Calls /\ \A k \in Calls : CallSound(k)
    BY DEF GrpcInv, GrpcType
  <2>2. AckMeansDelivered
    BY <2>1 DEF AckMeansDelivered, CallSound
  <2>3. InFlightExact
    BY <2>1 DEF InFlightExact, CallSound, OnTheWay
  <2> QED
    BY <2>1, <2>2, <2>3 DEF RemoteCallsExact
<1> QED
  BY <1>1, GrpcInitially, GrpcStep, PTL DEF GrpcSpec
-----------------------------------------------------------------------------
(***************************************************************************)
(* The life of a server: registered only when it is ready.                 *)
(***************************************************************************)

(* The modules in the order in which startModules starts them.             *)
StartOrder == ListenModules(ClusterModules(UserModules))

MainPlaces == Ended \cup {"new", "starting", "bootstrap", "serving", "draining", "closing",
                          "closeAll", "revoke", "stopping"}
Registering == {"starting", "bootstrap", "serving", "draining"}
Watching == {"none", "watch", "renew", "dying", "end"}
Renewing == {"none", "grant", "put"}
Others == Range(modulesArr) \ {"sd", "uniqueSession"}

(* The app: nothing is started before the modules are registered, and the  *)
(* order of the start never changes afterwards.                            *)
AppInv ==
  /\ main \in MainPlaces /\ started \subseteq Range(modulesArr)
  /\ dieChan \in {"open", "closed"} /\ caller \in [Callers -> {"idle", "close", "done"}]
  /\ main = "new" => modulesArr = UserModules /\ started = {} /\ granted = 0
  /\ main \notin Ended \cup {"new"} => modulesArr = StartOrder
  /\ main = "bootstrap" => "sd" \in Range(modulesArr)

(* The leases: no goroutine is about before its lease, the key is under a  *)
(* lease that lives, and a watcher that still renews has attempts left.    *)
LeaseInv ==
  /\ granted \in 0 .. MaxLeases /\ leaseID \in 0 .. granted /\ alive \subseteq 1 .. granted
  /\ key \in alive \cup {0}
  /\ watcher \in [Leases -> Watching]
  /\ failed \in [Leases -> 0 .. grantLeaseMaxRetries]
  /\ renewal \in [Leases -> Renewing] /\ stopLease \in BOOLEAN
  /\ \A l \in Leases : l > granted => watcher[l] = "none" /\ renewal[l] = "none"
  /\ \A l \in Leases : watcher[l] \in {"none", "watch", "renew"} => failed[l] < grantLeaseMaxRetries

(* Once a lease was granted, everything but sd and the unique session      *)
(* module has been started, and stays so until the shutdown.               *)
ReadyInv == granted > 0 /\ main \in Registering => Others \subseteq started

LifeInv == AppInv /\ LeaseInv /\ ReadyInv

(* The names of the modules: the application's and the framework's.        *)
Names ==
  Range(UserModules)
    \cup {"rpcServer", "rpcClient", "sd", "uniqueSession", "configLoader", "statefulGoPool"}

(* No module that must run before sd stands after it.                      *)
SdLast(arr) == \A i, j \in 1 .. Len(arr) : arr[i] = "sd" /\ arr[j] \notin {"sd", "uniqueSession"} => j < i

(* Registering a module in front moves the others up by one; behind, it    *)
(* leaves them where they are.                                             *)
InFront(new, arr, m) ==
  /\ new \in Seq(Names) /\ Len(arr) \in Nat /\ Len(new) = Len(arr) + 1
  /\ \A i \in 1 .. Len(new) : new[i] = IF i = 1 THEN m ELSE arr[i - 1]
Behind(new, arr, m) ==
  /\ new \in Seq(Names) /\ Len(arr) \in Nat /\ Len(new) = Len(arr) + 1
  /\ \A i \in 1 .. Len(new) : new[i] = IF i = Len(arr) + 1 THEN m ELSE arr[i]

(* RegisterModuleBefore and RegisterModuleAfter do that.                   *)
LEMMA Registers ==
  ASSUME NEW arr \in Seq(Names), NEW m \in Names
  PROVE  InFront(RegisterModuleBefore(arr, m), arr, m) /\ Behind(RegisterModuleAfter(arr, m), arr, m)
<1>1. InFront(RegisterModuleBefore(arr, m), arr, m)
  <2>1. <<m>> \o arr \in Seq(Names) /\ Len(arr) \in Nat /\ Len(<<m>> \o arr) = Len(arr) + 1
    OBVIOUS
  <2>2. ASSUME NEW i \in 1 .. Len(arr) + 1 PROVE (<<m>> \o arr)[i] = IF i = 1 THEN m ELSE arr[i - 1]
    <3>1. CASE i = 1
      BY <3>1
    <3>2. CASE i \in 2 .. Len(arr) + 1
      BY <3>2
    <3> QED
      BY <2>1, <3>1, <3>2
  <2> QED
    BY <2>1, <2>2 DEF InFront, RegisterModuleBefore
<1>2. Behind(RegisterModuleAfter(arr, m), arr, m)
  BY DEF RegisterModuleAfter, Behind
<1> QED
  BY <1>1, <1>2

(* A module registered in front of sd does not disturb it.                 *)
LEMMA SdLastBefore ==
  ASSUME NEW arr, SdLast(arr), NEW m, m # "sd", NEW new, InFront(new, arr, m)
  PROVE  SdLast(new)
<1> SUFFICES ASSUME NEW i \in 1 .. Len(new), NEW j \in 1 .. Len(new),
                    new[i] = "sd", new[j] \notin {"sd", "uniqueSession"}
             PROVE  j < i
  BY DEF SdLast
<1>1. i # 1 /\ i - 1 \in 1 .. Len(arr) /\ arr[i - 1] = "sd"
  BY DEF InFront
<1>2. CASE j = 1
  BY <1>1, <1>2
<1>3. CASE j # 1
  <2>1. j - 1 \in 1 .. Len(arr) /\ arr[j - 1] = new[j]
    BY <1>3 DEF InFront
  <2>2. j - 1 < i - 1
    BY <1>1, <2>1 DEF SdLast
  <2> QED
    BY <2>2
<1> QED
  BY <1>2, <1>3

(* sd, and after it the unique session module, are registered behind.      *)
LEMMA SdLastAfter ==
  ASSUME NEW arr, SdLast(arr), NEW m, NEW new, Behind(new, arr, m),
         m = "uniqueSession" \/ (m = "sd" /\ \A i \in 1 .. Len(arr) : arr[i] # "sd")
  PROVE  SdLast(new)
<1> SUFFICES ASSUME NEW i \in 1 .. Len(new), NEW j \in 1 .. Len(new),
                    new[i] = "sd", new[j] \notin {"sd", "uniqueSession"}
             PROVE  j < i
  BY DEF SdLast
<1>1. j \in 1 .. Len(arr) /\ new[j] = arr[j]
  BY DEF Behind
<1>2. CASE i = Len(arr) + 1
  BY <1>1, <1>2
<1>3. CASE i # Len(arr) + 1
  <2>1. i \in 1 .. Len(arr) /\ new[i] = arr[i]
    BY <1>3 DEF Behind
  <2> QED
    BY <1>1, <2>1 DEF SdLast
<1> QED
  BY <1>2, <1>3

(* No module but sd has its name.                                          *)
LEMMA NoSdBefore ==
  ASSUME NEW arr, \A i \in 1 .. Len(arr) : arr[i] # "sd", NEW m, m # "sd", NEW new, InFront(new, arr, m)
  PROVE  \A i \in 1 .. Len(new) : new[i] # "sd"
BY DEF InFront

(* Whatever the application registered, it stands before sd in the order   *)
(* of the start.                                                           *)
LEMMA StartOrderSdLast == StartOrder \in Seq(Names) /\ SdLast(StartOrder)
<1> DEFINE a1 == RegisterModuleBefore(UserModules, "rpcServer")
           a2 == RegisterModuleBefore(a1, "rpcClient")
           a3 == RegisterModuleAfter(a2, "sd")
           a4 == RegisterModuleAfter(a3, "uniqueSession")
           a5 == RegisterModuleBefore(a4, "configLoader")
           a6 == RegisterModuleBefore(a5, "statefulGoPool")
<1>1. UserModules \in Seq(Names) /\ \A k \in 1 .. Len(UserModules) : UserModules[k] # "sd"
  <2>1. UserModules \in Seq(Range(UserModules)) /\ "sd" \notin Range(UserModules)
    BY LifecycleAssumption
  <2> QED
    BY <2>1 DEF Range, Names
<1>2. \A m \in {"rpcServer", "rpcClient", "sd", "uniqueSession", "configLoader", "statefulGoPool"} : m \in Names
  BY DEF Names
<1>3. InFront(a1, UserModules, "rpcServer") /\ a1 \in Seq(Names)
  BY ZenonT(20), <1>1, <1>2, Registers DEF InFront
<1>4. InFront(a2, a1, "rpcClient") /\ a2 \in Seq(Names)
  BY ZenonT(20), <1>2, <1>3, Registers DEF InFront
<1>5. Behind(a3, a2, "sd") /\ a3 \in Seq(Names)
  BY ZenonT(20), <1>2, <1>4, Registers DEF Behind
<1>6. Behind(a4, a3, "uniqueSession") /\ a4 \in Seq(Names)
  BY ZenonT(20), <1>2, <1>5, Registers DEF Behind
<1>7. InFront(a5, a4, "configLoader") /\ a5 \in Seq(Names)
  BY ZenonT(20), <1>2, <1>6, Registers DEF InFront
<1>8. InFront(a6, a5, "statefulGoPool") /\ a6 \in Seq(Names)
  BY ZenonT(20), <1>2, <1>7, Registers DEF InFront
<1>9. StartOrder = a6
  BY DEF StartOrder, ListenModules, ClusterModules
<1> HIDE DEF a1, a2, a3, a4, a5, a6
<1>10. \A i \in 1 .. Len(a1) : a1[i] # "sd"
  BY ZenonT(20), <1>1, <1>3, NoSdBefore
<1>11. \A i \in 1 .. Len(a2) : a2[i] # "sd"
  BY ZenonT(20), <1>4, <1>10, NoSdBefore
<1>12. SdLast(a2)
  BY <1>11 DEF SdLast
<1>13. SdLast(a3)
  BY ZenonT(20), <1>5, <1>11, <1>12, SdLastAfter
<1>14. SdLast(a4)
  BY ZenonT(20), <1>6, <1>13, SdLastAfter
<1>15. SdLast(a5)
  BY ZenonT(20), <1>7, <1>14, SdLastBefore
<1>16. SdLast(a6)
  BY ZenonT(20), <1>8, <1>15, SdLastBefore
<1> QED
  BY <1>8, <1>9, <1>16

(* The step of the registration, or of the start, that grants the first    *)
(* lease finds the others started.                                         *)
LEMMA GrantFindsOthers ==
  ASSUME AppInv, SdGrant
  PROVE  Others \subseteq started
<1>1. modulesArr = StartOrder
  BY DEF AppInv, SdGrant, Ended
<1>2. PICK i \in DOMAIN modulesArr : NextModule(i) /\ modulesArr[i] = "sd"
  BY DEF SdGrant
<1>3. ASSUME NEW x \in Others PROVE x \in started
  <2>1. /\ StartOrder \in Seq(Names) /\ SdLast(StartOrder) /\ DOMAIN StartOrder = 1 .. Len(StartOrder)
        /\ Len(StartOrder) \in Nat
    BY StartOrderSdLast
  <2>2. PICK j \in DOMAIN StartOrder : StartOrder[j] = x
    BY <1>1 DEF Others, Range
  <2>3. j < i
    BY <1>1, <1>2, <2>1, <2>2 DEF SdLast, Others
  <2>4. j \in 1 .. i - 1
    BY <1>1, <2>1, <2>3
  <2> QED
    BY <1>1, <1>2, <2>2, <2>4 DEF NextModule
<1> QED
  BY <1>3

(* A step that does not begin the start, and revives no process that has   *)
(* ended, keeps what is known of the app.                                  *)
LEMMA AppKept ==
  ASSUME AppInv, UNCHANGED modulesArr, main' \in MainPlaces,
         started' \subseteq started \/ \E i \in DOMAIN modulesArr : started' = started \cup {modulesArr[i]},
         dieChan' \in {"open", "closed"}, caller' \in [Callers -> {"idle", "close", "done"}],
         main' = "new" => main = "new" /\ UNCHANGED <<started, granted>>,
         main' \notin Ended \cup {"new"} => main \notin Ended \cup {"new"},
         main' = "bootstrap" => main = "bootstrap"
  PROVE  AppInv'
<1>1. started' \subseteq Range(modulesArr)
  BY DEF AppInv, Range
<1> QED
  BY <1>1 DEF AppInv

(* Registered modules are ready: as long as nothing is shut down.          *)
LEMMA ReadyKept ==
  ASSUME ReadyInv, UNCHANGED modulesArr, started \subseteq started' \/ main' \notin Registering,
         granted' > 0 /\ main' \in Registering => granted > 0 /\ main \in Registering
  PROVE  ReadyInv'
BY DEF ReadyInv, Others

(* The leases are untouched by most steps of the app.                      *)
LEMMA LeaseKept == ASSUME LeaseInv, UNCHANGED sd_vars PROVE LeaseInv'
BY ZenonT(20) DEF LeaseInv, sd_vars

(* A lease that ends takes the key that was put under it along.            *)
LEMMA DropStep ==
  ASSUME LeaseInv, NEW ls, Drop(ls), UNCHANGED <<leaseID, granted, watcher, failed, renewal, stopLease>>
  PROVE  LeaseInv'
BY ZenonT(20) DEF LeaseInv, Drop

(* App.Start: the steps that leave the leases alone.                       *)
LEMMA StartStep ==
  ASSUME LifeInv, Start \/ InitModule \/ Fatal \/ Started \/ DieClosed \/ Signal \/ DrainEnd
  PROVE  LifeInv'
<1>1. AppInv /\ LeaseInv /\ ReadyInv /\ UNCHANGED sd_vars
  BY DEF LifeInv, Start, InitModule, Fatal, Started, DieClosed, Signal, DrainEnd
<1>2. LeaseInv' /\ UNCHANGED granted
  BY <1>1, LeaseKept DEF sd_vars
<1>3. CASE Start
  <2>1. AppInv'
    BY <1>1, <1>2, <1>3 DEF AppInv, Start, MainPlaces, Ended, StartOrder
  <2>2. ReadyInv'
    BY <1>1, <1>2, <1>3 DEF ReadyInv, AppInv, Start
  <2> QED
    BY <1>2, <2>1, <2>2 DEF LifeInv
<1>4. CASE InitModule \/ Fatal \/ Started \/ DieClosed \/ Signal \/ DrainEnd
  <2>1. /\ UNCHANGED <<modulesArr, dieChan, caller>> /\ main \in Registering
        /\ main' \in {"starting", "serving", "draining", "fatal", "closeAll", "closing"}
        /\ started' = started \/ \E i \in DOMAIN modulesArr : started' = started \cup {modulesArr[i]}
    BY <1>4 DEF InitModule, Fatal, Started, DieClosed, Signal, DrainEnd, Registering
  <2>2. AppInv'
    BY <1>1, <2>1, AppKept DEF AppInv, Registering, Ended, MainPlaces
  <2>3. ReadyInv'
    BY <1>1, <1>2, <2>1, ReadyKept
  <2> QED
    BY <1>2, <2>2, <2>3 DEF LifeInv
<1> QED
  BY <1>3, <1>4

(* The grant of a lease: it is watched.                                    *)
LEMMA GrantStep ==
  ASSUME LeaseInv, Granted, watcher' = [watcher EXCEPT ![granted + 1] = "watch"],
         renewal' = renewal \/ (\E l \in Leases : renewal[l] # "none" /\ renewal' = [renewal EXCEPT ![l] = "put"]),
         UNCHANGED <<key, failed, stopLease>>
  PROVE  LeaseInv'
<1>1. MaxLeases \in Nat
  BY LifecycleAssumption
<1>2. /\ granted' \in 0 .. MaxLeases /\ leaseID' \in 0 .. granted' /\ alive' \subseteq 1 .. granted'
      /\ key' \in alive' \cup {0} /\ granted' > 0
  BY <1>1 DEF LeaseInv, Granted
<1>3. /\ watcher' \in [Leases -> Watching]
      /\ failed' \in [Leases -> 0 .. grantLeaseMaxRetries]
      /\ renewal' \in [Leases -> Renewing] /\ stopLease' \in BOOLEAN
  BY ZenonT(20) DEF LeaseInv, Watching, Renewing
<1>4. \A l \in Leases : watcher'[l] \in {"none", "watch", "renew"} => failed'[l] < grantLeaseMaxRetries
  BY <1>1 DEF LeaseInv, Granted, Leases
<1>5. \A l \in Leases : l > granted' => watcher'[l] = "none" /\ renewal'[l] = "none"
  BY <1>1 DEF LeaseInv, Granted, Leases
<1> QED
  BY <1>2, <1>3, <1>4, <1>5 DEF LeaseInv

(* sd.Init: the grant, and the put that makes the server known.            *)
LEMMA BootstrapStep ==
  ASSUME LifeInv, SdGrant \/ SdBootstrap
  PROVE  LifeInv'
<1>0. AppInv /\ LeaseInv /\ ReadyInv
  BY DEF LifeInv
<1>1. CASE SdGrant
  <2>1. LeaseInv'
    BY <1>0, <1>1, GrantStep DEF SdGrant
  <2>2. AppInv'
    <3>1. "sd" \in Range(modulesArr)
      BY <1>1 DEF SdGrant, Range
    <3> QED
      BY <1>0, <1>1, <3>1 DEF AppInv, SdGrant, MainPlaces, Ended
  <2>3. ReadyInv'
    BY <1>0, <1>1, GrantFindsOthers DEF SdGrant, ReadyInv, Others
  <2> QED
    BY <2>1, <2>2, <2>3 DEF LifeInv
<1>2. CASE SdBootstrap
  <2>1. LeaseInv'
    BY <1>0, <1>2 DEF LeaseInv, SdBootstrap, Put
  <2>2. /\ UNCHANGED <<modulesArr, dieChan, caller, granted>> /\ main = "bootstrap"
        /\ main' \in {"starting", "fatal"} /\ (started' = started \/ started' = started \cup {"sd"})
    BY <1>2 DEF SdBootstrap
  <2>3. \E i \in DOMAIN modulesArr : modulesArr[i] = "sd"
    BY <1>0, <2>2 DEF AppInv, Range
  <2>4. AppInv'
    BY <1>0, <2>2, <2>3, AppKept DEF AppInv, MainPlaces, Ended
  <2>5. ReadyInv'
    BY <1>0, <2>2, ReadyKept DEF Registering
  <2> QED
    BY <2>1, <2>4, <2>5 DEF LifeInv
<1> QED
  BY <1>1, <1>2

(* The end: dieChan is closed or has spoken, sessions are closed, the      *)
(* lease is revoked and the modules are shut down.                         *)
LEMMA StopStep ==
  ASSUME LifeInv,
         \/ SignalClose \/ CloseAll \/ Revoke \/ LateRevoke \/ ShutdownModule \/ Stopped
         \/ \E c \in Callers : ShutdownLook(c) \/ ShutdownClose(c)
  PROVE  LifeInv'
<1>0. AppInv /\ LeaseInv /\ ReadyInv
  BY DEF LifeInv
<1>1. CASE SignalClose \/ CloseAll \/ Revoke \/ LateRevoke \/ ShutdownModule \/ Stopped
  <2>1. /\ UNCHANGED <<modulesArr, caller, granted>> /\ started' \subseteq started
        /\ main \in {"closing", "closeAll", "revoke", "stopping"}
        /\ main' \in {"closeAll", "revoke", "stopping", "down", "panicked"} /\ dieChan' \in {dieChan, "closed"}
    BY <1>1 DEF SignalClose, CloseDie, CloseAll, Revoke, LateRevoke, ShutdownModule, Stopped, app_vars, sd_vars
  <2>2. AppInv'
    BY <1>0, <2>1, AppKept DEF AppInv, MainPlaces, Ended
  <2>3. ReadyInv'
    BY <2>1 DEF ReadyInv, Registering
  <2>4. LeaseInv'
    <3>1. CASE UNCHANGED sd_vars
      BY <1>0, <3>1, LeaseKept
    <3>2. CASE CloseAll
      BY ZenonT(20), <1>0, <3>2 DEF CloseAll, LeaseInv
    <3>3. CASE Drop({leaseID}) /\ UNCHANGED <<leaseID, granted, watcher, failed, renewal, stopLease>>
      BY <1>0, <3>3, DropStep
    <3> QED
      BY <1>1, <3>1, <3>2, <3>3 DEF SignalClose, Revoke, LateRevoke, ShutdownModule, Stopped, sd_vars
  <2> QED
    BY ZenonT(20), <2>2, <2>3, <2>4 DEF LifeInv
<1>2. ASSUME NEW c \in Callers, ShutdownLook(c) \/ ShutdownClose(c) PROVE LifeInv'
  <2>1. /\ UNCHANGED <<modulesArr, started, sd_vars>> /\ main' \in {main, "panicked"}
        /\ dieChan' \in {dieChan, "closed"}
        /\ \E at \in {"done", "close"} : caller' = [caller EXCEPT ![c] = at]
    BY <1>2 DEF ShutdownLook, ShutdownClose, CloseDie
  <2>2. UNCHANGED granted /\ caller' \in [Callers -> {"idle", "close", "done"}]
    BY <1>0, <2>1 DEF sd_vars, AppInv
  <2>3. AppInv'
    BY <1>0, <2>1, <2>2, AppKept DEF AppInv, MainPlaces, Ended
  <2>4. ReadyInv'
    BY <1>0, <2>1, <2>2, ReadyKept DEF Registering
  <2>5. LeaseInv'
    BY <1>0, <2>1, LeaseKept
  <2> QED
    BY <2>3, <2>4, <2>5 DEF LifeInv
<1> QED
  BY <1>1, <1>2

(* A step of one lease's goroutines that grants none.                      *)
LEMMA RoutineStep ==
  ASSUME LeaseInv, NEW l \in Leases,
         \/ WatchStop(l) \/ WatchLost(l) \/ RenewPut(l) \/ RenewFails(l) \/ RenewTimeout(l)
         \/ DieReceived(l)
  PROVE  LeaseInv'
<1>0. /\ watcher \in [Leases -> Watching] /\ failed \in [Leases -> 0 .. grantLeaseMaxRetries]
      /\ renewal \in [Leases -> Renewing] /\ stopLease \in BOOLEAN /\ grantLeaseMaxRetries \in Nat
      /\ granted \in 0 .. MaxLeases /\ leaseID \in 0 .. granted /\ alive \subseteq 1 .. granted
      /\ key \in alive \cup {0}
      /\ \A k \in Leases : k > granted => watcher[k] = "none" /\ renewal[k] = "none"
      /\ \A k \in Leases : watcher[k] \in {"none", "watch", "renew"} => failed[k] < grantLeaseMaxRetries
  BY ZenonT(20), LifecycleAssumption DEF LeaseInv
<1>1. PICK w \in Watching, f \in 0 .. grantLeaseMaxRetries, r \in Renewing :
        /\ watcher' = [watcher EXCEPT ![l] = w] /\ failed' = [failed EXCEPT ![l] = f]
        /\ renewal' = [renewal EXCEPT ![l] = r]
        /\ w \in {"none", "watch", "renew"} => f < grantLeaseMaxRetries
        /\ watcher[l] # "none" \/ renewal[l] # "none"
  <2>1. watcher = [watcher EXCEPT ![l] = watcher[l]] /\ failed = [failed EXCEPT ![l] = failed[l]]
        /\ renewal = [renewal EXCEPT ![l] = renewal[l]]
    BY <1>0
  <2>2. watcher[l] \in Watching /\ failed[l] \in 0 .. grantLeaseMaxRetries /\ renewal[l] \in Renewing
    BY <1>0
  <2>3. CASE WatchStop(l) \/ RenewTimeout(l) \/ DieReceived(l)
    BY <1>0, <2>1, <2>2, <2>3 DEF WatchStop, RenewTimeout, DieReceived, Watching
  <2>4. CASE WatchLost(l)
    BY <1>0, <2>1, <2>2, <2>4 DEF WatchLost, Watching, Renewing
  <2>5. CASE RenewPut(l)
    BY ZenonT(20), <1>0, <2>1, <2>2, <2>5 DEF RenewPut, Watching, Renewing
  <2>6. CASE RenewFails(l)
    BY <1>0, <2>1, <2>2, <2>6 DEF RenewFails, Retry, Watching, Renewing
  <2> QED
    BY <2>3, <2>4, <2>5, <2>6
<1>2. /\ UNCHANGED <<leaseID, granted, alive, stopLease>>
      /\ UNCHANGED key \/ Put
  BY DEF WatchStop, WatchLost, RenewPut, RenewFails, RenewTimeout, DieReceived
<1>3. key' \in alive' \cup {0}
  BY <1>0, <1>2 DEF Put
<1>4. /\ watcher' \in [Leases -> Watching] /\ failed' \in [Leases -> 0 .. grantLeaseMaxRetries]
      /\ renewal' \in [Leases -> Renewing]
  BY <1>0, <1>1
<1>5. \A k \in Leases : k > granted => watcher'[k] = "none" /\ renewal'[k] = "none"
  BY <1>0, <1>1
<1>6. \A k \in Leases : watcher'[k] \in {"none", "watch", "renew"} => failed'[k] < grantLeaseMaxRetries
  BY <1>0, <1>1
<1> QED
  BY ZenonT(20), <1>0, <1>2, <1>3, <1>4, <1>5, <1>6 DEF LeaseInv

(* A lease ends, or one of its goroutines goes on.                         *)
LEMMA LeaseStep ==
  ASSUME LifeInv, NEW l \in Leases, LeaseNext(l)
  PROVE  LifeInv'
<1>0. AppInv /\ LeaseInv /\ ReadyInv
  BY DEF LifeInv
<1>1. CASE UNCHANGED <<app_vars, granted>> /\ LeaseInv'
  BY ZenonT(20), <1>0, <1>1 DEF app_vars, AppInv, ReadyInv, Others, LifeInv
<1>2. CASE Expire(l)
  BY ZenonT(20), <1>0, <1>1, <1>2, DropStep DEF Expire
<1>3. CASE WatchStop(l) \/ WatchLost(l) \/ RenewPut(l) \/ RenewFails(l) \/ RenewTimeout(l)
  BY <1>0, <1>1, <1>3, RoutineStep DEF WatchStop, WatchLost, RenewPut, RenewFails, RenewTimeout
<1>4. CASE RenewGrant(l)
  <2>1. UNCHANGED app_vars /\ renewal[l] # "none"
    BY <1>4 DEF RenewGrant
  <2>2. LeaseInv'
    BY ZenonT(20), <1>0, <1>4, <2>1, GrantStep DEF RenewGrant
  <2>3. granted > 0 /\ MaxLeases \in Nat
    BY <1>0, <2>1, LifecycleAssumption DEF LeaseInv, Leases
  <2>4. granted' = granted + 1 /\ granted \in Nat
    BY <1>0, <1>4, <2>3 DEF RenewGrant, Granted, LeaseInv
  <2>5. AppInv'
    BY <1>0, <2>1, <2>3 DEF app_vars, AppInv
  <2>6. ReadyInv'
    BY <1>0, <2>1, <2>3 DEF app_vars, ReadyInv, Others
  <2> QED
    BY <2>2, <2>5, <2>6 DEF LifeInv
<1>5. CASE DieReceived(l) \/ SendOnClosed(l)
  <2>1. /\ UNCHANGED <<modulesArr, started, dieChan, caller, granted>> /\ Running
        /\ main' \in {"closeAll", "panicked"}
        /\ main' = "closeAll" => main = "serving"
    BY <1>5 DEF DieReceived, SendOnClosed, sd_vars, Running, Ended
  <2>2. LeaseInv'
    BY <1>0, <1>5, RoutineStep, LeaseKept DEF SendOnClosed
  <2>3. AppInv'
    BY <1>0, <2>1, AppKept DEF AppInv, MainPlaces, Ended
  <2>4. ReadyInv'
    BY <2>1 DEF ReadyInv, Registering
  <2> QED
    BY <2>2, <2>3, <2>4 DEF LifeInv
<1> QED
  BY <1>2, <1>3, <1>4, <1>5 DEF LeaseNext

(* Before the start nothing runs and no lease exists.                      *)
LEMMA LifeInitially == ASSUME Init PROVE LifeInv
<1>1. MaxLeases \in Nat /\ grantLeaseMaxRetries \in Nat \ {0}
  BY LifecycleAssumption
<1>2. AppInv
  BY DEF Init, AppInv, MainPlaces, Ended
<1>3. LeaseInv
  <2>1. /\ granted = 0 /\ leaseID = 0 /\ alive = {} /\ key = 0 /\ stopLease = FALSE
        /\ \A l \in Leases : watcher[l] = "none" /\ failed[l] = 0 /\ renewal[l] = "none"
    BY DEF Init
  <2>2. watcher \in [Leases -> Watching] /\ renewal \in [Leases -> Renewing]
    BY DEF Init, Watching, Renewing
  <2>3. 0 \in 0 .. grantLeaseMaxRetries /\ 0 < grantLeaseMaxRetries /\ 0 \in 0 .. MaxLeases
    BY <1>1
  <2>4. failed \in [Leases -> 0 .. grantLeaseMaxRetries]
    BY <2>3 DEF Init
  <2>5. leaseID \in 0 .. granted /\ alive \subseteq 1 .. granted /\ key \in alive \cup {0}
    BY <2>1
  <2> QED
    BY ZenonT(20), <2>1, <2>2, <2>3, <2>4, <2>5 DEF LeaseInv
<1>4. ReadyInv
  BY DEF Init, ReadyInv
<1> QED
  BY <1>2, <1>3, <1>4 DEF LifeInv

(* Every step keeps it.                                                    *)
LEMMA LifeStep == ASSUME LifeInv, [Next]_vars PROVE LifeInv'
<1>1. CASE AppNext
  BY <1>1, StartStep, BootstrapStep, StopStep DEF AppNext
<1>2. ASSUME NEW l \in Leases, LeaseNext(l) PROVE LifeInv'
  BY <1>2, LeaseStep
<1>3. CASE UNCHANGED vars
  <2>1. LeaseInv'
    BY <1>3, LeaseKept DEF vars, LifeInv
  <2> QED
    BY ZenonT(20), <1>3, <2>1 DEF vars, app_vars, sd_vars, LifeInv, AppInv, ReadyInv, Others
<1> QED
  BY <1>1, <1>2, <1>3 DEF Next

(* Every variable holds a value of its kind; in particular the key is      *)
(* always under a lease that lives in etcd, and watchLeaseChan never       *)
(* counts more failures than grantLeaseMaxRetries, whatever expires, times *)
(* out or is renewed late.                                                 *)
THEOREM LifecycleTypes == Spec => []TypeOK
<1>1. LifeInv => TypeOK
  BY DEF LifeInv, AppInv, LeaseInv, TypeOK, MainPlaces, Watching, Renewing
<1> QED
  BY <1>1, LifeInitially, LifeStep, PTL DEF Spec

(* RegisteredWhenReady: whatever modules the application registers, and    *)
(* however leases expire and are renewed during the start, a server whose  *)
(* key is in etcd has started every module that serves requests.           *)
THEOREM RegisteredTheorem == Spec => []RegisteredWhenReady
<1>1. LifeInv => RegisteredWhenReady
  <2> SUFFICES ASSUME LifeInv, key # 0 PROVE RegisteredWhenReady
    BY DEF RegisteredWhenReady
  <2>1. granted > 0
    BY DEF LifeInv, LeaseInv
  <2> QED
    BY <2>1 DEF LifeInv, ReadyInv, RegisteredWhenReady, Registering, Others
<1> QED
  BY <1>1, LifeInitially, LifeStep, PTL DEF Spec
-----------------------------------------------------------------------------
(***************************************************************************)
(* The rate limiter of a connection.                                       *)
(***************************************************************************)

(* The sequence t ends the sequence a.                                     *)
Ends(t, a) ==
  /\ Len(t) <= Len(a)
  /\ \A i \in 1 .. Len(t), j \in 1 .. Len(a) : i + Len(a) = j + Len(t) => t[i] = a[j]

(* The list of the limiter holds the last messages that were accepted, at  *)
(* most Limit of them.                                                     *)
Remembers ==
  /\ Ends(times, accepted)
  /\ Len(times) = IF Len(accepted) < Limit THEN Len(accepted) ELSE Limit

(* Messages are accepted one after the other, and not in the future.       *)
Past ==
  /\ \A i \in 1 .. Len(accepted) : accepted[i] <= now
  /\ \A i, j \in 1 .. Len(accepted) : i <= j => accepted[i] <= accepted[j]

(* Messages that are Limit apart are an interval apart.                    *)
Spaced == \A i, j \in 1 .. Len(accepted) : j = i + Limit => accepted[j] - accepted[i] >= Interval

(* The inductive invariant of the limiter.                                 *)
RateInv == RateTypeOK /\ Remembers /\ Past /\ Spaced

(* A message that is put at the end of the list and of the history.        *)
LEMMA EndsAppend ==
  ASSUME NEW S, NEW t \in Seq(S), NEW a \in Seq(S), NEW x \in S, Ends(t, a)
  PROVE  Ends(Append(t, x), Append(a, x))
<1>1. /\ Len(t) \in Nat /\ Len(a) \in Nat /\ Len(t) <= Len(a)
      /\ Len(Append(t, x)) = Len(t) + 1 /\ Len(Append(a, x)) = Len(a) + 1
  BY DEF Ends
<1>2. Len(t) + 1 <= Len(a) + 1
  BY <1>1
<1>3. SUFFICES ASSUME NEW i \in 1 .. Len(t) + 1, NEW j \in 1 .. Len(a) + 1,
                      i + (Len(a) + 1) = j + (Len(t) + 1)
               PROVE  Append(t, x)[i] = Append(a, x)[j]
  BY ZenonT(20), <1>1, <1>2 DEF Ends
<1>4. CASE i = Len(t) + 1
  <2>1. j = Len(a) + 1
    BY <1>1, <1>3, <1>4
  <2> QED
    BY <1>4, <2>1
<1>5. CASE i # Len(t) + 1
  <2>1. i \in 1 .. Len(t) /\ j \in 1 .. Len(a) /\ i + Len(a) = j + Len(t)
    BY <1>1, <1>3, <1>5
  <2>2. t[i] = a[j]
    BY <2>1 DEF Ends
  <2> QED
    BY <2>1, <2>2
<1> QED
  BY <1>4, <1>5

(* The oldest time makes room.                                             *)
LEMMA EndsTail ==
  ASSUME NEW S, NEW t \in Seq(S), NEW a \in Seq(S), t # <<>>, Ends(t, a)
  PROVE  Ends(Tail(t), a)
<1>1. /\ Len(t) \in Nat /\ Len(a) \in Nat /\ Len(t) <= Len(a) /\ Len(t) > 0
      /\ Len(Tail(t)) = Len(t) - 1
  BY DEF Ends
<1>2. Len(t) - 1 <= Len(a)
  BY <1>1
<1>3. SUFFICES ASSUME NEW i \in 1 .. Len(t) - 1, NEW j \in 1 .. Len(a), i + Len(a) = j + (Len(t) - 1)
               PROVE  Tail(t)[i] = a[j]
  BY ZenonT(20), <1>1, <1>2 DEF Ends
<1>4. i + 1 \in 1 .. Len(t) /\ (i + 1) + Len(a) = j + Len(t)
  BY <1>1, <1>3
<1>5. t[i + 1] = a[j]
  BY <1>4 DEF Ends
<1> QED
  BY <1>1, <1>3, <1>5

(* What the invariant says of the limiter's numbers and lists.             *)
LEMMA RateFacts ==
  ASSUME RateConstants, RateInv
  PROVE  /\ Limit \in Nat /\ Limit > 0 /\ Interval \in Nat /\ MaxTime \in Nat /\ now \in 0 .. MaxTime
         /\ times \in Seq(0 .. MaxTime) /\ accepted \in Seq(0 .. MaxTime)
         /\ Len(times) \in Nat /\ Len(accepted) \in Nat
         /\ \A i \in 1 .. Len(accepted) : accepted[i] \in Nat
         /\ now \in Nat
BY DEF RateConstants, RateInv, RateTypeOK

(* A full list begins with the message that came Limit before the next.    *)
LEMMA OldestKept ==
  ASSUME RateConstants, RateInv, Len(times) >= Limit, NEW i \in 1 .. Len(accepted),
         i + Limit = Len(accepted) + 1
  PROVE  Head(times) = accepted[i]
<1>1. Len(times) = Limit /\ Ends(times, accepted)
  BY RateFacts DEF RateInv, Remembers
<1>2. 1 \in 1 .. Len(times) /\ 1 + Len(accepted) = i + Len(times)
  BY <1>1, RateFacts
<1>3. times[1] = accepted[i]
  BY <1>1, <1>2 DEF Ends
<1>4. times \in Seq(0 .. MaxTime) /\ times # <<>>
  BY <1>2, RateFacts
<1> QED
  BY <1>3, <1>4

(* shouldRateLimit did not hold: the list takes the message and holds the  *)
(* last messages again.                                                    *)
LEMMA TakenRemembers ==
  ASSUME RateConstants, RateInv, accepted' = Append(accepted, now), times' = Taken
  PROVE  times' \in Seq(0 .. MaxTime) /\ Len(times') <= Limit /\ Remembers'
<1>1. Ends(times, accepted) /\ Len(times) = IF Len(accepted) < Limit THEN Len(accepted) ELSE Limit
  BY DEF RateInv, Remembers
<1>2. Len(accepted') = Len(accepted) + 1
  BY RateFacts
<1>3. CASE Len(times) < Limit
  <2>1. times' = Append(times, now)
    BY <1>3 DEF Taken
  <2>2. Ends(times', accepted')
    BY ZenonT(20), <1>1, <2>1, EndsAppend, RateFacts
  <2> QED
    BY <1>1, <1>2, <1>3, <2>1, <2>2, RateFacts DEF Remembers
<1>4. CASE ~(Len(times) < Limit)
  <2>1. times' = Append(Tail(times), now)
    BY <1>4 DEF Taken
  <2>2. times # <<>> /\ Tail(times) \in Seq(0 .. MaxTime) /\ Len(Tail(times)) = Len(times) - 1
    BY <1>4, RateFacts
  <2>3. Ends(Tail(times), accepted)
    BY ZenonT(20), <1>1, <2>2, EndsTail, RateFacts
  <2>4. Ends(times', accepted')
    BY ZenonT(20), <2>1, <2>2, <2>3, EndsAppend, RateFacts
  <2>5. times' \in Seq(0 .. MaxTime) /\ Len(times') = Len(times)
    BY <2>1, <2>2, RateFacts
  <2>6. Len(times) = Limit /\ Limit <= Limit /\ ~(Len(accepted) + 1 < Limit)
    BY <1>1, <1>4, RateFacts
  <2> QED
    BY ZenonT(20), <1>2, <2>4, <2>5, <2>6 DEF Remembers
<1> QED
  BY <1>3, <1>4

(* A message that is accepted comes an interval after the one Limit before *)
(* it, which heads the list.                                               *)
LEMMA AcceptedSpaced ==
  ASSUME RateConstants, RateInv, accepted' = Append(accepted, now), ~shouldRateLimit
  PROVE  Spaced'
<1>1. SUFFICES ASSUME NEW i \in 1 .. Len(accepted) + 1, NEW j \in 1 .. Len(accepted) + 1, j = i + Limit
               PROVE  accepted'[j] - accepted'[i] >= Interval
  <2>1. Len(accepted') = Len(accepted) + 1
    BY RateFacts
  <2> QED
    BY ZenonT(20), <2>1 DEF Spaced
<1>2. i \in 1 .. Len(accepted) /\ accepted'[i] = accepted[i]
  BY <1>1, RateFacts
<1>3. CASE j = Len(accepted) + 1
  <2>1. Len(accepted) >= Limit /\ i + Limit = Len(accepted) + 1
    BY <1>1, <1>2, <1>3, RateFacts
  <2>2. Len(times) >= Limit
    BY <2>1, RateFacts DEF RateInv, Remembers
  <2>3. ~(now - accepted[i] < Interval)
    BY <1>2, <2>1, <2>2, OldestKept DEF shouldRateLimit
  <2>4. accepted'[j] = now
    BY <1>3, RateFacts
  <2>5. now \in Nat /\ accepted[i] \in Nat /\ Interval \in Nat
    BY ZenonT(20), <1>2, RateFacts
  <2>6. now - accepted[i] >= Interval
    BY <2>3, <2>5
  <2> QED
    BY <1>2, <2>4, <2>6
<1>4. CASE j # Len(accepted) + 1
  <2>1. j \in 1 .. Len(accepted) /\ accepted'[j] = accepted[j]
    BY <1>4, RateFacts
  <2> QED
    BY <1>1, <1>2, <2>1 DEF RateInv, Spaced
<1> QED
  BY <1>3, <1>4

(* Time passes, a message is dropped, or one is accepted: the invariant    *)
(* stays.                                                                  *)
LEMMA RateStep == ASSUME RateConstants, RateInv, [RateNext]_rateVars PROVE RateInv'
<1>1. CASE Tick
  <2>1. /\ times' = times /\ accepted' = accepted /\ now' = now + 1 /\ arrivals' = 0
        /\ now' \in 0 .. MaxTime
    BY <1>1, RateFacts DEF Tick
  <2>2. RateTypeOK'
    BY <2>1, RateFacts DEF RateInv, RateTypeOK
  <2>3. ASSUME NEW i \in 1 .. Len(accepted) PROVE accepted[i] <= now + 1
    <3>1. accepted[i] <= now
      BY DEF RateInv, Past
    <3> QED
      BY <3>1, RateFacts
  <2> QED
    BY ZenonT(20), <2>1, <2>2, <2>3 DEF RateInv, Remembers, Past, Spaced
<1>2. CASE GetNextMessage /\ shouldRateLimit
  <2>1. UNCHANGED <<now, times, accepted>> /\ arrivals' \in 0 .. Limit + 1
    BY <1>2, RateFacts DEF GetNextMessage, RateInv, RateTypeOK
  <2> QED
    BY ZenonT(20), <2>1 DEF RateInv, RateTypeOK, Remembers, Past, Spaced
<1>3. CASE GetNextMessage /\ ~shouldRateLimit
  <2>1. times' = Taken /\ accepted' = Append(accepted, now) /\ now' = now /\ arrivals' \in 0 .. Limit + 1
    BY <1>3, RateFacts DEF GetNextMessage, RateInv, RateTypeOK
  <2>2. RateTypeOK'
    <3>1. accepted' \in Seq(0 .. MaxTime)
      BY <2>1, RateFacts
    <3> QED
      BY <2>1, <3>1, TakenRemembers, RateFacts DEF RateTypeOK
  <2>3. Past'
    <3>1. \A i \in 1 .. Len(accepted) : accepted'[i] = accepted[i] /\ accepted[i] <= now
      BY <2>1, RateFacts DEF RateInv, Past
    <3>2. accepted'[Len(accepted) + 1] = now /\ Len(accepted') = Len(accepted) + 1
      BY <2>1, RateFacts
    <3>3. \A i, j \in 1 .. Len(accepted) : i <= j => accepted[i] <= accepted[j]
      BY DEF RateInv, Past
    <3>4. ASSUME NEW i \in 1 .. Len(accepted) + 1
          PROVE  /\ i \in 1 .. Len(accepted) \/ i = Len(accepted) + 1
                 /\ \A j \in 1 .. Len(accepted) : ~(Len(accepted) + 1 <= j)
                 /\ now <= now
      BY RateFacts
    <3> QED
      BY ZenonT(30), <2>1, <3>1, <3>2, <3>3, <3>4 DEF Past
  <2> QED
    BY ZenonT(20), <1>3, <2>1, <2>2, <2>3, TakenRemembers, AcceptedSpaced DEF RateInv
<1>4. CASE UNCHANGED rateVars
  BY ZenonT(20), <1>4 DEF rateVars, RateInv, RateTypeOK, Remembers, Past, Spaced
<1> QED
  BY <1>1, <1>2, <1>3, <1>4 DEF RateNext

(* Nothing was accepted: the invariant holds.                              *)
LEMMA RateInitially == ASSUME RateConstants, RateInit PROVE RateInv
BY DEF RateConstants, RateInit, RateInv, RateTypeOK, Remembers, Ends, Past, Spaced

(* The list keeps its type and never outgrows Limit.                       *)
THEOREM RateTypes == ASSUME RateConstants PROVE RateSpec => []RateTypeOK
<1>1. RateInv => RateTypeOK
  BY DEF RateInv
<1> QED
  BY <1>1, RateInitially, RateStep, PTL DEF RateSpec

INSTANCE FiniteSetTheorems

(* If shouldRateLimit holds, the last Limit messages are recent; if it     *)
(* does not, all recent ones are among the last Limit - 1.                 *)
LEMMA CountsRecent ==
  ASSUME RateConstants, RateInv
  PROVE  shouldRateLimit <=> Cardinality(Recent) >= Limit
<1> DEFINE n == Len(accepted)
<1>0. /\ n \in Nat /\ Limit \in Nat /\ Limit > 0 /\ now \in Nat /\ Interval \in Nat
      /\ \A i \in 1 .. n : accepted[i] \in Nat
      /\ DOMAIN accepted = 1 .. n
  BY RateFacts
<1>1. /\ IsFiniteSet(1 .. n) /\ Recent \subseteq 1 .. n
  BY <1>0, FS_Interval DEF Recent
<1>2. IsFiniteSet(Recent) /\ Cardinality(Recent) \in Nat
  BY ZenonT(20), <1>1, FS_Subset, FS_CardinalityType
<1>3. ASSUME shouldRateLimit PROVE Cardinality(Recent) >= Limit
  <2>1. n >= Limit /\ Len(times) >= Limit
    BY <1>0, <1>3, RateFacts DEF shouldRateLimit, RateInv, Remembers
  <2>2. (n - Limit) + 1 \in 1 .. n /\ ((n - Limit) + 1) + Limit = n + 1
    BY <1>0, <2>1
  <2>3. now - accepted[(n - Limit) + 1] < Interval
    BY ZenonT(30), <1>3, <2>1, <2>2, OldestKept DEF shouldRateLimit
  <2>4. (n - Limit) + 1 .. n \subseteq Recent
    <3>1. SUFFICES ASSUME NEW i \in (n - Limit) + 1 .. n
                   PROVE  i \in 1 .. n /\ now - accepted[i] < Interval
      BY <1>0 DEF Recent
    <3>2. i \in 1 .. n /\ (n - Limit) + 1 <= i
      BY <1>0, <2>1
    <3>3. accepted[(n - Limit) + 1] <= accepted[i]
      BY <2>2, <3>2 DEF RateInv, Past
    <3>4. accepted[(n - Limit) + 1] \in Nat /\ accepted[i] \in Nat
      BY <1>0, <2>2, <3>2
    <3> HIDE DEF n
    <3> QED
      BY <1>0, <2>3, <3>2, <3>3, <3>4
  <2>5. Cardinality((n - Limit) + 1 .. n) = Limit
    <3>1. Cardinality((n - Limit) + 1 .. n) = IF (n - Limit) + 1 > n THEN 0 ELSE n - ((n - Limit) + 1) + 1
      <4>1. (n - Limit) + 1 \in Int /\ n \in Int
        BY <1>0
      <4> QED
        BY ZenonT(20), <4>1, FS_Interval
    <3> QED
      BY <1>0, <3>1
  <2>6. Cardinality((n - Limit) + 1 .. n) <= Cardinality(Recent)
    BY ZenonT(20), <1>2, <2>4, FS_Subset
  <2> QED
    BY <1>2, <2>5, <2>6
<1>4. ASSUME ~shouldRateLimit PROVE Cardinality(Recent) < Limit
  <2>1. CASE n < Limit
    <3>1. Cardinality(1 .. n) = n
      <4>1. Cardinality(1 .. n) = IF 1 > n THEN 0 ELSE n - 1 + 1
        <5>1. 1 \in Int /\ n \in Int
          BY <1>0
        <5> QED
          BY ZenonT(20), <5>1, FS_Interval
      <4> QED
        BY <1>0, <4>1
    <3>2. Cardinality(Recent) <= Cardinality(1 .. n)
      BY ZenonT(20), <1>1, FS_Subset
    <3> QED
      BY <1>0, <1>2, <2>1, <3>1, <3>2
  <2>2. CASE ~(n < Limit)
    <3>1. (n - Limit) + 1 \in 1 .. n /\ ((n - Limit) + 1) + Limit = n + 1 /\ Len(times) >= Limit
      BY <1>0, <2>2, RateFacts DEF RateInv, Remembers
    <3>2. ~(now - accepted[(n - Limit) + 1] < Interval)
      BY <1>4, <3>1, OldestKept DEF shouldRateLimit
    <3>3. Recent \subseteq (n - Limit) + 2 .. n
      <4>1. SUFFICES ASSUME NEW i \in 1 .. n, now - accepted[i] < Interval
                     PROVE  i >= (n - Limit) + 2
        BY <1>0 DEF Recent
      <4>2. accepted[(n - Limit) + 1] \in Nat /\ accepted[i] \in Nat
        BY <1>0, <3>1
      <4>3. ~(accepted[i] <= accepted[(n - Limit) + 1])
        <5> HIDE DEF n
        <5> QED
          BY <1>0, <3>2, <4>1, <4>2
      <4>4. ~(i <= (n - Limit) + 1)
        BY <3>1, <4>3 DEF RateInv, Past
      <4> QED
        BY <1>0, <4>4
    <3>4. /\ IsFiniteSet((n - Limit) + 2 .. n)
          /\ Cardinality((n - Limit) + 2 .. n) = IF (n - Limit) + 2 > n THEN 0 ELSE n - ((n - Limit) + 2) + 1
      <4>1. (n - Limit) + 2 \in Int /\ n \in Int
        BY <1>0
      <4> QED
        BY ZenonT(20), <4>1, FS_Interval
    <3>5. Cardinality((n - Limit) + 2 .. n) = Limit - 1
      BY <1>0, <2>2, <3>4
    <3>6. Cardinality(Recent) <= Cardinality((n - Limit) + 2 .. n)
      BY ZenonT(20), <3>3, <3>4, FS_Subset
    <3> QED
      BY <1>0, <1>2, <3>5, <3>6
  <2> QED
    BY <2>1, <2>2
<1> QED
  BY <1>0, <1>2, <1>3, <1>4

(* LimitExact: for every limit, interval and number of messages,           *)
(* shouldRateLimit, which looks at the oldest of at most Limit times,      *)
(* decides as counting the messages of the last interval would, and        *)
(* GetNextMessage never passes on more than Limit of them in an interval.  *)
THEOREM LimitTheorem == ASSUME RateConstants PROVE RateSpec => []LimitExact
<1>1. RateInv => LimitExact
  <2> SUFFICES ASSUME RateInv PROVE LimitExact
    OBVIOUS
  <2>1. DOMAIN accepted = 1 .. Len(accepted) /\ Spaced
    BY RateFacts DEF RateInv
  <2> QED
    BY ZenonT(20), <2>1, CountsRecent DEF LimitExact, Spaced
<1> QED
  BY <1>1, RateInitially, RateStep, PTL DEF RateSpec
=============================================================================
