-------------------------------- MODULE Grpc --------------------------------
(***************************************************************************)
(* The gRPC client and server (GRPCClient, GRPCServer), which may stand in *)
(* for NATS: the client keeps one grpcClient per discovered server, made   *)
(* by AddServer and dropped by RemoveServer while calls that have loaded   *)
(* it go on.  One remote server comes, shuts down and comes back.          *)
(***************************************************************************)
EXTENDS Naturals, FiniteSets

CONSTANTS Calls,      \* the calls of a behaviour
          MaxClients, \* bound on how often the server is discovered
          NoRegion,   \* a server without region
          Regions, Here, \* regions; the one of this server
          Lazy        \* LazyConnection: connect at the first call

GrpcConstants ==
  /\ IsFiniteSet(Calls) /\ MaxClients \in Nat \ {0} /\ Lazy \in BOOLEAN
  /\ Here \in Regions /\ NoRegion \notin Regions

VARIABLES
  clientMap,  \* the client of the server's ID; 0: none
  client,     \* each grpcClient: connected, and the connections it has open
  made,       \* number of clients made
  removing,   \* the client that RemoveServer has disconnected; 0: none
  remote,     \* the remote process: down, up, stopping
  calls,      \* each call
  ran,        \* history: calls whose handler the remote server ran
  inFlight    \* calls that the session counts as in flight

grpcVars == <<clientMap, client, made, removing, remote, calls, ran, inFlight>>

Clients == 1 .. MaxClients
GrpcKinds == {"call", "push", "kick", "broadcast"}
Metadata == [region : Regions \cup {NoRegion}, external : BOOLEAN, internal : BOOLEAN, port : BOOLEAN]

GrpcInit ==
  /\ clientMap = 0 /\ client = [c \in Clients |-> [connected |-> FALSE, open |-> 0]]
  /\ made = 0 /\ removing = 0 /\ remote = "down"
  /\ calls = [k \in Calls |-> [kind |-> "call", at |-> "idle", client |-> 0]]
  /\ ran = {} /\ inFlight = {}
-----------------------------------------------------------------------------
(* getServerHost: the external host for a server of another region or of   *)
(* none, if it has one; the internal host otherwise.                       *)
getServerHost(m) ==
  IF m.region = NoRegion THEN (IF m.external THEN "external" ELSE "internal")
  ELSE IF m.region = Here \/ ~m.external THEN "internal" ELSE "external"

HasHost(m) == IF getServerHost(m) = "external" THEN m.external ELSE m.internal

connectUnchecked(c) == client' = [client EXCEPT ![c] = [connected |-> TRUE, open |-> @.open + 1]]

(* connect and disconnect hold the client's lock.                          *)
connect(c) ==
  client' = [client EXCEPT ![c] = IF @.connected THEN @ ELSE [connected |-> TRUE, open |-> @.open + 1]]
disconnect(c) ==
  client' = [client EXCEPT ![c] = IF @.connected THEN [connected |-> FALSE, open |-> @.open - 1] ELSE @]

(* Service discovery reports the server, with its metadata; it does so     *)
(* again only after it has removed it.                                     *)
AddServer(m) ==
  /\ clientMap = 0 /\ made < MaxClients
  /\ IF HasHost(m) /\ m.port
     THEN /\ made' = made + 1 /\ clientMap' = made + 1
          /\ IF Lazy THEN UNCHANGED client ELSE connect(made + 1)
     ELSE UNCHANGED <<made, clientMap, client>>
  /\ UNCHANGED <<removing, remote, calls, ran, inFlight>>

(* RemoveServer: disconnect, then delete.                                  *)
RemoveServer ==
  /\ clientMap # 0 /\ removing = 0
  /\ disconnect(clientMap) /\ removing' = clientMap
  /\ UNCHANGED <<clientMap, made, remote, calls, ran, inFlight>>

RemoveDeletes ==
  /\ removing # 0 /\ clientMap' = 0 /\ removing' = 0
  /\ UNCHANGED <<client, made, remote, calls, ran, inFlight>>
-----------------------------------------------------------------------------
Goes(k, kind, at, c) == calls' = [calls EXCEPT ![k] = [kind |-> kind, at |-> at, client |-> c]]
Moves(k, at) == calls' = [calls EXCEPT ![k].at = at]

(* A client was found, or the call ends here.                              *)
Load(k, kind, found, otherwise) ==
  /\ calls[k].at = "idle"
  /\ IF found /\ clientMap # 0 THEN Goes(k, kind, "loaded", clientMap) ELSE Goes(k, kind, otherwise, 0)
  /\ inFlight' = IF kind = "call" /\ clientMap # 0 THEN inFlight \cup {k} ELSE inFlight
  /\ UNCHANGED <<clientMap, client, made, removing, remote, ran>>

(* Each operation finds the server, by its ID or by asking the binding     *)
(* storage (fid: it has one for the user), then its client.  A broadcast   *)
(* that finds neither reports no error.                                    *)
GrpcCall(k) == Load(k, "call", TRUE, "error")
SendPush(k, known, fid) == Load(k, "push", known \/ fid, "error")
SendKickQuietly(k, fid) == Load(k, "kick", fid, "ok")
SendKick(k, fid) == Load(k, "kick", fid, "error")
BroadcastSessionBind(k, fid) == Load(k, "broadcast", fid, "ok")

(* connected is read without the lock.                                     *)
Checks(k) ==
  /\ calls[k].at = "loaded"
  /\ Moves(k, IF client[calls[k].client].connected THEN "ready" ELSE "connecting")
  /\ UNCHANGED <<clientMap, client, made, removing, remote, ran, inFlight>>

Connects(k) ==
  /\ calls[k].at = "connecting"
  /\ connect(calls[k].client) /\ Moves(k, "ready")
  /\ UNCHANGED <<clientMap, made, removing, remote, ran, inFlight>>

(* The deferred calls of a call that ends.                                 *)
Returns(k, at) == Moves(k, at) /\ inFlight' = inFlight \ {k}

(* The stub is used: on a closed connection it fails; otherwise it reaches *)
(* the server, if that accepts calls.                                      *)
Invokes(k) ==
  /\ calls[k].at = "ready"
  /\ IF client[calls[k].client].open > 0 /\ remote = "up"
     THEN Moves(k, "running") /\ UNCHANGED inFlight
     ELSE Returns(k, "error")
  /\ UNCHANGED <<clientMap, client, made, removing, remote, ran>>

(* The handler runs at the remote server.                                  *)
Runs(k) ==
  /\ calls[k].at = "running"
  /\ ran' = ran \cup {k} /\ Moves(k, "answered")
  /\ UNCHANGED <<clientMap, client, made, removing, remote, inFlight>>

(* The answer arrives, a response or an error status, unless the           *)
(* connection was closed meanwhile.                                        *)
Answered(k) ==
  /\ calls[k].at = "answered"
  /\ \/ client[calls[k].client].open > 0 /\ Returns(k, "ok")
     \/ Returns(k, "error")
  /\ UNCHANGED <<clientMap, client, made, removing, remote, ran>>

TimesOutKeeps(k) ==
  /\ calls[k].at \in {"running", "answered", "lost"} /\ Moves(k, "error")
  /\ UNCHANGED <<clientMap, client, made, removing, remote, ran, inFlight>>

(* reqTimeout, or the transport fails: a handler that has begun runs on.   *)
TimesOut(k) ==
  /\ calls[k].at \in {"running", "answered", "lost"} /\ Returns(k, "error")
  /\ UNCHANGED <<clientMap, client, made, removing, remote, ran>>
-----------------------------------------------------------------------------
(* GRPCServer: Init listens and serves; Shutdown is a GracefulStop, which  *)
(* accepts no more calls and waits for those it has; a crash waits for     *)
(* nothing.                                                                *)
Serve ==
  /\ remote = "down" /\ remote' = "up"
  /\ UNCHANGED <<clientMap, client, made, removing, calls, ran, inFlight>>

GrpcShutdown ==
  /\ remote = "up" /\ remote' = "stopping"
  /\ UNCHANGED <<clientMap, client, made, removing, calls, ran, inFlight>>

GrpcStopped ==
  /\ remote = "stopping" /\ (\A k \in Calls : calls[k].at # "running") /\ remote' = "down"
  /\ UNCHANGED <<clientMap, client, made, removing, calls, ran, inFlight>>

Crash ==
  /\ remote # "down" /\ remote' = "down"
  /\ calls' = [k \in Calls |-> IF calls[k].at = "running" THEN [calls[k] EXCEPT !.at = "lost"] ELSE calls[k]]
  /\ UNCHANGED <<clientMap, client, made, removing, ran, inFlight>>
-----------------------------------------------------------------------------
Begins(k) ==
  \/ GrpcCall(k)
  \/ \E fid \in BOOLEAN : SendKick(k, fid) \/ BroadcastSessionBind(k, fid)
                         \/ \E known \in BOOLEAN : SendPush(k, known, fid)

CallNext(k) == \/ Begins(k) \/ Checks(k) \/ Connects(k) \/ Invokes(k) \/ Runs(k) \/ Answered(k) \/ TimesOut(k)

GrpcNext ==
  \/ \E m \in Metadata : AddServer(m)
  \/ RemoveServer \/ RemoveDeletes \/ Serve \/ GrpcShutdown \/ GrpcStopped \/ Crash
  \/ \E k \in Calls : CallNext(k)

GrpcSpec == GrpcInit /\ [][GrpcNext]_grpcVars
-----------------------------------------------------------------------------
(* Every variable holds a value of its kind.                               *)
GrpcTypeOK ==
  /\ clientMap \in 0 .. made /\ made \in 0 .. MaxClients /\ removing \in {0, clientMap}
  /\ \A c \in Clients : client[c].connected \in BOOLEAN /\ client[c].open \in Nat
  /\ \A k \in Calls : /\ calls[k].kind \in GrpcKinds /\ calls[k].client \in 0 .. made
                      /\ calls[k].at \in {"idle", "loaded", "connecting", "ready", "running", "answered",
                                          "lost", "ok", "error"}
  /\ remote \in {"down", "up", "stopping"} /\ ran \subseteq Calls /\ inFlight \subseteq Calls

(* Calls that find the client disconnected race each other and             *)
(* RemoveServer to connect it: it has one connection open if it is         *)
(* connected and none otherwise, so that disconnect leaves none behind.    *)
OneConnection == \A c \in Clients : client[c].open = IF client[c].connected THEN 1 ELSE 0

(* A call, push or kick reports success only if the remote server ran it,  *)
(* whatever was removed, closed or timed out meanwhile; only a broadcast   *)
(* may find nobody to tell.                                                *)
AckMeansDelivered == \A k \in Calls : calls[k].at = "ok" => k \in ran \/ calls[k].kind = "broadcast"

(* CloseAll delays the close of a session that has requests in flight: a   *)
(* call is counted from before it is built until it returns, and no call   *)
(* that has returned is counted, or the shutdown would never end.          *)
InFlightExact ==
  inFlight = {k \in Calls : calls[k].kind = "call"
                            /\ calls[k].at \in {"loaded", "connecting", "ready", "running", "answered", "lost"}}

(* However servers come and go under the calls, connections, answers and   *)
(* the count of calls are exact: all of the above.                         *)
RemoteCallsExact == OneConnection /\ AckMeansDelivered /\ InFlightExact
=============================================================================
