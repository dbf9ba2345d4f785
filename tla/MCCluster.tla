----------------------------- MODULE MCCluster ------------------------------
(* The cluster of one server: the service discovery's cache (the instance  *)
(* of MCServiceDiscovery), the gRPC clients of a peer (Grpc), and on NATS  *)
(* the calls (Rpc), the topics of users (Pushes) and the topics of servers *)
(* (NatsTopics).  `which' is the part that moves in a behaviour.  The two  *)
(* kinds of topics share the variables x1, x2, ..., in the order in which  *)
(* a part declares its own.                                                *)
EXTENDS MCServiceDiscovery, Rpc, Grpc

CONSTANTS Frontends, Backend, User, MaxCalls, MaxFaults,
          Servers, Topics, Fork, Groups, NoGroup, Publications, MaxObservers

VARIABLES
  which,
  x1, x2, x3, x4, x5, x6, x7, x8, x9, x10, x11, x12, x13, x14, x15, x16, x17, x18, x19, x20

beyond12 == <<x13, x14, x15, x16, x17, x18, x19, x20>>
shared == <<x1, x2, x3, x4, x5, x6, x7, x8, x9, x10, x11, x12, beyond12>>

(* Two sessions of the user, and one session that binds again.             *)
P == INSTANCE Pushes WITH
       Uids <- <<User>>, Sessions <- {"s1", "s2"}, MaxBinds <- 1, MaxSent <- 1,
       home <- x1, stage <- x2, reading <- x3, uid <- x4, binds <- x5, open <- x6, owned <- x7,
       byUID <- x8, natsUp <- x9, topic <- x10, live <- x11, pending <- x12, chan <- x13,
       sent <- x14, handled <- x15, since <- x16, until <- x17, calls <- x18, begun <- x19,
       troubles <- x20
P2 == INSTANCE Pushes WITH
       Uids <- <<User>>, Sessions <- {"s1"}, MaxBinds <- 2, MaxSent <- 2,
       home <- x1, stage <- x2, reading <- x3, uid <- x4, binds <- x5, open <- x6, owned <- x7,
       byUID <- x8, natsUp <- x9, topic <- x10, live <- x11, pending <- x12, chan <- x13,
       sent <- x14, handled <- x15, since <- x16, until <- x17, calls <- x18, begun <- x19,
       troubles <- x20
N == INSTANCE NatsTopics WITH
       serverAt <- x1, prepare <- x2, todo <- x3, subscribing <- x4, publishSubs <- x5,
       subs <- x6, clientAt <- x7, pub <- x8, replies <- x9, undelivered <- x10, handled <- x11,
       natsFaults <- x12

ASSUME ClusterConstants == GrpcConstants /\ P!PushesConstants /\ P2!PushesConstants /\ RpcConstants

Unused12 ==
  /\ x13 = None /\ x14 = None /\ x15 = None /\ x16 = None
  /\ x17 = None /\ x18 = None /\ x19 = None /\ x20 = None
Unused0 ==
  /\ x1 = None /\ x2 = None /\ x3 = None /\ x4 = None /\ x5 = None /\ x6 = None
  /\ x7 = None /\ x8 = None /\ x9 = None /\ x10 = None /\ x11 = None /\ x12 = None
  /\ Unused12

MCInit ==
  /\ Init /\ RpcInit /\ GrpcInit
  /\ \/ which \in {"discovery", "rpc", "grpc"} /\ Unused0
     \/ which = "pushes" /\ P!Init
     \/ which = "rebind" /\ P2!Init
     \/ which = "topics" /\ N!Init /\ Unused12

MCNext ==
  /\ UNCHANGED which
  /\ \/ which = "discovery" /\ Next /\ UNCHANGED <<rpcVars, grpcVars, shared>>
     \/ which = "rpc" /\ RpcNext /\ UNCHANGED <<vars, grpcVars, shared>>
     \/ which = "grpc" /\ GrpcNext /\ UNCHANGED <<vars, rpcVars, shared>>
     \/ which = "pushes" /\ P!Next /\ UNCHANGED <<vars, rpcVars, grpcVars>>
     \/ which = "rebind" /\ P2!Next /\ UNCHANGED <<vars, rpcVars, grpcVars>>
     \/ which = "topics" /\ N!Next /\ UNCHANGED <<vars, rpcVars, grpcVars, beyond12>>

MCSpec == MCInit /\ [][MCNext]_<<which, vars, rpcVars, grpcVars, shared>>
-----------------------------------------------------------------------------
(* Pushes: a subscription to a user's topic hands over what was published  *)
(* to the user while it stood, in order and once.                          *)
TopicExact ==
  /\ which = "pushes" => P!TopicExact
  /\ which = "rebind" => P2!TopicExact

(* NatsTopics: a publication is handled by one server of each group.       *)
PublishedOnce == which = "topics" => N!PublishedOnce
=============================================================================
