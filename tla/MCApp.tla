------------------------------- MODULE MCApp --------------------------------
(* What an application is built from: its groups (EtcdGroups), the backend *)
(* a user is bound to (BackendBinding), publications and forks             *)
(* (Messaging), handlers and hooks (Dispatch), goroutine pools (Pools),    *)
(* error groups (ErrGroup), jobs (Worker), documentation (Docs), the order *)
(* it is put together in (Assembly), and its clients: the protobuf client  *)
(* (ProtoClient), the command line (Cli) and the load tester (K6Client).   *)
(* `which' is the part that a behaviour is of.  The parts do not meet in a *)
(* behaviour, so all but the groups share the variables x1, x2, ..., in    *)
(* the order in which a part declares its own.                             *)
EXTENDS EtcdGroups, Naturals, TLC

CONSTANTS Calling, MaxMail, MaxOps, Msgs,
          MaxFaults, MaxRegistrations, TaskBuffer, Outside, MaxRefused, NoError, MaxCrashes, MaxAcceptors,
          MaxClients, MaxCommands, MaxPushes

VARIABLES
  which,
  x1, x2, x3, x4, x5, x6, x7, x8, x9, x10, x11, x12, x13, x14, x15, x16

shared == <<x1, x2, x3, x4, x5, x6, x7, x8, x9, x10, x11, x12, x13, x14, x15, x16>>
-----------------------------------------------------------------------------
(* Two servers of one type and one of another.                             *)
Type == [x \in {"g1", "g2", "c1"} |-> IF x = "c1" THEN "chat" ELSE "game"]

B == INSTANCE BackendBinding WITH
       Servers <- {"g1", "g2", "c1"}, Types <- {"game", "chat"},
       Sessions <- {"s1", "s2", "s3"}, Callers <- Calling,
       regime <- x1, online <- x2, front <- x3, login <- x4, cache <- x5, up <- x6, pool <- x7,
       backends <- x8, call <- x9, mail <- x10, ops <- x11

(* Three servers of the sender's type, two of a sticky one, a frontend.    *)
(* m2 is forked by the servers of the own type that registered m1 first:   *)
(* the sender and s3, and s2 or not.                                       *)
ServersOf == [own |-> {"s1", "s2", "s3"}, room |-> {"r1", "r2"}, gate |-> {"g1"}]
BoundTo == [room |-> "r1", gate |-> None]
ForkMethods == [own |-> {"m1"}, room |-> {}, gate |-> {}]
ForkAll == [own |-> FALSE, room |-> FALSE, gate |-> TRUE]
Types == DOMAIN ServersOf

M == INSTANCE Messaging WITH
       Own <- "own", Self <- "s1", Sticky <- {"room"}, Frontends <- {"gate"},
       Subscribers <- Types, Methods <- {"m1", "m2"}, Topic <- "m2",
       ForkTargets <- {"own", "room"}, RequestTargets <- {"own", "room"},
       CallTargets <- {"r1", "s2", "s1"}, Leaving <- {"r1", "s2", "s3"},
       subscribe <- x1, members <- x2, op <- x3, branch <- x4, goCall <- x5, chFork <- x6,
       consumed <- x7, faults <- x8

(* Two components of one name, with different methods and options.         *)
Answers(type) == [ins |-> <<"context", type>>, outs |-> <<type, "error">>]
Notified == [ins |-> <<"context", "bytes">>, outs |-> << >>]
Components ==
  {[name |-> "a", methods |-> [x |-> Answers("proto"), y |-> Notified],
    subscriber |-> FALSE, task |-> TRUE, receiver |-> FALSE],
   [name |-> "a", methods |-> [x |-> Answers("pointer"), z |-> Answers("proto")],
    subscriber |-> TRUE, task |-> FALSE, receiver |-> TRUE]}

Routes == {<<"a", "x">>, <<"a", "y">>, <<"i", "x">>}

(* Two messages at once, and two registrations.                            *)
H == INSTANCE Dispatch WITH
       Intercepted <- {"i"}, Messages <- Msgs, MaxRegistrations <- 1,
       BeforeHooks <- 1, AfterHooks <- 1,
       running <- x1, registered <- x2, services <- x3, handlers <- x4, remoteServices <- x5,
       subscribers <- x6, remotes <- x7, msg <- x8, posted <- x9
H2 == INSTANCE Dispatch WITH
       Intercepted <- {"i"}, Messages <- {"m1"},
       BeforeHooks <- 1, AfterHooks <- 1,
       running <- x1, registered <- x2, services <- x3, handlers <- x4, remoteServices <- x5,
       subscribers <- x6, remotes <- x7, msg <- x8, posted <- x9

P == INSTANCE Pools WITH
       Configured <- {"room"}, Builtin <- {"user"}, Asked <- {"room", "user"}, Ids <- {1},
       Tasks <- {"k1", "k2", "k3"},
       cfgMap <- x1, pools <- x2, queue <- x3, running <- x4, task <- x5, giving <- x6,
       refused <- x7, nilPool <- x8

E == INSTANCE ErrGroup WITH
       Functions <- {"x1", "x2", "x3"}, Limits <- {1, 2},
       limit <- x1, sem <- x2, wg <- x3, function <- x4, groupErr <- x5, errs <- x6,
       canceled <- x7, waiting <- x8

J == INSTANCE Worker WITH
       Jobs <- {"j1", "j2"}, Options <- [Enabled : BOOLEAN, Max : {1, 2}],
       DefaultOpts <- [Enabled |-> TRUE, Max |-> 2], Concurrency <- 1,
       registered <- x1, workerStarted <- x2, job <- x3, opts <- x4, retries <- x5, made <- x6,
       crashes <- x7

A == INSTANCE Assembly WITH
       Comps <- {"m1", "m2"}, Sys <- "sys",
       phase <- x1, serverMode <- x2, frontend <- x3, partsSet <- x4, acceptors <- x5,
       remoteService <- x6, comps <- x7, hooks <- x8, known <- x9, lazy <- x10, early <- x11,
       changed <- x12

Docs == [r1 |-> [in |-> "A", out |-> "B"]]
Pushed == [p1 |-> [in |-> None, out |-> "C"]]

C == INSTANCE ProtoClient WITH
       Attempts <- {1, 2}, Closers <- {"d1"}, Described <- {"A", "B", "C"},
       active <- x1, where <- x2, kind <- x3, ended <- x4, finished <- x5, boot <- x6,
       ready <- x7, info <- x8, link <- x9, reader <- x10, reading <- x11, snapshot <- x12,
       told <- x13, closer <- x14, strayed <- x15

L == INSTANCE Cli WITH
       mode <- x1, docsString <- x2, command <- x3, given <- x4, pClient <- x5, connected <- x6,
       pushInfo <- x7, disconnectedCh <- x8, channel <- x9, reading <- x10, reads <- x11,
       selects <- x12, inbox <- x13, asked <- x14, pushed <- x15, wait <- x16

K == INSTANCE K6Client WITH
       Requests <- {1, 2}, Consumers <- {"c1"}, Listeners <- {"l1", "l2"},
       promise <- x1, waitsOn <- x2, consumer <- x3, responses <- x4, made <- x5, full <- x6,
       listener <- x7, inbox <- x8, answered <- x9, handed <- x10, pushed <- x11
-----------------------------------------------------------------------------
(* A message M that holds a struct A, which is not a message itself.       *)
Field(name, lower, tag, type) ==
  [name |-> name, lower |-> lower, private |-> FALSE, xxx |-> FALSE, tag |-> tag, type |-> type]
Int == <<"basic", "int">>
FieldsOf ==
  [A |-> <<Field("N", "n", "none", Int), Field("Tagged", "tagged", "t", <<"slice", <<"basic", "uint8">>>>),
           [Field("p", "p", "none", Int) EXCEPT !.private = TRUE],
           [Field("XXX_u", "xXX_u", "-", Int) EXCEPT !.xxx = TRUE]>>,
   M |-> <<Field("In", "in", "in", <<"ptr", <<"struct", "A">>>>), Field("Hid", "hid", "-", Int),
           Field("L", "l", "none", <<"slice", <<"struct", "A">>>>),
           Field("At", "at", "none", <<"struct", "time.Time">>)>>]
Documented ==
  {[input |-> <<<<"ptr", <<"struct", "M">>>>>>, output |-> <<<<"ptr", <<"struct", "A">>>>>>],
   [input |-> <<<<"struct", "M">>>>, output |-> <<<<"slice", <<"ptr", <<"struct", "M">>>>>>>>],
   [input |-> << >>, output |-> <<<<"slice", <<"basic", "uint8">>>>>>]}

D == INSTANCE Docs WITH
       Structs <- {"A", "M"}, Fields <- FieldsOf, FileOf <- [A |-> 99, M |-> 3], NoFile <- 99,
       Files <- {1, 2, 3}, Placeholder <- 0, Methods <- Documented, NoTag <- "none",
       imports <- x1, services <- x2, docs <- x3, descs <- x4

ASSUME AppConstants ==
  /\ B!BackendBindingConstants /\ M!MessagingConstants
  /\ H!DispatchConstants /\ H2!DispatchConstants /\ C!ProtoConstants

(* Messages that are served at the same time are alike.                    *)
MessageSymmetry == Permutations(Msgs)
-----------------------------------------------------------------------------
(* The variables beyond the n that a part has.                             *)
Spare(n) ==
  /\ IF n < 5 THEN x5 = None ELSE TRUE
  /\ IF n < 6 THEN x6 = None ELSE TRUE
  /\ IF n < 7 THEN x7 = None ELSE TRUE
  /\ IF n < 8 THEN x8 = None ELSE TRUE
  /\ IF n < 9 THEN x9 = None ELSE TRUE
  /\ IF n < 10 THEN x10 = None ELSE TRUE
  /\ IF n < 11 THEN x11 = None ELSE TRUE
  /\ IF n < 12 THEN x12 = None ELSE TRUE
  /\ IF n < 13 THEN x13 = None ELSE TRUE
  /\ IF n < 14 THEN x14 = None ELSE TRUE
  /\ IF n < 15 THEN x15 = None ELSE TRUE
  /\ IF n < 16 THEN x16 = None ELSE TRUE

(* The groups and the variables beyond the n that a part has stay.         *)
Only(n) ==
  /\ UNCHANGED <<which, vars>>
  /\ IF n < 5 THEN UNCHANGED x5 ELSE TRUE
  /\ IF n < 6 THEN UNCHANGED x6 ELSE TRUE
  /\ IF n < 7 THEN UNCHANGED x7 ELSE TRUE
  /\ IF n < 8 THEN UNCHANGED x8 ELSE TRUE
  /\ IF n < 9 THEN UNCHANGED x9 ELSE TRUE
  /\ IF n < 10 THEN UNCHANGED x10 ELSE TRUE
  /\ IF n < 11 THEN UNCHANGED x11 ELSE TRUE
  /\ IF n < 12 THEN UNCHANGED x12 ELSE TRUE
  /\ IF n < 13 THEN UNCHANGED x13 ELSE TRUE
  /\ IF n < 14 THEN UNCHANGED x14 ELSE TRUE
  /\ IF n < 15 THEN UNCHANGED x15 ELSE TRUE
  /\ IF n < 16 THEN UNCHANGED x16 ELSE TRUE

MCInit ==
  /\ Init
  /\ \/ which = "groups" /\ Spare(0) /\ x1 = None /\ x2 = None /\ x3 = None /\ x4 = None
     \/ which = "binding" /\ B!Init /\ Spare(11)
     \/ which = "messaging" /\ M!Init /\ x1["s1"]["m2"] /\ x1["s3"]["m2"] /\ Spare(8)
     \/ which = "dispatch" /\ H!Init /\ Spare(9)
     \/ which = "register" /\ H2!Init /\ Spare(9)
     \/ which = "pools" /\ P!Init /\ Spare(8)
     \/ which = "errgroup" /\ E!Init /\ Spare(8)
     \/ which = "worker" /\ J!Init /\ Spare(7)
     \/ which = "assembly" /\ A!Init /\ Spare(12)
     \/ which = "proto" /\ C!Init /\ Spare(15)
     \/ which = "cli" /\ L!Init /\ Spare(16)
     \/ which = "k6" /\ K!Init /\ Spare(11)
     \/ which = "docs" /\ D!Init /\ Spare(4)

MCNext ==
  \/ which = "groups" /\ Next /\ UNCHANGED <<which, shared>>
  \/ which = "binding" /\ B!Next /\ Only(11)
  \/ which = "messaging" /\ M!Next /\ Only(8)
  \/ which = "dispatch" /\ H!Next /\ Only(9)
  \/ which = "register" /\ H2!Next /\ Only(9)
  \/ which = "pools" /\ P!Next /\ Only(8)
  \/ which = "errgroup" /\ E!Next /\ Only(8)
  \/ which = "worker" /\ J!Next /\ Only(7)
  \/ which = "assembly" /\ A!Next /\ Only(12)
  \/ which = "proto" /\ C!Next /\ Only(15)
  \/ which = "cli" /\ L!Next /\ Only(16)
  \/ which = "k6" /\ K!Next /\ Only(11)
  \/ which = "docs" /\ D!Next /\ Only(4)

MCSpec ==
  MCInit /\ [][MCNext]_<<which, vars, shared>>
-----------------------------------------------------------------------------
(* BackendBinding: a user has one session at one server of a type, and     *)
(* every copy of the binding says so.                                      *)
BindingsAgree == which = "binding" => B!BindingsAgree

(* Messaging: a publication reaches each type it is meant for once, and    *)
(* the publisher gets its answer, but for what DoForkRequest leaves out.   *)
PublishExact == which = "messaging" => M!PublishExact

(* Dispatch: a message is served by the method its route names, between    *)
(* the hooks.                                                              *)
ServedAsRegistered ==
  /\ which = "dispatch" => H!ServedAsRegistered
  /\ which = "register" => H2!ServedAsRegistered

(* Pools, ErrGroup, Worker: work that was given is done, or its giver is   *)
(* told.                                                                   *)
WorkKept ==
  /\ which = "pools" => P!OnlyCircles
  /\ which = "errgroup" => E!WaitExact
  /\ which = "worker" => J!JobKept

(* Docs: what a server documents of its methods is what a client needs.    *)
DocsUsable == which = "docs" => D!DocsUsable

(* Assembly: a component is started, callable and stopped in this order.   *)
Assembled == which = "assembly" => A!Assembled

(* ProtoClient: generations do not mix, and no call waits for another that *)
(* waits for it.                                                           *)
GenerationsApart == which = "proto" => C!GenerationsApart

(* Cli, K6Client: a connection that the tools hold has a goroutine that    *)
(* reads it.                                                               *)
ConnectionsRead ==
  /\ which = "cli" => L!ConnectionServed
  /\ which = "k6" => K!ListenerReads
=============================================================================
