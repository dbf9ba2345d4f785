----------------------------- MODULE Messaging -----------------------------
(***************************************************************************)
(* What an application sends to other servers (rpc.go, service/remote.go): *)
(* RPC, RPCTo, Notify and NotifyTo to one server, Publish, NotifyAll and   *)
(* Fork to several, with the subscriptions that Register makes and the     *)
(* router that picks a server (router/router.go).  One server runs one of  *)
(* these operations while servers that its discovery lists leave; a call   *)
(* may fail, before or after the other server has run the method.          *)
(***************************************************************************)
EXTENDS Naturals, Sequences, FiniteSets

CONSTANTS Types, ServersOf,     \* the server types and the servers of each
          Own, Self,            \* the type and the name of the sender
          Sticky, Frontends,    \* types whose calls go to the server of the session
          BoundTo,              \* the session's server of each of these, or None
          Subscribers,          \* types that registered the subscriber component
          Methods, Topic,       \* its methods, and the one published to
          ForkMethods, ForkAll, \* WithForkMethods and WithForkAll of each type
          ForkTargets,          \* types that Fork is called with
          RequestTargets,       \* types that ForkRequest is called with
          CallTargets,          \* servers that RPCTo and NotifyTo are called with
          Leaving,              \* servers that may leave while the operation runs
          MaxFaults,            \* bound: calls that fail
          None

MessagingConstants ==
  /\ Own \in Types /\ Self \in ServersOf[Own] /\ Topic \in Methods
  /\ \A t \in Types : ForkMethods[t] \subseteq Methods /\ ForkAll[t] \in BOOLEAN
  /\ \A t, u \in Types : t # u => ServersOf[t] \cap ServersOf[u] = {}
  /\ None \notin UNION {ServersOf[t] : t \in Types}

Servers == UNION {ServersOf[t] : t \in Types}
TypeOf(s) == CHOOSE t \in Types : s \in ServersOf[t]

VARIABLES
  subscribe,  \* cluster.Server.Subscribe of each server: method -> fork
  members,    \* the servers of each type that discovery lists
  op,         \* the operation: kind, place, the types it read with their
              \* subscription, those it has still to walk, session, error, responses
  branch,     \* DoFork and DoPublishRequest for each type: place and server list
  goCall,     \* the goroutine that DoForkRequest starts for each server
  chFork,     \* the channel of DoForkRequest for each type, of one response
  consumed,   \* how often each server ran the method
  faults

msgVars == <<subscribe, members, op, branch, goCall, chFork, consumed, faults>>

NoBranch == [at |-> "none", svs |-> {}, got |-> 0]
-----------------------------------------------------------------------------
(* Register walks the methods of a subscriber in any order.  fork starts   *)
(* as ForkAll if no method is named; once a named method has set it, it    *)
(* stays set for the methods that follow.                                  *)
Orders == {f \in [Methods -> 1 .. Cardinality(Methods)] : \A m, o \in Methods : m # o => f[m] # f[o]}

Register(t, order) ==
  [m \in Methods |-> IF ForkMethods[t] = {} THEN ForkAll[t]
                     ELSE \E o \in ForkMethods[t] : order[o] <= order[m]]

Init ==
  /\ \E order \in [Servers -> Orders] : subscribe = [s \in Servers |-> Register(TypeOf(s), order[s])]
  /\ members = ServersOf
  /\ op = [kind |-> "none", at |-> "idle", todo |-> << >>, svs |-> << >>, to |-> None, session |-> FALSE,
           err |-> FALSE, resps |-> {}]
  /\ branch = [t \in Types |-> NoBranch] /\ goCall = [s \in Servers |-> "none"]
  /\ chFork = [t \in Types |-> << >>] /\ consumed = [s \in Servers |-> 0] /\ faults = 0

(* GetServerTypes: any one listed server stands for its type, and its      *)
(* subscription to the topic is what the operation reads of it.            *)
GetServerTypes ==
  LET listed == {t \in Types : members[t] # {}}
  IN  {f \in [listed -> BOOLEAN] : \A t \in listed : \E s \in members[t] : f[t] = subscribe[s][Topic]}

GetSubscribe(t) == t \in Subscribers

(* Another server stops, and discovery forgets it.                         *)
Leave(s) ==
  /\ s \in Leaving /\ \E t \in Types : s \in members[t] /\ members' = [members EXCEPT ![t] = @ \ {s}]
  /\ UNCHANGED <<subscribe, op, branch, goCall, chFork, consumed, faults>>
-----------------------------------------------------------------------------
(* Router.Route: the session's server for a frontend or sticky type, any   *)
(* server otherwise; nobody when there is none.                            *)
Route(t) ==
  IF op.session /\ t \in Sticky \cup Frontends THEN {BoundTo[t]} \cap members[t] ELSE members[t]

(* How a call can end: whether the server ran the method, and whether the  *)
(* caller gets an error.                                                   *)
Ends == {e \in [ran : BOOLEAN, err : BOOLEAN] : e.ran \/ e.err}

Call(to, e) ==
  /\ e.err => faults < MaxFaults
  /\ faults' = IF e.err THEN faults + 1 ELSE faults
  /\ consumed' = [s \in Servers |-> IF e.ran /\ s \in to THEN consumed[s] + 1 ELSE consumed[s]]

NoCall == UNCHANGED <<consumed, faults>>

(* The outcomes of a call: the server, whether it ran the method and       *)
(* whether the caller gets an error; or nobody was called.                 *)
Unreached == [to |-> None, ran |-> FALSE, err |-> TRUE]
Called(e) == IF e = Unreached THEN NoCall ELSE Call({e.to}, e)

(* remoteCall: without a target, route first.                              *)
remoteCall(t, target) ==
  LET svs == IF target = None THEN Route(t) ELSE {target}
  IN  IF svs = {} THEN {Unreached}
      ELSE {e \in [to : svs, ran : BOOLEAN, err : BOOLEAN] : e.ran \/ e.err}

(* DoRPC and DoNotify with the name of a server, which must be listed;     *)
(* DoNotify drops the response.                                            *)
DoRPC(t, target) == IF target \in members[t] \cup {None} THEN remoteCall(t, target) ELSE {Unreached}
DoNotify(t, target) == DoRPC(t, target)

Unbound(t) == t \in Sticky /\ op.session /\ BoundTo[t] = None

(* What a publication passes over: a type that does not subscribe, the own *)
(* type unless the method is forked, a sticky type the session is not      *)
(* bound to.                                                               *)
PassedOverUnbound(t, fork) == ~GetSubscribe(t) \/ (~fork /\ Unbound(t))
PassedOver(t, fork) == ~GetSubscribe(t) \/ (~fork /\ (t = Own \/ Unbound(t)))

(* NotifyAll passes over the own type and the unbound ones.                *)
NotNotified(t) == t = Own \/ Unbound(t)
-----------------------------------------------------------------------------
(* The operations of the application.                                      *)

Kept == UNCHANGED <<subscribe, members>>

(* imperfectSessionForRPC: no user is given, the user's session is found   *)
(* in the pool, in the context or in the cache, or it is nowhere.          *)
Sessions == {"none", "found", "missing"}

Begin(kind, new) == op.at = "idle" /\ op' = [new EXCEPT !.kind = kind]
                    /\ UNCHANGED <<goCall, chFork, consumed, faults>> /\ Kept
Refused == [op EXCEPT !.at = "done", !.err = TRUE]

(* A call to any server of the own type, or to this server, is refused.    *)
Nonsense(t, target) == (t = Own /\ target = None) \/ target = Self

doSendRPC(t, target, session) ==
  /\ Begin("rpc", IF Nonsense(t, target) \/ session = "missing" THEN Refused
                  ELSE [op EXCEPT !.at = "call", !.svs = [u \in {t} |-> FALSE], !.to = target,
                                  !.session = session = "found"])
  /\ UNCHANGED branch

doSendNotify(t, target, session) ==
  /\ Begin("notify", IF Nonsense(t, target) \/ session = "missing" THEN Refused
                     ELSE [op EXCEPT !.at = "call", !.svs = [u \in {t} |-> FALSE], !.to = target,
                                     !.session = session = "found"])
  /\ UNCHANGED branch

Walking(session, svs) ==
  IF session = "missing" THEN Refused
  ELSE [op EXCEPT !.at = "walk", !.todo = svs, !.svs = svs, !.session = session = "found"]

doSendNotifyAll(session) ==
  UNCHANGED branch /\ \E svs \in GetServerTypes : Begin("notifyAll", Walking(session, svs))

doPublish(kind, session) ==
  UNCHANGED branch /\ \E svs \in GetServerTypes : Begin(kind, Walking(session, svs))

(* doFork with one type: DoFork, or DoForkRequest.                         *)
doFork(kind, t, session) ==
  IF session = "missing" THEN Begin(kind, Refused) /\ UNCHANGED branch
  ELSE /\ Begin(kind, [op EXCEPT !.at = "join", !.svs = [u \in {t} |-> TRUE], !.session = session = "found"])
       /\ branch' = [branch EXCEPT ![t].at = IF kind = "fork" THEN "doFork" ELSE "doForkRequest"]

(* RemoteService.RPC: a response that carries an error is one.             *)
RPC(t) ==
  /\ op.at = "call" /\ op.kind = "rpc" /\ t \in DOMAIN op.svs
  /\ \E e \in DoRPC(t, op.to) :
       Called(e) /\ op' = [op EXCEPT !.at = "done", !.err = e.err, !.resps = IF e.err THEN {} ELSE {e.to}]
  /\ UNCHANGED <<branch, goCall, chFork>> /\ Kept

Notify(t) ==
  /\ op.at = "call" /\ op.kind = "notify" /\ t \in DOMAIN op.svs
  /\ \E e \in DoNotify(t, op.to) : Called(e) /\ op' = [op EXCEPT !.at = "done", !.err = e.err]
  /\ UNCHANGED <<branch, goCall, chFork>> /\ Kept
-----------------------------------------------------------------------------
Rest(t) == [u \in DOMAIN op.todo \ {t} |-> op.todo[u]]
WalkedStops(t, err) == op' = [op EXCEPT !.todo = IF err THEN << >> ELSE Rest(t), !.err = @ \/ err]
Walked(t, err) == op' = [op EXCEPT !.todo = Rest(t), !.err = @ \/ err]

(* The loop of DoPublish over the types: a failed call is noted and the    *)
(* loop goes on.                                                           *)
DoPublish(t) ==
  /\ op.at = "walk" /\ op.kind = "publish" /\ t \in DOMAIN op.todo
  /\ LET fork == op.todo[t]
     IN  \/ PassedOver(t, fork) /\ Walked(t, FALSE) /\ NoCall /\ UNCHANGED branch
         \/ /\ ~PassedOver(t, fork) /\ fork
            /\ branch' = [branch EXCEPT ![t].at = "doFork"] /\ NoCall
            /\ op' = [op EXCEPT !.at = "join", !.todo = Rest(t)]
         \/ /\ ~PassedOver(t, fork) /\ ~fork /\ UNCHANGED branch
            /\ \E e \in DoNotify(t, None) : Called(e) /\ Walked(t, e.err)
  /\ UNCHANGED <<goCall, chFork>> /\ Kept

(* NotifyAll drops the errors.                                             *)
NotifyAll(t) ==
  /\ op.at = "walk" /\ op.kind = "notifyAll" /\ t \in DOMAIN op.todo
  /\ \/ NotNotified(t) /\ Walked(t, FALSE) /\ NoCall
     \/ ~NotNotified(t) /\ \E e \in DoNotify(t, None) : Called(e) /\ Walked(t, FALSE)
  /\ UNCHANGED <<branch, goCall, chFork>> /\ Kept

(* DoPublishRequest starts a goroutine for each subscribed type, all at    *)
(* once, and waits for them.                                               *)
DoPublishRequest ==
  /\ op.at = "walk" /\ op.kind = "publishRequest" /\ op.todo # << >>
  /\ branch' = [t \in Types |-> IF t \in DOMAIN op.todo /\ ~PassedOver(t, op.todo[t])
                                THEN [NoBranch EXCEPT !.at = IF op.todo[t] THEN "doForkRequest" ELSE "doRPC"]
                                ELSE branch[t]]
  /\ op' = [op EXCEPT !.at = "join", !.todo = << >>]
  /\ UNCHANGED <<goCall, chFork, consumed, faults>> /\ Kept

Fails(err) == op' = [op EXCEPT !.err = @ \/ err]
Ended(t) == branch' = [branch EXCEPT ![t].at = "done"]

(* DoRPC by one goroutine; a nil response is not collected.                *)
GoRPC(t) ==
  /\ branch[t].at = "doRPC" /\ Ended(t)
  /\ \E e \in DoRPC(t, None) :
       Called(e) /\ op' = [op EXCEPT !.err = @ \/ e.err, !.resps = IF e.err THEN @ ELSE @ \cup {e.to}]
  /\ UNCHANGED <<goCall, chFork>> /\ Kept

(* DoFork.  All servers of another type listen on one subject; those of    *)
(* the own type are called one after the other, without this server.       *)
DoFork(t) ==
  /\ branch[t].at = "doFork"
  /\ \/ t # Own /\ Ended(t) /\ \E e \in Ends : Call(members[t], e) /\ Fails(e.err)
     \/ /\ t = Own /\ NoCall /\ UNCHANGED op
        /\ branch' = [branch EXCEPT ![t] = [NoBranch EXCEPT !.at = "forking", !.svs = members[t] \ {Self}]]
  /\ UNCHANGED <<goCall, chFork>> /\ Kept

ForkNext(t) ==
  /\ branch[t].at = "forking"
  /\ \/ branch[t].svs = {} /\ Ended(t) /\ NoCall /\ UNCHANGED op
     \/ \E s \in branch[t].svs, e \in Ends :
          Call({s}, e) /\ Fails(e.err) /\ branch' = [branch EXCEPT ![t].svs = @ \ {s}]
  /\ UNCHANGED <<goCall, chFork>> /\ Kept

(* DoForkRequest: a goroutine for each listed server but this one, whose   *)
(* responses come back through a channel of one; it returns when it has as *)
(* many as the list is long, less one.                                     *)
DoForkRequest(t) ==
  /\ branch[t].at = "doForkRequest"
  /\ IF members[t] = {} THEN Ended(t) /\ Fails(TRUE) /\ UNCHANGED goCall
     ELSE /\ branch' = [branch EXCEPT ![t] = [at |-> "collect", svs |-> members[t], got |-> 0]]
          /\ goCall' = [s \in Servers |-> IF s \in members[t] \ {Self} THEN "calls" ELSE goCall[s]]
          /\ UNCHANGED op
  /\ NoCall /\ UNCHANGED chFork /\ Kept

GoCalls(s) ==
  /\ goCall[s] = "calls"
  /\ \E e \in Ends : /\ Call({s}, e) /\ goCall' = [goCall EXCEPT ![s] = IF e.err THEN "failed" ELSE "answered"]
                     /\ IF branch[TypeOf(s)].at = "collect" THEN Fails(e.err) ELSE UNCHANGED op
  /\ UNCHANGED <<branch, chFork>> /\ Kept

GoSends(s) ==
  /\ goCall[s] \in {"failed", "answered"} /\ Len(chFork[TypeOf(s)]) < 1
  /\ chFork' = [chFork EXCEPT ![TypeOf(s)] = Append(@, IF goCall[s] = "answered" THEN s ELSE None)]
  /\ goCall' = [goCall EXCEPT ![s] = "sent"]
  /\ UNCHANGED <<op, branch>> /\ NoCall /\ Kept

EnoughWithSelf(svs, n) == n >= Cardinality(svs)
Enough(svs, n) == n >= Cardinality(svs) - 1

Collect(t) ==
  /\ branch[t].at = "collect" /\ chFork[t] # << >>
  /\ LET n == branch[t].got + 1
     IN  branch' = [branch EXCEPT ![t].got = n, ![t].at = IF Enough(branch[t].svs, n) THEN "done" ELSE "collect"]
  /\ op' = [op EXCEPT !.resps = @ \cup ({Head(chFork[t])} \ {None})]
  /\ chFork' = [chFork EXCEPT ![t] = Tail(@)]
  /\ NoCall /\ UNCHANGED goCall /\ Kept

(* DoFork has returned to DoPublish, or the last goroutine has ended.      *)
Join ==
  /\ op.at = "join" /\ \A t \in Types : branch[t].at \in {"none", "done"}
  /\ op' = [op EXCEPT !.at = IF op.kind = "publish" THEN "walk" ELSE "done"]
  /\ UNCHANGED <<branch, goCall, chFork>> /\ NoCall /\ Kept

Return ==
  /\ op.at = "walk" /\ op.todo = << >>
  /\ op' = [op EXCEPT !.at = "done"]
  /\ UNCHANGED <<branch, goCall, chFork>> /\ NoCall /\ Kept

OfType(t) ==
  \/ RPC(t) \/ Notify(t) \/ DoPublish(t) \/ NotifyAll(t) \/ GoRPC(t) \/ DoFork(t) \/ ForkNext(t)
  \/ DoForkRequest(t) \/ Collect(t)
Goroutines == \E s \in Servers : GoCalls(s) \/ GoSends(s)
Running == (\E t \in Types : OfType(t)) \/ Goroutines \/ DoPublishRequest \/ Join \/ Return

Sends(session) ==
  \/ \E t \in Types : \E target \in (CallTargets \cap ServersOf[t]) \cup {None} :
       doSendRPC(t, target, session) \/ doSendNotify(t, target, session)
  \/ doSendNotifyAll(session)
  \/ \E kind \in {"publish", "publishRequest"} : doPublish(kind, session)
  \/ \E t \in ForkTargets : doFork("fork", t, session)
  \/ \E t \in RequestTargets : doFork("forkRequest", t, session)

Next ==
  \/ \E session \in Sessions : Sends(session)
  \/ Running
  \/ \E s \in Servers : Leave(s)

Spec == Init /\ [][Next]_msgVars
-----------------------------------------------------------------------------
(* Every variable keeps its type; a fork's channel holds one response.     *)
TypeOK ==
  /\ subscribe \in [Servers -> [Methods -> BOOLEAN]] /\ members \in [Types -> SUBSET Servers]
  /\ op.at \in {"idle", "call", "walk", "join", "done"} /\ op.resps \subseteq Servers /\ op.err \in BOOLEAN
  /\ \A t \in Types : Len(chFork[t]) <= 1 /\ branch[t].svs \subseteq Servers
  /\ goCall \in [Servers -> {"none", "calls", "failed", "answered", "sent"}]
  /\ consumed \in [Servers -> Nat] /\ faults \in 0 .. MaxFaults

(* The types the operation is for, and whether every server of them is.    *)
AllOf(t) == op.kind # "notifyAll" /\ op.svs[t]
IsFor(t) ==
  \/ op.kind \in {"rpc", "notify", "fork", "forkRequest"}
  \/ op.kind = "notifyAll" /\ ~NotNotified(t)
  \/ op.kind \in {"publish", "publishRequest"} /\ ~PassedOver(t, op.svs[t])
Addressed == {t \in DOMAIN op.svs : IsFor(t)}

(* No server runs the method twice, the sender never runs it, and of a     *)
(* type that does not fork it, or only one replica does: DoPublish,        *)
(* NotifyAll and DoFork leave out the own type or the own replica and take *)
(* each type once, however calls fail and servers leave meanwhile.  RPCTo  *)
(* and NotifyTo run it on no other server than the one named.              *)
NoDuplicates ==
  /\ consumed[Self] = 0
  /\ \A s \in Servers : consumed[s] <= 1
  /\ op.at # "idle" => \A t \in Types, r, s \in Servers :
       (r # s /\ {r, s} \subseteq ServersOf[t] /\ consumed[r] + consumed[s] = 2) => t \in Addressed /\ AllOf(t)
  /\ op.to # None => \A s \in Servers : consumed[s] > 0 => s = op.to

(* What the operation got to: for a request the servers whose response is  *)
(* returned.                                                               *)
Reached == IF op.kind \in {"rpc", "publishRequest", "forkRequest"} THEN op.resps ELSE {s \in Servers : consumed[s] = 1}

(* DoForkRequest waits for one answer less than servers are listed, also   *)
(* when this server is not among them: one of another type may be left out.*)
LeftOut(t) ==
  IF op.kind \in {"publishRequest", "forkRequest"} /\ Self \notin branch[t].svs
     /\ Cardinality(branch[t].svs) > 1
  THEN 1 ELSE 0
Missed(t) ==
  IF AllOf(t) THEN Cardinality((members[t] \ {Self}) \ Reached) > LeftOut(t) ELSE ServersOf[t] \cap Reached = {}

(* An operation that returns has reached one server of each type addressed *)
(* (all that are still there, when forked): it misses no more types than   *)
(* calls failed, besides those with nobody to route to, and Publish and    *)
(* Fork return an error if they missed one.  A forked request to another   *)
(* type is excused one of several servers, which the code does not await.  *)
PublishComplete ==
  op.at = "done" =>
    /\ op.to = None => Cardinality({t \in Addressed : Missed(t) /\ (AllOf(t) \/ Route(t) # {})}) <= faults
    /\ op.kind # "notifyAll" /\ (\E t \in Addressed : Missed(t)) => op.err

(* An operation that has begun always has a step to take until it returns: *)
(* DoForkRequest's goroutines never fill the channel it no longer reads,   *)
(* and it waits for a response that nobody sends in one case only, when    *)
(* the sender is alone in its type and forks a request to it.              *)
Alone(t) == branch[t].at = "collect" /\ branch[t].svs = {Self}
PublishReturns == op.at \in {"call", "walk", "join"} => ENABLED Running \/ \E t \in Types : Alone(t)

(* A publication or fork runs once wherever it is meant to run, and tells  *)
(* its caller, with the two exceptions named: all of the above.            *)
PublishExact == NoDuplicates /\ PublishComplete /\ PublishReturns
=============================================================================
