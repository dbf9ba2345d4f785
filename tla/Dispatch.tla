------------------------------ MODULE Dispatch ------------------------------
(***************************************************************************)
(* From a route to a method and back: how components are registered as     *)
(* handlers and remotes (component/, HandlerService.Register,              *)
(* RemoteService.Register), and how a message is served by one             *)
(* (HandlerPool.ProcessHandlerMessage for a client's message, local or     *)
(* forwarded, RemoteService.handleRPCUser for a server's call): the        *)
(* interceptor, the hooks before and after (pipeline/), the method, on the *)
(* server's goroutine or on a thread of the application, and the answer.   *)
(***************************************************************************)
EXTENDS Naturals, Sequences, FiniteSets

CONSTANTS Components,      \* [name, methods, subscriber, task, receiver] each
          Intercepted,     \* names of services that have an interceptor
          Messages,        \* messages served, at the same time
          Routes,          \* <<service, method>> pairs that messages name
          BeforeHooks, AfterHooks,  \* how many hooks of each sort there are
          MaxRegistrations,         \* bound: registrations
          None

DispatchConstants ==
  /\ BeforeHooks \in Nat /\ AfterHooks \in Nat /\ MaxRegistrations \in Nat
  /\ None \notin Components

VARIABLES
  running,     \* the application has started: nothing is registered any more
  registered,  \* how many registrations were tried
  services,    \* HandlerService.services: name -> component
  handlers,    \* HandlerPool.handlers: route -> entry
  remoteServices, subscribers,  \* RemoteService.services and .subscribers
  remotes,     \* RemoteService.remotes: route -> entry
  msg,         \* each message: where it is and what it has met
  posted       \* tasks handed to the application's thread, in order

dispatchVars ==
  <<running, registered, services, handlers, remoteServices, subscribers, remotes, msg, posted>>

tables == <<running, registered, services, handlers, remoteServices, subscribers, remotes>>
-----------------------------------------------------------------------------
(* component.isHandlerMethod and isRemoteMethod: the shapes of a method    *)
(* (its parameters after the receiver, its results) that can be called.    *)
isHandlerMethod(f) ==
  /\ Len(f.ins) \in {1, 2} /\ f.ins[1] = "context"
  /\ Len(f.ins) = 2 => f.ins[2] \in {"pointer", "proto", "bytes"}
  /\ Len(f.outs) \in {0, 2}
  /\ Len(f.outs) = 2 => f.outs[1] \in {"pointer", "proto", "bytes"} /\ f.outs[2] = "error"

isRemoteMethod(f) ==
  /\ Len(f.ins) \in {1, 2} /\ f.ins[1] = "context"
  /\ Len(f.ins) = 2 => f.ins[2] = "proto"
  /\ f.outs = <<"proto", "error">>

(* suitableHandlerMethods and suitableRemoteMethods, with what each entry  *)
(* records of the method, and the component as its receiver.               *)
Entry(c, f) ==
  [comp |-> c, arg |-> IF Len(f.ins) = 2 THEN f.ins[2] ELSE "none", outs |-> Len(f.outs)]

suitableHandlerMethods(c) == {m \in DOMAIN c.methods : isHandlerMethod(c.methods[m])}
suitableRemoteMethods(c) == {m \in DOMAIN c.methods : isRemoteMethod(c.methods[m])}

ExtractHandler(c) == [m \in suitableHandlerMethods(c) |-> Entry(c, c.methods[m])]
ExtractRemote(c) == [m \in suitableRemoteMethods(c) |-> Entry(c, c.methods[m])]

(* A table with the entries made under the component's name, over what was *)
(* there.                                                                  *)
Entered(table, c, entries) ==
  [r \in DOMAIN table \cup {<<c.name, m>> : m \in DOMAIN entries} |->
     IF r[1] = c.name /\ r[2] \in DOMAIN entries THEN entries[r[2]] ELSE table[r]]

Named(table, c) == [n \in DOMAIN table \cup {c.name} |-> IF n = c.name THEN c ELSE table[n]]

Idle == [at |-> "none", kind |-> "none", type |-> "none", route |-> None, hooks |-> 0, entry |-> None,
         arg |-> "nil", ran |-> 0, final |-> 0, ret |-> "nil", err |-> FALSE, before |-> 0, after |-> 0]

Init ==
  /\ running = FALSE /\ registered = 0
  /\ services = << >> /\ handlers = << >> /\ remoteServices = << >> /\ subscribers = << >> /\ remotes = << >>
  /\ msg = [m \in Messages |-> Idle] /\ posted = << >>

Setup == ~running /\ registered < MaxRegistrations /\ registered' = registered + 1

(* HandlerService.Register: a name that is taken, or a component with no   *)
(* suitable method, is refused.                                            *)
RegisterAgain(c) ==
  /\ Setup
  /\ IF suitableHandlerMethods(c) = {} THEN UNCHANGED <<services, handlers>>
     ELSE /\ services' = Named(services, c)
          /\ handlers' = Entered(handlers, c, ExtractHandler(c))
  /\ UNCHANGED <<running, remoteServices, subscribers, remotes, msg, posted>>

Register(c) ==
  /\ Setup
  /\ IF c.name \in DOMAIN services \/ suitableHandlerMethods(c) = {} THEN UNCHANGED <<services, handlers>>
     ELSE /\ services' = Named(services, c)
          /\ handlers' = Entered(handlers, c, ExtractHandler(c))
  /\ UNCHANGED <<running, remoteServices, subscribers, remotes, msg, posted>>

(* RemoteService.Register: services and subscribers have their own names   *)
(* and one table of remotes.                                               *)
RegisterRemote(c) ==
  /\ Setup
  /\ LET taken == DOMAIN (IF c.subscriber THEN subscribers ELSE remoteServices)
     IN  IF c.name \in taken \/ suitableRemoteMethods(c) = {}
         THEN UNCHANGED <<remoteServices, subscribers, remotes>>
         ELSE /\ subscribers' = IF c.subscriber THEN Named(subscribers, c) ELSE subscribers
              /\ remoteServices' = IF c.subscriber THEN remoteServices ELSE Named(remoteServices, c)
              /\ remotes' = Entered(remotes, c, ExtractRemote(c))
  /\ UNCHANGED <<running, services, handlers, msg, posted>>

Start == ~running /\ running' = TRUE
         /\ UNCHANGED <<registered, services, handlers, remoteServices, subscribers, remotes, msg, posted>>
-----------------------------------------------------------------------------
(* The order in which a message is served.  "sys" and "local" messages go  *)
(* through ProcessHandlerMessage (handleRPCSys makes the session's agent   *)
(* first), "user" calls through handleRPCUser.                             *)
Stages(kind) ==
  IF kind = "user"
  THEN <<"intercept", "lookup", "receiver", "session", "unmarshal", "before", "invoke", "after", "reply", "done">>
  ELSE <<"session", "intercept", "lookup", "unmarshal", "before", "receiver", "invoke", "after", "reply", "done">>

After(m, stage) ==
  LET s == Stages(msg[m].kind)
      i == CHOOSE j \in DOMAIN s : s[j] = stage
  IN  s[i + 1]

remote(m) == msg[m].kind # "local"

(* The message moves on from its stage, with some fields changed; Fail     *)
(* answers with an error at once.                                          *)
Move(m, new) == msg' = [msg EXCEPT ![m] = [new EXCEPT !.at = After(m, msg[m].at)]]
Fail(m) == msg' = [msg EXCEPT ![m] = [@ EXCEPT !.at = "done", !.ret = "nil", !.err = TRUE]]
At(m, stage) == msg[m].at = stage /\ UNCHANGED tables

Arrive(m, kind, type, route) ==
  /\ running /\ At(m, "none") /\ UNCHANGED posted
  /\ msg' = [msg EXCEPT ![m] = [Idle EXCEPT !.at = Stages(kind)[1], !.kind = kind, !.type = type, !.route = route]]

(* agent.NewRemote fails when the frontend is not known.                   *)
Session(m) ==
  /\ At(m, "session") /\ UNCHANGED posted
  /\ Move(m, msg[m]) \/ (remote(m) /\ Fail(m))

(* A forwarded notification is always answered, so that the frontend's     *)
(* request does not time out.                                              *)
Ack(m, ret) == IF msg[m].kind = "sys" /\ msg[m].type = "notify" THEN "ack" ELSE ret

Intercept(m) ==
  /\ At(m, "intercept") /\ UNCHANGED posted
  /\ IF msg[m].route[1] \in Intercepted
     THEN \/ Fail(m)
          \/ \E ret \in {"value", "nil"} :
               msg' = [msg EXCEPT ![m] = [@ EXCEPT !.at = "done", !.ret = Ack(m, ret)]]
     ELSE Move(m, msg[m])

Lookup(m) ==
  /\ At(m, "lookup") /\ UNCHANGED posted
  /\ LET table == IF msg[m].kind = "user" THEN remotes ELSE handlers
     IN  IF msg[m].route \in DOMAIN table THEN Move(m, [msg[m] EXCEPT !.entry = table[msg[m].route]]) ELSE Fail(m)

(* ReceiverProvider may have no receiver for the message.                  *)
Receiver(m) ==
  /\ At(m, "receiver") /\ UNCHANGED posted
  /\ Move(m, msg[m]) \/ (msg[m].entry.comp.receiver /\ Fail(m))

(* A raw argument is taken as it is, another may not decode.               *)
unmarshalHandlerArg(entry) ==
  IF entry.arg = "none" THEN {"nil"} ELSE IF entry.arg = "bytes" THEN {"some"} ELSE {"some", "fails"}
unmarshalRemoteArg(entry) == IF entry.arg = "none" THEN {"nil"} ELSE {"some", "fails"}

Unmarshal(m) ==
  /\ At(m, "unmarshal") /\ UNCHANGED posted
  /\ \E arg \in IF msg[m].kind = "user" THEN unmarshalRemoteArg(msg[m].entry)
                ELSE unmarshalHandlerArg(msg[m].entry) :
       IF arg = "fails" THEN Fail(m) ELSE Move(m, [msg[m] EXCEPT !.hooks = 0, !.arg = arg])

(* ExecuteBeforePipeline: each hook returns the argument to go on with,   *)
(* or none, and the first error ends the message.                          *)
ExecuteBeforePipeline(m) ==
  /\ At(m, "before") /\ UNCHANGED posted
  /\ IF msg[m].hooks = BeforeHooks THEN Move(m, [msg[m] EXCEPT !.hooks = 0])
     ELSE \/ Fail(m)
          \/ \E arg \in {"some", "nil"} :
               msg' = [msg EXCEPT ![m] = [@ EXCEPT !.hooks = @ + 1, !.before = @ + 1, !.arg = arg]]

(* util.Pcall: the number of arguments passed must be the method's (a      *)
(* handler gets one only if it is not nil, a remote by its type); a panic, *)
(* or a nil reply of a method that replies, is an error.                   *)
Fits(m) ==
  IF msg[m].entry.arg = "none" THEN msg[m].kind = "user" \/ msg[m].arg = "nil" ELSE msg[m].arg # "nil"

Pcall(m) ==
  IF ~Fits(m) THEN {[ret |-> "nil", err |-> TRUE, ran |-> 0]}
  ELSE [ret : {"nil"}, err : {TRUE}, ran : {1}]
       \cup IF msg[m].entry.outs = 0 THEN [ret : {"nil"}, err : {FALSE}, ran : {1}]
            ELSE [ret : {"value"}, err : {FALSE}, ran : {1}]

Called(m, r, stage) ==
  msg' = [msg EXCEPT ![m] = [@ EXCEPT !.at = stage, !.ret = r.ret, !.err = r.err, !.ran = @ + r.ran]]

(* The method runs here, or its component's TaskGoProvider takes it to a   *)
(* thread of the application, and the goroutine waits.                     *)
Invoke(m) ==
  /\ At(m, "invoke")
  /\ IF msg[m].entry.comp.task
     THEN posted' = Append(posted, m) /\ msg' = [msg EXCEPT ![m].at = "waiting"]
     ELSE UNCHANGED posted /\ \E r \in Pcall(m) : Called(m, r, After(m, "invoke"))

(* The application's thread runs the task, whose last step is final, or    *)
(* drops it and calls final itself.                                        *)
RunTask ==
  /\ posted # << >> /\ posted' = Tail(posted) /\ UNCHANGED tables
  /\ LET m == Head(posted)
     IN  \/ \E r \in Pcall(m) : msg' = [msg EXCEPT ![m] = [@ EXCEPT !.final = @ + 1, !.ret = r.ret, !.err = r.err,
                                                                   !.ran = @ + r.ran]]
         \/ msg' = [msg EXCEPT ![m].final = @ + 1]

(* wg.Wait.                                                                *)
WaitNot(m) ==
  /\ At(m, "waiting") /\ UNCHANGED posted
  /\ msg' = [msg EXCEPT ![m].at = After(m, "invoke")]

Wait(m) ==
  /\ At(m, "waiting") /\ msg[m].final = 1 /\ UNCHANGED posted
  /\ msg' = [msg EXCEPT ![m].at = After(m, "invoke")]

(* ExecuteAfterPipeline: every hook runs, with the result and error so     *)
(* far, and returns the ones to go on with.                                *)
AfterDoneOnError(m) == msg[m].hooks = AfterHooks \/ msg[m].err
AfterDone(m) == msg[m].hooks = AfterHooks

ExecuteAfterPipeline(m) ==
  /\ At(m, "after") /\ UNCHANGED posted
  /\ LET ret == IF msg[m].hooks = 0 THEN Ack(m, msg[m].ret) ELSE msg[m].ret
     IN  IF AfterDone(m) THEN Move(m, [msg[m] EXCEPT !.ret = ret])
         ELSE \E r \in {[ret |-> ret, err |-> msg[m].err]} \cup {[ret |-> "nil", err |-> TRUE], [ret |-> "value", err |-> FALSE]} :
                msg' = [msg EXCEPT ![m] = [@ EXCEPT !.hooks = @ + 1, !.after = @ + 1, !.ret = r.ret, !.err = r.err]]

(* serializeReturn: a handler's result that cannot be serialized is        *)
(* answered with an error in its place, and is no error itself.            *)
serializeReturn(m) ==
  /\ At(m, "reply") /\ msg[m].kind # "user" /\ UNCHANGED posted
  /\ IF msg[m].err THEN Fail(m)
     ELSE Move(m, msg[m]) \/ (msg[m].ret = "value" /\ Move(m, [msg[m] EXCEPT !.ret = "errorPayload"]))

(* The result of a remote that is no message, or does not marshal, is an   *)
(* error.                                                                  *)
Marshal(m) ==
  /\ At(m, "reply") /\ msg[m].kind = "user" /\ UNCHANGED posted
  /\ IF msg[m].err THEN Fail(m) ELSE Move(m, msg[m]) \/ (msg[m].ret = "value" /\ Fail(m))

Serve(m) ==
  \/ Session(m) \/ Intercept(m) \/ Lookup(m) \/ Receiver(m) \/ Unmarshal(m) \/ ExecuteBeforePipeline(m)
  \/ Invoke(m) \/ Wait(m) \/ ExecuteAfterPipeline(m) \/ serializeReturn(m) \/ Marshal(m)

Next ==
  \/ \E c \in Components : Register(c) \/ RegisterRemote(c)
  \/ Start
  \/ \E m \in Messages, kind \in {"local", "sys", "user"}, type \in {"request", "notify"}, r \in Routes :
       Arrive(m, kind, type, r)
  \/ \E m \in Messages : Serve(m)
  \/ RunTask

Spec == Init /\ [][Next]_dispatchVars
-----------------------------------------------------------------------------
TypeOK ==
  /\ running \in BOOLEAN /\ registered \in 0 .. MaxRegistrations
  /\ \A r \in DOMAIN handlers : handlers[r].comp \in Components
  /\ \A r \in DOMAIN remotes : remotes[r].comp \in Components
  /\ \A m \in Messages : msg[m].ran \in 0 .. 1 /\ msg[m].final \in 0 .. 1
                         /\ msg[m].ret \in {"nil", "value", "ack", "errorPayload"}

(* The method that serves a message is one of the component that holds the *)
(* name in the route: Register refuses a second component of the name, so  *)
(* a message never reaches what is left of another one.  A remote may be a *)
(* service's or a subscriber's, which have names of their own.             *)
RightMethod ==
  \A m \in Messages : msg[m].entry # None =>
    LET n == msg[m].route[1]
        c == msg[m].entry.comp
    IN  IF msg[m].kind = "user"
        THEN \/ n \in DOMAIN remoteServices /\ remoteServices[n] = c
             \/ n \in DOMAIN subscribers /\ subscribers[n] = c
        ELSE n \in DOMAIN services /\ services[n] = c

(* A method runs at most once for a message, after every hook before it,   *)
(* and its message is answered only when it has returned and every hook    *)
(* after it has seen the result: also when the application's thread runs   *)
(* it, late, or drops it, and when the method or a hook fails.             *)
HooksAround ==
  \A m \in Messages :
    /\ msg[m].ran <= 1 /\ (msg[m].ran = 1 => msg[m].before = BeforeHooks)
    /\ (\E i \in DOMAIN posted : posted[i] = m) => msg[m].at = "waiting"
    /\ (msg[m].at = "done" /\ (msg[m].ran = 1 \/ msg[m].final = 1)) => msg[m].after = AfterHooks

(* A message is served by what was registered under its route, between the *)
(* hooks: both of the above.                                               *)
ServedAsRegistered == RightMethod /\ HooksAround
=============================================================================
