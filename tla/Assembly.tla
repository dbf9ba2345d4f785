------------------------------ MODULE Assembly ------------------------------
(***************************************************************************)
(* How an application is put together and what its components may rely on: *)
(* the builder makes default parts which the program may replace, Build    *)
(* and Start refuse what does not fit together, and Start runs the hooks   *)
(* of the components, makes their methods known, and lets clients in.      *)
(* Lifecycle continues with the modules.                                   *)
(***************************************************************************)
EXTENDS Integers, Sequences, FiniteSets

CONSTANTS Comps,      \* the program's components
          Sys,        \* the component that NewApp registers for itself
          MaxAcceptors

Parts == {"serviceDiscovery", "rpcServer", "rpcClient"}
Kinds == {"handler", "remote"}
Entries == Kinds \X (Comps \cup {Sys})

VARIABLES
  phase,          \* how far the application is
  serverMode, frontend,
  partsSet,       \* parts of the builder that are not nil
  acceptors,
  remoteService,  \* the application has one
  comps,          \* registered components: handlerComp and remoteComp
  hooks,          \* the last hook that was run for an entry
  known,          \* entries whose methods can be called
  lazy,           \* entries made known by LazyRegister
  early,          \* entries called before their AfterInit
  changed         \* the dictionary or the routes changed after the start

asVars == <<phase, serverMode, frontend, partsSet, acceptors, remoteService, comps,
            hooks, known, lazy, early, changed>>

Init ==
  /\ phase = "none" /\ serverMode = "none" /\ frontend = FALSE /\ partsSet = {}
  /\ acceptors = 0 /\ remoteService = FALSE
  /\ comps = [k \in Kinds |-> <<>>] /\ hooks = [e \in Entries |-> "none"]
  /\ known = {} /\ lazy = {} /\ early = {} /\ changed = FALSE

(* NewBuilder makes the parts of the mode; a part or a worker that cannot  *)
(* be made ends the process.                                               *)
NewBuilder ==
  /\ phase = "none"
  /\ serverMode' \in {"cluster", "standalone"} /\ frontend' \in BOOLEAN
  /\ \/ phase' = "builder"
     \/ phase' = "fatal"
  /\ partsSet' = IF serverMode' = "cluster" THEN Parts ELSE {}
  /\ UNCHANGED <<acceptors, remoteService, comps, hooks, known, lazy, early, changed>>

(* The program sets a field of the builder.                                *)
SetPart(p) ==
  /\ phase = "builder"
  /\ partsSet' \in {partsSet \cup {p}, partsSet \ {p}}
  /\ UNCHANGED <<phase, serverMode, frontend, acceptors, remoteService, comps, hooks,
                 known, lazy, early, changed>>

AddAcceptor ==
  /\ phase = "builder" /\ frontend /\ acceptors < MaxAcceptors
  /\ acceptors' = acceptors + 1
  /\ UNCHANGED <<phase, serverMode, frontend, partsSet, remoteService, comps, hooks,
                 known, lazy, early, changed>>

(* NewApp registers its own component on both sides.                       *)
initSysRemotes == comps' = [k \in Kinds |-> <<Sys>>]
NewApp == phase' = "built" /\ initSysRemotes

(* Build: standalone excludes the parts, cluster needs all of them.        *)
BuildUnchecked ==
  /\ phase = "builder" /\ NewApp
  /\ remoteService' = (serverMode = "cluster")
  /\ UNCHANGED <<serverMode, frontend, partsSet, acceptors, hooks, known, lazy, early,
                 changed>>

Build ==
  /\ phase = "builder"
  /\ IF partsSet # (IF serverMode = "cluster" THEN Parts ELSE {})
     THEN phase' = "fatal" /\ UNCHANGED <<remoteService, comps>>
     ELSE NewApp /\ remoteService' = (serverMode = "cluster")
  /\ UNCHANGED <<serverMode, frontend, partsSet, acceptors, hooks, known, lazy, early,
                 changed>>

(* Register, RegisterRemote and RegisterSubscribe before Start.            *)
Register(k, c) ==
  /\ phase = "built" /\ \A i \in DOMAIN comps[k] : comps[k][i] # c
  /\ comps' = [comps EXCEPT ![k] = Append(@, c)]
  /\ UNCHANGED <<phase, serverMode, frontend, partsSet, acceptors, remoteService, hooks,
                 known, lazy, early, changed>>

(* LazyRegister and LazyRegisterRemote make a component known as it is.    *)
Lazily == {"built", "listening", "running"}
LazyRegister(k, c) ==
  /\ phase \in Lazily /\ <<k, c>> \notin known
  /\ k = "remote" => remoteService
  /\ known' = known \cup {<<k, c>>} /\ lazy' = lazy \cup {<<k, c>>}
  /\ UNCHANGED <<phase, serverMode, frontend, partsSet, acceptors, remoteService, comps,
                 hooks, early, changed>>

(* SetDictionary and AddRoute are refused once the application runs.       *)
SetDictionary ==
  /\ phase \in {"built", "hooks", "listening"}
  /\ changed' = (changed \/ phase # "built")
  /\ UNCHANGED <<phase, serverMode, frontend, partsSet, acceptors, remoteService, comps,
                 hooks, known, lazy, early>>
-----------------------------------------------------------------------------
(* Start: only a frontend has acceptors, and it has some.                  *)
Start ==
  /\ phase = "built"
  /\ phase' = IF frontend = (acceptors > 0) THEN "hooks" ELSE "fatal"
  /\ UNCHANGED <<serverMode, frontend, partsSet, acceptors, remoteService, comps, hooks,
                 known, lazy, early, changed>>

(* The loops of startupComponents, in their order: Init and AfterInit of   *)
(* the handlers, then of the remotes.                                      *)
Of(k) == {k} \X {comps[k][i] : i \in DOMAIN comps[k]}
Hook(from, to, k) ==
  /\ \A e \in Of(k) : hooks[e] = from
  /\ hooks' = [e \in Entries |-> IF e \in Of(k) THEN to ELSE hooks[e]]
Hooked(k, h) == \A e \in Of(k) : hooks[e] = h

InitHooks ==
  /\ phase = "hooks"
  /\ \/ Hook("none", "Init", "handler")
     \/ Hook("Init", "AfterInit", "handler")
     \/ Hooked("handler", "AfterInit") /\ Hook("none", "Init", "remote")
     \/ Hook("Init", "AfterInit", "remote")
  /\ UNCHANGED <<phase, serverMode, frontend, partsSet, acceptors, remoteService, comps,
                 known, lazy, early, changed>>

(* Then every component is registered with its service, remotes if there   *)
(* is one, and the acceptors listen.                                       *)
Known == Of("handler") \cup (IF remoteService THEN Of("remote") ELSE {})

startupWithoutHooks ==
  /\ phase = "hooks"
  /\ known' = known \cup Known
  /\ phase' = "listening"
  /\ UNCHANGED <<serverMode, frontend, partsSet, acceptors, remoteService, comps, hooks,
                 lazy, early, changed>>

startupComponents ==
  /\ phase = "hooks" /\ \A k \in Kinds : Hooked(k, "AfterInit")
  /\ known' = known \cup Known
  /\ phase' = "listening"
  /\ UNCHANGED <<serverMode, frontend, partsSet, acceptors, remoteService, comps, hooks,
                 lazy, early, changed>>

Started ==
  /\ phase = "listening" /\ phase' = "running"
  /\ UNCHANGED <<serverMode, frontend, partsSet, acceptors, remoteService, comps, hooks,
                 known, lazy, early, changed>>

(* A client's or a server's message calls a method: a handler once the     *)
(* acceptors listen, a remote once the modules have started.               *)
Called(e) ==
  /\ e \in known
  /\ phase \in (IF e[1] = "handler" /\ frontend THEN {"listening", "running", "stopping"}
                ELSE {"running", "stopping"})
  /\ early' = early \cup (IF hooks[e] \in {"none", "Init"} THEN {e} ELSE {})
  /\ UNCHANGED <<phase, serverMode, frontend, partsSet, acceptors, remoteService, comps,
                 hooks, known, lazy, changed>>

Stop ==
  /\ phase = "running" /\ phase' = "stopping"
  /\ UNCHANGED <<serverMode, frontend, partsSet, acceptors, remoteService, comps, hooks,
                 known, lazy, early, changed>>

(* shutdownComponents: BeforeShutdown and Shutdown of the handlers, then   *)
(* of the remotes.                                                         *)
shutdownComponents ==
  /\ phase = "stopping"
  /\ \/ Hook("AfterInit", "BeforeShutdown", "handler") /\ UNCHANGED phase
     \/ Hook("BeforeShutdown", "Shutdown", "handler") /\ UNCHANGED phase
     \/ /\ Hooked("handler", "Shutdown")
        /\ Hook("AfterInit", "BeforeShutdown", "remote") /\ UNCHANGED phase
     \/ Hook("BeforeShutdown", "Shutdown", "remote") /\ phase' = "ended"
  /\ UNCHANGED <<serverMode, frontend, partsSet, acceptors, remoteService, comps, known,
                 lazy, early, changed>>
-----------------------------------------------------------------------------
Next ==
  \/ NewBuilder \/ AddAcceptor \/ Build \/ SetDictionary \/ Start \/ InitHooks
  \/ startupComponents \/ Started \/ Stop \/ shutdownComponents
  \/ \E p \in Parts : SetPart(p)
  \/ \E k \in Kinds, c \in Comps : Register(k, c) \/ LazyRegister(k, c)
  \/ \E e \in Entries : Called(e)

Spec == Init /\ [][Next]_asVars
-----------------------------------------------------------------------------
(* An application that serves fits together: it has the parts of a cluster *)
(* exactly in cluster mode and acceptors exactly as a frontend, whatever   *)
(* the program did to the builder; and no method of a component is called  *)
(* before its AfterInit has run, unless the component was registered       *)
(* lazily, which runs no hook.                                             *)
Assembled ==
  /\ phase \in {"listening", "running", "stopping"} =>
       /\ partsSet = IF serverMode = "cluster" THEN Parts ELSE {}
       /\ remoteService = (serverMode = "cluster")
       /\ frontend = (acceptors > 0)
  /\ early \subseteq lazy
=============================================================================
