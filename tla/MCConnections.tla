--------------------------- MODULE MCConnections ----------------------------
(* The life of client connections at a frontend: the acceptors that take   *)
(* them (Acceptor), the goroutines of one connection (Connection), the     *)
(* session and its pool (Frontend), and the record of a user's frontend in *)
(* etcd (BindingStorage); and the message loop of a server that is called  *)
(* (Rpc).  `which' is the part that moves in a behaviour, the others stay  *)
(* in their initial state.                                                 *)
EXTENDS Frontend

CONSTANTS Requests, BufferSize, TaskBuffer, MaxBeats, ProxyProtocol, Clients, MaxErrors,
          Frontends, NoBinding, MaxBinds, MaxGrants, MaxRefusals,
          Peers, NoUser, BadUser, Buffer

VARIABLES
  which,
  peer, next, beats, readerAt, bound, queued, current, chSend, writerAt, outgoing, beatAt, cacheAt,
  age, agentState, chDie, connOpen, wire, via,
  starting, listening, isRunning, serving, client, pools, appRunning, errors,
  user, putting, key, leaseID, alive, watchLease, binds, refusals,
  sent, req, rpcWire, subChan, rpcHand, queue, loose, log, replies, server

connectionVars ==
  <<peer, next, beats, readerAt, bound, queued, current, chSend, writerAt, outgoing, beatAt, cacheAt,
    age, agentState, chDie, connOpen, wire, via>>
acceptorVars == <<starting, listening, isRunning, serving, client, pools, appRunning, errors>>

bindingVars == <<user, putting, key, leaseID, alive, watchLease, binds, refusals>>

rpcVars == <<sent, req, rpcWire, subChan, rpcHand, queue, loose, log, replies, server>>

(* A tcp acceptor with certificates and one wrapper, and a websocket one.  *)
Acceptors ==
  <<[ws |-> FALSE, tls |-> TRUE, wrappers |-> 1], [ws |-> TRUE, tls |-> FALSE, wrappers |-> 0]>>

C == INSTANCE Connection
A == INSTANCE Acceptor
B == INSTANCE BindingStorage
R == INSTANCE Rpc WITH wire <- rpcWire, inHand <- rpcHand, Nil <- None

ASSUME ConnectionsConstants == C!ConnectionConstants /\ A!AcceptorConstants /\ B!BindingConstants /\ R!RpcConstants

MCInit ==
  /\ which \in {"session", "connection", "acceptor", "binding", "rpc"}
  /\ Init /\ C!Init /\ A!Init /\ B!Init /\ R!RpcInit

MCNext ==
  \/ which = "session" /\ Next /\ UNCHANGED <<which, connectionVars, acceptorVars, bindingVars, rpcVars>>
  \/ which = "connection" /\ C!Next /\ UNCHANGED <<which, vars, acceptorVars, bindingVars, rpcVars>>
  \/ which = "acceptor" /\ A!Next /\ UNCHANGED <<which, vars, connectionVars, bindingVars, rpcVars>>
  \/ which = "binding" /\ B!Next /\ UNCHANGED <<which, vars, connectionVars, acceptorVars, rpcVars>>
  \/ which = "rpc" /\ R!RpcNext /\ UNCHANGED <<which, vars, connectionVars, acceptorVars, bindingVars>>

(* The fairness of Frontend, Connection, Acceptor, BindingStorage and Rpc, *)
(* each while its part is the one that moves.                              *)
MCFairness ==
  /\ \A s \in Sessions :
       /\ WF_vars(which = "session" /\ ~conn[s] /\ ReadFails(s))
       /\ WF_vars(which = "session" /\ Process(s)) /\ WF_vars(which = "session" /\ Handler(s))
  /\ \A c \in Callers : WF_vars(which = "session" /\ Closing(c))
  /\ WF_vars(which = "session" /\ all.at # "off" /\ Sweep)
  /\ WF_connectionVars(which = "connection" /\ C!Reader)
  /\ WF_connectionVars(which = "connection" /\ ~connOpen /\ C!ReaderEnds)
  /\ \A t \in C!Threads : WF_connectionVars(which = "connection" /\ C!Worker(t))
  /\ WF_connectionVars(which = "connection" /\ C!Writer)
  /\ WF_connectionVars(which = "connection" /\ C!Heart)
  /\ WF_connectionVars(which = "connection" /\ C!CacheStops)
  /\ WF_acceptorVars(which = "acceptor" /\ A!Start)
  /\ \A c \in Clients : SF_acceptorVars(which = "acceptor" /\ A!Forward(c))
  /\ \A f \in Frontends : /\ WF_bindingVars(which = "binding" /\ B!LeaseStep(f))
                          /\ WF_bindingVars(which = "binding" /\ B!PutBinding(f))
                          /\ WF_bindingVars(which = "binding" /\ B!KickRebind(f))
  /\ \A r \in R!Numbers : WF_rpcVars(which = "rpc" /\ R!Timeout(r))
  /\ \A p \in Peers : /\ WF_rpcVars(which = "rpc" /\ R!HandleMessage(p))
                      /\ WF_rpcVars(which = "rpc" /\ R!HandleStop(p))
                      /\ WF_rpcVars(which = "rpc" /\ R!Dispatch(p)) /\ WF_rpcVars(which = "rpc" /\ R!Refuse(p))
                      /\ \A u \in Users : WF_rpcVars(which = "rpc" /\ R!Run(p, u))

MCSpec == MCInit /\ [][MCNext]_<<which, vars, connectionVars, acceptorVars, bindingVars, rpcVars>> /\ MCFairness
-----------------------------------------------------------------------------
(* Connection: the goroutines of a silent client's connection end.         *)
SilentPeerEnds == C!SilentPeerEnds

(* Acceptor: the acceptors come up, the server runs in the end, and a      *)
(* connection a client made is handled or closed, unless its acceptor      *)
(* waits for a header that never comes.                                    *)
AcceptorServes == which = "acceptor" => A!AcceptorServes

(* BindingStorage: a lost lease is regained, a stopped frontend is named   *)
(* by no key in the end.                                                   *)
LeaseRegained == B!LeaseRegained

(* Rpc: the message loop ends after Shutdown.                              *)
StopCompletes == R!StopCompletes
=============================================================================
