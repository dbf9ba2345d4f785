------------------------------ MODULE Acceptor -----------------------------
(***************************************************************************)
(* How connections reach the handler service: the tcp and the websocket    *)
(* acceptor (acceptor/), the PROXY protocol listener, the wrappers that    *)
(* pipe an acceptor's connections into a channel of their own              *)
(* (acceptorwrapper/base.go), and App.listen, which starts the acceptors   *)
(* one after the other, waits for each, and then starts the modules.       *)
(*                                                                         *)
(* All channels are unbuffered: a goroutine holds one connection until the *)
(* next one takes it.  The program never stops an acceptor; it ends with   *)
(* the process.                                                            *)
(***************************************************************************)
EXTENDS Naturals, Sequences, FiniteSets

CONSTANTS Acceptors,     \* the acceptors in the order they were added:
                         \* [ws, tls, wrappers], wrappers counting the pipes
          ProxyProtocol, \* config.Acceptor.ProxyProtocol
          Clients,       \* connections that clients make
          MaxErrors      \* bound: Accept errors of the operating system

AcceptorConstants ==
  /\ \A i \in DOMAIN Acceptors : {Acceptors[i].ws, Acceptors[i].tls, ProxyProtocol} \subseteq BOOLEAN
                                 /\ Acceptors[i].wrappers \in Nat
  /\ MaxErrors \in Nat

VARIABLES
  starting,   \* the acceptor App.listen is at; one past the last: the modules
  listening,  \* acceptors with a listener
  isRunning,  \* acceptors whose running flag is set
  serving,    \* acceptors whose serve loop has not ended
  client,     \* where each connection is, and at which acceptor
  pools,      \* the worker pools are there (a module starts them)
  appRunning, \* app.running
  errors      \* Accept errors so far

acceptVars == <<starting, listening, isRunning, serving, client, pools, appRunning, errors>>

All == DOMAIN Acceptors

Init ==
  /\ starting = 1 /\ listening = {} /\ isRunning = {} /\ serving = {}
  /\ client = [c \in Clients |-> [at |-> "away", on |-> 0, hop |-> 0]]
  /\ pools = FALSE /\ appRunning = FALSE /\ errors = 0

app == <<starting, pools, appRunning>>
acceptors == <<listening, isRunning, serving>>
-----------------------------------------------------------------------------
(* App.listen and the goroutine it starts for the acceptor.                *)

createBaseListener(i) ==
  /\ starting = i /\ i \notin listening
  /\ listening' = listening \cup {i} /\ serving' = serving \cup {i}
  /\ UNCHANGED <<app, client, errors>>

ListenUnseen(i) ==
  /\ ~Acceptors[i].ws /\ createBaseListener(i)
  /\ isRunning' = IF Acceptors[i].wrappers > 0 THEN isRunning ELSE isRunning \cup {i}

(* TCPAcceptor.ListenAndServe makes the listener, with or without          *)
(* certificates, sets running and serves.                                  *)
ListenAndServe(i) ==
  /\ ~Acceptors[i].ws /\ createBaseListener(i)
  /\ isRunning' = isRunning \cup {i}

(* WSAcceptor.ListenAndServe goes to ListenAndServeTLS when it has         *)
(* certificates, which does not set running.                               *)
ListenAndServeTLS(i) == isRunning

ListenAndServeWS(i) ==
  /\ Acceptors[i].ws /\ createBaseListener(i)
  /\ isRunning' = IF Acceptors[i].tls THEN ListenAndServeTLS(i) ELSE isRunning \cup {i}

(* The wait for IsRunning is over.                                         *)
AcceptorStarted ==
  /\ starting \in isRunning /\ starting' = starting + 1
  /\ UNCHANGED <<pools, appRunning, acceptors, client, errors>>

(* startModules: the pools are among the first modules.                    *)
StartPools ==
  /\ starting = Len(Acceptors) + 1 /\ ~pools /\ pools' = TRUE
  /\ UNCHANGED <<starting, appRunning, acceptors, client, errors>>

Running ==
  /\ pools /\ ~appRunning /\ appRunning' = TRUE
  /\ UNCHANGED <<starting, pools, acceptors, client, errors>>
-----------------------------------------------------------------------------
(* The serve loops.                                                        *)

At(c, where) == client[c].at = where
Goes(c, where) == client' = [client EXCEPT ![c].at = where]

Connect(c, i) ==
  /\ At(c, "away") /\ i \in listening
  /\ client' = [client EXCEPT ![c] = [at |-> "backlog", on |-> i, hop |-> 0]]
  /\ UNCHANGED <<app, acceptors, errors>>

(* Connections the goroutines of acceptor i hold: the tcp serve loop is    *)
(* one goroutine, a websocket connection has its own.                      *)
Held(i) == {c \in Clients : client[c].on = i /\ client[c].at \in {"header", "serve"} /\ client[c].hop = 0}

Accept(c) ==
  LET i == client[c].on
  IN  /\ At(c, "backlog") /\ i \in serving
      /\ Acceptors[i].ws \/ Held(i) = {}
      /\ Goes(c, IF ~Acceptors[i].ws /\ ProxyProtocol THEN "header" ELSE "serve")
      /\ UNCHANGED <<app, acceptors, errors>>

(* checkPrefix reads the header inside Accept: a bad one closes the        *)
(* connection and is an Accept error, one without a source address closes  *)
(* the connection and passes it on.                                        *)
checkPrefixEnds(c) ==
  /\ At(c, "header")
  /\ \/ Goes(c, "serve") /\ UNCHANGED serving
     \/ Goes(c, "closed") /\ serving' = serving \ {client[c].on}
  /\ UNCHANGED <<app, listening, isRunning, errors>>

checkPrefix(c) ==
  /\ At(c, "header")
  /\ Goes(c, "serve") \/ Goes(c, "closed")
  /\ UNCHANGED <<app, acceptors, errors>>

(* An error of Accept is logged and the loop goes on; the http server of a *)
(* websocket acceptor retries what is temporary.                           *)
AcceptFails(i) ==
  /\ i \in serving /\ errors < MaxErrors /\ (Acceptors[i].ws \/ Held(i) = {})
  /\ errors' = errors + 1
  /\ UNCHANGED <<app, acceptors, client>>

(* A request that is not a websocket upgrade goes no further.              *)
UpgradeFails(c) ==
  /\ At(c, "serve") /\ client[c].hop = 0 /\ Acceptors[client[c].on].ws
  /\ Goes(c, "closed")
  /\ UNCHANGED <<app, acceptors, errors>>

(* pipe: the wrapper's goroutine takes the connection, wraps it, and holds *)
(* it until its own channel is read.                                       *)
pipe(c) ==
  LET i == client[c].on
      next == client[c].hop + 1
  IN  /\ At(c, "serve") /\ next <= Acceptors[i].wrappers
      /\ \A o \in Clients : ~(client[o].on = i /\ At(o, "serve") /\ client[o].hop = next)
      /\ client' = [client EXCEPT ![c].hop = next]
      /\ UNCHANGED <<app, acceptors, errors>>

(* The goroutine of App.listen starts Handle for it.                       *)
Handle(c) ==
  /\ At(c, "serve") /\ client[c].hop = Acceptors[client[c].on].wrappers
  /\ Goes(c, "handled")
  /\ UNCHANGED <<app, acceptors, errors>>

(* A message handled before the pools are there ends the reader, which     *)
(* closes the session.                                                     *)
EarlyMessage(c) ==
  /\ At(c, "handled") /\ ~pools /\ Goes(c, "closed")
  /\ UNCHANGED <<app, acceptors, errors>>

HangUp(c) ==
  /\ At(c, "handled") /\ Goes(c, "closed")
  /\ UNCHANGED <<app, acceptors, errors>>
-----------------------------------------------------------------------------
Listen(i) == ListenAndServe(i) \/ ListenAndServeWS(i)
Start == (\E i \in All : Listen(i)) \/ AcceptorStarted \/ StartPools \/ Running
Forward(c) == Accept(c) \/ pipe(c) \/ Handle(c)

Next ==
  \/ Start
  \/ \E i \in All : AcceptFails(i) \/ \E c \in Clients : Connect(c, i)
  \/ \E c \in Clients : Forward(c) \/ checkPrefix(c) \/ UpgradeFails(c) \/ EarlyMessage(c) \/ HangUp(c)

Spec == Init /\ [][Next]_acceptVars

(* Goroutines run, and the backlog and the channels serve in order of      *)
(* arrival.  Nothing is assumed of clients: no deadline is set for the     *)
(* header that checkPrefix reads, so it need never come.                   *)
Fairness == WF_acceptVars(Start) /\ \A c \in Clients : SF_acceptVars(Forward(c))
FairSpec == Spec /\ Fairness
-----------------------------------------------------------------------------
(* Every variable keeps its type.                                          *)
TypeOK ==
  /\ starting \in 1 .. Len(Acceptors) + 1
  /\ listening \subseteq All /\ isRunning \subseteq listening /\ serving \subseteq listening
  /\ \A c \in Clients : client[c].at \in {"away", "backlog", "header", "serve", "handled", "closed"}
                        /\ client[c].on \in All \cup {0}
  /\ {pools, appRunning} \subseteq BOOLEAN /\ errors \in 0 .. MaxErrors

(* Every configured acceptor accepts connections and the server runs in    *)
(* the end: the busy wait for IsRunning does not last.                     *)
AppStarts == <>(appRunning /\ serving = All)

(* A connection a client made is handled or closed, unless its own         *)
(* acceptor waits for the header of some client for ever: no bad header,   *)
(* failed upgrade or full pipe stops an acceptor, and a silent client      *)
(* stops no acceptor but the one whose serve loop reads from it.           *)
Silent(o, c) == At(o, "header") /\ client[o].on = client[c].on

ConnectionsHandled ==
  \A c \in Clients :
    (\A o \in Clients : []<>~Silent(o, c))
      => (At(c, "backlog") ~> At(c, "handled") \/ At(c, "closed"))

(* The server starts, and then each connection is taken care of: both of   *)
(* the above.                                                              *)
AcceptorServes == AppStarts /\ ConnectionsHandled


(* The acceptors of a server whose only one is a WebSocket acceptor with a *)
(* certificate.                                                            *)
Secure == <<[ws |-> TRUE, tls |-> TRUE, wrappers |-> 0]>>
=============================================================================
