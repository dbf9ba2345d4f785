---------------------------- MODULE Connection -----------------------------
(***************************************************************************)
(* One client connection of a frontend, from the packets its reader gets   *)
(* to the packets that go out: the reader of service/handler.go, the       *)
(* worker threads Session.Go hands requests to, and the goroutines of the  *)
(* agent (agent/agent.go) that write the send queue, beat the heart and    *)
(* keep the session's cache entry alive.  The send queue has a bounded     *)
(* buffer; whoever finds it full waits for room or for the agent's death.  *)
(* The peer may stop reading and sending for good at any moment.           *)
(***************************************************************************)
EXTENDS Naturals, Sequences, FiniteSets

CONSTANTS Requests,       \* number of messages the client sends
          BufferSize,     \* messagesBufferSize
          TaskBuffer,     \* tasks a worker thread takes before Submit waits
          MaxBeats        \* bound: heartbeats the peer sends

ConnectionConstants == {Requests, MaxBeats} \subseteq Nat /\ {BufferSize, TaskBuffer} \subseteq Nat \ {0}

Msgs == 1 .. Requests
Threads == {"session", "user"}

VARIABLES
  peer,      \* the client: "up" or "silent"
  next,      \* the next message the client sends
  beats,     \* heartbeats the peer has sent
  readerAt,  \* the reader: reading, waiting to queue an answer of its own or
             \* to hand over a message, gone
  bound,     \* session.uidInt is set
  queued,    \* the tasks of each worker thread
  current,   \* what each worker thread is doing
  chSend,    \* the send queue
  writerAt, outgoing,  \* the write goroutine and the packet it is writing
  beatAt,    \* the heartbeat goroutine
  cacheAt,   \* the keepClusterCacheAlive goroutine
  age,       \* ticks since lastAt
  agentState, chDie, connOpen,  \* the agent
  wire,      \* answers the client has been sent, in order
  via        \* the thread a message was handed to

connVars == <<peer, next, beats, readerAt, bound, queued, current, chSend, writerAt, outgoing,
              beatAt, cacheAt, age, agentState, chDie, connOpen, wire, via>>

Idle == [of |-> 0, at |-> "idle"]
Beat == 0

Init ==
  /\ peer = "up" /\ next = 1 /\ beats = 0 /\ readerAt = "read" /\ bound = FALSE
  /\ queued = [t \in Threads |-> << >>] /\ current = [t \in Threads |-> Idle]
  /\ chSend = << >> /\ writerAt = "select" /\ outgoing = Beat /\ beatAt = "select"
  /\ cacheAt = "select" /\ age = 0 /\ agentState = "working" /\ chDie = FALSE
  /\ connOpen = TRUE /\ wire = << >> /\ via = [m \in Msgs |-> "none"]

agent == <<agentState, chDie, connOpen>>
goroutines == <<writerAt, outgoing, beatAt, cacheAt, age>>
work == <<bound, queued, current, via>>
-----------------------------------------------------------------------------
(* agentImpl.Close: one call closes the channels, the others find it       *)
(* closed; a handshake ack handled late only makes the next call close the *)
(* connection again.                                                       *)
Close == agentState' = "closed" /\ chDie' = TRUE /\ connOpen' = FALSE

(* A send to chSend that waits for room or for chDie.                      *)
Room == Len(chSend) < BufferSize
Queue(x) == chSend' = Append(chSend, x)
-----------------------------------------------------------------------------
(* The reader: Handle and processPacket.                                   *)

(* A data packet.  processMessage answers a route it cannot decode itself; *)
(* otherwise Session.Go chooses the user's thread once the session is      *)
(* bound and the session's before.                                         *)
ReadMessage ==
  /\ readerAt = "read" /\ connOpen /\ peer = "up" /\ next \in Msgs
  /\ \/ readerAt' = "refuse" /\ via' = [via EXCEPT ![next] = "reader"]
     \/ readerAt' = "submit" /\ via' = [via EXCEPT ![next] = IF bound THEN "user" ELSE "session"]
  /\ next' = next + 1
  /\ UNCHANGED <<peer, beats, bound, queued, current, chSend, goroutines, agent, wire>>

(* The thread's pool takes the task when its buffer has room; lastAt is    *)
(* set when the packet has been processed.                                 *)
SubmitAnywhere ==
  /\ readerAt = "submit" /\ readerAt' = "read" /\ age' = 0
  /\ \E t \in Threads :
       /\ Len(queued[t]) < TaskBuffer
       /\ queued' = [queued EXCEPT ![t] = Append(@, next - 1)]
  /\ UNCHANGED <<peer, next, beats, bound, current, via, chSend, writerAt, outgoing, beatAt, cacheAt,
                 agent, wire>>

Submit ==
  /\ readerAt = "submit" /\ readerAt' = "read" /\ age' = 0
  /\ LET t == via[next - 1]
     IN  /\ Len(queued[t]) < TaskBuffer
         /\ queued' = [queued EXCEPT ![t] = Append(@, next - 1)]
  /\ UNCHANGED <<peer, next, beats, bound, current, via, chSend, writerAt, outgoing, beatAt, cacheAt,
                 agent, wire>>

(* AnswerWithError from the reader: nothing is sent once the agent is      *)
(* closed.                                                                 *)
AnswerWithError ==
  /\ readerAt = "refuse" /\ readerAt' = "read" /\ age' = 0
  /\ \/ Room /\ agentState # "closed" /\ Queue(next - 1)
     \/ (chDie \/ agentState = "closed") /\ UNCHANGED chSend
  /\ UNCHANGED <<peer, next, beats, work, writerAt, outgoing, beatAt, cacheAt, agent, wire>>

(* A handshake ack puts the agent to work whatever its state.              *)
HandshakeAck ==
  /\ readerAt = "read" /\ peer = "up" /\ agentState = "closed" /\ agentState' = "working"
  /\ age' = 0
  /\ UNCHANGED <<peer, next, beats, readerAt, work, chSend, writerAt, outgoing, beatAt, cacheAt,
                 chDie, connOpen, wire>>

(* A heartbeat: SendHeartbeatResponse puts an answer into the queue or     *)
(* waits to; lastAt is set only afterwards.                                *)
HeartbeatPacket ==
  /\ readerAt = "read" /\ connOpen /\ peer = "up" /\ beats < MaxBeats
  /\ beats' = beats + 1 /\ readerAt' = "answer"
  /\ UNCHANGED <<peer, next, work, chSend, goroutines, agent, wire>>

SendHeartbeatResponse ==
  /\ readerAt = "answer"
  /\ \/ Room /\ Queue(Beat)
     \/ chDie /\ UNCHANGED chSend
  /\ readerAt' = "read" /\ age' = 0
  /\ UNCHANGED <<peer, next, beats, work, writerAt, outgoing, beatAt, cacheAt, agent, wire>>

(* A heartbeat answer of the peer only sets lastAt.                        *)
HeartbeatAckPacket ==
  /\ readerAt = "read" /\ connOpen /\ peer = "up" /\ age > 0
  /\ age' = 0
  /\ UNCHANGED <<peer, next, beats, readerAt, work, chSend, writerAt, outgoing, beatAt, cacheAt,
                 agent, wire>>

(* The connection is closed or cannot be read: Handle ends and closes the  *)
(* session, and with it the agent.                                         *)
ReaderEnds ==
  /\ readerAt = "read" /\ (~connOpen \/ peer = "up")
  /\ readerAt' = "gone" /\ Close
  /\ UNCHANGED <<peer, next, beats, work, chSend, goroutines, wire>>

(* The client stops sending and reading without closing the connection.    *)
PeerSilent ==
  /\ peer = "up" /\ peer' = "silent"
  /\ UNCHANGED <<next, beats, readerAt, work, chSend, goroutines, agent, wire>>
-----------------------------------------------------------------------------
(* The worker threads: one task of a thread at a time.                     *)

TaskBegins(t) ==
  /\ current[t] = Idle /\ queued[t] # << >>
  /\ current' = [current EXCEPT ![t] = [of |-> Head(queued[t]), at |-> "handler"]]
  /\ queued' = [queued EXCEPT ![t] = Tail(@)]
  /\ UNCHANGED <<peer, next, beats, readerAt, bound, via, chSend, goroutines, agent, wire>>

(* The handler may bind the session to a user.                             *)
HandlerBinds(t) ==
  /\ current[t].at = "handler" /\ ~bound /\ bound' = TRUE
  /\ UNCHANGED <<peer, next, beats, readerAt, queued, current, via, chSend, goroutines, agent, wire>>

(* ResponseMID refuses once the agent is closed, and serializes the answer *)
(* before it waits for room in chSend.                                     *)
ResponseMID(t) == agentState # "closed" /\ current' = [current EXCEPT ![t].at = "send"]

(* localProcess answers a request with the result or the error, and a      *)
(* failed notify with a push.  A notify that succeeds is not answered.     *)
HandlerReturns(t) ==
  /\ current[t].at = "handler"
  /\ ResponseMID(t) \/ current' = [current EXCEPT ![t] = Idle]
  /\ UNCHANGED <<peer, next, beats, readerAt, bound, queued, via, chSend, goroutines, agent, wire>>

sendWithoutDie(t) ==
  /\ current[t].at = "send"
  /\ Room /\ Queue(current[t].of)
  /\ current' = [current EXCEPT ![t] = Idle]
  /\ UNCHANGED <<peer, next, beats, readerAt, bound, queued, via, goroutines, agent, wire>>

send(t) ==
  /\ current[t].at = "send"
  /\ \/ Room /\ Queue(current[t].of)
     \/ chDie /\ UNCHANGED chSend
  /\ current' = [current EXCEPT ![t] = Idle]
  /\ UNCHANGED <<peer, next, beats, readerAt, bound, queued, via, goroutines, agent, wire>>
-----------------------------------------------------------------------------
(* The write goroutine.                                                    *)

WriterTakes ==
  /\ writerAt = "select" /\ chSend # << >>
  /\ outgoing' = Head(chSend) /\ chSend' = Tail(chSend) /\ writerAt' = "write"
  /\ UNCHANGED <<peer, next, beats, readerAt, work, beatAt, cacheAt, age, agent, wire>>

(* connWriteWithDeadline hands the packet to the connection.  A peer that  *)
(* no longer reads does not get it: the write goes to a buffer, or fails   *)
(* at its deadline; on a closed connection it fails.                       *)
connWriteWithDeadline ==
  /\ writerAt = "write"
  /\ \/ connOpen /\ writerAt' = "select" /\ UNCHANGED agent
        /\ wire' = IF outgoing = Beat \/ peer = "silent" THEN wire ELSE Append(wire, outgoing)
     \/ (~connOpen \/ peer = "silent") /\ writerAt' = "gone" /\ Close /\ UNCHANGED wire
  /\ UNCHANGED <<peer, next, beats, readerAt, work, chSend, outgoing, beatAt, cacheAt, age>>

WriterStops ==
  /\ writerAt = "select" /\ chDie /\ writerAt' = "gone"
  /\ UNCHANGED <<peer, next, beats, readerAt, work, chSend, outgoing, beatAt, cacheAt, age, agent, wire>>
-----------------------------------------------------------------------------
(* The heartbeat goroutine: a tick finds lastAt too old and closes the     *)
(* agent, or queues a heartbeat.                                           *)
TickRefreshes ==
  /\ beatAt = "select" /\ age' = 0 /\ beatAt' = "send"
  /\ UNCHANGED <<peer, next, beats, readerAt, work, chSend, writerAt, outgoing, cacheAt, agent, wire>>

Tick ==
  /\ beatAt = "select" /\ age' = age + 1
  /\ IF age' > 2 THEN beatAt' = "gone" /\ Close ELSE beatAt' = "send" /\ UNCHANGED agent
  /\ UNCHANGED <<peer, next, beats, readerAt, work, chSend, writerAt, outgoing, cacheAt, wire>>

BeatQueued ==
  /\ beatAt = "send"
  /\ \/ Room /\ Queue(Beat) /\ beatAt' = "select"
     \/ chDie /\ UNCHANGED chSend /\ beatAt' = "gone"
  /\ UNCHANGED <<peer, next, beats, readerAt, work, writerAt, outgoing, cacheAt, age, agent, wire>>

BeatStops ==
  /\ beatAt = "select" /\ chDie /\ beatAt' = "gone"
  /\ UNCHANGED <<peer, next, beats, readerAt, work, chSend, writerAt, outgoing, cacheAt, age, agent, wire>>

(* keepClusterCacheAlive: the entry is renewed at every tick of a bound    *)
(* session (SessionData.Expire), until the agent dies.                     *)
CacheStops ==
  /\ cacheAt = "select" /\ chDie /\ cacheAt' = "gone"
  /\ UNCHANGED <<peer, next, beats, readerAt, work, chSend, writerAt, outgoing, beatAt, age, agent, wire>>

(* A kick, a shutdown or the application closes the session.              *)
SessionCloses ==
  /\ agentState # "closed" /\ Close
  /\ UNCHANGED <<peer, next, beats, readerAt, work, chSend, goroutines, wire>>
-----------------------------------------------------------------------------
Reader == Submit \/ AnswerWithError \/ SendHeartbeatResponse
Worker(t) == TaskBegins(t) \/ HandlerReturns(t) \/ send(t)
Writer == WriterTakes \/ connWriteWithDeadline \/ WriterStops
Heart == Tick \/ BeatQueued \/ BeatStops

Next ==
  \/ ReadMessage \/ HandshakeAck \/ HeartbeatPacket \/ HeartbeatAckPacket \/ Reader \/ ReaderEnds
  \/ PeerSilent
  \/ \E t \in Threads : Worker(t) \/ HandlerBinds(t)
  \/ Writer \/ Heart \/ CacheStops \/ SessionCloses

Spec == Init /\ [][Next]_connVars

(* Goroutines run, tickers fire, a write ends by its deadline, handlers    *)
(* return, and reading a connection that was closed fails.                 *)
Fairness ==
  /\ WF_connVars(Reader) /\ WF_connVars(~connOpen /\ ReaderEnds)
  /\ \A t \in Threads : WF_connVars(Worker(t))
  /\ WF_connVars(Writer) /\ WF_connVars(Heart) /\ WF_connVars(CacheStops)

FairSpec == Spec /\ Fairness
-----------------------------------------------------------------------------
(* Every variable keeps its type.                                          *)
TypeOK ==
  /\ peer \in {"up", "silent"} /\ next \in Nat /\ beats \in 0 .. MaxBeats
  /\ readerAt \in {"read", "submit", "refuse", "answer", "gone"} /\ bound \in BOOLEAN
  /\ \A t \in Threads : queued[t] \in Seq(Msgs) /\ current[t].of \in Msgs \cup {0}
  /\ chSend \in Seq(Msgs \cup {Beat}) /\ Len(chSend) <= BufferSize
  /\ writerAt \in {"select", "write", "gone"} /\ outgoing \in Msgs \cup {Beat}
  /\ beatAt \in {"select", "send", "gone"} /\ cacheAt \in {"select", "gone"} /\ age \in 0 .. 3
  /\ agentState \in {"working", "closed"} /\ chDie \in BOOLEAN /\ connOpen \in BOOLEAN
  /\ wire \in Seq(Msgs)

(* The client gets the answers of the messages that one thread works on in *)
(* the order it sent the messages, each at most once, whatever else goes   *)
(* through the send queue.  (A message sent while the session is being     *)
(* bound goes to another thread than the ones before it.)                  *)
AnswersInOrder ==
  \A i, j \in DOMAIN wire : i < j /\ via[wire[i]] = via[wire[j]] => wire[i] < wire[j]

Gone == readerAt = "gone" /\ writerAt = "gone" /\ beatAt = "gone" /\ cacheAt = "gone"

(* A client that falls silent does not keep its connection: the heartbeat  *)
(* or a write that times out closes the agent, and then every goroutine of *)
(* the connection ends and every handler gets rid of its answer, also when *)
(* the send queue was full.                                                *)
SilentPeerEnds ==
  peer = "silent" ~> (Gone /\ \A t \in Threads : current[t] = Idle /\ queued[t] = << >>)

=============================================================================
