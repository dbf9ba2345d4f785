---------------------------- MODULE ProtoClient ----------------------------
(***************************************************************************)
(* The protobuf client of client/protoclient.go: a Client that first asks  *)
(* the server for its commands and message descriptors over a connection   *)
(* of its own (the bootstrap), then connects, and decodes what arrives on  *)
(* a connection with the descriptors it had when that connection was made. *)
(* ConnectTo or LoadServerInfo calls (attempts), Disconnect calls, the     *)
(* readers of the connections and the OnDisconnected callbacks run         *)
(* concurrently.  The embedded Client is what Client.tla shows it to be:   *)
(* an attempt whose context is done is never published, a generation is    *)
(* closed once and its end is reported once.                               *)
(***************************************************************************)
EXTENDS Naturals, FiniteSets

CONSTANTS Attempts,   \* numbers of ConnectTo and LoadServerInfo calls, and of their generations
          Closers,    \* Disconnect calls
          Docs,       \* command |-> [in, out]: what the server's documentation says
          Described,  \* types the server's descriptors hold
          Pushed,     \* command |-> [in, out]: what AddPushResponse may add
          None        \* no attempt, no generation, no type, no route

ProtoConstants == Attempts \subseteq Nat \ {0} /\ None \notin Attempts /\ DOMAIN Docs \cap DOMAIN Pushed = {}

VARIABLES
  active,     \* pc.activeAttempt
  where,      \* how far the call of an attempt is
  kind,       \* the call: ConnectTo or LoadServerInfo
  ended,      \* attempts whose context is done
  finished,   \* attempts whose done is closed
  boot,       \* the bootstrap client's info while an attempt runs one
  ready,      \* pc.ready
  info,       \* pc.info.Commands
  link,       \* the embedded client's attempt or generation
  reader,     \* pc.reader's generation
  reading,    \* where the goroutine of a generation's reader is
  snapshot,   \* reader.info of a generation
  told,       \* the OnDisconnected callback of a generation
  closer,     \* Disconnect calls: [at, attempt, gen]
  strayed     \* a message went to the channel of another generation's reader

protoVars == <<active, where, kind, ended, finished, boot, ready, info, link, reader, reading, snapshot,
               told, closer, strayed>>

NoInfo == [c \in {} |-> None]

Init ==
  /\ active = None /\ where = [a \in Attempts |-> "none"] /\ kind = [a \in Attempts |-> "connect"]
  /\ ended = {} /\ finished = {} /\ boot = [a \in Attempts |-> NoInfo] /\ ready = FALSE /\ info = NoInfo
  /\ link = [a \in Attempts |-> "none"] /\ reader = None
  /\ reading = [a \in Attempts |-> "none"] /\ snapshot = [a \in Attempts |-> NoInfo]
  /\ told = [a \in Attempts |-> [at |-> "no", attempt |-> None]]
  /\ closer = [d \in Closers |-> [at |-> "idle", attempt |-> None, gen |-> None]]
  /\ strayed = FALSE
-----------------------------------------------------------------------------
(* What the client learns from the server.                                 *)

Command(in, out) == [in |-> in, out |-> out, inDesc |-> FALSE, outDesc |-> FALSE]

(* getDescriptorsForGeneration up to its request: the documented handlers  *)
(* and remotes replace the predefined commands of the same route.          *)
Documented(known) ==
  [c \in DOMAIN known \cup DOMAIN Docs |->
     IF c \in DOMAIN Docs THEN Command(Docs[c].in, Docs[c].out) ELSE known[c]]

(* getKeys and the predefined commands: the types asked for.               *)
getKeys(commands) ==
  ({commands[c].in : c \in DOMAIN commands} \cup {commands[c].out : c \in DOMAIN commands}) \ {None}

(* buildProtosFromDescriptor: a command gets the descriptors of its types, *)
(* if the answer to the request for names holds them.                      *)
buildProtosFromDescriptor(commands) ==
  LET answer == getKeys(commands) \cap Described
  IN  [c \in DOMAIN commands |->
         [commands[c] EXCEPT !.inDesc = @ \/ commands[c].in \in answer,
                             !.outDesc = @ \/ commands[c].out \in answer]]

connectAttemptCancelled(a) == a \in ended
ConnectedStatus == \E g \in Attempts : link[g] \in {"live", "shut"}

LinkSame == UNCHANGED <<link, reader, reading, snapshot, told, closer, strayed>>
Goto(a, l) == where' = [where EXCEPT ![a] = l]
-----------------------------------------------------------------------------
(* beginConnectAttempt.                                                    *)
beginConnectAttempt(a) ==
  /\ where[a] = "none" /\ \A b \in Attempts : b < a => where[b] # "none"
  /\ active = None /\ ~ConnectedStatus
  /\ active' = a
  /\ \E k \in {"connect", "load"} :
       kind' = [kind EXCEPT ![a] = k] /\ Goto(a, IF k = "load" THEN "boot" ELSE "start")
  /\ UNCHANGED <<ended, finished, boot, ready, info>> /\ LinkSame

(* ConnectTo skips the bootstrap of a client that is ready.                *)
Start(a) ==
  /\ where[a] = "start" /\ Goto(a, IF ready THEN "check" ELSE "boot")
  /\ UNCHANGED <<active, kind, ended, finished, boot, ready, info>> /\ LinkSame

(* newBootstrapClient copies the commands; its connection is made.         *)
newBootstrapClient(a) ==
  /\ where[a] = "boot"
  /\ boot' = [boot EXCEPT ![a] = info] /\ Goto(a, "docs")
  /\ UNCHANGED <<active, kind, ended, finished, ready, info>> /\ LinkSame

(* The docs and the descriptors arrive on the bootstrap connection, which  *)
(* is closed when the attempt is cancelled.                                *)
BootstrapDocs(a) ==
  /\ where[a] = "docs" /\ a \notin ended
  /\ boot' = [boot EXCEPT ![a] = Documented(@)] /\ Goto(a, "descriptors")
  /\ UNCHANGED <<active, kind, ended, finished, ready, info>> /\ LinkSame

BootstrapDescriptors(a) ==
  /\ where[a] = "descriptors" /\ a \notin ended
  /\ boot' = [boot EXCEPT ![a] = buildProtosFromDescriptor(@)] /\ Goto(a, "commit")
  /\ UNCHANGED <<active, kind, ended, finished, ready, info>> /\ LinkSame

(* bootstrapServerInfo fails: no connection, an error response, an empty   *)
(* answer, a lost connection or a cancelled attempt.                       *)
BootstrapFails(a) ==
  /\ where[a] \in {"boot", "docs", "descriptors"} /\ Goto(a, "end")
  /\ UNCHANGED <<active, kind, ended, finished, boot, ready, info>> /\ LinkSame

commitUnchecked(a) ==
  /\ where[a] = "commit"
  /\ info' = boot[a] /\ ready' = TRUE /\ Goto(a, IF kind[a] = "load" THEN "end" ELSE "check")
  /\ UNCHANGED <<active, kind, ended, finished, boot>> /\ LinkSame

commitBootstrap(a) ==
  /\ where[a] = "commit"
  /\ IF active # a \/ a \in ended THEN Goto(a, "end") /\ UNCHANGED <<info, ready>>
     ELSE /\ info' = boot[a] /\ ready' = TRUE
          /\ Goto(a, IF kind[a] = "load" THEN "end" ELSE "check")
  /\ UNCHANGED <<active, kind, ended, finished, boot>> /\ LinkSame

(* connectToContext of the embedded client begins, and is published unless *)
(* its context is done, or fails.                                          *)
Check(a) ==
  /\ where[a] = "check" /\ Goto(a, IF connectAttemptCancelled(a) THEN "end" ELSE "connect")
  /\ UNCHANGED <<active, kind, ended, finished, boot, ready, info>> /\ LinkSame

Dial(a) ==
  /\ where[a] = "connect" /\ Goto(a, "dial")
  /\ link' = [link EXCEPT ![a] = "dialing"]
  /\ UNCHANGED <<active, kind, ended, finished, boot, ready, info, reader, reading, snapshot, told, closer, strayed>>

PublishCancelled(a) ==
  /\ link[a] = "dialing"
  /\ link' = [link EXCEPT ![a] = "live"] /\ Goto(a, "joined")
  /\ UNCHANGED <<active, kind, ended, finished, boot, ready, info, reader, reading, snapshot, told, closer, strayed>>

Publish(a) ==
  /\ link[a] = "dialing" /\ a \notin ended
  /\ link' = [link EXCEPT ![a] = "live"] /\ Goto(a, "joined")
  /\ UNCHANGED <<active, kind, ended, finished, boot, ready, info, reader, reading, snapshot, told, closer, strayed>>

DialFails(a) ==
  /\ link[a] \in {"dialing", "aborted"}
  /\ link' = [link EXCEPT ![a] = "none"] /\ Goto(a, "end")
  /\ UNCHANGED <<active, kind, ended, finished, boot, ready, info, reader, reading, snapshot, told, closer, strayed>>

(* finishConnectAttempt: attempt.done is closed.                           *)
finishConnectAttempt(a) ==
  /\ active' = IF active = a THEN None ELSE active
  /\ ended' = ended \cup {a} /\ finished' = finished \cup {a}

JoinedUnfinished(a) ==
  /\ where[a] = "joined" /\ Goto(a, IF connectAttemptCancelled(a) THEN "undo" ELSE "reader")
  /\ UNCHANGED <<active, kind, ended, finished, boot, ready, info>> /\ LinkSame

(* The attempt was cancelled while it was being published: it is finished  *)
(* first, so that the callback of its generation finds nothing to wait for.*)
Joined(a) ==
  /\ where[a] = "joined"
  /\ IF connectAttemptCancelled(a) THEN finishConnectAttempt(a) /\ Goto(a, "undo")
     ELSE Goto(a, "reader") /\ UNCHANGED <<active, ended, finished>>
  /\ UNCHANGED <<kind, boot, ready, info>> /\ LinkSame

(* startGenerationReader without the wait for the previous reader.         *)
startReaderAtOnce(a) ==
  /\ where[a] = "reader"
  /\ reader' = a /\ reading' = [reading EXCEPT ![a] = "reading"]
  /\ snapshot' = [snapshot EXCEPT ![a] = info] /\ Goto(a, "finish")
  /\ UNCHANGED <<active, kind, ended, finished, boot, ready, info, link, told, closer, strayed>>

(* startGenerationReader waits for the previous reader (which takes itself *)
(* out of pc.reader before it is done), then installs the new one.         *)
startGenerationReader(a) ==
  /\ where[a] = "reader" /\ reader = None
  /\ reader' = a /\ reading' = [reading EXCEPT ![a] = "reading"]
  /\ snapshot' = [snapshot EXCEPT ![a] = info] /\ Goto(a, "finish")
  /\ UNCHANGED <<active, kind, ended, finished, boot, ready, info, link, told, closer, strayed>>

(* ConnectTo ends; an attempt cancelled meanwhile still has a generation.  *)
Finish(a) ==
  /\ where[a] = "finish"
  /\ finishConnectAttempt(a) /\ Goto(a, IF a \in ended THEN "undo" ELSE "done")
  /\ UNCHANGED <<kind, boot, ready, info>> /\ LinkSame

(* The deferred finishConnectAttempt of an error, and of LoadServerInfo.   *)
End(a) ==
  /\ where[a] = "end" /\ finishConnectAttempt(a) /\ Goto(a, "done")
  /\ UNCHANGED <<kind, boot, ready, info>> /\ LinkSame

(* LoadInfo and AddPushResponse by the application.                        *)
LoadInfo ==
  /\ ~ready /\ ready' = TRUE
  /\ info' = buildProtosFromDescriptor(Documented(NoInfo))
  /\ UNCHANGED <<active, where, kind, ended, finished, boot>> /\ LinkSame

AddPushResponse ==
  /\ \E c \in DOMAIN Pushed \ DOMAIN info :
       info' = [d \in DOMAIN info \cup {c} |->
                  IF d = c THEN Command(None, Pushed[c].out) ELSE info[d]]
  /\ UNCHANGED <<active, where, kind, ended, finished, boot, ready>> /\ LinkSame
-----------------------------------------------------------------------------
(* A generation ends.                                                      *)

(* closeOnce: closeCh and the connection are closed.                       *)
Shut(g) == /\ link[g] = "live" /\ link' = [link EXCEPT ![g] = "shut"]

(* A loop of the generation fails, or ConnectTo undoes its connection.     *)
LoopCloses(g) ==
  /\ Shut(g)
  /\ UNCHANGED <<active, where, kind, ended, finished, boot, ready, info, reader, reading, snapshot, told,
                 closer, strayed>>

(* disconnectGeneration: a generation that somebody else is closing is     *)
(* awaited; one closed here has its callback called here.                  *)
Undo(a) ==
  /\ where[a] = "undo"
  /\ IF link[a] = "live" THEN Shut(a) /\ Goto(a, "closing") ELSE UNCHANGED link /\ Goto(a, "closed")
  /\ UNCHANGED <<active, kind, ended, finished, boot, ready, info, reader, reading, snapshot, told, closer, strayed>>

UndoReturns(a) ==
  /\ \/ where[a] = "closing" /\ told[a].at = "called"
     \/ where[a] = "closed" /\ link[a] = "gone"
  /\ Goto(a, "done")
  /\ UNCHANGED <<active, kind, ended, finished, boot, ready, info>> /\ LinkSame

(* The generation is unpublished, and the callback the proto client        *)
(* registered looks for an attempt to wait for.                            *)
Unpublish(g) ==
  /\ link[g] = "shut" /\ link' = [link EXCEPT ![g] = "gone"]
  /\ told' = [told EXCEPT ![g] = [at |-> "waiting", attempt |-> active]]
  /\ UNCHANGED <<active, where, kind, ended, finished, boot, ready, info, reader, reading, snapshot, closer, strayed>>

Over(a) == a \in finished \cup {None}

OnDisconnected(g) ==
  /\ told[g].at = "waiting" /\ Over(told[g].attempt)
  /\ told' = [told EXCEPT ![g].at = "called"]
  /\ UNCHANGED <<active, where, kind, ended, finished, boot, ready, info, link, reader, reading, snapshot,
                 closer, strayed>>

(* Disconnect cancels the attempt in progress ...                          *)
DisconnectBegins(d) ==
  /\ closer[d].at = "idle"
  /\ ended' = IF active = None THEN ended ELSE ended \cup {active}
  /\ closer' = [closer EXCEPT ![d] = [at |-> "close", attempt |-> active, gen |-> None]]
  /\ UNCHANGED <<active, where, kind, finished, boot, ready, info, link, reader, reading, snapshot, told, strayed>>

(* ... then the embedded client's Disconnect closes the current generation,*)
(* or cancels the attempt it is in ...                                     *)
DisconnectInner(d) ==
  /\ closer[d].at = "close"
  /\ IF \E g \in Attempts : link[g] \in {"dialing", "aborted", "live", "shut"}
     THEN \E g \in Attempts :
            \/ Shut(g) /\ closer' = [closer EXCEPT ![d].at = "wait", ![d].gen = g]
            \/ /\ link[g] = "shut" /\ UNCHANGED link
               /\ closer' = [closer EXCEPT ![d].at = "inner", ![d].gen = g]
            \/ /\ link[g] \in {"dialing", "aborted"} /\ link' = [link EXCEPT ![g] = "aborted"]
               /\ closer' = [closer EXCEPT ![d].at = "inner", ![d].gen = g]
     ELSE closer' = [closer EXCEPT ![d].at = "wait"] /\ UNCHANGED link
  /\ UNCHANGED <<active, where, kind, ended, finished, boot, ready, info, reader, reading, snapshot, told, strayed>>

(* ... for whose end it waits; a generation's callback runs in this call,  *)
(* and last the attempt found at the beginning is awaited.                 *)
DisconnectInnerEnds(d) ==
  /\ closer[d].at = "inner" /\ link[closer[d].gen] \notin {"aborted", "shut"}
  /\ closer' = [closer EXCEPT ![d].at = "wait", ![d].gen = None]
  /\ UNCHANGED <<active, where, kind, ended, finished, boot, ready, info, link, reader, reading, snapshot,
                 told, strayed>>

DisconnectReturns(d) ==
  /\ closer[d].at = "wait" /\ Over(closer[d].attempt)
  /\ IF closer[d].gen = None THEN TRUE ELSE told[closer[d].gen].at = "called"
  /\ closer' = [closer EXCEPT ![d].at = "done"]
  /\ UNCHANGED <<active, where, kind, ended, finished, boot, ready, info, link, reader, reading, snapshot,
                 told, strayed>>
-----------------------------------------------------------------------------
(* What is sent.                                                           *)

currentGeneration == IF \E g \in Attempts : link[g] \in {"live", "shut"}
                     THEN CHOOSE g \in Attempts : link[g] \in {"live", "shut"} ELSE None

(* The connection a message goes to, and the commands it is encoded with.  *)
Through == IF reader = None THEN [gen |-> currentGeneration, info |-> info]
           ELSE [gen |-> reader, info |-> snapshot[reader]]

(* How SendNotify encodes a message for route c; without a descriptor of   *)
(* its input the message is sent empty.                                    *)
SendNotify(c) ==
  LET t == Through
  IN  [gen |-> t.gen, form |-> IF c \notin DOMAIN t.info THEN "refused"
                               ELSE IF t.info[c].inDesc THEN "encoded" ELSE "empty"]

(* SendRequest sends anything as it is before the client is ready.         *)
SendRequest(c) == IF ready THEN SendNotify(c) ELSE [gen |-> Through.gen, form |-> "raw"]
-----------------------------------------------------------------------------
(* waitForData: a message of the generation is taken, decoded with the     *)
(* snapshot, and put into the channel of pc.reader.                        *)
Take(g) ==
  /\ reading[g] = "reading" /\ link[g] = "live"
  /\ reading' = [reading EXCEPT ![g] = "decoded"]
  /\ UNCHANGED <<active, where, kind, ended, finished, boot, ready, info, link, reader, snapshot, told,
                 closer, strayed>>

DeliverToAnyone(g) ==
  /\ reading[g] = "decoded"
  /\ strayed' = (strayed \/ reader # g)
  /\ reading' = [reading EXCEPT ![g] = "reading"]
  /\ UNCHANGED <<active, where, kind, ended, finished, boot, ready, info, link, reader, snapshot, told, closer>>

(* deliverProtoMessage: only while the reader is this generation's, and    *)
(* not once the generation is closed and the channel full.                 *)
deliverProtoMessage(g) ==
  /\ reading[g] = "decoded"
  /\ \/ reader = g /\ strayed' = strayed /\ reading' = [reading EXCEPT ![g] = "reading"]
     \/ (reader # g \/ link[g] \in {"shut", "gone"}) /\ strayed' = strayed
        /\ reading' = [reading EXCEPT ![g] = "leaving"]
  /\ UNCHANGED <<active, where, kind, ended, finished, boot, ready, info, link, reader, snapshot, told, closer>>

(* closeCh ends waitForData; then pc.reader is cleared if it is still this *)
(* reader, and done is closed.                                             *)
StopsReading(g) ==
  /\ reading[g] = "reading" /\ link[g] \in {"shut", "gone"}
  /\ reading' = [reading EXCEPT ![g] = "leaving"]
  /\ UNCHANGED <<active, where, kind, ended, finished, boot, ready, info, link, reader, snapshot, told,
                 closer, strayed>>

ReaderDone(g) ==
  /\ reading[g] = "leaving" /\ reading' = [reading EXCEPT ![g] = "done"]
  /\ reader' = IF reader = g THEN None ELSE reader
  /\ UNCHANGED <<active, where, kind, ended, finished, boot, ready, info, link, snapshot, told, closer, strayed>>
-----------------------------------------------------------------------------
Attempting(a) ==
  \/ Start(a) \/ newBootstrapClient(a) \/ BootstrapDocs(a) \/ BootstrapDescriptors(a)
  \/ BootstrapFails(a) \/ commitBootstrap(a) \/ Check(a) \/ Dial(a) \/ Publish(a) \/ DialFails(a)
  \/ Joined(a) \/ startGenerationReader(a) \/ Finish(a) \/ End(a) \/ Undo(a) \/ UndoReturns(a)
Reading(g) == deliverProtoMessage(g) \/ StopsReading(g) \/ ReaderDone(g)
Closing(d) == DisconnectInner(d) \/ DisconnectInnerEnds(d) \/ DisconnectReturns(d)

Next ==
  \/ \E a \in Attempts :
       \/ beginConnectAttempt(a) \/ Attempting(a) \/ LoopCloses(a) \/ Unpublish(a)
       \/ OnDisconnected(a) \/ Take(a) \/ Reading(a)
  \/ \E d \in Closers : DisconnectBegins(d) \/ Closing(d)
  \/ LoadInfo \/ AddPushResponse

Spec == Init /\ [][Next]_protoVars
-----------------------------------------------------------------------------
(* Every variable keeps its type.                                          *)
TypeOK ==
  /\ active \in Attempts \cup {None} /\ ended \subseteq Attempts /\ finished \subseteq ended /\ ready \in BOOLEAN
  /\ where \in [Attempts -> {"none", "start", "boot", "docs", "descriptors", "commit", "check",
                             "connect", "dial", "joined", "reader", "finish", "undo", "closing",
                             "closed", "end", "done"}]
  /\ kind \in [Attempts -> {"connect", "load"}]
  /\ \A i \in {info} \cup {boot[a] : a \in Attempts} \cup {snapshot[a] : a \in Attempts} :
       DOMAIN i \subseteq DOMAIN Docs \cup DOMAIN Pushed
  /\ link \in [Attempts -> {"none", "dialing", "aborted", "live", "shut", "gone"}]
  /\ reader \in Attempts \cup {None}
  /\ reading \in [Attempts -> {"none", "reading", "decoded", "leaving", "done"}]
  /\ \A a \in Attempts : /\ told[a].at \in {"no", "waiting", "called"}
                         /\ told[a].attempt \in Attempts \cup {None}
  /\ \A d \in Closers : /\ closer[d].at \in {"idle", "close", "inner", "wait", "done"}
                        /\ closer[d].attempt \in Attempts \cup {None}
                        /\ closer[d].gen \in Attempts \cup {None}

(* One reader at a time feeds the application: only the reader in          *)
(* pc.reader takes messages, so a late message of an old connection is     *)
(* never put into the new connection's channel, nor decoded with its       *)
(* descriptors.  Once ConnectTo has returned, what the application sends   *)
(* goes to the new connection, and a documented route is encoded with its  *)
(* descriptor, whoever loaded the server's information and whatever became *)
(* of earlier connections.                                                 *)
OneReader ==
  /\ ~strayed
  /\ \A g \in Attempts : reading[g] \in {"reading", "decoded"} => reader = g
  /\ \A a \in Attempts, c \in DOMAIN Docs :
       where[a] = "done" /\ link[a] = "live" =>
         SendRequest(c) = [gen |-> a, form |-> IF Docs[c].in \in Described THEN "encoded" ELSE "empty"]

(* Disconnect is final for the attempt it found: when it has returned, the *)
(* connection of that attempt is not left open and its call is over,       *)
(* wherever the attempt was overtaken.                                     *)
DisconnectFinal ==
  \A d \in Closers : LET a == closer[d].attempt IN
    closer[d].at = "done" /\ a # None => link[a] \notin {"dialing", "live"} /\ Over(a)

(* Every callback waits for an attempt that can end without it, and no     *)
(* call waits for its own callback: some step is possible until every      *)
(* attempt, Disconnect and callback has come to its end.                   *)
NoDeadlock ==
  \/ ENABLED (\E a \in Attempts : Attempting(a) \/ OnDisconnected(a) \/ Unpublish(a) \/ Reading(a))
  \/ ENABLED (\E d \in Closers : Closing(d))
  \/ /\ \A a \in Attempts : where[a] \in {"none", "done"} /\ told[a].at # "waiting"
     /\ \A d \in Closers : closer[d].at \in {"idle", "done"}

(* Connections of different attempts do not mix: each message is read by   *)
(* its own reader, Disconnect ends what it found, and none of the calls    *)
(* and callbacks waits for ever.                                           *)
GenerationsApart == OneReader /\ DisconnectFinal /\ NoDeadlock

=============================================================================
