-------------------------------- MODULE Cli --------------------------------
(***************************************************************************)
(* The command line client (pitaya-cli): one goroutine that takes commands *)
(* from a shell or from a file, and one reader per connection that prints  *)
(* what the server sends.  They share the globals pClient, disconnectedCh  *)
(* and wait.  The reader looks pClient up when it starts to run, and       *)
(* disconnectedCh again in every round and when it closes it.              *)
(***************************************************************************)
EXTENDS Integers, Sequences, FiniteSets

CONSTANTS MaxClients,   \* bound: clients made by connect
          MaxCommands,  \* bound: commands given
          MaxPushes     \* bound: pushes the servers send

Clients == 1..MaxClients

VARIABLES
  mode,         \* "file" or "repl"
  docsString,   \* a docs route was given: protobuf
  command,      \* what the goroutine that takes commands is doing
  given,        \* commands given
  pClient,      \* the client commands act on, 0 for nil
  connected,    \* clients whose ConnectedStatus is true
  pushInfo,     \* "nil", "empty" or "filled"
  disconnectedCh, \* number of the channel the global holds, 0 for nil
  channel,      \* channels made: open, signalled or closed
  reading,      \* readServerMessages of each client
  reads,        \* the client whose messages each reader takes
  selects,      \* the channel the reader of each client selects on
  inbox,        \* messages a client has received
  asked,        \* requests a client has sent and no answer has come for
  pushed,       \* pushes sent by servers
  wait          \* the wait group

links == <<connected, inbox, asked, pushed>>
vars == <<mode, docsString, command, given, pClient, links, pushInfo,
          disconnectedCh, channel, reading, reads, selects, wait>>

(* repl makes the map of push types.                                       *)
repl == IF mode = "repl" THEN "empty" ELSE "nil"

Init ==
  /\ mode \in {"file", "repl"} /\ docsString \in BOOLEAN
  /\ command = "ready" /\ given = 0 /\ pClient = 0 /\ connected = {}
  /\ pushInfo = repl
  /\ disconnectedCh = 0 /\ channel = <<>>
  /\ reading = [c \in Clients |-> "no"] /\ selects = [c \in Clients |-> 0]
  /\ reads = [c \in Clients |-> 0]
  /\ inbox = [c \in Clients |-> 0] /\ asked = [c \in Clients |-> 0]
  /\ pushed = 0 /\ wait = 0

(* A command starts; one that fails ends a file.                           *)
Given == command = "ready" /\ given < MaxCommands /\ given' = given + 1
Failed == IF mode = "file" THEN "stopped" ELSE "ready"
-----------------------------------------------------------------------------
(* connect: refused while connected, otherwise a new client takes the      *)
(* place of pClient before it is known whether it connects.                *)
Fresh ==
  /\ pClient < MaxClients
  /\ pClient' = pClient + 1

connectAgain ==
  /\ Given /\ Fresh
  /\ connected' = connected \cup {pClient + 1}
  /\ channel' = Append(channel, "open")
  /\ disconnectedCh' = Len(channel) + 1
  /\ reading' = [reading EXCEPT ![pClient + 1] = "start"]
  /\ UNCHANGED <<mode, docsString, command, inbox, asked, pushed, pushInfo, reads, selects,
                 wait>>

connect ==
  /\ Given /\ pClient \notin connected /\ Fresh
  /\ connected' = connected \cup {pClient + 1}
  /\ channel' = Append(channel, "open")
  /\ disconnectedCh' = Len(channel) + 1
  /\ reading' = [reading EXCEPT ![pClient + 1] = "start"]
  /\ UNCHANGED <<mode, docsString, command, inbox, asked, pushed, pushInfo, reads, selects,
                 wait>>

(* tryConnect finds no scheme that works, ...                              *)
tryConnect ==
  /\ Given /\ pClient \notin connected /\ Fresh
  /\ command' = Failed
  /\ UNCHANGED <<mode, docsString, links, pushInfo, disconnectedCh, channel, reading,
                 reads, selects, wait>>

(* ... or protoClient, before that, cannot load the server's information.  *)
protoClient == docsString /\ tryConnect

(* A command that is refused: connect while connected, request, notify and *)
(* routes without a connection, routes without protobuf, push after        *)
(* connect, and arguments that do not fit.                                 *)
Refused ==
  /\ Given
  /\ command' = Failed
  /\ UNCHANGED <<mode, docsString, pClient, links, pushInfo, disconnectedCh, channel,
                 reading, reads, selects, wait>>

(* sethandshake, routes and an accepted notify leave nothing behind here.  *)
setHandshake ==
  /\ Given
  /\ UNCHANGED <<mode, docsString, command, pClient, links, pushInfo, disconnectedCh,
                 channel, reading, reads, selects, wait>>

notify ==
  /\ Given /\ pClient \in connected
  /\ UNCHANGED <<mode, docsString, command, pClient, links, pushInfo, disconnectedCh,
                 channel, reading, reads, selects, wait>>

routes ==
  /\ Given /\ pClient \in connected /\ docsString /\ mode = "file"
  /\ UNCHANGED <<mode, docsString, command, pClient, links, pushInfo, disconnectedCh,
                 channel, reading, reads, selects, wait>>

(* push notes the type of a push; the map exists in the shell only.        *)
push ==
  /\ Given /\ pClient = 0
  /\ IF ~docsString THEN UNCHANGED <<command, pushInfo>>
     ELSE IF pushInfo = "nil" THEN command' = "panic" /\ UNCHANGED pushInfo
     ELSE pushInfo' = "filled" /\ UNCHANGED command
  /\ UNCHANGED <<mode, docsString, pClient, links, disconnectedCh, channel, reading,
                 reads, selects, wait>>

(* request: from a file, the command waits until the readers have brought  *)
(* the wait group back to zero.                                            *)
request ==
  /\ Given /\ pClient \in connected
  /\ asked' = [asked EXCEPT ![pClient] = @ + 1]
  /\ IF mode = "file" THEN wait' = wait + 1 /\ command' = "waiting"
     ELSE UNCHANGED <<wait, command>>
  /\ UNCHANGED <<mode, docsString, pClient, connected, inbox, pushed, pushInfo,
                 disconnectedCh, channel, reading, reads, selects>>

executeCommand ==
  /\ command = "waiting" /\ wait = 0
  /\ command' = "ready"
  /\ UNCHANGED <<mode, docsString, given, pClient, links, pushInfo, disconnectedCh,
                 channel, reading, reads, selects, wait>>

(* disconnect signals the reader, then disconnects the client.             *)
disconnect ==
  /\ Given
  /\ IF pClient = 0 THEN command' = "panic" /\ UNCHANGED channel
     ELSE IF pClient \notin connected THEN UNCHANGED <<command, channel>>
     ELSE IF channel[disconnectedCh] = "closed"
     THEN command' = "panic" /\ UNCHANGED channel
     ELSE /\ channel' = [channel EXCEPT ![disconnectedCh] = "signalled"]
          /\ command' = "disconnecting"
  /\ UNCHANGED <<mode, docsString, pClient, links, pushInfo, disconnectedCh, reading,
                 reads, selects, wait>>

Disconnect ==
  /\ command = "disconnecting"
  /\ command' = "ready"
  /\ connected' = connected \ {pClient}
  /\ UNCHANGED <<mode, docsString, given, pClient, inbox, asked, pushed, pushInfo,
                 disconnectedCh, channel, reading, reads, selects, wait>>
-----------------------------------------------------------------------------
(* readServerMessages: the client's channel is looked up once, the other   *)
(* channel of the select every time, ...                                   *)
StartReading(c) ==
  /\ reading[c] = "start"
  /\ reading' = [reading EXCEPT ![c] = "loop"]
  /\ reads' = [reads EXCEPT ![c] = pClient]
  /\ UNCHANGED <<mode, docsString, command, given, pClient, links, pushInfo,
                 disconnectedCh, channel, selects, wait>>

readServerMessages(c) ==
  /\ reading[c] = "loop"
  /\ reading' = [reading EXCEPT ![c] = "select"]
  /\ selects' = [selects EXCEPT ![c] = disconnectedCh]
  /\ UNCHANGED <<mode, docsString, command, given, pClient, links, pushInfo,
                 disconnectedCh, channel, reads, wait>>

(* ... a message is printed, which from a file is taken for an answer, ... *)
Prints(c) ==
  /\ reading[c] = "select" /\ reads[c] # 0 /\ inbox[reads[c]] > 0
  /\ inbox' = [inbox EXCEPT ![reads[c]] = @ - 1]
  /\ reading' = [reading EXCEPT ![c] = "loop"]
  /\ IF mode = "repl" THEN UNCHANGED <<wait, command>>
     ELSE IF wait = 0 THEN command' = "panic" /\ UNCHANGED wait
     ELSE wait' = wait - 1 /\ UNCHANGED command
  /\ UNCHANGED <<mode, docsString, given, pClient, connected, asked, pushed, pushInfo,
                 disconnectedCh, channel, reads, selects>>

(* ... or the reader is told to stop, and closes the channel that the      *)
(* global holds by then.                                                   *)
Stops(c) ==
  /\ reading[c] = "select" /\ selects[c] # 0
  /\ channel[selects[c]] # "open"
  /\ reading' = [reading EXCEPT ![c] = "no"]
  /\ IF channel[disconnectedCh] = "closed" THEN command' = "panic" /\ UNCHANGED channel
     ELSE channel' = [channel EXCEPT ![disconnectedCh] = "closed"] /\ UNCHANGED command
  /\ UNCHANGED <<mode, docsString, given, pClient, links, pushInfo, disconnectedCh,
                 reads, selects, wait>>
-----------------------------------------------------------------------------
(* The server of a connection answers, pushes, or goes away.               *)
Arrives(c) ==
  /\ c \in connected
  /\ \/ /\ asked[c] > 0
        /\ asked' = [asked EXCEPT ![c] = @ - 1] /\ UNCHANGED pushed
     \/ /\ pushed < MaxPushes
        /\ pushed' = pushed + 1 /\ UNCHANGED asked
  /\ inbox' = [inbox EXCEPT ![c] = @ + 1]
  /\ UNCHANGED <<mode, docsString, command, given, pClient, connected, pushInfo,
                 disconnectedCh, channel, reading, reads, selects, wait>>

Drops(c) ==
  /\ c \in connected
  /\ connected' = connected \ {c}
  /\ UNCHANGED <<mode, docsString, command, given, pClient, inbox, asked, pushed,
                 pushInfo, disconnectedCh, channel, reading, reads, selects, wait>>
-----------------------------------------------------------------------------
Next ==
  /\ command \notin {"panic", "stopped"}
  /\ \/ connect \/ tryConnect \/ protoClient \/ Refused \/ setHandshake \/ notify
     \/ routes \/ push \/ request \/ executeCommand \/ disconnect \/ Disconnect
     \/ \E c \in Clients :
          \/ StartReading(c) \/ readServerMessages(c) \/ Prints(c) \/ Stops(c)
          \/ Arrives(c) \/ Drops(c)

Spec == Init /\ [][Next]_vars
-----------------------------------------------------------------------------
(* At most one client is connected, it is the one the commands act on, and *)
(* until a disconnect is under way its reader is there to take what the    *)
(* server sends: a reader that outlived its connection cannot end it.      *)
ConnectionServed ==
  /\ connected \subseteq {pClient}
  /\ command \notin {"disconnecting", "panic"} =>
       \A c \in connected : reading[c] # "no"

(* "pitaya-cli will execute them in order": the commands of a file go on   *)
(* to the next when the request before has been answered.                  *)
InOrder ==
  mode = "file" /\ command = "ready" => \A c \in connected : asked[c] = 0
=============================================================================
