------------------------------ MODULE Pushes ------------------------------
(***************************************************************************)
(* Pushes and kicks to a user (push.go, kick.go, group.go).  A server that *)
(* holds the user's session uses it; any other publishes to a NATS topic   *)
(* of the user, which a frontend subscribes to while it binds a session    *)
(* (cluster/nats_rpc_server.go) and drains when the session closes.  A     *)
(* subscription has its own queue and goroutine, which feeds a bounded     *)
(* channel of the frontend; one goroutine per channel looks the session up *)
(* again and pushes to it or kicks it.  Session.Close is one step here:    *)
(* Frontend.tla has its steps.                                             *)
(***************************************************************************)
EXTENDS Integers, Sequences, FiniteSets, SequencesExt

CONSTANTS Frontends,    \* frontend servers, all of one type
          Backend,      \* a server that is no frontend
          Sessions,     \* connections of clients
          Uids,         \* the sequence of users a call or a group addresses
          None,         \* no user, no session
          Buffer,       \* capacity of userPushCh and userKickCh
          MaxBinds,     \* bound: Bind calls of a session
          MaxSent,      \* bound: messages published to user topics
          MaxCalls,     \* bound: calls to push to users or to kick them
          MaxFaults     \* bound: failed publications and subscriptions

Kinds == {"push", "kick"}
Senders == Frontends \cup {Backend}
Addressed == Range(Uids)
(* A subscription: made by the n-th Bind of a session, to one topic.       *)
Subs == Sessions \X (1..MaxBinds) \X Kinds
NoCall == [kind |-> "none", left |-> <<>>, typed |-> TRUE, failed |-> <<>>]

PushesConstants ==
  /\ Backend \notin Frontends /\ None \notin Addressed \cup Sessions
  /\ Buffer \in Nat \ {0} /\ {MaxBinds, MaxSent, MaxCalls, MaxFaults} \subseteq Nat

VARIABLES
  home,     \* the frontend a session is connected to
  stage,    \* where the session's handler is in Bind
  reading,  \* the reader of the connection has not closed the session yet
  uid,      \* session.uid
  binds,    \* Bind calls of the session
  open,     \* the agent is not closed
  owned,    \* session.Subscriptions
  byUID,    \* sessionsByUID of each frontend
  natsUp,   \* frontends whose NatsRPCServer.Init has run
  topic,    \* by subscription: the user whose topic it is for
  live,     \* subscriptions the NATS server delivers to
  pending,  \* messages a subscription still has to hand over
  chan,     \* userPushCh and userKickCh
  sent,     \* every message published to a user topic
  handled,  \* by subscription: what the frontend has processed
  since,    \* by subscription: messages published before it was made
  until,    \* by subscription: messages published when it was drained
  calls,    \* SendPushToUsers or SendKickToUsers, by server
  begun,    \* such calls so far
  troubles  \* failures so far

sessionVars == <<stage, reading, uid, binds, open, owned, byUID>>
topicVars == <<topic, live, pending, sent, since, until>>
vars == <<home, sessionVars, natsUp, topicVars, chan, handled, calls, begun, troubles>>

Init ==
  /\ home \in [Sessions -> Frontends]
  /\ stage = [s \in Sessions |-> "idle"] /\ uid = [s \in Sessions |-> None]
  /\ binds = [s \in Sessions |-> 0] /\ open = [s \in Sessions |-> TRUE]
  /\ owned = [s \in Sessions |-> {}] /\ reading = [s \in Sessions |-> TRUE]
  /\ byUID = [f \in Frontends |-> [u \in Addressed |-> None]]
  /\ natsUp = {} /\ live = {} /\ sent = <<>> /\ topic = [b \in Subs |-> None]
  /\ pending = [b \in Subs |-> <<>>] /\ handled = [b \in Subs |-> <<>>]
  /\ since = [b \in Subs |-> 0] /\ until = [b \in Subs |-> 0]
  /\ chan = [f \in Frontends |-> [k \in Kinds |-> <<>>]]
  /\ calls = [v \in Senders |-> NoCall] /\ begun = 0 /\ troubles = 0

Fault == troubles < MaxFaults /\ troubles' = troubles + 1
Frontend(b) == home[b[1]]
-----------------------------------------------------------------------------
(* The user topics.                                                        *)

(* Conn.Publish: every subscription to the topic gets the message.         *)
Send(user, kind) ==
  /\ Len(sent) < MaxSent
  /\ sent' = Append(sent, [user |-> user, kind |-> kind])
  /\ pending' = [b \in Subs |->
                   IF b \in live /\ b[3] = kind /\ topic[b] = user
                   THEN Append(pending[b], Len(sent) + 1) ELSE pending[b]]
  /\ UNCHANGED <<topic, live, since, until>>

SendPush(user) == Send(user, "push")

Subscribe(b) ==
  /\ live' = live \cup {b}
  /\ topic' = [topic EXCEPT ![b] = uid[b[1]]]
  /\ since' = [since EXCEPT ![b] = Len(sent)]
  /\ UNCHANGED <<pending, sent, until>>

(* Subscription.Drain: what is pending is still handed over.               *)
Drain(bs) ==
  /\ live' = live \ bs
  /\ until' = [b \in Subs |-> IF b \in bs \cap live THEN Len(sent) ELSE until[b]]
  /\ UNCHANGED <<topic, pending, sent, since>>

(* The callback of a subscription sends to the channel, and waits while    *)
(* the channel is full.                                                    *)
CallbackDrops(b) ==
  LET f == Frontend(b)
      c == chan[f][b[3]]
  IN  /\ pending[b] # <<>>
      /\ pending' = [pending EXCEPT ![b] = Tail(@)]
      /\ chan' = IF Len(c) = Buffer THEN chan
                 ELSE [chan EXCEPT ![f][b[3]] =
                         Append(@, [n |-> Head(pending[b]), sub |-> b])]
      /\ UNCHANGED <<home, sessionVars, natsUp, topic, live, sent, since, until,
                     handled, calls, begun, troubles>>

Callback(b) ==
  LET f == Frontend(b)
  IN  /\ pending[b] # <<>> /\ Len(chan[f][b[3]]) < Buffer
      /\ pending' = [pending EXCEPT ![b] = Tail(@)]
      /\ chan' = [chan EXCEPT ![f][b[3]] =
                    Append(@, [n |-> Head(pending[b]), sub |-> b])]
      /\ UNCHANGED <<home, sessionVars, natsUp, topic, live, sent, since, until,
                     handled, calls, begun, troubles>>
-----------------------------------------------------------------------------
(* Sessions.                                                               *)

(* Session.Kick on a frontend writes the kick packet, which fails on a     *)
(* closed connection, and closes the agent.  The reader of the connection  *)
(* then closes the session.                                                *)
Kickable(s) == open[s]
Kick(s) == open' = [open EXCEPT ![s] = FALSE]

(* Session.Close: whichever session the user's entry holds, it goes.       *)
Without(s) ==
  IF uid[s] = None THEN byUID ELSE [byUID EXCEPT ![home[s]][uid[s]] = None]

(* The reader of a connection ends and closes the session.                 *)
Close(s) ==
  /\ reading[s]
  /\ reading' = [reading EXCEPT ![s] = FALSE]
  /\ open' = [open EXCEPT ![s] = FALSE]
  /\ byUID' = Without(s)
  /\ Drain(owned[s])
  /\ UNCHANGED <<home, stage, uid, binds, owned, natsUp, chan, handled, calls, begun,
                 troubles>>

(* Bind gives up: the uid is taken back.                                   *)
Refuse(s) ==
  /\ stage' = [stage EXCEPT ![s] = "idle"]
  /\ uid' = [uid EXCEPT ![s] = None]

(* NatsRPCServer.Init adds onSessionBind to the bind callbacks; a client   *)
(* may have bound before.                                                  *)
OnSessionBind(f) ==
  /\ f \notin natsUp
  /\ natsUp' = natsUp \cup {f}
  /\ UNCHANGED <<home, sessionVars, topicVars, chan, handled, calls, begun, troubles>>

(* Session.Bind up to the first bind callback, Sys's, which kicks the      *)
(* session that holds the user and fails if that fails.                    *)
Bind(s, u) ==
  LET old == byUID[home[s]][u]
  IN  /\ stage[s] = "idle" /\ binds[s] < MaxBinds /\ uid[s] \in {None, u}
      /\ binds' = [binds EXCEPT ![s] = @ + 1]
      /\ IF old # None /\ ~Kickable(old)
         THEN Refuse(s) /\ UNCHANGED open
         ELSE /\ uid' = [uid EXCEPT ![s] = u]
              /\ stage' = [stage EXCEPT ![s] = IF home[s] \in natsUp THEN "push"
                                               ELSE "store"]
              /\ IF old = None THEN UNCHANGED open ELSE Kick(old)
      /\ UNCHANGED <<home, reading, owned, byUID, natsUp, topicVars, chan, handled,
                     calls, begun, troubles>>

subscribeToUserMessages(s) ==
  /\ stage[s] = "push"
  /\ stage' = [stage EXCEPT ![s] = "kick"]
  /\ Subscribe(<<s, binds[s], "push">>)
  /\ UNCHANGED <<home, reading, uid, binds, open, owned, byUID, natsUp, chan,
                 handled, calls, begun, troubles>>

(* The second subscription makes both the session's, in place of those it  *)
(* had.                                                                    *)
subscribeToUserKickChannel(s) ==
  /\ stage[s] = "kick"
  /\ stage' = [stage EXCEPT ![s] = "store"]
  /\ Subscribe(<<s, binds[s], "kick">>)
  /\ owned' = [owned EXCEPT ![s] = {<<s, binds[s], k>> : k \in Kinds}]
  /\ UNCHANGED <<home, reading, uid, binds, open, byUID, natsUp, chan, handled,
                 calls, begun, troubles>>

(* A subscription fails: onSessionBind returns the error, and a first      *)
(* subscription stays.                                                     *)
SubscribeFails(s) ==
  /\ stage[s] \in {"push", "kick"} /\ Fault
  /\ Refuse(s)
  /\ UNCHANGED <<home, reading, binds, open, owned, byUID, natsUp, topicVars, chan,
                 handled, calls, begun>>

(* The rest of Bind: a session that holds the user is closed, and this one *)
(* takes its place.                                                        *)
BindStore(s) ==
  LET f == home[s]
      old == byUID[f][uid[s]]
  IN  /\ stage[s] = "store"
      /\ stage' = [stage EXCEPT ![s] = "idle"]
      /\ byUID' = [byUID EXCEPT ![f][uid[s]] = s]
      /\ IF old = None THEN UNCHANGED <<open, topicVars>>
         ELSE Kick(old) /\ Drain(owned[old])
      /\ UNCHANGED <<home, reading, uid, binds, owned, natsUp, chan, handled, calls, begun,
                     troubles>>
-----------------------------------------------------------------------------
(* The frontend's goroutines behind the channels.                          *)

Took(f, kind) == chan' = [chan EXCEPT ![f][kind] = Tail(@)]
Handled(m) == handled' = [handled EXCEPT ![m.sub] = Append(@, m.n)]

(* RemoteService.PushToUser queues the push on the session's agent; no     *)
(* session or a closed agent is an error, which is logged.                 *)
PushToUser(m) == Handled(m)

processPushes(f) ==
  /\ chan[f]["push"] # <<>>
  /\ PushToUser(Head(chan[f]["push"]))
  /\ Took(f, "push")
  /\ UNCHANGED <<home, sessionVars, natsUp, topicVars, calls, begun, troubles>>

KickUser(f, m) ==
  LET s == byUID[f][sent[m.n].user]
  IN  /\ Handled(m)
      /\ IF s # None /\ Kickable(s) THEN Kick(s) ELSE UNCHANGED open

processKick(f) ==
  /\ chan[f]["kick"] # <<>>
  /\ KickUser(f, Head(chan[f]["kick"]))
  /\ Took(f, "kick")
  /\ UNCHANGED <<home, stage, reading, uid, binds, owned, byUID, natsUp, topicVars,
                 calls, begun, troubles>>
-----------------------------------------------------------------------------
(* Callers.                                                                *)

Begin(v, kind, uids, typed) ==
  /\ calls[v] = NoCall /\ begun < MaxCalls
  /\ begun' = begun + 1
  /\ calls' = [calls EXCEPT ![v] = [kind |-> kind, left |-> uids, typed |-> typed,
                                    failed |-> <<>>]]
  /\ UNCHANGED <<home, sessionVars, natsUp, topicVars, chan, handled, troubles>>

(* A backend has to name the type of the frontends; a frontend that leaves *)
(* it out publishes to topics nobody subscribes to.                        *)
SendPushToUsers(v, typed) ==
  /\ v = Backend => typed
  /\ Begin(v, "push", Uids, typed)

SendKickToUsers(v, typed) ==
  /\ v = Backend => typed
  /\ Begin(v, "kick", Uids, typed)

(* GroupBroadcast pushes to the members of the group.                      *)
GroupBroadcast(v) == Begin(v, "push", Reverse(Uids), TRUE)

(* One user of a call is done with, and the call returns after the last.   *)
Next1(v, ok) ==
  LET c == calls[v]
      failed == IF ok THEN c.failed ELSE Append(c.failed, Head(c.left))
  IN  calls' = [calls EXCEPT ![v] = IF Len(c.left) = 1 THEN NoCall
                                    ELSE [c EXCEPT !.left = Tail(@), !.failed = failed]]

Local(v, u) == IF v \in Frontends THEN byUID[v][u] ELSE None

(* A push also needs the type given to be the server's own.                *)
HeldHere(v) ==
  LET c == calls[v]
  IN  Local(v, Head(c.left)) # None /\ (c.kind = "kick" \/ c.typed)

(* The user's session is here: a push is queued, a kick closes the agent.  *)
ToSession(v) ==
  LET c == calls[v]
      s == Local(v, Head(c.left))
  IN  /\ c # NoCall /\ HeldHere(v)
      /\ Next1(v, open[s])
      /\ IF c.kind = "kick" /\ Kickable(s) THEN Kick(s) ELSE UNCHANGED open
      /\ UNCHANGED <<home, stage, reading, uid, binds, owned, byUID, natsUp,
                     topicVars, chan, handled, begun, troubles>>

(* It is not: the message is published to the user's topic.                *)
ToTopic(v) ==
  LET c == calls[v]
  IN  /\ c # NoCall /\ ~HeldHere(v)
      /\ IF c.typed THEN Send(Head(c.left), c.kind) ELSE UNCHANGED topicVars
      /\ Next1(v, TRUE)
      /\ UNCHANGED <<home, sessionVars, natsUp, chan, handled, begun, troubles>>

SendFails(v) ==
  /\ calls[v] # NoCall /\ ~HeldHere(v) /\ Fault
  /\ Next1(v, FALSE)
  /\ UNCHANGED <<home, sessionVars, natsUp, topicVars, chan, handled, begun>>

(* Remote.Push of a handler on the backend publishes to the same topic.    *)
RemotePush(u) ==
  /\ SendPush(u)
  /\ UNCHANGED <<home, sessionVars, natsUp, chan, handled, calls, begun, troubles>>

(* Remote.Kick asks the frontend the handler's session came from, which    *)
(* answers that there is no such session if the user has left it: Sys.Kick.*)
SysKick(s) == s # None /\ Kickable(s) /\ Kick(s)

RemoteKick(u, f) ==
  LET s == byUID[f][u]
  IN  /\ SysKick(s)
      /\ UNCHANGED <<home, stage, reading, uid, binds, owned, byUID, natsUp,
                     topicVars, chan, handled, calls, begun, troubles>>
-----------------------------------------------------------------------------
Next ==
  \/ \E s \in Sessions :
       \/ Close(s) \/ subscribeToUserMessages(s) \/ subscribeToUserKickChannel(s)
       \/ SubscribeFails(s) \/ BindStore(s) \/ \E u \in Addressed : Bind(s, u)
  \/ \E f \in Frontends :
       \/ OnSessionBind(f) \/ processPushes(f) \/ processKick(f)
       \/ \E u \in Addressed : RemoteKick(u, f)
  \/ \E b \in Subs : Callback(b)
  \/ \E v \in Senders :
       \/ ToSession(v) \/ ToTopic(v) \/ SendFails(v) \/ GroupBroadcast(v)
       \/ \E typed \in BOOLEAN : SendPushToUsers(v, typed) \/ SendKickToUsers(v, typed)
  \/ \E u \in Addressed : RemotePush(u)

Spec == Init /\ [][Next]_vars
-----------------------------------------------------------------------------
(* Types, and the capacity of the two channels of a frontend.              *)
TypeOK ==
  /\ home \in [Sessions -> Frontends] /\ reading \in [Sessions -> BOOLEAN]
  /\ stage \in [Sessions -> {"idle", "push", "kick", "store"}]
  /\ uid \in [Sessions -> Addressed \cup {None}] /\ open \in [Sessions -> BOOLEAN]
  /\ binds \in [Sessions -> 0..MaxBinds] /\ owned \in [Sessions -> SUBSET Subs]
  /\ byUID \in [Frontends -> [Addressed -> Sessions \cup {None}]]
  /\ natsUp \subseteq Frontends /\ live \subseteq Subs
  /\ topic \in [Subs -> Addressed \cup {None}]
  /\ sent \in Seq([user : Addressed, kind : Kinds])
  /\ pending \in [Subs -> Seq(1..Len(sent))]
  /\ \A f \in Frontends, k \in Kinds : Len(chan[f][k]) <= Buffer
  /\ begun \in 0..MaxCalls /\ troubles \in 0..MaxFaults

(* The numbers of the messages a subscription ought to be given.           *)
Meant(b) ==
  LET last == IF b \in live THEN Len(sent) ELSE until[b]
  IN  SelectSeq([i \in 1..Len(sent) |-> i],
                LAMBDA i : i > since[b] /\ i <= last
                           /\ sent[i] = [user |-> topic[b], kind |-> b[3]])

Numbers(ms, b) ==
  LET mine == SelectSeq(ms, LAMBDA m : m.sub = b)
  IN  [i \in DOMAIN mine |-> mine[i].n]

(* While a subscription is up it loses, repeats and reorders nothing:      *)
(* what the frontend has processed, what waits in the bounded channel and  *)
(* what waits for its callback are, in this order, exactly the messages    *)
(* published to the user's topic in that time, whatever closes, binds      *)
(* again or fails meanwhile.                                               *)
TopicExact ==
  \A b \in Subs :
    handled[b] \o Numbers(chan[Frontend(b)][b[3]], b) \o pending[b] = Meant(b)
=============================================================================
