----------------------------- MODULE NatsTopics -----------------------------
(***************************************************************************)
(* Publishing over NATS topics: the servers' start, which subscribes to    *)
(* their own topics and to those asked for before there was a connection;  *)
(* Subscribe, with or without a queue group; and the client's Publish,     *)
(* which gathers a given number of answers, and Fork.                      *)
(***************************************************************************)
EXTENDS Integers, Sequences, FiniteSets, SequencesExt, FiniteSetsExt

CONSTANTS
  Servers,       \* servers of one type
  Topics,        \* topics given to Subscribe and Publish
  Fork,          \* the topic of the servers' type
  Groups,        \* queue groups
  NoGroup,
  Publications,  \* calls of Publish and Fork
  MaxObservers,  \* bound: the observersCount of a call
  MaxFaults      \* bound: calls of NATS that fail

NoResponders == "no responders"
AllTopics == Topics \cup {Fork}
NoCall == [topic |-> Fork, group |-> NoGroup, to |-> "nothing"]

VARIABLES
  serverAt,      \* how far Init of each server is
  prepare,       \* preparePubSubTopics: topic to group
  todo,          \* prepared topics that Init has still to subscribe to
  subscribing,   \* the call of Subscribe of each server
  publishSubs,   \* topics each server has noted a subscription for
  subs,          \* subscriptions at NATS: groups, by server and topic
  clientAt,      \* the client: off, connecting, up or failed
  pub,           \* the calls of Publish and Fork
  replies,       \* messages on the reply subject of each call
  undelivered,   \* messages in the channel of each server
  handled,       \* how often each server has handled each call
  natsFaults

serverVars == <<serverAt, prepare, todo, subscribing, publishSubs, subs>>
clientVars == <<clientAt, pub, replies>>
ntVars == <<serverVars, clientVars, undelivered, handled, natsFaults>>

Init ==
  /\ serverAt = [s \in Servers |-> "new"]
  /\ prepare = [s \in Servers |-> <<>>] /\ todo = [s \in Servers |-> {}]
  /\ subscribing = [s \in Servers |-> NoCall]
  /\ publishSubs = [s \in Servers |-> {}]
  /\ subs = [s \in Servers |-> [t \in AllTopics |-> <<>>]]
  /\ clientAt = "off"
  /\ pub = [p \in Publications |->
              [at |-> "idle", topic |-> Fork, reply |-> FALSE, count |-> 0,
               responses |-> <<>>, err |-> FALSE]]
  /\ replies = [p \in Publications |-> <<>>]
  /\ undelivered = [s \in Servers |-> [p \in Publications |-> 0]]
  /\ handled = [s \in Servers |-> [p \in Publications |-> 0]]
  /\ natsFaults = 0

Fault == natsFaults < MaxFaults /\ natsFaults' = natsFaults + 1
-----------------------------------------------------------------------------
(* Init of the server: connect, subscribe to the server's own topic and to *)
(* the topic of its type, then to every prepared topic, then to bindings.  *)
Connect(s) ==
  /\ serverAt[s] = "new"
  /\ serverAt' = [serverAt EXCEPT ![s] = "connected"]
  /\ UNCHANGED <<prepare, todo, subscribing, publishSubs, subs, clientVars, undelivered,
                 handled, natsFaults>>

Joined(s, t, g) == subs' = [subs EXCEPT ![s][t] = Append(@, g)]

SubscribeFork(s) ==
  /\ serverAt[s] = "connected"
  /\ serverAt' = [serverAt EXCEPT ![s] = "preparing"]
  /\ Joined(s, Fork, NoGroup)
  /\ todo' = [todo EXCEPT ![s] = DOMAIN prepare[s]]
  /\ UNCHANGED <<prepare, subscribing, publishSubs, clientVars, undelivered, handled,
                 natsFaults>>

SubscribePrepared(s) ==
  /\ serverAt[s] = "preparing"
  /\ \E t \in todo[s] :
       /\ Joined(s, t, prepare[s][t])
       /\ publishSubs' = [publishSubs EXCEPT ![s] = @ \cup {t}]
       /\ todo' = [todo EXCEPT ![s] = @ \ {t}]
  /\ UNCHANGED <<serverAt, prepare, subscribing, clientVars, undelivered, handled,
                 natsFaults>>

subscribeToBindingsChannel(s) ==
  /\ serverAt[s] = "preparing" /\ todo[s] = {}
  /\ serverAt' = [serverAt EXCEPT ![s] = "up"]
  /\ UNCHANGED <<prepare, todo, subscribing, publishSubs, subs, clientVars, undelivered,
                 handled, natsFaults>>

(* The process ends: a step of Init failed, handleMessages read the map of *)
(* subscriptions while Init wrote it, or the server was stopped.           *)
Gone(s) ==
  /\ serverAt' = [serverAt EXCEPT ![s] = "gone"]
  /\ subs' = [subs EXCEPT ![s] = [t \in AllTopics |-> <<>>]]
  /\ undelivered' = [undelivered EXCEPT ![s] = [p \in Publications |-> 0]]
  /\ subscribing' = [subscribing EXCEPT ![s] = NoCall]
  /\ UNCHANGED <<prepare, todo, publishSubs, clientVars, handled>>

InitFails(s) ==
  /\ serverAt[s] \in {"new", "connected", "preparing"}
  /\ Fault /\ Gone(s)

MapRace(s) ==
  /\ serverAt[s] = "preparing" /\ todo[s] # {}
  /\ \E p \in Publications : undelivered[s][p] > 0
  /\ Gone(s) /\ UNCHANGED natsFaults

Stop(s) ==
  /\ serverAt[s] = "up"
  /\ Fault /\ Gone(s)
-----------------------------------------------------------------------------
(* Subscribe: a topic already noted or prepared is left alone; without a   *)
(* connection it is prepared.  What it decides on is not locked.           *)
Running(s) == serverAt[s] # "gone"
SubscribeTo(s, t) == IF serverAt[s] = "new" THEN "prepare" ELSE "join"

SubscribeAgain(s) ==
  /\ Running(s) /\ subscribing[s] = NoCall
  /\ \E t \in Topics, g \in Groups \cup {NoGroup} :
       /\ t \notin publishSubs[s]
       /\ subscribing' = [subscribing EXCEPT ![s] =
                            [topic |-> t, group |-> g, to |-> SubscribeTo(s, t)]]
  /\ UNCHANGED <<serverAt, prepare, todo, publishSubs, subs, clientVars, undelivered,
                 handled, natsFaults>>

Subscribe(s) ==
  /\ Running(s) /\ subscribing[s] = NoCall
  /\ \E t \in Topics, g \in Groups \cup {NoGroup} :
       /\ t \notin publishSubs[s] \cup DOMAIN prepare[s]
       /\ subscribing' = [subscribing EXCEPT ![s] =
                            [topic |-> t, group |-> g, to |-> SubscribeTo(s, t)]]
  /\ UNCHANGED <<serverAt, prepare, todo, publishSubs, subs, clientVars, undelivered,
                 handled, natsFaults>>

Prepared(s) ==
  /\ subscribing[s].to = "prepare"
  /\ prepare' = [prepare EXCEPT ![s] =
       [t \in DOMAIN @ \cup {subscribing[s].topic} |->
          IF t = subscribing[s].topic THEN subscribing[s].group ELSE @[t]]]
  /\ subscribing' = [subscribing EXCEPT ![s] = NoCall]
  /\ UNCHANGED <<serverAt, todo, publishSubs, subs, clientVars, undelivered, handled,
                 natsFaults>>

Subscribed(s) ==
  /\ subscribing[s].to = "join"
  /\ \/ /\ Joined(s, subscribing[s].topic, subscribing[s].group)
        /\ publishSubs' = [publishSubs EXCEPT ![s] = @ \cup {subscribing[s].topic}]
        /\ UNCHANGED natsFaults
     \/ Fault /\ UNCHANGED <<subs, publishSubs>>
  /\ subscribing' = [subscribing EXCEPT ![s] = NoCall]
  /\ UNCHANGED <<serverAt, prepare, todo, clientVars, undelivered, handled>>
-----------------------------------------------------------------------------
(* The client's Init says it is running before it has a connection.        *)
ClientInit ==
  /\ \/ clientAt = "off" /\ clientAt' = "connecting" /\ UNCHANGED natsFaults
     \/ clientAt = "connecting" /\ clientAt' = "up" /\ UNCHANGED natsFaults
     \/ clientAt = "connecting" /\ Fault /\ clientAt' = "failed"
  /\ UNCHANGED <<serverVars, pub, replies, undelivered, handled>>

(* Who gets a message: every subscription without a group, and one of each *)
(* queue group.                                                            *)
Places(t) == {<<s, i>> \in Servers \X (1..2) : i <= Len(subs[s][t])}
GroupAt(t, at) == subs[at[1]][t][at[2]]
Receivers(t) ==
  {R \in SUBSET Places(t) : \A at \in Places(t) :
     IF GroupAt(t, at) = NoGroup THEN at \in R
     ELSE Cardinality({o \in R : GroupAt(t, o) = GroupAt(t, at)}) = 1}

PublishAt(p, t) ==
  \E R \in Receivers(t) :
    /\ undelivered' = [s \in Servers |->
         [undelivered[s] EXCEPT ![p] = @ + Cardinality({at \in R : at[1] = s})]]
    /\ replies' = [replies EXCEPT ![p] = IF R = {} THEN <<NoResponders>> ELSE <<>>]

Refuse(p) ==
  /\ pub' = [pub EXCEPT ![p].at = "done", ![p].err = TRUE]
  /\ UNCHANGED <<serverVars, clientAt, replies, undelivered, handled>>

(* Publish: refused without a connection.  A notification is sent and      *)
(* forgotten; otherwise the reply subject is subscribed to before the      *)
(* message goes out, and count answers are awaited.                        *)
Publish(p, t, n) ==
  /\ pub[p].at = "idle"
  /\ IF clientAt # "up" THEN Refuse(p) /\ UNCHANGED natsFaults
     ELSE \/ Fault /\ Refuse(p)
          \/ /\ PublishAt(p, t)
             /\ pub' = [pub EXCEPT ![p] =
                  [@ EXCEPT !.at = IF n = 0 THEN "done" ELSE "waiting",
                            !.topic = t, !.reply = TRUE, !.count = n]]
             /\ UNCHANGED <<serverVars, clientAt, handled, natsFaults>>

ForkOrNotify(p, t) ==
  /\ pub[p].at = "idle"
  /\ IF clientAt # "up" THEN Refuse(p) /\ UNCHANGED natsFaults
     ELSE \/ Fault /\ Refuse(p)
          \/ /\ PublishAt(p, t)
             /\ pub' = [pub EXCEPT ![p].at = "done", ![p].topic = t]
             /\ UNCHANGED <<serverVars, clientAt, handled, natsFaults>>

(* The loop of Publish: an answer, or that there is nobody to answer, ...  *)
Gather(p) ==
  /\ pub[p].at = "waiting" /\ replies[p] # <<>>
  /\ IF Head(replies[p]) = NoResponders THEN pub' = [pub EXCEPT ![p].at = "done"]
     ELSE LET got == Append(pub[p].responses, Head(replies[p])) IN
          pub' = [pub EXCEPT ![p].responses = got,
                             ![p].at = IF Len(got) = pub[p].count THEN "done" ELSE @]
  /\ replies' = [replies EXCEPT ![p] = Tail(@)]
  /\ UNCHANGED <<serverVars, clientAt, undelivered, handled, natsFaults>>

(* ... or no answer within the time for one.                               *)
TimesOutQuietly(p) ==
  /\ pub[p].at = "waiting" /\ replies[p] = <<>>
  /\ pub' = [pub EXCEPT ![p].at = "done"]
  /\ UNCHANGED <<serverVars, clientAt, replies, undelivered, handled, natsFaults>>

TimesOut(p) ==
  /\ pub[p].at = "waiting" /\ replies[p] = <<>>
  /\ pub' = [pub EXCEPT ![p].at = "done", ![p].err = TRUE]
  /\ UNCHANGED <<serverVars, clientAt, replies, undelivered, handled, natsFaults>>

(* A server takes a message and, if asked to, answers; an answer to a call *)
(* that is over finds no subscription.                                     *)
Handle(s, p) ==
  /\ undelivered[s][p] > 0
  /\ undelivered' = [undelivered EXCEPT ![s][p] = @ - 1]
  /\ handled' = [handled EXCEPT ![s][p] = @ + 1]
  /\ replies' = [replies EXCEPT ![p] =
       IF pub[p].reply /\ pub[p].at = "waiting" THEN Append(@, s) ELSE @]
  /\ UNCHANGED <<serverVars, clientAt, pub, natsFaults>>
-----------------------------------------------------------------------------
Next ==
  \/ ClientInit
  \/ \E s \in Servers :
       \/ Connect(s) \/ SubscribeFork(s) \/ SubscribePrepared(s)
       \/ subscribeToBindingsChannel(s) \/ InitFails(s) \/ MapRace(s) \/ Stop(s)
       \/ Subscribe(s) \/ Prepared(s) \/ Subscribed(s)
       \/ \E p \in Publications : Handle(s, p)
  \/ \E p \in Publications :
       \/ \E t \in Topics, n \in 0..MaxObservers : Publish(p, t, n)
       \/ \E t \in AllTopics : ForkOrNotify(p, t)
       \/ Gather(p) \/ TimesOut(p)

Spec == Init /\ [][Next]_ntVars
-----------------------------------------------------------------------------
(* What is published is handled at most once by each server and by each    *)
(* queue group, however Subscribe and Init interleave; and Publish that    *)
(* reports success has as many answers as it was told to expect, each from *)
(* another server, or found nobody subscribed.                             *)
InGroup(t, g) == {s \in Servers : Contains(subs[s][t], g)}
PublishedOnce ==
  \A p \in Publications :
    /\ \A s \in Servers : handled[s][p] <= 1
    /\ \A g \in Groups :
         MapThenSumSet(LAMBDA s : handled[s][p], InGroup(pub[p].topic, g)) <= 1
    /\ pub[p].at = "done" /\ ~pub[p].err /\ pub[p].reply =>
         /\ Len(pub[p].responses) \in {0, pub[p].count}
         /\ IsInjective(pub[p].responses)
=============================================================================
