------------------------------ MODULE Election ------------------------------
(***************************************************************************)
(* The leader election of the servers of one type (runElection, newSession *)
(* and watchLeader in cluster/etcd_service_discovery.go).  Three           *)
(* goroutines of a server report leaders through setLeader: the campaign,  *)
(* the watcher of the election's keys, and Init while it waits for a first *)
(* leader.  setLeader compares with leaderID, assigns it and sends on      *)
(* leaderChan without a lock; a fourth goroutine, started when Init has    *)
(* its leader, stores what it receives in sd.leaderID, the value of        *)
(* LeaderID and IsLeader.                                                  *)
(*                                                                         *)
(* etcd is external: a candidate's key is deleted with its lease, and the  *)
(* oldest key leads.                                                       *)
(***************************************************************************)
EXTENDS Naturals, FiniteSets

CONSTANTS Self,          \* the server whose goroutines are modelled
          Rivals,        \* the other servers of its type
          None,          \* the empty server id
          MaxLeases,     \* bound: leases granted to Self
          MaxRivalKeys,  \* bound: candidacies of the rivals
          MaxFaults,     \* bound: lost keep-alives, broken streams, failed calls, the cancel
          ChanSize       \* the capacity of leaderChan

ElectionConstants ==
  /\ Self \notin Rivals /\ None \notin Rivals \cup {Self}
  /\ MaxLeases \in Nat /\ MaxRivalKeys \in Nat /\ MaxFaults \in Nat /\ ChanSize \in Nat \ {0}

VARIABLES
  keys,      \* the election's keys in etcd: [srv, lease, rev]
  rev,       \* the last revision
  live,      \* leases that live in etcd
  leases,    \* leases granted to Self so far
  rivalKeys, \* candidacies of rivals so far
  faults,    \* faults so far
  at,        \* where the campaign goroutine is
  session,   \* the lease of sd.session
  done,      \* sd.session.Done() is closed
  runs,      \* Campaign calls that have not returned: [lease, rev]; rev 0 before the put
  observed,  \* revision of the leader key Observe delivered last
  leaderID,  \* leaderID of runElection
  call,      \* the setLeader call of each goroutine
  unread,    \* how many values leaderChan holds
  last,      \* the value sent on it last
  closed,    \* leaderChan is closed
  watching,  \* the goroutine of watchLeader
  events,    \* changes the watch has not yet delivered
  waiter,    \* Init, inside runElection
  cancelled, \* the context of the election is cancelled
  panicked   \* a send on the closed leaderChan

etcdVars == <<keys, rev, live, leases, rivalKeys>>
campaignVars == <<at, session, done, runs, observed>>
reportVars == <<leaderID, call, unread, last, closed>>
otherVars == <<watching, events, waiter, cancelled, panicked>>
vars == <<etcdVars, faults, campaignVars, reportVars, otherVars>>

Goroutines == {"campaign", "watch", "wait"}
Idle == [at |-> "idle", id |-> None]
Ids == Rivals \cup {Self, None}
RivalLease == 0

Init ==
  /\ keys = {} /\ rev = 0 /\ live = {} /\ leases = 0 /\ rivalKeys = 0 /\ faults = 0
  /\ at = "off" /\ session = 0 /\ done = FALSE /\ runs = {} /\ observed = 0
  /\ leaderID = None /\ call = [g \in Goroutines |-> Idle]
  /\ unread = 0 /\ last = None /\ closed = FALSE
  /\ watching = "off" /\ events = 0 /\ waiter = "off"
  /\ cancelled = FALSE /\ panicked = FALSE
-----------------------------------------------------------------------------
Fault == faults < MaxFaults /\ faults' = faults + 1
Led == keys # {}
LeaderKey == CHOOSE k \in keys : \A o \in keys : k.rev <= o.rev
Leader == IF Led THEN LeaderKey.srv ELSE None

(* A change of the keys is an event of the watch, if one is open.          *)
Tell == events' = IF watching = "watch" THEN events + 1 ELSE events

(* A lease ends: its key goes with it.                                     *)
Drop(l) ==
  /\ live' = live \ {l} /\ keys' = {k \in keys : k.lease # l}
  /\ IF keys' = keys THEN UNCHANGED events ELSE Tell
  /\ UNCHANGED <<rev, leases, rivalKeys>>

Running == at \notin {"off", "end"} /\ ~panicked
Move(place) == at' = place
(* setLeader up to its send: only a change is reported.  The comparison is *)
(* taken together with the read of etcd that it follows.                   *)
Report(g, id) ==
  IF leaderID = id THEN UNCHANGED <<leaderID, call>>
  ELSE leaderID' = id /\ call' = [call EXCEPT ![g] = [at |-> "send", id |-> id]]
Free(g) == call[g] = Idle

(* newSession with lease l.                                                *)
newSession(l) ==
  /\ session' = l /\ done' = FALSE

(* bootstrap: the first session takes the lease of the server itself.      *)
Bootstrap ==
  /\ at = "off" /\ ~cancelled /\ leases < MaxLeases
  /\ leases' = leases + 1 /\ live' = live \cup {leases + 1}
  /\ newSession(leases + 1)
  /\ Move("find") /\ waiter' = "wait"
  /\ UNCHANGED <<keys, rev, rivalKeys, faults, runs, observed, reportVars, watching, events, cancelled, panicked>>
-----------------------------------------------------------------------------
(* The send of setLeader: leaderChan may be full until bootstrap reads it, *)
(* and may have been closed.                                               *)
Send(g) ==
  /\ call[g].at = "send" /\ ~panicked
  /\ call' = [call EXCEPT ![g] = Idle]
  /\ IF closed
     THEN panicked' = TRUE /\ UNCHANGED <<unread, last>>
     ELSE /\ unread < ChanSize
          /\ unread' = IF waiter = "done" THEN 0 ELSE unread + 1
          /\ last' = call[g].id /\ UNCHANGED panicked
  /\ UNCHANGED <<etcdVars, faults, campaignVars, leaderID, closed, watching, events, waiter, cancelled>>

(* sd.leaderID, when the goroutine of bootstrap has read the channel.      *)
LeaderID == IF waiter = "done" THEN last ELSE None
-----------------------------------------------------------------------------
(* The campaign goroutine.                                                 *)

Ready(place) == Running /\ at = place /\ Free("campaign")

(* Another server leads, or nobody: say so and campaign.                   *)
Find ==
  /\ Ready("find") /\ Leader # Self
  /\ Report("campaign", Leader)
  /\ Move("campaign")
  /\ UNCHANGED <<etcdVars, faults, session, done, runs, observed, unread, last, closed, otherVars>>

ResumeFresh ==
  /\ Ready("find") /\ Leader = Self
  /\ UNCHANGED <<session, done>>
  /\ Report("campaign", Self) /\ Move("observe")
  /\ observed' = 0
  /\ UNCHANGED <<etcdVars, faults, runs, unread, last, closed, otherVars>>

(* Its own key of an earlier session leads: the session takes that lease.  *)
Resume ==
  /\ Ready("find") /\ Leader = Self
  /\ newSession(LeaderKey.lease)
  /\ Report("campaign", Self) /\ Move("observe")
  /\ observed' = 0
  /\ UNCHANGED <<etcdVars, faults, runs, unread, last, closed, otherVars>>

(* Leader or newSession fails.                                             *)
FindFails ==
  /\ Ready("find") /\ (Fault \/ (cancelled /\ UNCHANGED faults))
  /\ Report("campaign", None) /\ Move("reconnect")
  /\ UNCHANGED <<etcdVars, session, done, runs, observed, unread, last, closed, otherVars>>

(* Campaign is called in a goroutine of its own, so that the session's end *)
(* is noticed.                                                             *)
Campaign ==
  /\ Ready("campaign")
  /\ runs' = runs \cup {[lease |-> session, rev |-> 0]}
  /\ Move("wait")
  /\ UNCHANGED <<etcdVars, faults, session, done, observed, reportVars, otherVars>>

(* etcd's Campaign puts a key under the session's lease ...                *)
CampaignPut(r) ==
  /\ at \notin {"off", "end"} /\ ~panicked /\ ~cancelled
  /\ r \in runs /\ r.rev = 0 /\ r.lease \in live
  /\ keys' = keys \cup {[srv |-> Self, lease |-> r.lease, rev |-> rev + 1]}
  /\ rev' = rev + 1 /\ Tell
  /\ runs' = (runs \ {r}) \cup {[r EXCEPT !.rev = rev + 1]}
  /\ UNCHANGED <<live, leases, rivalKeys, faults, at, session, done, observed, reportVars, watching, waiter, cancelled, panicked>>

(* ... and returns when no older key is left, even if its own has gone.    *)
Won(r) == r.rev > 0 /\ \A k \in keys : k.rev >= r.rev

(* The result is sent on errChan, the variable, which by then may be the   *)
(* channel of a later Campaign.                                            *)
CampaignWon(r) ==
  /\ Ready("wait") /\ r \in runs /\ Won(r)
  /\ runs' = runs \ {r}
  /\ observed' = 0
  /\ Report("campaign", Self) /\ Move("observe")
  /\ UNCHANGED <<etcdVars, faults, session, done, unread, last, closed, otherVars>>

(* session.Close and reconnect.                                            *)
CloseSession == Drop(session) /\ done' = TRUE

CampaignFails(r) ==
  /\ Ready("wait") /\ r \in runs /\ ~cancelled
  /\ (r.rev = 0 /\ r.lease \notin live /\ UNCHANGED faults) \/ Fault
  /\ runs' = runs \ {r}
  /\ CloseSession
  /\ Report("campaign", None) /\ Move("reconnect")
  /\ UNCHANGED <<session, observed, unread, last, closed, watching, waiter, cancelled, panicked>>

SessionDoneObserved ==
  /\ Ready("observe") /\ done
  /\ Report("campaign", None) /\ Move("reconnect")
  /\ UNCHANGED <<etcdVars, faults, session, done, runs, observed, unread, last, closed, otherVars>>

(* <-session.Done(): the Campaign call, if any, is left behind.            *)
SessionDone ==
  /\ Ready("wait") \/ Ready("observe")
  /\ done
  /\ Report("campaign", None) /\ Move("reconnect")
  /\ UNCHANGED <<etcdVars, faults, session, done, runs, observed, unread, last, closed, otherVars>>

(* Observe delivers a leader; the break after another one leaves only the  *)
(* select, so the loop goes on observing.                                  *)
Observe ==
  /\ Ready("observe") /\ Led /\ observed # LeaderKey.rev
  /\ observed' = LeaderKey.rev
  /\ Report("campaign", Leader)
  /\ UNCHANGED <<etcdVars, faults, at, session, done, runs, unread, last, closed, otherVars>>

ObserveEnds ==
  /\ Ready("observe") /\ Fault /\ CloseSession
  /\ Report("campaign", None) /\ Move("reconnect")
  /\ UNCHANGED <<session, runs, observed, unread, last, closed, watching, waiter, cancelled, panicked>>

(* reconnect: a session on a lease of its own, and back to the start.      *)
Reconnect ==
  /\ Ready("reconnect") /\ ~cancelled /\ leases < MaxLeases
  /\ leases' = leases + 1 /\ live' = live \cup {leases + 1}
  /\ newSession(leases + 1) /\ Move("find")
  /\ UNCHANGED <<keys, rev, rivalKeys, faults, runs, observed, reportVars, otherVars>>

(* The context is cancelled: resign, which the end of the lease includes,  *)
(* close the session and the channel.                                      *)
CampaignEnds ==
  /\ cancelled
  /\ \/ (Ready("wait") \/ Ready("observe")) /\ CloseSession
     \/ Ready("reconnect") /\ UNCHANGED <<etcdVars, done, events>>
  /\ Move("end") /\ closed' = TRUE
  /\ runs' = {}
  /\ UNCHANGED <<faults, session, observed, leaderID, call, unread, last, watching, waiter, cancelled, panicked>>
-----------------------------------------------------------------------------
(* watchLeader and the wait for the first leader.                          *)

Watch ==
  /\ waiter # "off" /\ watching = "off" /\ ~panicked
  /\ watching' = "watch"
  /\ UNCHANGED <<etcdVars, faults, campaignVars, reportVars, events, waiter, cancelled, panicked>>

(* A response, with all changes so far or some of them: Leader is asked    *)
(* anew.                                                                   *)
WatchEvent ==
  /\ watching = "watch" /\ events > 0 /\ Free("watch") /\ ~panicked
  /\ events' \in 0 .. events - 1
  /\ IF Led /\ ~cancelled THEN Report("watch", Leader) ELSE UNCHANGED <<leaderID, call>>
  /\ UNCHANGED <<etcdVars, faults, campaignVars, unread, last, closed, watching, waiter, cancelled, panicked>>

(* The stream dies; a new one is opened after more than ten attempts, and  *)
(* what happened in between is not asked for.                              *)
WatchDies ==
  /\ watching = "watch" /\ Free("watch") /\ Fault
  /\ watching' = "off" /\ events' = 0
  /\ UNCHANGED <<etcdVars, campaignVars, reportVars, waiter, cancelled, panicked>>

WatchEnds ==
  /\ watching = "watch" /\ cancelled /\ Free("watch")
  /\ watching' = "end" /\ events' = 0
  /\ UNCHANGED <<etcdVars, faults, campaignVars, reportVars, waiter, cancelled, panicked>>

WaitLeader ==
  /\ waiter = "wait" /\ Led /\ ~panicked
  /\ Report("wait", Leader) /\ waiter' = "told"
  /\ UNCHANGED <<etcdVars, faults, campaignVars, unread, last, closed, watching, events, cancelled, panicked>>

WaitReturns ==
  /\ waiter = "told" /\ Free("wait") /\ ~panicked
  /\ waiter' = "done" /\ unread' = 0
  /\ UNCHANGED <<etcdVars, faults, campaignVars, leaderID, call, last, closed, watching, events, cancelled, panicked>>
-----------------------------------------------------------------------------
(* The client of s gives a session up before or after etcd does.           *)
KeepAliveLost ==
  /\ Running /\ ~done /\ ((session \notin live /\ UNCHANGED faults) \/ Fault)
  /\ done' = TRUE
  /\ UNCHANGED <<etcdVars, at, session, runs, observed, reportVars, otherVars>>

Kept == Running /\ ~done

Expire(l) ==
  /\ l \in live /\ ((~(Kept /\ l = session) /\ UNCHANGED faults) \/ Fault) /\ Drop(l)
  /\ UNCHANGED <<campaignVars, reportVars, watching, waiter, cancelled, panicked>>

(* The other candidates of the election come and go.                       *)
RivalPut(r) ==
  /\ Cardinality({k \in keys : k.srv = r}) = 0 /\ rivalKeys < MaxRivalKeys
  /\ keys' = keys \cup {[srv |-> r, lease |-> RivalLease, rev |-> rev + 1]}
  /\ rev' = rev + 1 /\ rivalKeys' = rivalKeys + 1 /\ Tell
  /\ UNCHANGED <<live, leases, faults, campaignVars, reportVars, watching, waiter, cancelled, panicked>>

RivalGone(k) ==
  /\ k \in keys /\ k.lease = RivalLease
  /\ keys' = keys \ {k} /\ Tell
  /\ UNCHANGED <<rev, live, leases, rivalKeys, faults, campaignVars, reportVars, watching, waiter, cancelled, panicked>>

(* BeforeShutdown, once Init has returned.                                 *)
electionCancel ==
  /\ waiter = "done" /\ Fault /\ ~cancelled
  /\ cancelled' = TRUE
  /\ UNCHANGED <<etcdVars, campaignVars, reportVars, watching, events, waiter, panicked>>
-----------------------------------------------------------------------------
CampaignNext ==
  \/ Bootstrap \/ Find \/ Resume \/ Campaign \/ SessionDone
  \/ Observe \/ Reconnect \/ CampaignEnds
  \/ \E r \in runs : CampaignWon(r)

FaultNext ==
  \/ FindFails \/ ObserveEnds \/ WatchDies \/ electionCancel
  \/ \E r \in runs : CampaignFails(r)

WatchNext == Watch \/ WatchEvent \/ WatchEnds
WaitNext == WaitLeader \/ WaitReturns

SetLeaderNext == \E g \in Goroutines : Send(g)

Next ==
  \/ CampaignNext \/ FaultNext \/ WatchNext \/ WaitNext \/ SetLeaderNext \/ KeepAliveLost
  \/ \E r \in runs : CampaignPut(r)
  \/ \E l \in live : Expire(l)
  \/ \E r \in Rivals : RivalPut(r)
  \/ \E k \in keys : RivalGone(k)

Spec == Init /\ [][Next]_vars

(* Every goroutine runs, and a lease nobody keeps alive ends.              *)
Fairness ==
  /\ WF_vars(CampaignNext) /\ WF_vars(\E r \in runs : CampaignPut(r))
  /\ WF_vars(WatchNext) /\ WF_vars(WaitNext)
  /\ \A g \in Goroutines : WF_vars(Send(g))
  /\ WF_vars(session \notin live /\ KeepAliveLost)
  /\ \A l \in 1 .. MaxLeases : WF_vars(~(Kept /\ l = session) /\ Expire(l))

FairSpec == Spec /\ Fairness
-----------------------------------------------------------------------------
(* Every variable holds a value of its kind; a lease has at most one key.  *)
TypeOK ==
  /\ keys \subseteq [srv : {Self}, lease : live, rev : 1 .. rev]
                    \cup [srv : Rivals, lease : {RivalLease}, rev : 1 .. rev]
  /\ \A k, o \in keys : k.rev = o.rev \/ (k.lease = o.lease /\ k.srv = o.srv) => k = o
  /\ live \subseteq 1 .. leases /\ leases \in 0 .. MaxLeases /\ session \in 0 .. leases
  /\ rivalKeys \in 0 .. MaxRivalKeys /\ faults \in 0 .. MaxFaults
  /\ at \in {"off", "find", "campaign", "wait", "observe", "reconnect", "end"}
  /\ \A r \in runs : r.lease \in 1 .. leases /\ r.rev \in 0 .. rev
  /\ leaderID \in Ids /\ last \in Ids /\ unread \in 0 .. ChanSize
  /\ call \in [Goroutines -> [at : {"idle", "send"}, id : Ids]]
  /\ events \in Nat /\ watching \in {"off", "watch", "end"} /\ waiter \in {"off", "wait", "told", "done"}
  /\ {done, closed, cancelled, panicked} \subseteq BOOLEAN

(* A server that the bound on leases, not the code, keeps from going on.   *)
Exhausted == at = "reconnect" /\ leases = MaxLeases
TakesPart == Running /\ ~cancelled /\ ~Exhausted

(* Faults and rivals' moves end, so the election settles: a server that    *)
(* takes part has a key under the session it keeps alive, and when that    *)
(* key leads its campaign goroutine knows.  Sessions that were lost,       *)
(* streams that broke and campaigns left behind do not keep it from        *)
(* campaigning again.  This needs ChanSize to exceed the leaders reported  *)
(* before runElection returns, as nobody reads leaderChan until then.      *)
Campaigns ==
  <>[](TakesPart => /\ ~done /\ \E k \in keys : k.srv = Self /\ k.lease = session
                    /\ Leader = Self => at = "observe")

(* What the comment in watchLeader says of the watching's and the           *)
(* campaign's calls of setLeader, that they do not influence the result:   *)
(* once faults have ended, LeaderID of every server that takes part is the *)
(* server that leads in etcd.                                              *)
LeaderKnown == <>[](TakesPart /\ waiter = "done" => LeaderID = Leader)
=============================================================================
