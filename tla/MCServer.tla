------------------------------ MODULE MCServer ------------------------------
(* The parts of a server process that etcd drives, each by itself: its     *)
(* registration and life (Lifecycle), its configuration (ConfigWatch), the *)
(* election of a leader (Election).  `which' is the part that moves in a   *)
(* behaviour, the others stay in their initial state.  Fairness is each    *)
(* part's own.                                                             *)
EXTENDS Lifecycle

CONSTANTS None, Absent, Bad, Default, Own, Others, MaxChanges, MaxErrors, MaxPanics,
          Self, Rivals, MaxRivalKeys, MaxFaults, ChanSize

VARIABLES
  which,
  remote, store, lastDoc, loaders, object, inited, watchAt, todo, snapshot, updates, stopping, missed,
  lateReload, budget,
  keys, rev, live, leases, rivalKeys, faults, at, session, done, runs, observed, leaderID, call, unread,
  last, closed, watching, events, waiter, cancelled, panicked

configVars == <<remote, store, lastDoc, loaders, object, inited, watchAt, todo, snapshot, updates,
                stopping, missed, lateReload, budget>>
electVars == <<keys, rev, live, leases, rivalKeys, faults, at, session, done, runs, observed, leaderID,
               call, unread, last, closed, watching, events, waiter, cancelled, panicked>>

MCUserModules == <<"bindings">>
Fields == {"a", "b"}
Documents == {[a |-> "1", b |-> "1"], [a |-> Absent, b |-> "1"], [a |-> "1", b |-> Bad]}
Given == [f \in {} |-> Absent]

C == INSTANCE ConfigWatch WITH Pointers <- {"a"}, last <- lastDoc
E == INSTANCE Election

ASSUME ServerConstants == C!ConfigConstants /\ E!ElectionConstants

MCInit ==
  /\ which \in {"life", "config", "election"}
  /\ Init /\ C!Init /\ E!Init
  /\ which # "config" => remote = [f \in Fields |-> "1"]

MCNext ==
  \/ which = "life" /\ Next /\ UNCHANGED <<which, configVars, electVars>>
  \/ which = "config" /\ C!Next /\ UNCHANGED <<which, vars, electVars>>
  \/ which = "election" /\ E!Next /\ UNCHANGED <<which, vars, configVars>>

(* The fairness of Lifecycle, ConfigWatch and Election, each while its     *)
(* part is the one that moves.                                             *)
MCFairness ==
  /\ WF_vars(which = "life" /\ (Start \/ InitModule \/ Started \/ SdGrant \/ SdBootstrap))
  /\ WF_vars(which = "life" /\ DieClosed) /\ WF_vars(which = "life" /\ DrainEnd) /\ WF_vars(which = "life" /\ SignalClose)
  /\ WF_vars(which = "life" /\ (CloseAll \/ Revoke \/ ShutdownModule \/ Stopped))
  /\ \A l \in Leases : /\ WF_vars(which = "life" /\ WatchLost(l)) /\ WF_vars(which = "life" /\ DieReceived(l))
                       /\ WF_vars(which = "life" /\ (RenewPut(l) \/ RenewFails(l))) /\ WF_vars(which = "life" /\ ~Running /\ Expire(l))
  /\ WF_configVars(which = "config" /\ C!superviseWatch) /\ WF_configVars(which = "config" /\ C!RemoteUpdate) /\ WF_configVars(which = "config" /\ C!StopReturns)
  /\ WF_electVars(which = "election" /\ E!CampaignNext)
  /\ WF_electVars(which = "election" /\ \E r \in runs : E!CampaignPut(r))
  /\ WF_electVars(which = "election" /\ E!WatchNext) /\ WF_electVars(which = "election" /\ E!WaitNext)
  /\ \A g \in E!Goroutines : WF_electVars(which = "election" /\ E!Send(g))
  /\ WF_electVars(which = "election" /\ session \notin live /\ E!KeepAliveLost)
  /\ \A l \in Leases : WF_electVars(which = "election" /\ ~(E!Kept /\ l = session) /\ E!Expire(l))

MCSpec == MCInit /\ [][MCNext]_<<which, vars, configVars, electVars>> /\ MCFairness
-----------------------------------------------------------------------------
(* ConfigWatch: loaders see whole documents, and none after the stop.      *)
ReloadsSound == C!ReloadsSound

(* ConfigWatch: every loader is brought up to the remote document.         *)
ConfigConverges == C!Converges

(* Election: a server that takes part goes on campaigning.                 *)
Campaigns == which = "election" => E!Campaigns
=============================================================================
