---------------------------- MODULE BindingStorage --------------------------
(***************************************************************************)
(* ETCDBindingStorage: the frontends of one type record in etcd, under one *)
(* key per user, the frontend the user is bound to, so that servers that   *)
(* use gRPC can find it.  A key is attached to the lease of the frontend   *)
(* that put it.  The user, of whom there is one, moves between frontends.  *)
(***************************************************************************)
EXTENDS Naturals, FiniteSets

CONSTANTS Frontends,
          NoBinding,
          MaxBinds,     \* bound on the binds of a behaviour
          MaxGrants,    \* bound on the leases a frontend is granted
          MaxRefusals   \* bound on etcd calls that fail

BindingConstants ==
  /\ IsFiniteSet(Frontends) /\ NoBinding \notin Frontends \X Nat
  /\ MaxBinds \in Nat /\ MaxGrants \in Nat /\ MaxRefusals \in Nat

VARIABLES
  user,      \* the user's session at each frontend
  putting,   \* frontends whose callback after a bind has yet to run
  key,       \* the user's key: frontend and lease, or NoBinding
  leaseID,   \* the lease each frontend's module uses
  alive,     \* leases that etcd has not ended: <<frontend, number>>
  watchLease,\* watchLeaseChan of each frontend
  binds, refusals

bsVars == <<user, putting, key, leaseID, alive, watchLease, binds, refusals>>

Init ==
  /\ user = [f \in Frontends |-> "none"] /\ putting = {} /\ key = NoBinding
  /\ leaseID = [f \in Frontends |-> 1] /\ alive = Frontends \X {1}
  /\ watchLease = [f \in Frontends |-> "watching"]
  /\ binds = 0 /\ refusals = 0

Up(f) == watchLease[f] \in {"watching", "lost"}
-----------------------------------------------------------------------------
(* A session of the user is bound at f.  Before the callbacks that follow  *)
(* a bind, the frontend tells the others, where UniqueSession kicks.       *)
BindUser(f) ==
  /\ Up(f) /\ user[f] = "none" /\ f \notin putting /\ binds < MaxBinds
  /\ binds' = binds + 1 /\ putting' = putting \cup {f}
  /\ user' = [g \in Frontends |-> IF g = f THEN "bound"
                                  ELSE IF user[g] = "bound" THEN "kicking" ELSE user[g]]
  /\ UNCHANGED <<key, leaseID, alive, watchLease, refusals>>

(* setupOnAfterSessionBindCB: whatever became of the session by then; the  *)
(* error of the callback is ignored.                                       *)
PutBinding(f) ==
  /\ f \in putting /\ putting' = putting \ {f}
  /\ \/ /\ <<f, leaseID[f]>> \in alive
        /\ key' = <<f, leaseID[f]>> /\ UNCHANGED refusals
     \/ <<f, leaseID[f]>> \notin alive /\ UNCHANGED <<key, refusals>>
     \/ refusals < MaxRefusals /\ refusals' = refusals + 1 /\ UNCHANGED key
  /\ UNCHANGED <<user, leaseID, alive, watchLease, binds>>

(* The notification arrives: the old session is kicked for a rebind, which *)
(* the close callback leaves alone.                                        *)
KickRebind(f) ==
  /\ user[f] = "kicking"
  /\ user' = [user EXCEPT ![f] = "none"]
  /\ UNCHANGED <<putting, key, leaseID, alive, watchLease, binds, refusals>>

(* setupOnSessionCloseCB: the connection ended for any other reason, before *)
(* the notification came or without one.                                   *)
CloseSession(f) ==
  /\ user[f] \in {"bound", "kicking"}
  /\ user' = [user EXCEPT ![f] = "none"]
  /\ \/ key' = NoBinding /\ UNCHANGED refusals
     \/ refusals < MaxRefusals /\ refusals' = refusals + 1 /\ UNCHANGED key
  /\ UNCHANGED <<putting, leaseID, alive, watchLease, binds>>
-----------------------------------------------------------------------------
Revoked(f) ==
  /\ alive' = {l \in alive : l[1] # f}
  /\ key' = IF key # NoBinding /\ key[1] = f THEN NoBinding ELSE key

(* The lease ends: with it go the keys put under it.                       *)
LeaseEnds(f) ==
  /\ <<f, leaseID[f]>> \in alive /\ leaseID[f] < MaxGrants /\ Up(f)
  /\ Revoked(f)
  /\ UNCHANGED <<user, putting, leaseID, watchLease, binds, refusals>>

(* watchLeaseChan: the keepalive channel is closed.                        *)
KeepAliveEnds(f) ==
  /\ watchLease[f] = "watching" /\ <<f, leaseID[f]>> \notin alive
  /\ watchLease' = [watchLease EXCEPT ![f] = "lost"]
  /\ UNCHANGED <<user, putting, key, leaseID, alive, binds, refusals>>

bootstrapOnce(f) ==
  /\ watchLease[f] = "lost"
  /\ \/ /\ leaseID' = [leaseID EXCEPT ![f] = @ + 1]
        /\ alive' = alive \cup {<<f, leaseID[f] + 1>>}
        /\ watchLease' = [watchLease EXCEPT ![f] = "watching"] /\ UNCHANGED refusals
     \/ /\ refusals < MaxRefusals /\ refusals' = refusals + 1
        /\ watchLease' = [watchLease EXCEPT ![f] = "ended"] /\ UNCHANGED <<leaseID, alive>>
  /\ UNCHANGED <<user, putting, key, binds>>

(* bootstrapLease, retried until it succeeds: a new lease, and a new       *)
(* watchLeaseChan; nothing is put again.                                   *)
bootstrapLease(f) ==
  /\ watchLease[f] = "lost"
  /\ \/ /\ leaseID' = [leaseID EXCEPT ![f] = @ + 1]
        /\ alive' = alive \cup {<<f, leaseID[f] + 1>>}
        /\ watchLease' = [watchLease EXCEPT ![f] = "watching"] /\ UNCHANGED refusals
     \/ /\ refusals < MaxRefusals /\ refusals' = refusals + 1
        /\ UNCHANGED <<watchLease, leaseID, alive>>
  /\ UNCHANGED <<user, putting, key, binds>>

(* Shutdown, or a crash: nobody keeps the lease alive any more, and the    *)
(* sessions are gone with their process.                                   *)
Stop(f) ==
  /\ Up(f)
  /\ watchLease' = [watchLease EXCEPT ![f] = "stopped"]
  /\ user' = [user EXCEPT ![f] = "none"] /\ putting' = putting \ {f}
  /\ UNCHANGED <<key, leaseID, alive, binds, refusals>>

LeaseExpires(f) ==
  /\ watchLease[f] = "stopped" /\ <<f, leaseID[f]>> \in alive
  /\ Revoked(f)
  /\ UNCHANGED <<user, putting, leaseID, watchLease, binds, refusals>>
-----------------------------------------------------------------------------
Next == \E f \in Frontends : \/ BindUser(f) \/ PutBinding(f) \/ KickRebind(f) \/ CloseSession(f)
                             \/ LeaseEnds(f) \/ KeepAliveEnds(f) \/ bootstrapLease(f)
                             \/ Stop(f) \/ LeaseExpires(f)

Spec == Init /\ [][Next]_bsVars

LeaseStep(f) == KeepAliveEnds(f) \/ bootstrapLease(f) \/ LeaseExpires(f)

(* The goroutine of a module runs, etcd ends leases nobody keeps alive, and *)
(* what was called returns.                                                *)
Fairness == \A f \in Frontends : /\ WF_bsVars(LeaseStep(f))
                                 /\ WF_bsVars(PutBinding(f)) /\ WF_bsVars(KickRebind(f))

FairSpec == Spec /\ Fairness
-----------------------------------------------------------------------------
(* Every variable holds a value of its kind; a key is attached to a lease  *)
(* that its frontend was granted and that has not ended.                   *)
TypeOK ==
  /\ user \in [Frontends -> {"none", "bound", "kicking"}] /\ putting \subseteq Frontends
  /\ key = NoBinding \/ key \in alive
  /\ watchLease \in [Frontends -> {"watching", "lost", "stopped"}]
  /\ binds \in 0 .. MaxBinds /\ refusals \in 0 .. MaxRefusals
  /\ leaseID \in [Frontends -> 1 .. MaxGrants]

(* A frontend whose lease ended gets a new one, through failing calls as   *)
(* well, and a frontend that stopped is eventually named by no key.        *)
LeaseRegained ==
  \A f \in Frontends :
    /\ watchLease[f] = "lost" ~> watchLease[f] \in {"watching", "stopped"}
    /\ watchLease[f] = "stopped" ~> (key = NoBinding \/ key[1] # f)

(* GetUserFrontendID "gets the id of the frontend server a user is         *)
(* connected to": while no call is under way, no etcd call failed and no   *)
(* lease ended, a user who is bound at one frontend is found there.        *)
BindingTrue ==
  putting = {} /\ refusals = 0 /\ alive = Frontends \X {1} =>
    \A f \in Frontends : {g \in Frontends : user[g] # "none"} = {f} => key # NoBinding /\ key[1] = f
=============================================================================
