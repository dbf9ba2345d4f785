----------------------------- MODULE EtcdGroups -----------------------------
(***************************************************************************)
(* The group service of groups/etcd_group_service.go: a group is a key,    *)
(* each member a key below it, and the TTL of a group is an etcd lease     *)
(* that its key and its members' keys share.  Most operations are one      *)
(* transaction.  GroupCreateWithTTL first grants the lease, and            *)
(* GroupAddMember first reads the lease of the group: other servers and    *)
(* lease expiry come between the two steps.                                *)
(***************************************************************************)
CONSTANTS Names,      \* group names
          Users,      \* user ids
          Leases,     \* lease ids, granted once each
          NoLease,    \* the lease of a key without lease
          Missing,    \* no such key
          Callers,    \* goroutines, of any server, that call the service
          None,       \* no call
          DeleteDuringAdd  \* may GroupDelete run while a member is added?

ASSUME EtcdGroupsAssumption ==
  /\ NoLease \notin Leases /\ Missing \notin Leases \cup {NoLease}
  /\ None \notin [op : {"add"}, n : Names, u : Users, lease : Leases \cup {NoLease}]
  /\ None \notin [op : {"create"}, n : Names, lease : Leases]
  /\ Missing \notin [ttl : BOOLEAN, uids : SUBSET Users]
  /\ DeleteDuringAdd \in BOOLEAN

VARIABLES
  group,    \* the lease of the key groups/<name>
  member,   \* the lease of the key groups/<name>/uids/<uid>
  granted,  \* leases ever granted
  alive,    \* leases that have not expired
  call      \* the call each caller is in the middle of

vars == <<group, member, granted, alive, call>>

Lease == Leases \cup {NoLease}
Call == [op : {"add"}, n : Names, u : Users, lease : Lease]
          \cup [op : {"create"}, n : Names, lease : Leases]
Exists(n) == group[n] # Missing

Init ==
  /\ group = [n \in Names |-> Missing]
  /\ member = [n \in Names |-> [u \in Users |-> Missing]]
  /\ granted = {} /\ alive = {}
  /\ call = [c \in Callers |-> None]

(* A put under a lease fails if the lease has expired.                     *)
Usable(l) == l = NoLease \/ l \in alive
NoMembers == [u \in Users |-> Missing]
-----------------------------------------------------------------------------
GroupCreateOverwrites(n) ==
  /\ group' = [group EXCEPT ![n] = NoLease]
  /\ UNCHANGED <<member, granted, alive, call>>

(* createGroup without a lease.                                            *)
GroupCreate(n) ==
  /\ ~Exists(n)
  /\ group' = [group EXCEPT ![n] = NoLease]
  /\ UNCHANGED <<member, granted, alive, call>>

(* GroupCreateWithTTL grants a lease and then creates the group under it.  *)
Grant(c, n) ==
  /\ call[c] = None
  /\ \E l \in Leases \ granted :
       /\ granted' = granted \cup {l} /\ alive' = alive \cup {l}
       /\ call' = [call EXCEPT ![c] = [op |-> "create", n |-> n, lease |-> l]]
  /\ UNCHANGED <<group, member>>

CreateUnder(c) ==
  /\ call[c] # None /\ call[c].op = "create"
  /\ group' = IF ~Exists(call[c].n) /\ Usable(call[c].lease)
              THEN [group EXCEPT ![call[c].n] = call[c].lease] ELSE group
  /\ call' = [call EXCEPT ![c] = None]
  /\ UNCHANGED <<member, granted, alive>>

ReadLeaseUnchecked(c, n, u) ==
  /\ call[c] = None
  /\ call' = [call EXCEPT ![c] = [op |-> "add", n |-> n, u |-> u, lease |-> group[n]]]
  /\ UNCHANGED <<group, member, granted, alive>>

(* GroupAddMember reads the group's lease and then puts the member.        *)
ReadLease(c, n, u) ==
  /\ call[c] = None /\ Exists(n)
  /\ call' = [call EXCEPT ![c] = [op |-> "add", n |-> n, u |-> u, lease |-> group[n]]]
  /\ UNCHANGED <<group, member, granted, alive>>

PutMemberUnleased(c) ==
  LET n == call[c].n  u == call[c].u
  IN  /\ call[c] # None /\ call[c].op = "add"
      /\ member' = IF Exists(n) /\ member[n][u] = Missing
                   THEN [member EXCEPT ![n][u] = NoLease] ELSE member
      /\ call' = [call EXCEPT ![c] = None]
      /\ UNCHANGED <<group, granted, alive>>

PutMember(c) ==
  LET n == call[c].n  u == call[c].u
  IN  /\ call[c] # None /\ call[c].op = "add"
      /\ member' = IF Exists(n) /\ member[n][u] = Missing /\ Usable(call[c].lease)
                   THEN [member EXCEPT ![n][u] = call[c].lease] ELSE member
      /\ call' = [call EXCEPT ![c] = None]
      /\ UNCHANGED <<group, granted, alive>>
-----------------------------------------------------------------------------
GroupRemoveMember(n, u) ==
  /\ member[n][u] # Missing
  /\ member' = [member EXCEPT ![n][u] = Missing]
  /\ UNCHANGED <<group, granted, alive, call>>

GroupRemoveAll(n) ==
  /\ Exists(n)
  /\ member' = [member EXCEPT ![n] = NoMembers]
  /\ UNCHANGED <<group, granted, alive, call>>

Adding(n) == \E c \in Callers : call[c] # None /\ call[c].op = "add" /\ call[c].n = n

(* The members and the group's key go in one transaction; the lease is not *)
(* revoked.                                                                *)
GroupDelete(n) ==
  /\ Exists(n)
  /\ DeleteDuringAdd \/ ~Adding(n)
  /\ group' = [group EXCEPT ![n] = Missing]
  /\ member' = [member EXCEPT ![n] = NoMembers]
  /\ UNCHANGED <<granted, alive, call>>

(* etcd drops an expired lease with all its keys; GroupRenewTTL delays it. *)
Expire(l) ==
  /\ l \in alive
  /\ alive' = alive \ {l}
  /\ group' = [n \in Names |-> IF group[n] = l THEN Missing ELSE group[n]]
  /\ member' = [n \in Names |-> [u \in Users |->
                  IF member[n][u] = l THEN Missing ELSE member[n][u]]]
  /\ UNCHANGED <<granted, call>>
-----------------------------------------------------------------------------
Next ==
  \/ \E n \in Names :
       \/ GroupCreate(n) \/ GroupRemoveAll(n) \/ GroupDelete(n)
       \/ \E u \in Users : GroupRemoveMember(n, u)
  \/ \E c \in Callers :
       \/ CreateUnder(c) \/ PutMember(c)
       \/ \E n \in Names : Grant(c, n) \/ \E u \in Users : ReadLease(c, n, u)
  \/ \E l \in Leases : Expire(l)

Spec == Init /\ [][Next]_vars
-----------------------------------------------------------------------------
(* Keys carry leases that were granted, and live ones while they exist.    *)
TypeOK ==
  /\ group \in [Names -> Lease \cup {Missing}]
  /\ member \in [Names -> [Users -> Lease \cup {Missing}]]
  /\ alive \subseteq granted /\ granted \subseteq Leases
  /\ call \in [Callers -> Call \cup {None}]
  /\ \A n \in Names : Exists(n) => Usable(group[n])

(* A member's key exists only below a group that exists and shares the     *)
(* group's lease, although GroupAddMember read that lease in an earlier    *)
(* step: no member outlives its group into the next group of that name,    *)
(* and none expires before it.                                             *)
LeasesAgree ==
  \A n \in Names, u \in Users : member[n][u] # Missing => member[n][u] = group[n]

(* A group as the memory service has it: the users that have a member key. *)
abstract ==
  [n \in Names |-> IF Exists(n)
                   THEN [ttl |-> group[n] # NoLease,
                         uids |-> {u \in Users : member[n][u] # Missing}]
                   ELSE Missing]

Memory == INSTANCE Groups WITH groups <- abstract

(* The etcd service does what the memory service does.                     *)
ImplementsMemory == Memory!Spec

=============================================================================
