------------------------------- MODULE Groups -------------------------------
(***************************************************************************)
(* What a group service promises, as groups/memory_group_service.go does   *)
(* it: every operation is one critical section over a map of groups, and a *)
(* group with a TTL may be cleaned up, with its members, at any time.      *)
(***************************************************************************)
CONSTANTS Names,    \* group names
          Users,    \* user ids
          Missing   \* no such group

VARIABLE groups     \* memoryGroups

Group == [ttl : BOOLEAN, uids : SUBSET Users]
Exists(n) == groups[n] # Missing

Init == groups = [n \in Names |-> Missing]

GroupCreate(n, ttl) ==
  /\ ~Exists(n)
  /\ groups' = [groups EXCEPT ![n] = [ttl |-> ttl, uids |-> {}]]

GroupAddMember(n, u) ==
  /\ Exists(n) /\ u \notin groups[n].uids
  /\ groups' = [groups EXCEPT ![n].uids = @ \cup {u}]

GroupRemoveMember(n, u) ==
  /\ Exists(n) /\ u \in groups[n].uids
  /\ groups' = [groups EXCEPT ![n].uids = @ \ {u}]

GroupRemoveAll(n) ==
  /\ Exists(n)
  /\ groups' = [groups EXCEPT ![n].uids = {}]

GroupDelete(n) ==
  /\ Exists(n)
  /\ groups' = [groups EXCEPT ![n] = Missing]

(* groupTTLCleanup for one group whose last refresh is too long ago.       *)
groupTTLCleanup(n) ==
  /\ Exists(n) /\ groups[n].ttl
  /\ groups' = [groups EXCEPT ![n] = Missing]

Next ==
  \E n \in Names :
    \/ \E ttl \in BOOLEAN : GroupCreate(n, ttl)
    \/ \E u \in Users : GroupAddMember(n, u) \/ GroupRemoveMember(n, u)
    \/ GroupRemoveAll(n) \/ GroupDelete(n) \/ groupTTLCleanup(n)

Spec == Init /\ [][Next]_groups

=============================================================================
