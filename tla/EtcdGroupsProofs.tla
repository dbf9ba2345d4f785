-------------------------- MODULE EtcdGroupsProofs --------------------------
(***************************************************************************)
(* For any groups, users, leases and callers: members share the lease of   *)
(* their group, and the etcd group service implements the memory service,  *)
(* if no group is deleted while a member is being added to it.             *)
(*                                                                         *)
(* LeasesAgree is not inductive: GroupAddMember puts a member under a      *)
(* lease it read earlier.  AddInv says what is left of that lease: it is   *)
(* still the group's, or it has expired and can no longer be used.  The    *)
(* refinement needs, besides, that a lease belongs to one group (Unique),  *)
(* because its expiry must be the clean-up of one group; that rests on     *)
(* what a GroupCreateWithTTL under way knows of its lease (CreateInv).     *)
(***************************************************************************)
EXTENDS EtcdGroups, TLAPS

Add(c) == call[c] # None /\ call[c].op = "add"
Create(c) == call[c] # None /\ call[c].op = "create"

AddInv ==
  \A c \in Callers : Add(c) =>
    \/ group[call[c].n] = call[c].lease
    \/ call[c].lease \in granted \ alive

CreateInv ==
  /\ \A c \in Callers : Create(c) => call[c].lease \in granted
  /\ \A c \in Callers, n \in Names : Create(c) => group[n] # call[c].lease
  /\ \A c, d \in Callers : Create(c) /\ Create(d) /\ call[c].lease = call[d].lease => c = d

Unique == \A n, m \in Names : group[n] \in Leases /\ group[n] = group[m] => n = m

Inv == TypeOK /\ LeasesAgree /\ AddInv /\ CreateInv /\ Unique

(* The fields of a call: what GroupAddMember and GroupCreateWithTTL keep   *)
(* from their first step to the second.                                    *)
LEMMA CallFields ==
  ASSUME TypeOK, NEW c \in Callers
  PROVE  /\ Add(c) => call[c].n \in Names /\ call[c].u \in Users /\ call[c].lease \in Lease
         /\ Create(c) => call[c].n \in Names /\ call[c].lease \in Leases
         /\ call[c] # None => Add(c) \/ Create(c)
<1>1. call[c] \in Call \cup {None}
  BY DEF TypeOK
<1>2. CASE call[c] \in [op : {"add"}, n : Names, u : Users, lease : Lease]
  BY <1>2 DEF Add, Create
<1>3. CASE call[c] \in [op : {"create"}, n : Names, lease : Leases]
  BY <1>3 DEF Add, Create
<1>4. QED
  BY <1>1, <1>2, <1>3 DEF Call, Add, Create

(* A group's lease is granted, and a group without members may be created. *)
LEMMA GroupLease ==
  ASSUME TypeOK, NEW n \in Names
  PROVE  /\ group[n] \in Lease \cup {Missing}
         /\ group[n] \in Leases => group[n] \in alive /\ group[n] \in granted
         /\ LeasesAgree /\ ~Exists(n) => \A u \in Users : member[n][u] = Missing
BY EtcdGroupsAssumption DEF TypeOK, Exists, Usable, Lease, LeasesAgree

(* The service starts with no group.                                       *)
LEMMA InvInit == Init => Inv
BY EtcdGroupsAssumption
   DEF Init, Inv, TypeOK, LeasesAgree, AddInv, CreateInv, Unique, Exists, Add, Create, Lease

(* Every step of the service preserves the invariant.                      *)
LEMMA InvStep ==
  ASSUME DeleteDuringAdd = FALSE, Inv, [Next]_vars
  PROVE  Inv'
<1> USE EtcdGroupsAssumption
<1>0. TypeOK /\ LeasesAgree /\ AddInv /\ CreateInv /\ Unique
  BY DEF Inv
<1>1. ASSUME NEW n \in Names, GroupCreate(n)
      PROVE  Inv'
  <2>1. /\ group[n] = Missing /\ group' = [group EXCEPT ![n] = NoLease]
        /\ UNCHANGED <<member, granted, alive, call>>
    BY <1>1 DEF GroupCreate, Exists
  <2>2. TypeOK'
    BY <1>0, <2>1 DEF TypeOK, Exists, Usable, Lease
  <2>3. LeasesAgree'
    BY <1>0, <2>1 DEF LeasesAgree, TypeOK
  <2>4. AddInv'
    BY <1>0, <2>1, CallFields DEF AddInv, TypeOK, Add, Lease
  <2>5. CreateInv'
    BY <1>0, <2>1, CallFields DEF CreateInv, TypeOK, Create
  <2>6. Unique'
    BY <1>0, <2>1 DEF Unique, TypeOK
  <2>7. QED
    BY <2>2, <2>3, <2>4, <2>5, <2>6 DEF Inv
<1>2. ASSUME NEW n \in Names, GroupRemoveAll(n)
      PROVE  Inv'
  <2>1. /\ member' = [member EXCEPT ![n] = NoMembers]
        /\ UNCHANGED <<group, granted, alive, call>>
    BY <1>2 DEF GroupRemoveAll
  <2>2. TypeOK' /\ LeasesAgree'
    BY <1>0, <2>1 DEF TypeOK, LeasesAgree, NoMembers, Exists, Usable, Lease
  <2>3. QED
    BY <1>0, <2>1, <2>2 DEF Inv, AddInv, CreateInv, Unique, Add, Create
<1>3. ASSUME NEW n \in Names, GroupDelete(n)
      PROVE  Inv'
  <2>1. /\ \A c \in Callers : Add(c) => call[c].n # n
        /\ group' = [group EXCEPT ![n] = Missing]
        /\ member' = [member EXCEPT ![n] = NoMembers]
        /\ UNCHANGED <<granted, alive, call>>
    BY <1>3 DEF GroupDelete, Adding, Add
  <2>2. TypeOK'
    BY <1>0, <2>1 DEF TypeOK, NoMembers, Exists, Usable, Lease
  <2>3. LeasesAgree'
    BY <1>0, <2>1 DEF LeasesAgree, TypeOK, NoMembers
  <2>4. AddInv'
    BY <1>0, <2>1, CallFields DEF AddInv, TypeOK, Add
  <2>5. CreateInv'
    BY <1>0, <2>1, CallFields DEF CreateInv, TypeOK, Create
  <2>6. Unique'
    BY <1>0, <2>1 DEF Unique, TypeOK
  <2>7. QED
    BY <2>2, <2>3, <2>4, <2>5, <2>6 DEF Inv
<1>4. ASSUME NEW n \in Names, NEW u \in Users, GroupRemoveMember(n, u)
      PROVE  Inv'
  <2>1. /\ member' = [member EXCEPT ![n][u] = Missing]
        /\ UNCHANGED <<group, granted, alive, call>>
    BY <1>4 DEF GroupRemoveMember
  <2>2. TypeOK' /\ LeasesAgree'
    BY <1>0, <2>1 DEF TypeOK, LeasesAgree, Exists, Usable, Lease
  <2>3. QED
    BY <1>0, <2>1, <2>2 DEF Inv, AddInv, CreateInv, Unique, Add, Create
<1>5. ASSUME NEW c \in Callers, CreateUnder(c)
      PROVE  Inv'
  <2>1. /\ Create(c)
        /\ call' = [call EXCEPT ![c] = None]
        /\ UNCHANGED <<member, granted, alive>>
    BY <1>5 DEF CreateUnder, Create
  <2> DEFINE n == call[c].n  l == call[c].lease
  <2>2. n \in Names /\ l \in Leases
    BY <1>0, <2>1, CallFields
  <2>3. \/ group' = group
        \/ group[n] = Missing /\ l \in alive /\ group' = [group EXCEPT ![n] = l]
    BY <1>5, <2>2 DEF CreateUnder, Exists, Usable
  <2> HIDE DEF n, l
  <2>4. \A d \in Callers : /\ Add(d)' => Add(d) /\ d # c /\ call'[d] = call[d]
                           /\ Create(d)' => Create(d) /\ d # c /\ call'[d] = call[d]
    BY <1>0, <2>1 DEF TypeOK, Add, Create
  <2>5. TypeOK'
    BY SMTT(20), <1>0, <2>1, <2>2, <2>3 DEF TypeOK, Exists, Usable, Lease
  <2>6. LeasesAgree'
    BY <1>0, <2>1, <2>2, <2>3 DEF LeasesAgree, TypeOK
  <2>7. AddInv'
    BY <1>0, <2>1, <2>2, <2>3, <2>4, CallFields DEF AddInv, TypeOK, Lease, Add
  <2>8. CreateInv'
    BY <1>0, <2>1, <2>2, <2>3, <2>4 DEF CreateInv, TypeOK, Create, l
  <2>9. Unique'
    BY <1>0, <2>1, <2>2, <2>3 DEF Unique, CreateInv, TypeOK, l
  <2>10. QED
    BY <2>5, <2>6, <2>7, <2>8, <2>9 DEF Inv
<1>6. ASSUME NEW c \in Callers, PutMember(c)
      PROVE  Inv'
  <2>1. /\ Add(c)
        /\ call' = [call EXCEPT ![c] = None]
        /\ UNCHANGED <<group, granted, alive>>
    BY <1>6 DEF PutMember, Add
  <2> DEFINE n == call[c].n  u == call[c].u  l == call[c].lease
  <2>2. n \in Names /\ u \in Users /\ l \in Lease
    BY <1>0, <2>1, CallFields
  <2>3. \/ member' = member
        \/ group[n] # Missing /\ Usable(l) /\ member' = [member EXCEPT ![n][u] = l]
    BY <1>6, <2>2 DEF PutMember, Exists
  <2>4. Usable(l) => group[n] = l
    BY <1>0, <2>1, <2>2 DEF AddInv, Usable, TypeOK, Lease
  <2> HIDE DEF n, u, l
  <2>5. \A d \in Callers : /\ Add(d)' => Add(d) /\ call'[d] = call[d]
                           /\ Create(d)' => Create(d) /\ call'[d] = call[d]
    BY <1>0, <2>1 DEF TypeOK, Add, Create
  <2>6. TypeOK'
    BY <1>0, <2>1, <2>2, <2>3 DEF TypeOK, Exists, Usable, Lease
  <2>7. LeasesAgree'
    BY <1>0, <2>1, <2>2, <2>3, <2>4 DEF LeasesAgree, TypeOK
  <2>8. AddInv' /\ CreateInv' /\ Unique'
    BY <1>0, <2>1, <2>5 DEF AddInv, CreateInv, Unique, Add, Create
  <2>9. QED
    BY <2>6, <2>7, <2>8 DEF Inv
<1>7. ASSUME NEW c \in Callers, NEW n \in Names, Grant(c, n)
      PROVE  Inv'
  <2>1. PICK l \in Leases \ granted :
          /\ granted' = granted \cup {l} /\ alive' = alive \cup {l}
          /\ call' = [call EXCEPT ![c] = [op |-> "create", n |-> n, lease |-> l]]
    BY ZenonT(20), <1>7 DEF Grant
  <2>2. UNCHANGED <<group, member>>
    BY <1>7 DEF Grant
  <2>3. \A d \in Callers :
          /\ Add(d)' => Add(d) /\ call'[d] = call[d]
          /\ Create(d)' => \/ d = c /\ call'[d].lease = l
                           \/ d # c /\ Create(d) /\ call'[d] = call[d]
    BY <1>0, <2>1 DEF TypeOK, Add, Create
  <2>4. [op |-> "create", n |-> n, lease |-> l] \in Call
    BY <2>1 DEF Call
  <2>5. TypeOK'
    BY <1>0, <2>1, <2>2, <2>4 DEF TypeOK, Exists, Usable
  <2>6. AddInv'
    BY <1>0, <2>1, <2>2, <2>3, CallFields DEF AddInv, TypeOK
  <2>7. CreateInv'
    BY <1>0, <2>1, <2>2, <2>3, GroupLease DEF CreateInv
  <2>8. QED
    BY <1>0, <2>2, <2>5, <2>6, <2>7 DEF Inv, LeasesAgree, Unique
<1>8. ASSUME NEW c \in Callers, NEW n \in Names, NEW u \in Users, ReadLease(c, n, u)
      PROVE  Inv'
  <2>1. /\ group[n] # Missing
        /\ call' = [call EXCEPT ![c] = [op |-> "add", n |-> n, u |-> u, lease |-> group[n]]]
        /\ UNCHANGED <<group, member, granted, alive>>
    BY <1>8 DEF ReadLease, Exists
  <2>2. group[n] \in Lease
    BY <1>0, <2>1, GroupLease
  <2>3. [op |-> "add", n |-> n, u |-> u, lease |-> group[n]] \in Call
    BY <2>2 DEF Call
  <2>4. \A d \in Callers :
          /\ Create(d)' => Create(d) /\ call'[d] = call[d]
          /\ Add(d)' => \/ call'[d].n = n /\ call'[d].lease = group[n]
                        \/ Add(d) /\ call'[d] = call[d]
    BY <1>0, <2>1 DEF TypeOK, Add, Create
  <2>5. TypeOK'
    BY <1>0, <2>1, <2>3 DEF TypeOK, Exists, Usable
  <2>6. AddInv' /\ CreateInv'
    BY <1>0, <2>1, <2>4 DEF AddInv, CreateInv, Add, Create
  <2>7. QED
    BY <1>0, <2>1, <2>5, <2>6 DEF Inv, LeasesAgree, Unique
<1>9. ASSUME NEW l \in Leases, Expire(l)
      PROVE  Inv'
  <2>1. /\ l \in alive /\ alive' = alive \ {l}
        /\ UNCHANGED <<granted, call>>
        /\ group' = [n \in Names |-> IF group[n] = l THEN Missing ELSE group[n]]
        /\ member' = [n \in Names |-> [u \in Users |->
                        IF member[n][u] = l THEN Missing ELSE member[n][u]]]
    BY <1>9 DEF Expire
  <2>2. /\ \A n \in Names : group'[n] = IF group[n] = l THEN Missing ELSE group[n]
        /\ \A n \in Names, u \in Users :
             member'[n][u] = IF member[n][u] = l THEN Missing ELSE member[n][u]
    BY <2>1
  <2>3. TypeOK'
    <3>1. group' \in [Names -> Lease \cup {Missing}] /\ member' \in [Names -> [Users -> Lease \cup {Missing}]]
      BY <1>0, <2>1 DEF TypeOK
    <3>2. \A n \in Names : group'[n] # Missing => group'[n] = NoLease \/ group'[n] \in alive'
      BY <1>0, <2>1, <2>2 DEF TypeOK, Exists, Usable
    <3>3. QED
      BY <1>0, <2>1, <3>1, <3>2 DEF TypeOK, Exists, Usable
  <2>4. LeasesAgree'
    BY <1>0, <2>2 DEF LeasesAgree
  <2>5. AddInv'
    BY <1>0, <2>1, <2>2, CallFields DEF AddInv, TypeOK, Add
  <2>6. CreateInv'
    BY <1>0, <2>1, <2>2, CallFields DEF CreateInv, Create
  <2>7. Unique'
    BY <1>0, <2>2 DEF Unique
  <2>8. QED
    BY <2>3, <2>4, <2>5, <2>6, <2>7 DEF Inv
<1>10. CASE UNCHANGED vars
  BY <1>0, <1>10 DEF vars, Inv, TypeOK, LeasesAgree, AddInv, CreateInv, Unique, Exists, Usable, Add, Create
<1>11. QED
  BY <1>1, <1>2, <1>3, <1>4, <1>5, <1>6, <1>7, <1>8, <1>9, <1>10 DEF Next

(* A member of a group always has the group's lease, although              *)
(* GroupAddMember read that lease in an earlier step.                      *)
THEOREM LeasesTheorem ==
  ASSUME DeleteDuringAdd = FALSE
  PROVE  Spec => []LeasesAgree
<1>1. Inv /\ [Next]_vars => Inv'
  BY InvStep
<1>2. Inv => LeasesAgree
  BY DEF Inv
<1>3. QED
  BY <1>1, <1>2, InvInit, PTL DEF Spec

(* Keys carry granted leases, and live ones.                               *)
THEOREM TypeTheorem ==
  ASSUME DeleteDuringAdd = FALSE
  PROVE  Spec => []TypeOK
<1>1. Inv /\ [Next]_vars => Inv'
  BY InvStep
<1>2. Inv => TypeOK
  BY DEF Inv
<1>3. QED
  BY <1>1, <1>2, InvInit, PTL DEF Spec
-----------------------------------------------------------------------------
Uids(n) == {u \in Users : member[n][u] # Missing}
Entry(n) == [ttl |-> group[n] # NoLease, uids |-> Uids(n)]

(* The value of the memory service's map at a name.                        *)
LEMMA AbstractValue ==
  /\ abstract = [n \in Names |-> IF group[n] # Missing THEN Entry(n) ELSE Missing]
  /\ \A n \in Names : Entry(n) # Missing
<1>1. abstract = [n \in Names |-> IF group[n] # Missing THEN Entry(n) ELSE Missing]
  BY DEF abstract, Exists, Entry, Uids
<1>2. \A n \in Names : Entry(n) \in [ttl : BOOLEAN, uids : SUBSET Users]
  BY DEF Entry, Uids
<1>3. QED
  BY <1>1, <1>2, EtcdGroupsAssumption

(* A step that leaves every name's lease and members alone but one's       *)
(* changes the memory service's map at that name only.                     *)
LEMMA AbstractStep ==
  ASSUME NEW n \in Names, NEW v,
         \A m \in Names \ {n} : group'[m] = group[m] /\ Uids(m)' = Uids(m),
         v = IF group'[n] # Missing THEN Entry(n)' ELSE Missing
  PROVE  abstract' = [abstract EXCEPT ![n] = v]
<1>1. abstract' = [m \in Names |-> IF group'[m] # Missing THEN Entry(m)' ELSE Missing]
  BY DEF abstract, Exists, Entry, Uids
<1>2. \A m \in Names \ {n} : Entry(m)' = Entry(m)
  BY DEF Entry
<1>3. \A m \in Names : (IF group'[m] # Missing THEN Entry(m)' ELSE Missing)
                         = IF m = n THEN v ELSE abstract[m]
  BY <1>2, AbstractValue
<1>4. QED
  BY <1>1, <1>3, AbstractValue

(* Every step of the etcd service is a step of the memory service, or      *)
(* changes nothing that the memory service has.                            *)
LEMMA RefinesStep ==
  ASSUME DeleteDuringAdd = FALSE, Inv, [Next]_vars
  PROVE  [Memory!Next]_abstract
<1> USE EtcdGroupsAssumption
<1>0. TypeOK /\ LeasesAgree /\ AddInv /\ CreateInv /\ Unique
  BY DEF Inv
<1>a. \A n \in Names : /\ Memory!Exists(n) <=> group[n] # Missing
                       /\ group[n] # Missing => abstract[n] = Entry(n)
  BY AbstractValue DEF Memory!Exists
<1>f. \A n \in Names : Entry(n).uids = Uids(n) /\ Entry(n).ttl = (group[n] # NoLease)
  BY DEF Entry
<1>b. \A n \in Names : group[n] = Missing => Uids(n) = {}
  BY <1>0, GroupLease DEF Uids, Exists
<1>c. ASSUME group' = group, member' = member
      PROVE  abstract' = abstract
  BY <1>c DEF abstract, Exists
<1>d. ASSUME NEW n \in Names, group[n] = Missing, NEW l \in Lease,
             group' = [group EXCEPT ![n] = l], member' = member
      PROVE  \E ttl \in BOOLEAN : Memory!GroupCreate(n, ttl)
  <2> DEFINE v == [ttl |-> l # NoLease, uids |-> {}]
  <2>1. \A m \in Names : Uids(m)' = Uids(m)
    BY <1>d DEF Uids
  <2>2. group'[n] = l /\ l # Missing /\ \A m \in Names \ {n} : group'[m] = group[m]
    BY <1>0, <1>d DEF TypeOK, Lease
  <2>3. Entry(n)' = v
    BY <1>b, <1>d, <2>1, <2>2 DEF Entry
  <2>4. v = IF group'[n] # Missing THEN Entry(n)' ELSE Missing
    BY <2>2, <2>3
  <2> HIDE DEF v
  <2>5. abstract' = [abstract EXCEPT ![n] = v]
    BY <2>1, <2>2, <2>4, AbstractStep
  <2>6. Memory!GroupCreate(n, l # NoLease)
    BY <1>a, <1>d, <2>5 DEF Memory!GroupCreate, v
  <2>7. QED
    BY ZenonT(20), <2>6
<1>1. ASSUME NEW n \in Names, GroupCreate(n)
      PROVE  Memory!Next
  BY ZenonT(20), <1>1, <1>d DEF GroupCreate, Exists, Lease, Memory!Next
<1>2. ASSUME NEW n \in Names, GroupRemoveAll(n)
      PROVE  Memory!Next
  <2>1. /\ group[n] # Missing /\ member' = [member EXCEPT ![n] = NoMembers] /\ group' = group
    BY <1>2 DEF GroupRemoveAll, Exists
  <2>2. Uids(n)' = {} /\ \A m \in Names \ {n} : group'[m] = group[m] /\ Uids(m)' = Uids(m)
    BY <1>0, <2>1 DEF Uids, TypeOK, NoMembers
  <2>3. Entry(n)' = [Entry(n) EXCEPT !.uids = {}]
    BY <2>1, <2>2 DEF Entry
  <2>4. abstract' = [abstract EXCEPT ![n] = Entry(n)']
    BY <2>1, <2>2, AbstractStep
  <2>5. abstract' = [abstract EXCEPT ![n].uids = {}]
    BY <1>a, <2>1, <2>3, <2>4, AbstractValue
  <2>6. QED
    BY ZenonT(20), <1>a, <2>1, <2>5 DEF Memory!Next, Memory!GroupRemoveAll
<1>3. ASSUME NEW n \in Names, GroupDelete(n)
      PROVE  Memory!Next
  <2>1. /\ group[n] # Missing /\ group' = [group EXCEPT ![n] = Missing]
        /\ member' = [member EXCEPT ![n] = NoMembers]
    BY <1>3 DEF GroupDelete, Exists
  <2>2. group'[n] = Missing /\ \A m \in Names \ {n} : group'[m] = group[m] /\ Uids(m)' = Uids(m)
    BY <1>0, <2>1 DEF Uids, TypeOK
  <2>3. abstract' = [abstract EXCEPT ![n] = Missing]
    BY <2>2, AbstractStep
  <2>4. QED
    BY ZenonT(20), <1>a, <2>1, <2>3 DEF Memory!Next, Memory!GroupDelete
<1>4. ASSUME NEW n \in Names, NEW u \in Users, GroupRemoveMember(n, u)
      PROVE  Memory!Next
  <2>1. /\ member[n][u] # Missing /\ member' = [member EXCEPT ![n][u] = Missing] /\ group' = group
    BY <1>4 DEF GroupRemoveMember
  <2>2. group[n] # Missing /\ u \in Uids(n)
    BY <1>0, <2>1 DEF LeasesAgree, Uids
  <2>3. Uids(n)' = Uids(n) \ {u} /\ \A m \in Names \ {n} : group'[m] = group[m] /\ Uids(m)' = Uids(m)
    BY <1>0, <2>1 DEF Uids, TypeOK
  <2>4. Entry(n)' = [Entry(n) EXCEPT !.uids = @ \ {u}]
    BY <2>1, <2>3 DEF Entry
  <2>5. abstract' = [abstract EXCEPT ![n] = Entry(n)']
    BY <2>1, <2>2, <2>3, AbstractStep
  <2>6. abstract' = [abstract EXCEPT ![n].uids = @ \ {u}]
    BY <1>a, <2>2, <2>4, <2>5, AbstractValue
  <2>7. u \in abstract[n].uids
    BY <1>a, <1>f, <2>2
  <2>8. QED
    BY ZenonT(20), <1>a, <2>2, <2>6, <2>7 DEF Memory!Next, Memory!GroupRemoveMember
<1>5. ASSUME NEW c \in Callers, CreateUnder(c)
      PROVE  [Memory!Next]_abstract
  <2>1. call[c].n \in Names /\ call[c].lease \in Lease /\ member' = member
    BY <1>0, <1>5, CallFields DEF CreateUnder, Create, Lease
  <2>2. CASE group' = group
    BY <1>c, <2>1, <2>2
  <2>3. CASE group[call[c].n] = Missing /\ group' = [group EXCEPT ![call[c].n] = call[c].lease]
    BY ZenonT(20), <1>d, <2>1, <2>3 DEF Memory!Next
  <2>4. QED
    BY <1>5, <2>2, <2>3 DEF CreateUnder, Exists
<1>e. ASSUME NEW n \in Names, NEW u \in Users, NEW l \in Lease,
             group[n] # Missing, member[n][u] = Missing,
             group' = group, member' = [member EXCEPT ![n][u] = l]
      PROVE  Memory!GroupAddMember(n, u)
  <2>1. Uids(n)' = Uids(n) \cup {u} /\ \A m \in Names \ {n} : group'[m] = group[m] /\ Uids(m)' = Uids(m)
    BY <1>0, <1>e DEF Uids, TypeOK, Lease
  <2>2. Entry(n)' = [Entry(n) EXCEPT !.uids = @ \cup {u}]
    BY SMTT(20), <1>e, <2>1 DEF Entry
  <2>3. abstract' = [abstract EXCEPT ![n] = Entry(n)']
    BY <1>e, <2>1, AbstractStep
  <2>4. abstract' = [abstract EXCEPT ![n].uids = @ \cup {u}]
    BY <1>a, <1>e, <2>2, <2>3, AbstractValue
  <2>5. u \notin abstract[n].uids
    BY <1>a, <1>f, <1>e DEF Uids
  <2>6. QED
    BY <1>a, <1>e, <2>4, <2>5 DEF Memory!GroupAddMember
<1>6. ASSUME NEW c \in Callers, PutMember(c)
      PROVE  [Memory!Next]_abstract
  <2> DEFINE n == call[c].n  u == call[c].u  l == call[c].lease
  <2>1. n \in Names /\ u \in Users /\ l \in Lease /\ group' = group
    BY <1>0, <1>6, CallFields DEF PutMember, Add
  <2>2. CASE member' = member
    BY <1>c, <2>1, <2>2
  <2>3. CASE /\ group[n] # Missing /\ member[n][u] = Missing
             /\ member' = [member EXCEPT ![n][u] = l]
    BY ZenonT(20), <1>e, <2>1, <2>3 DEF Memory!Next
  <2>4. QED
    BY <1>6, <2>2, <2>3 DEF PutMember, Exists
<1>7. ASSUME NEW c \in Callers, NEW n \in Names, Grant(c, n)
      PROVE  abstract' = abstract
  BY <1>7, <1>c DEF Grant
<1>8. ASSUME NEW c \in Callers, NEW n \in Names, NEW u \in Users, ReadLease(c, n, u)
      PROVE  abstract' = abstract
  BY <1>8, <1>c DEF ReadLease
<1>9. ASSUME NEW l \in Leases, Expire(l)
      PROVE  [Memory!Next]_abstract
  <2>1. /\ \A n \in Names : group'[n] = IF group[n] = l THEN Missing ELSE group[n]
        /\ \A n \in Names, u \in Users :
             member'[n][u] = IF member[n][u] = l THEN Missing ELSE member[n][u]
    BY <1>9 DEF Expire
  <2>2. l # Missing /\ l # NoLease
    OBVIOUS
  <2>3. \A m \in Names : group[m] # l => group'[m] = group[m] /\ Uids(m)' = Uids(m)
    BY <1>0, <2>1, <2>2 DEF Uids, LeasesAgree
  <2>4. CASE \E n \in Names : group[n] = l
    <3>1. PICK n \in Names : group[n] = l
      BY <2>4
    <3>2. \A m \in Names \ {n} : group'[m] = group[m] /\ Uids(m)' = Uids(m)
      BY <1>0, <2>3, <3>1 DEF Unique
    <3>3. abstract' = [abstract EXCEPT ![n] = Missing]
      BY <2>1, <3>1, <3>2, AbstractStep
    <3>4. abstract[n].ttl
      BY ZenonT(20), <1>a, <1>f, <2>2, <3>1
    <3>5. QED
      BY ZenonT(20), <1>a, <2>2, <3>1, <3>3, <3>4 DEF Memory!Next, Memory!groupTTLCleanup
  <2>5. CASE \A n \in Names : group[n] # l
    <3>1. \A m \in Names : group'[m] = group[m] /\ Uids(m)' = Uids(m)
      BY <2>3, <2>5
    <3>2. QED
      BY ZenonT(20), <3>1 DEF abstract, Exists, Uids
  <2>6. QED
    BY <2>4, <2>5
<1>10. CASE UNCHANGED vars
  BY <1>10, <1>c DEF vars
<1>11. QED
  BY <1>1, <1>2, <1>3, <1>4, <1>5, <1>6, <1>7, <1>8, <1>9, <1>10 DEF Next

(* The etcd group service implements the memory group service.             *)
THEOREM RefinementTheorem ==
  ASSUME DeleteDuringAdd = FALSE
  PROVE  Spec => ImplementsMemory
<1>1. Init => Memory!Init
  BY DEF Init, Memory!Init, abstract, Exists
<1>2. Inv /\ [Next]_vars => Inv'
  BY InvStep
<1>3. Inv /\ [Next]_vars => [Memory!Next]_abstract
  BY RefinesStep
<1>4. QED
  BY <1>1, <1>2, <1>3, InvInit, PTL DEF Spec, ImplementsMemory, Memory!Spec

=============================================================================
