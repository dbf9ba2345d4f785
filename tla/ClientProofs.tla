---------------------------- MODULE ClientProofs ----------------------------
(***************************************************************************)
(* For any generations, calls and in-flight limit: the client has one      *)
(* connection at a time, a request gets at most one message, and the slot  *)
(* channel of a generation holds exactly its tokens.                       *)
(*                                                                         *)
(* Three invariants are proved on top of each other.  Link relates the     *)
(* client's state, its attempt and its current generation to the stage and *)
(* the closing of each; it mentions no request.  Request says where a call *)
(* can be while its entry is pending, handed over or reaped; at most one   *)
(* of the three holds it.  Slots then follows, with the cardinality of the *)
(* sets that Request keeps apart.                                          *)
(***************************************************************************)
EXTENDS Client, FiniteSetTheorems, TLAPS

Stages == {"none", "dial", "shake", "publish", "live", "gone"}
Underway == {"dial", "shake", "publish"}
Closings == {"no", "drained", "shut", "done"}

LinkType ==
  /\ state \in {"idle", "connecting", "connected"}
  /\ attempt \in Gens \cup {None} /\ current \in Gens \cup {None}
  /\ stage \in [Gens -> Stages]
  /\ open \in [Gens -> BOOLEAN]
  /\ cancelled \subseteq Gens /\ waiting \subseteq Gens
  /\ closing \in [Gens -> Closings]
  /\ notified \in [Gens -> Nat]

StateOf ==
  /\ state = "connecting" <=> attempt # None
  /\ state = "connected" <=> current # None

GenLink(g) ==
  /\ open[g] => g = attempt \/ g = current
  /\ stage[g] \in Underway <=> attempt = g
  /\ (stage[g] = "live" /\ closing[g] # "done") <=> current = g
  /\ closing[g] # "no" => stage[g] = "live"
  /\ closing[g] \in {"shut", "done"} => open[g] = FALSE
  /\ closing[g] = "done" => notified[g] = 1
  /\ closing[g] # "done" => notified[g] = 0
  /\ g \in waiting => \/ stage[g] \in Underway /\ g \in cancelled
                      \/ stage[g] = "gone"

Link == LinkType /\ StateOf /\ \A g \in Gens : GenLink(g)

LinkStep(g) ==
  \/ ConnectTo(g) \/ Timeout(g) \/ Connecting(g)
  \/ CancelAttempt(g) \/ DisconnectReturns(g) \/ CloseBegin(g) \/ Disconnecting(g)

(* The client starts without connection.                                   *)
LEMMA LinkInit == Init => Link
BY ClientAssumption
   DEF Init, Link, LinkType, StateOf, GenLink, Stages, Underway, Closings

(* The steps of connecting and disconnecting preserve Link.                *)
LEMMA LinkKept ==
  ASSUME Link, NEW g \in Gens, LinkStep(g)
  PROVE  Link'
<1> USE ClientAssumption DEF Stages, Underway, Closings
<1>0. LinkType /\ StateOf /\ (\A h \in Gens : GenLink(h)) /\ g # None
  BY DEF Link
<1>1. CASE ConnectTo(g)
  BY <1>0, <1>1 DEF ConnectTo, Link, LinkType, StateOf, GenLink
<1>2. CASE Timeout(g)
  BY <1>0, <1>2 DEF Timeout, Link, LinkType, StateOf, GenLink
<1>3. CASE Dialled(g)
  BY <1>0, <1>3 DEF Dialled, Link, LinkType, StateOf, GenLink
<1>4. CASE Shaken(g)
  BY <1>0, <1>4 DEF Shaken, Link, LinkType, StateOf, GenLink
<1>5. CASE Fail(g)
  BY <1>0, <1>5 DEF Fail, Link, LinkType, StateOf, GenLink
<1>6. CASE Publish(g)
  BY <1>0, <1>6 DEF Publish, Link, LinkType, StateOf, GenLink
<1>7. CASE CancelAttempt(g)
  BY <1>0, <1>7 DEF CancelAttempt, Link, LinkType, StateOf, GenLink
<1>8. CASE DisconnectReturns(g)
  BY <1>0, <1>8 DEF DisconnectReturns, Link, LinkType, StateOf, GenLink
<1>9. CASE CloseBegin(g)
  BY <1>0, <1>9 DEF CloseBegin, Link, LinkType, StateOf, GenLink
<1>10. CASE CloseShut(g)
  BY <1>0, <1>10 DEF CloseShut, Link, LinkType, StateOf, GenLink
<1>11. CASE CloseUnpublish(g)
  BY <1>0, <1>11 DEF CloseUnpublish, Link, LinkType, StateOf, GenLink
<1>12. QED
  BY <1>1, <1>2, <1>3, <1>4, <1>5, <1>6, <1>7, <1>8, <1>9, <1>10, <1>11
     DEF LinkStep, Connecting, Disconnecting
-----------------------------------------------------------------------------
Early == {"idle", "slot", "register"}
Places == Early \cup {"write", "writing", "take", "sent", "failed"}

RequestType ==
  /\ closing \in [Gens -> Closings] /\ current \in Gens \cup {None}
  /\ pending \in [Gens -> SUBSET Calls] /\ sent \subseteq Calls
  /\ writer \in [Gens -> Calls \cup {None}]
  /\ pc \in [Calls -> Places]
  /\ gen \in [Calls -> Gens \cup {None}]
  /\ arriving \subseteq Calls /\ answered \subseteq Calls
  /\ handing \in [Gens -> Calls \cup {None}] /\ reaping \in [Gens -> SUBSET Calls]
  /\ outcomes \in [Calls -> Nat]

CallPlace(c) ==
  /\ gen[c] = None <=> pc[c] = "idle"
  /\ c \in arriving => pc[c] # "idle"
  /\ outcomes[c] \in {0, 1}
  /\ pc[c] \in Early =>
       /\ outcomes[c] = 0
       /\ \A g \in Gens : c \notin pending[g] /\ c # handing[g] /\ c \notin reaping[g]
  /\ pc[c] = "failed" => \A g \in Gens : c \notin pending[g]

GenHolds(g) ==
  /\ \A c \in pending[g] :
       gen[c] = g /\ outcomes[c] = 0 /\ c # handing[g] /\ c \notin reaping[g]
  /\ handing[g] # None =>
       gen[handing[g]] = g /\ outcomes[handing[g]] = 0 /\ handing[g] \notin reaping[g]
  /\ \A c \in reaping[g] : gen[c] = g /\ outcomes[c] = 0
  /\ closing[g] # "no" => pending[g] = {}

Request ==
  /\ RequestType
  /\ \A c \in Calls : CallPlace(c)
  /\ \A g \in Gens : GenHolds(g)

(* Nothing is pending or delivered at the start.                           *)
LEMMA RequestInit == Init => Request
BY ClientAssumption
   DEF Init, Request, RequestType, CallPlace, GenHolds, Early, Places, Closings

(* A step of connecting or disconnecting either leaves the requests alone  *)
(* or empties the pending set of the generation it closes.                 *)
LEMMA RequestLink ==
  ASSUME Link, Link', Request, NEW g \in Gens, LinkStep(g)
  PROVE  Request'
<1> USE ClientAssumption DEF Early, Places, Closings
<1>1. CASE CloseBegin(g)
  BY <1>1 DEF CloseBegin, Request, RequestType, CallPlace, GenHolds, replyVars
<1>2. ASSUME UNCHANGED <<requestVars, replyVars>>, \A h \in Gens : closing'[h] # "no" => closing[h] # "no"
      PROVE  Request'
  BY <1>2 DEF Request, RequestType, CallPlace, GenHolds, requestVars, replyVars, Link, LinkType
<1>3. CASE ConnectTo(g) \/ Timeout(g) \/ Connecting(g) \/ CancelAttempt(g) \/ DisconnectReturns(g)
  BY <1>2, <1>3 DEF ConnectTo, Timeout, Connecting, Dialled, Shaken, Fail, Publish,
                    CancelAttempt, DisconnectReturns
<1>4. CASE Disconnecting(g)
  BY <1>2, <1>4 DEF Disconnecting, CloseShut, CloseUnpublish, Link, LinkType
<1>5. QED
  BY <1>1, <1>3, <1>4 DEF LinkStep

(* The steps of SendRequest preserve Request.                              *)
LEMMA RequestSending ==
  ASSUME Request, NEW c \in Calls, SendRequest(c) \/ Sending(c) \/ ServerAnswers(c)
  PROVE  Request'
<1> USE ClientAssumption DEF Early, Places, Closings, Goto, linkVars, requestVars, replyVars
<1>0. /\ RequestType /\ (\A d \in Calls : CallPlace(d)) /\ (\A h \in Gens : GenHolds(h))
      /\ pc[c] # "idle" => gen[c] \in Gens
  BY DEF Request, RequestType, CallPlace
<1>1. CASE SendRequest(c)
  BY <1>0, <1>1 DEF SendRequest, Request, RequestType, CallPlace, GenHolds
<1>2. CASE TakeSlot(c)
  BY <1>0, <1>2 DEF TakeSlot, Request, RequestType, CallPlace, GenHolds
<1>3. CASE NoSlot(c)
  BY <1>0, <1>3 DEF NoSlot, Request, RequestType, CallPlace, GenHolds
<1>4. CASE Register(c)
  BY <1>0, <1>4 DEF Register, Request, RequestType, CallPlace, GenHolds
<1>5. CASE WriteBegin(c)
  BY <1>0, <1>5 DEF WriteBegin, Request, RequestType, CallPlace, GenHolds
<1>6. CASE WriteEnds(c)
  BY <1>0, <1>6 DEF WriteEnds, Request, RequestType, CallPlace, GenHolds
<1>7. CASE Withdraw(c)
  BY <1>0, <1>7 DEF Withdraw, Take, Request, RequestType, CallPlace, GenHolds
<1>8. CASE ServerAnswers(c)
  BY <1>0, <1>8 DEF ServerAnswers, Request, RequestType, CallPlace, GenHolds
<1>9. QED
  BY <1>1, <1>2, <1>3, <1>4, <1>5, <1>6, <1>7, <1>8 DEF Sending

(* The steps of the loops of a generation preserve Request.                *)
LEMMA RequestLoops ==
  ASSUME Request,
         \/ \E c \in Calls : HandleResponse(c)
         \/ \E g \in Gens : Reap(g) \/ Delivering(g)
  PROVE  Request'
<1> USE ClientAssumption DEF Early, Places, Closings, linkVars, requestVars, replyVars
<1>0. RequestType /\ (\A d \in Calls : CallPlace(d)) /\ (\A h \in Gens : GenHolds(h))
  BY DEF Request
<1>1. ASSUME NEW c \in Calls, HandleResponse(c)
      PROVE  Request'
  <2>1. gen[c] \in Gens /\ pc[c] # "idle"
    BY SMTT(20), <1>0, <1>1 DEF HandleResponse, RequestType, CallPlace
  <2>2. QED
    BY <1>0, <1>1, <2>1 DEF HandleResponse, Take, Request, RequestType, CallPlace, GenHolds
<1>2. ASSUME NEW g \in Gens, Reap(g)
      PROVE  Request'
  BY <1>0, <1>2 DEF Reap, Reapable, Request, RequestType, CallPlace, GenHolds
<1>3. ASSUME NEW g \in Gens, Deliver(g)
      PROVE  Request'
  BY <1>0, <1>3 DEF Deliver, Request, RequestType, CallPlace, GenHolds
<1>4. ASSUME NEW g \in Gens, LoopsLeave(g)
      PROVE  Request'
  BY <1>0, <1>4 DEF LoopsLeave, Request, RequestType, CallPlace, GenHolds
<1>5. ASSUME NEW g \in Gens, DeliverTimeout(g)
      PROVE  Request'
  BY <1>0, <1>5 DEF DeliverTimeout, Request, RequestType, CallPlace, GenHolds
<1>6. QED
  BY <1>1, <1>2, <1>3, <1>4, <1>5 DEF Delivering
-----------------------------------------------------------------------------
Slots == slots \in [Gens -> Nat] /\ SlotsMatch

(* The sets the slots are counted against are finite.                      *)
LEMMA Counting ==
  ASSUME RequestType, NEW g \in Gens
  PROVE  /\ IsFiniteSet(pending[g]) /\ Cardinality(pending[g]) \in Nat
         /\ IsFiniteSet(Holding(g)) /\ Cardinality(Holding(g)) \in Nat
<1>1. pending[g] \in SUBSET Calls /\ Holding(g) \in SUBSET Calls
  BY DEF RequestType, Holding
<1>2. IsFiniteSet(pending[g]) /\ IsFiniteSet(Holding(g))
  BY <1>1, FS_Subset, ClientAssumption
<1>3. QED
  BY <1>2, FS_CardinalityType

(* The channels are empty at the start.                                    *)
LEMMA SlotsInit == Init => Slots
<1> SUFFICES ASSUME Init PROVE Slots
  OBVIOUS
<1>1. \A g \in Gens : Holding(g) = {} /\ pending[g] = {} /\ slots[g] = 0
  BY DEF Init, Holding
<1>2. QED
  BY SMTT(20), <1>1, FS_EmptySet, ClientAssumption DEF Init, Slots, SlotsMatch

(* A step that changes no slot, no entry and no holder.                    *)
LEMMA SlotsSame ==
  ASSUME Slots, UNCHANGED <<slots, pending>>, \A h \in Gens : Holding(h)' = Holding(h)
  PROVE  Slots'
BY DEF Slots, SlotsMatch

(* A step that changes the slots, the entries or the holders of one        *)
(* generation, and keeps its count.                                        *)
LEMMA SlotsMove ==
  ASSUME RequestType, RequestType', Slots, NEW g \in Gens,
         \A h \in Gens \ {g} : pending'[h] = pending[h] /\ Holding(h)' = Holding(h),
         NEW n \in Int, slots' = [slots EXCEPT ![g] = n],
         n = Cardinality(pending'[g]) + Cardinality(Holding(g)'), n <= InflightLimit
  PROVE  Slots'
<1>1. Cardinality(pending'[g]) \in Nat /\ Cardinality(Holding(g)') \in Nat
  <2>1. pending'[g] \in SUBSET Calls /\ Holding(g)' \in SUBSET Calls
    BY DEF RequestType, Holding
  <2>2. IsFiniteSet(pending'[g]) /\ IsFiniteSet(Holding(g)')
    BY <2>1, FS_Subset, ClientAssumption
  <2>3. QED
    BY <2>2, FS_CardinalityType
<1>2. n \in Nat
  BY <1>1
<1>3. slots' \in [Gens -> Nat] /\ slots'[g] = n /\ \A h \in Gens \ {g} : slots'[h] = slots[h]
  BY <1>2 DEF Slots
<1>4. ASSUME NEW h \in Gens
      PROVE  /\ slots'[h] = Cardinality(pending'[h]) + Cardinality(Holding(h)')
             /\ slots'[h] <= InflightLimit
  <2>1. CASE h = g
    BY <2>1, <1>3
  <2>2. CASE h # g
    BY <2>2, <1>3 DEF Slots, SlotsMatch
  <2>3. QED
    BY <2>1, <2>2
<1>5. QED
  BY <1>3, <1>4 DEF Slots, SlotsMatch

(* Taking an entry, as takePending does, keeps the count.                  *)
LEMMA SlotsTake ==
  ASSUME Request, RequestType', Slots, NEW g \in Gens, NEW c \in Calls, Take(g, c),
         \A h \in Gens : Holding(h)' = Holding(h)
  PROVE  Slots'
<1>0. RequestType /\ pending \in [Gens -> SUBSET Calls]
  BY DEF Request, RequestType
<1>1. CASE c \in pending[g]
  <2>1. /\ pending' = [pending EXCEPT ![g] = pending[g] \ {c}]
        /\ slots' = [slots EXCEPT ![g] = slots[g] - 1]
    BY <1>1 DEF Take
  <2>2. pending'[g] = pending[g] \ {c} /\ \A h \in Gens \ {g} : pending'[h] = pending[h]
    BY <1>0, <2>1
  <2>3. Cardinality(pending'[g]) = Cardinality(pending[g]) - 1
    BY ZenonT(20), <1>0, <1>1, <2>2, Counting, FS_RemoveElement
  <2>4. /\ slots[g] \in Nat /\ slots[g] <= InflightLimit
        /\ slots[g] = Cardinality(pending[g]) + Cardinality(Holding(g))
    BY DEF Slots, SlotsMatch
  <2>5. /\ slots[g] - 1 = Cardinality(pending'[g]) + Cardinality(Holding(g)')
        /\ slots[g] - 1 <= InflightLimit /\ slots[g] - 1 \in Int
    BY <1>0, <2>3, <2>4, Counting, ClientAssumption
  <2>6. QED
    BY ZenonT(20), <1>0, <2>1, <2>2, <2>5, SlotsMove
<1>2. CASE c \notin pending[g]
  BY <1>2, SlotsSame DEF Take
<1>3. QED
  BY <1>1, <1>2

(* The slot steps: taking one, registering, closing and reaping.           *)
LEMMA SlotsKept ==
  ASSUME Request, Request', Slots, Next
  PROVE  Slots'
<1> USE ClientAssumption DEF linkVars, requestVars, replyVars
<1>0. /\ RequestType /\ RequestType' /\ pending \in [Gens -> SUBSET Calls]
      /\ pc \in [Calls -> Places] /\ gen \in [Calls -> Gens \cup {None}]
      /\ slots \in [Gens -> Nat]
      /\ \A h \in Gens : /\ slots[h] = Cardinality(pending[h]) + Cardinality(Holding(h))
                         /\ slots[h] <= InflightLimit
      /\ \A c \in Calls : pc[c] # "idle" => gen[c] \in Gens
  BY DEF Request, RequestType, CallPlace, Slots, SlotsMatch
<1>1. ASSUME NEW c \in Calls, TakeSlot(c)
      PROVE  Slots'
  <2>0. ASSUME NEW k \in Gens, k = gen[c]
        PROVE  Slots'
    <3>1. /\ Holding(k)' = Holding(k) \cup {c} /\ c \notin Holding(k)
          /\ \A h \in Gens \ {k} : Holding(h)' = Holding(h)
      BY <1>0, <1>1, <2>0 DEF TakeSlot, Holding, Goto
    <3>2. Cardinality(Holding(k)') = Cardinality(Holding(k)) + 1
      BY ZenonT(20), <1>0, <3>1, Counting, FS_AddElement
    <3>3. pending' = pending /\ slots' = [slots EXCEPT ![k] = slots[k] + 1] /\ slots[k] < InflightLimit
      BY <1>1, <2>0 DEF TakeSlot
    <3>4. /\ slots[k] + 1 = Cardinality(pending'[k]) + Cardinality(Holding(k)')
          /\ slots[k] + 1 <= InflightLimit /\ slots[k] + 1 \in Int
      BY <1>0, <3>2, <3>3, Counting
    <3>5. QED
      BY ZenonT(20), <1>0, <3>1, <3>3, <3>4, SlotsMove
  <2>1. QED
    BY ZenonT(20), <1>0, <1>1, <2>0 DEF TakeSlot
<1>2. ASSUME NEW c \in Calls, Register(c)
      PROVE  Slots'
  <2>0. ASSUME NEW k \in Gens, k = gen[c]
        PROVE  Slots'
    <3>1. /\ Holding(k)' = Holding(k) \ {c} /\ c \in Holding(k)
          /\ \A h \in Gens \ {k} : Holding(h)' = Holding(h)
      BY <1>0, <1>2, <2>0 DEF Register, Holding, Goto
    <3>2. Cardinality(Holding(k)') = Cardinality(Holding(k)) - 1
      BY ZenonT(20), <1>0, <3>1, Counting, FS_RemoveElement
    <3>3. CASE closing[k] # "no"
      <4>1. pending' = pending /\ slots' = [slots EXCEPT ![k] = slots[k] - 1]
        BY <1>2, <2>0, <3>3 DEF Register
      <4>2. /\ slots[k] - 1 = Cardinality(pending'[k]) + Cardinality(Holding(k)')
            /\ slots[k] - 1 <= InflightLimit /\ slots[k] - 1 \in Int
        BY <1>0, <3>2, <4>1, Counting
      <4>3. QED
        BY ZenonT(20), <1>0, <3>1, <4>1, <4>2, SlotsMove
    <3>4. CASE closing[k] = "no"
      <4>1. slots' = slots /\ pending' = [pending EXCEPT ![k] = pending[k] \cup {c}]
        BY SMTT(20), <1>2, <2>0, <3>4 DEF Register
      <4>2. c \notin pending[k] /\ slots' = [slots EXCEPT ![k] = slots[k]]
        BY <1>0, <1>2, <4>1 DEF Register, Request, CallPlace, Early
      <4>3. pending'[k] = pending[k] \cup {c} /\ \A h \in Gens \ {k} : pending'[h] = pending[h]
        BY <1>0, <4>1
      <4>4. Cardinality(pending'[k]) = Cardinality(pending[k]) + 1
        BY ZenonT(20), <1>0, <4>2, <4>3, Counting, FS_AddElement
      <4>5. /\ slots[k] = Cardinality(pending'[k]) + Cardinality(Holding(k)')
            /\ slots[k] <= InflightLimit /\ slots[k] \in Int
        BY <1>0, <3>2, <4>4, Counting
      <4>6. QED
        BY ZenonT(20), <1>0, <3>1, <4>2, <4>3, <4>5, SlotsMove
    <3>5. QED
      BY <3>3, <3>4
  <2>1. QED
    BY ZenonT(20), <1>0, <1>2, <2>0 DEF Register
<1>3. ASSUME NEW g \in Gens, CloseBegin(g)
      PROVE  Slots'
  <2>1. /\ slots' = [slots EXCEPT ![g] = slots[g] - Cardinality(pending[g])]
        /\ pending'[g] = {} /\ \A h \in Gens \ {g} : pending'[h] = pending[h]
        /\ \A h \in Gens : Holding(h)' = Holding(h)
    BY <1>0, <1>3 DEF CloseBegin, Holding
  <2>2. /\ slots[g] - Cardinality(pending[g]) = Cardinality(pending'[g]) + Cardinality(Holding(g)')
        /\ slots[g] - Cardinality(pending[g]) <= InflightLimit
        /\ slots[g] - Cardinality(pending[g]) \in Int
    BY <1>0, <2>1, Counting, FS_EmptySet
  <2>3. QED
    BY ZenonT(20), <1>0, <2>1, <2>2, SlotsMove
<1>4. ASSUME NEW g \in Gens, Reap(g)
      PROVE  Slots'
  <2>1. PICK E \in SUBSET Reapable(g) :
               /\ pending' = [pending EXCEPT ![g] = pending[g] \ E]
               /\ slots' = [slots EXCEPT ![g] = slots[g] - Cardinality(E)]
    BY ZenonT(20), <1>4 DEF Reap
  <2>2. /\ E \in SUBSET pending[g] /\ pending[g] \cap E = E
        /\ pending'[g] = pending[g] \ E /\ \A h \in Gens \ {g} : pending'[h] = pending[h]
        /\ \A h \in Gens : Holding(h)' = Holding(h)
    BY <1>0, <1>4, <2>1 DEF Reapable, Reap, Holding
  <2>3. /\ Cardinality(pending'[g]) = Cardinality(pending[g]) - Cardinality(E)
        /\ Cardinality(E) \in Nat
    <3>1. IsFiniteSet(pending[g]) /\ IsFiniteSet(E)
      BY <1>0, <2>2, Counting, FS_Subset
    <3>2. Cardinality(pending[g] \ E) = Cardinality(pending[g]) - Cardinality(pending[g] \cap E)
      BY ZenonT(20), <3>1, FS_Difference
    <3>3. QED
      BY ZenonT(20), <2>2, <3>1, <3>2, FS_CardinalityType
  <2>4. /\ slots[g] - Cardinality(E) = Cardinality(pending'[g]) + Cardinality(Holding(g)')
        /\ slots[g] - Cardinality(E) <= InflightLimit /\ slots[g] - Cardinality(E) \in Int
    BY <1>0, <2>2, <2>3, Counting
  <2>5. QED
    BY ZenonT(20), <1>0, <2>1, <2>2, <2>4, SlotsMove
<1>5. ASSUME NEW c \in Calls, Withdraw(c)
      PROVE  Slots'
  <2>1. gen[c] \in Gens /\ Take(gen[c], c) /\ \A h \in Gens : Holding(h)' = Holding(h)
    BY SMTT(20), <1>0, <1>5 DEF Withdraw, Holding, Goto
  <2>2. QED
    BY ZenonT(20), <1>0, <2>1, SlotsTake
<1>6. ASSUME NEW c \in Calls, HandleResponse(c)
      PROVE  Slots'
  <2>1. gen[c] \in Gens /\ Take(gen[c], c) /\ \A h \in Gens : Holding(h)' = Holding(h)
    BY <1>0, <1>6 DEF HandleResponse, Holding, Request, CallPlace
  <2>2. QED
    BY ZenonT(20), <1>0, <2>1, SlotsTake
<1>7. ASSUME NEW c \in Calls, SendRequest(c) \/ NoSlot(c) \/ WriteBegin(c) \/ WriteEnds(c) \/ ServerAnswers(c)
      PROVE  Slots'
  <2>1. UNCHANGED <<slots, pending>> /\ \A h \in Gens : Holding(h)' = Holding(h)
    BY <1>0, <1>7 DEF SendRequest, NoSlot, WriteBegin, WriteEnds, ServerAnswers, Holding, Goto, Places, Early
  <2>2. QED
    BY SMTT(20), <2>1, SlotsSame
<1>8. ASSUME NEW g \in Gens,
             \/ ConnectTo(g) \/ Timeout(g) \/ Connecting(g) \/ CancelAttempt(g)
             \/ DisconnectReturns(g) \/ Disconnecting(g) \/ Delivering(g)
      PROVE  Slots'
  <2>1. UNCHANGED <<slots, pending, pc, gen>>
    BY ZenonT(20), <1>8 DEF ConnectTo, Timeout, Connecting, Dialled, Shaken, Fail, Publish, CancelAttempt,
                DisconnectReturns, Disconnecting, CloseShut, CloseUnpublish,
                Delivering, Deliver, DeliverTimeout, LoopsLeave
  <2>2. QED
    BY SMTT(20), <2>1, SlotsSame DEF Holding
<1>9. QED
  BY <1>1, <1>2, <1>3, <1>4, <1>5, <1>6, <1>7, <1>8 DEF Next, Sending
-----------------------------------------------------------------------------
Inv == Link /\ Request /\ Slots

(* The three invariants together are inductive.                            *)
LEMMA InvStep == Inv /\ [Next]_vars => Inv'
<1> SUFFICES ASSUME Inv, [Next]_vars PROVE Inv'
  BY ZenonT(20)
<1>1. CASE UNCHANGED vars
  BY SMTT(20), <1>1 DEF Inv, vars, linkVars, requestVars, replyVars, Link, LinkType, StateOf, GenLink,
              Request, RequestType, CallPlace, GenHolds, Slots, SlotsMatch, Holding
<1>2. ASSUME NEW g \in Gens, LinkStep(g)
      PROVE  Link' /\ Request'
  BY <1>2, LinkKept, RequestLink DEF Inv
<1>3. ASSUME NEW c \in Calls, SendRequest(c) \/ Sending(c) \/ ServerAnswers(c)
      PROVE  Link' /\ Request'
  <2>1. UNCHANGED linkVars
    BY <1>3 DEF SendRequest, Sending, ServerAnswers, TakeSlot, NoSlot, Register, WriteBegin,
                WriteEnds, Withdraw
  <2>2. Link'
    BY <2>1 DEF Inv, linkVars, Link, LinkType, StateOf, GenLink
  <2>3. QED
    BY <1>3, <2>2, RequestSending DEF Inv
<1>4. ASSUME \/ \E c \in Calls : HandleResponse(c)
             \/ \E g \in Gens : Reap(g) \/ Delivering(g)
      PROVE  Link' /\ Request'
  <2>1. UNCHANGED linkVars
    BY <1>4 DEF HandleResponse, Reap, Delivering, Deliver, DeliverTimeout, LoopsLeave
  <2>2. Link'
    BY <2>1 DEF Inv, linkVars, Link, LinkType, StateOf, GenLink
  <2>3. QED
    BY SMTT(20), <1>4, <2>2, RequestLoops DEF Inv
<1>5. ASSUME Next
      PROVE  Link' /\ Request'
  BY <1>2, <1>3, <1>4, <1>5 DEF Next, LinkStep
<1>6. QED
  BY <1>1, <1>5, SlotsKept DEF Inv

(* The invariant holds in every state.                                     *)
LEMMA InvHolds == Spec => []Inv
<1>1. Init => Inv
  BY LinkInit, RequestInit, SlotsInit DEF Inv
<1>2. QED
  BY <1>1, InvStep, PTL DEF Spec

(* Every variable of the client keeps its type; that the number of slots   *)
(* stays a natural number rests on the whole invariant.                    *)
THEOREM TypeTheorem == Spec => []TypeOK
<1>1. Inv => TypeOK
  BY DEF Inv, Link, LinkType, Request, RequestType, Slots, TypeOK, Stages, Closings, Places, Early
<1>2. QED
  BY <1>1, InvHolds, PTL

(* ConnectTo, Disconnect and the loops of old generations never leave two  *)
(* open connections, nor a state that belongs to none.                     *)
THEOREM ConnectionTheorem == Spec => []OneConnection
<1>1. Inv => OneConnection
  BY SMTT(20), ClientAssumption DEF Inv, Link, LinkType, StateOf, GenLink, OneConnection, Underway
<1>2. QED
  BY <1>1, InvHolds, PTL

(* The response, the reaper and the end of the generation race for the     *)
(* pending entry of a request, and at most one delivers.                   *)
THEOREM OutcomeTheorem == Spec => []OneOutcome
<1>1. Inv => OneOutcome
  <2> SUFFICES ASSUME Request PROVE OneOutcome
    BY DEF Inv
  <2>1. ASSUME NEW c \in Calls
        PROVE  /\ outcomes[c] <= 1
               /\ gen[c] # None /\ (c \in pending[gen[c]] \/ c = handing[gen[c]] \/ c \in reaping[gen[c]])
                    => outcomes[c] = 0
               /\ pc[c] = "failed" => c \notin pending[gen[c]]
    <3>1. /\ outcomes[c] \in {0, 1} /\ gen[c] \in Gens \cup {None}
          /\ gen[c] = None <=> pc[c] = "idle"
          /\ pc[c] = "failed" => \A g \in Gens : c \notin pending[g]
          /\ c # None
      BY SMTT(20), ClientAssumption DEF Request, RequestType, CallPlace
    <3>2. CASE gen[c] \in Gens
      <4>1. GenHolds(gen[c])
        BY <3>2 DEF Request
      <4>2. QED
        BY <3>1, <3>2, <4>1 DEF GenHolds
    <3>3. CASE gen[c] = None
      BY <3>1, <3>3
    <3>4. QED
      BY <3>1, <3>2, <3>3
  <2>2. QED
    BY <2>1 DEF OneOutcome, Request, GenHolds
<1>2. QED
  BY <1>1, InvHolds, PTL

(* No receive from a generation's slots blocks and no token is lost.       *)
THEOREM SlotsTheorem == Spec => []SlotsMatch
<1>1. Inv => SlotsMatch
  BY DEF Inv, Slots
<1>2. QED
  BY <1>1, InvHolds, PTL

=============================================================================
