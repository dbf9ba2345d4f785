------------------------------ MODULE RpcOrder ------------------------------
(***************************************************************************)
(* For any peers, users and buffer sizes: the receiving side of NatsRPC    *)
(* keeps the order of every user's requests, and a caller gets the answer  *)
(* of its own request.                                                     *)
(*                                                                         *)
(* UserOrder speaks of the log only.  It is inductive together with the    *)
(* order along the whole way of a request: what a peer has run for a user  *)
(* comes before what waits in that user's queue, that before the request   *)
(* in hand, that before the channel and that before the wire (InOrder).    *)
(* Each stage is sorted, and holds only requests of its peer and its user  *)
(* (AtHome).  OwnAnswer needs that a positive reply on its way belongs to  *)
(* a request in the log (Answers).                                         *)
(***************************************************************************)
EXTENDS Rpc, Functions, TLAPS

(* Requests carry their numbers in the order in which Call published them. *)
Sorted(s) == \A i, j \in DOMAIN s : i < j => s[i] < s[j]
Before(S, T) == \A x \in S, y \in T : x < y

(* What a peer has not yet given to a goroutine.                           *)
Held(p) == IF inHand[p] = Nil THEN {} ELSE {inHand[p]}
Coming(p) == Range(subChan[p]) \cup Range(wire[p])
Waiting(p) == Held(p) \cup Coming(p)

(* The stages of a request at peer p, each sorted and before the next.     *)
InOrder(p) ==
  /\ Sorted(wire[p]) /\ Sorted(subChan[p]) /\ Before(Range(subChan[p]), Range(wire[p]))
  /\ Before(Held(p), Coming(p))
  /\ \A u \in Users : /\ Sorted(queue[p][u]) /\ Sorted(log[p][u])
                      /\ Before(Range(queue[p][u]), Waiting(p))
                      /\ Before(Range(log[p][u]), Range(queue[p][u]) \cup Waiting(p))

(* A request waits, runs or is logged only at its peer and for its user.   *)
AtHome(p) ==
  /\ \A r \in Waiting(p) : r <= sent /\ req[r].peer = p
  /\ \A u \in Users : \A r \in Range(queue[p][u]) \cup Range(log[p][u]) :
       r <= sent /\ req[r].peer = p /\ req[r].user = u
  /\ \A r \in loose[p] : r <= sent /\ req[r].user = NoUser

(* A request of a user was run for that user.                              *)
Logged(r) == req[r].user \in Users => r \in Range(log[req[r].peer][req[r].user])

(* Who is answered was sent, and a positive answer was earned.             *)
Answers ==
  /\ \A m \in replies : m[1] <= sent /\ (m[2] = "ok" => Logged(m[1]))
  /\ \A r \in Numbers : /\ r <= sent => req[r].peer \in Peers
                        /\ req[r].result = "ok" /\ req[r].kind # "notify" => r <= sent /\ Logged(r)
                        /\ req[r].result = "waiting" => r <= sent

(* TypeOK of Rpc, by variable.                                             *)
RpcType ==
  /\ sent \in 0 .. MaxRequests
  /\ req \in [Numbers -> [user : Senders, peer : Peers \cup {Nil}, kind : Kinds, result : Results]]
  /\ wire \in [Peers -> Seq(Numbers)]
  /\ subChan \in [Peers -> Seq(Numbers)] /\ \A p \in Peers : Len(subChan[p]) <= Buffer
  /\ inHand \in [Peers -> Numbers \cup {Nil}] /\ loose \in [Peers -> SUBSET Numbers]
  /\ queue \in [Peers -> [Users -> Seq(Numbers)]]
  /\ \A p \in Peers, u \in Users : Len(queue[p][u]) <= TaskBuffer
  /\ log \in [Peers -> [Users -> Seq(Numbers)]]
  /\ server \in [Peers -> {"running", "stopping", "closed", "gone"}]
  /\ replies \subseteq Numbers \X {"ok", "error"}

(* The inductive invariant.                                                *)
IInv == RpcType /\ (\A p \in Peers : InOrder(p) /\ AtHome(p)) /\ Answers
-----------------------------------------------------------------------------
(* Sequences of numbers that are appended to and shortened.                *)
LEMMA Appended ==
  ASSUME NEW S \in SUBSET Nat, NEW s \in Seq(S), NEW n \in S
  PROVE  /\ Append(s, n) \in Seq(S) /\ Len(Append(s, n)) = Len(s) + 1
         /\ Range(Append(s, n)) = Range(s) \cup {n}
         /\ Sorted(s) /\ Before(Range(s), {n}) => Sorted(Append(s, n))
<1> DEFINE t == Append(s, n)
<1>1. /\ t \in Seq(S) /\ Len(t) = Len(s) + 1 /\ Len(s) \in Nat
      /\ \A i \in 1 .. Len(s) : t[i] = s[i]
      /\ t[Len(s) + 1] = n /\ DOMAIN t = 1 .. Len(s) + 1 /\ DOMAIN s = 1 .. Len(s)
  OBVIOUS
<1> HIDE DEF t
<1>2. Range(t) = Range(s) \cup {n}
  BY <1>1 DEF Range
<1>3. ASSUME Sorted(s), Before(Range(s), {n}) PROVE Sorted(t)
  <2> SUFFICES ASSUME NEW i \in DOMAIN t, NEW j \in DOMAIN t, i < j PROVE t[i] < t[j]
    BY DEF Sorted
  <2>1. i \in DOMAIN s /\ t[i] = s[i] /\ s[i] \in Range(s)
    BY <1>1 DEF Range
  <2>2. CASE j = Len(s) + 1
    BY <1>1, <1>3, <2>1, <2>2 DEF Before
  <2>3. CASE j # Len(s) + 1
    BY <1>1, <1>3, <2>1, <2>3 DEF Sorted
  <2> QED
    BY <2>2, <2>3
<1> QED
  BY <1>1, <1>2, <1>3 DEF t

(* Taking the first number off a sorted sequence leaves it sorted, and all *)
(* that stays is larger: the receive from a channel.                       *)
LEMMA Shortened ==
  ASSUME NEW S \in SUBSET Nat, NEW s \in Seq(S), s # <<>>
  PROVE  /\ Head(s) \in S /\ Tail(s) \in Seq(S) /\ Len(Tail(s)) = Len(s) - 1 /\ Len(s) \in Nat
         /\ Range(s) = {Head(s)} \cup Range(Tail(s))
         /\ Sorted(s) => Sorted(Tail(s)) /\ Before({Head(s)}, Range(Tail(s)))
<1> DEFINE t == Tail(s)
<1>1. /\ Head(s) \in S /\ t \in Seq(S) /\ Len(t) = Len(s) - 1 /\ Len(s) \in Nat \ {0}
      /\ \A i \in 1 .. Len(t) : t[i] = s[i + 1]
      /\ Head(s) = s[1] /\ DOMAIN t = 1 .. Len(s) - 1 /\ DOMAIN s = 1 .. Len(s)
  OBVIOUS
<1> HIDE DEF t
<1>2. Range(s) = {Head(s)} \cup Range(t)
  <2>1. ASSUME NEW x \in Range(s) PROVE x \in {Head(s)} \cup Range(t)
    <3>1. PICK i \in DOMAIN s : x = s[i]
      BY DEF Range
    <3>2. CASE i = 1
      BY <1>1, <3>1, <3>2
    <3>3. CASE i # 1
      <4>1. i - 1 \in DOMAIN t /\ t[i - 1] = x
        BY <1>1, <3>1, <3>3
      <4> QED
        BY <4>1 DEF Range
    <3> QED
      BY <3>2, <3>3
  <2>2. ASSUME NEW x \in {Head(s)} \cup Range(t) PROVE x \in Range(s)
    BY <1>1 DEF Range
  <2> QED
    BY <2>1, <2>2
<1>3. ASSUME Sorted(s) PROVE Sorted(t) /\ Before({Head(s)}, Range(t))
  <2>1. ASSUME NEW i \in DOMAIN t PROVE t[i] = s[i + 1] /\ i + 1 \in DOMAIN s /\ i \in Nat /\ i > 0
    BY <1>1
  <2>2. Sorted(t)
    BY <1>1, <1>3, <2>1 DEF Sorted
  <2>3. Before({Head(s)}, Range(t))
    <3> SUFFICES ASSUME NEW i \in DOMAIN t PROVE s[1] < t[i]
      BY <1>1 DEF Before, Range
    <3> QED
      BY <1>1, <1>3, <2>1 DEF Sorted
  <2> QED
    BY <2>2, <2>3
<1> QED
  BY <1>1, <1>2, <1>3 DEF t

(* What a sequence of requests holds are requests.                         *)
LEMMA RangeIn == ASSUME NEW S, NEW s \in Seq(S) PROVE Range(s) \subseteq S
  BY DEF Range

(* An empty channel holds nothing, in order.                               *)
LEMMA Empty == Range(<<>>) = {} /\ Sorted(<<>>)
  BY DEF Range, Sorted

(* Request numbers are compared as numbers, and none is the empty hand.    *)
LEMMA NumbersAreNat == ASSUME RpcConstants PROVE Numbers \in SUBSET Nat /\ Nil \notin Numbers
  BY DEF RpcConstants, Numbers

(* A peer that a step leaves alone stays in order; it stays at home if the *)
(* requests that were sent keep their user and peer.                       *)
Untouched(q) == UNCHANGED <<wire[q], subChan[q], inHand[q], queue[q], log[q]>>

(* Requests that were sent keep their user, peer and kind.                 *)
Kept ==
  /\ sent' \in Nat /\ sent <= sent'
  /\ \A r \in Numbers : r <= sent => /\ req'[r].user = req[r].user /\ req'[r].peer = req[r].peer
                                     /\ req'[r].kind = req[r].kind

(* A peer whose stages a step leaves alone stays in order.                 *)
LEMMA OrderFrame ==
  ASSUME NEW q \in Peers, InOrder(q), Untouched(q)
  PROVE  InOrder(q)'
  BY ZenonT(20) DEF InOrder, Untouched, Waiting, Coming, Held

(* Requests that only move on among the stages of their peer stay at home. *)
LEMMA HomeMoves ==
  ASSUME RpcConstants, RpcType, NEW q \in Peers, AtHome(q), Kept,
         Waiting(q)' \subseteq Waiting(q),
         \A u \in Users : Range(queue'[q][u]) \cup Range(log'[q][u]) \subseteq
           Range(queue[q][u]) \cup Range(log[q][u]) \cup {r \in Waiting(q) : req[r].user = u},
         loose'[q] \subseteq loose[q] \cup {r \in Waiting(q) : req[r].user = NoUser}
  PROVE  AtHome(q)'
<1>1. /\ Waiting(q) \subseteq Numbers /\ loose[q] \subseteq Numbers
      /\ \A u \in Users : Range(queue[q][u]) \cup Range(log[q][u]) \subseteq Numbers
  BY RangeIn DEF RpcType, Waiting, Coming, Held
<1>2. sent \in Nat /\ Numbers \subseteq Nat
  BY NumbersAreNat DEF RpcType
<1>3. ASSUME NEW r \in Numbers, r <= sent
      PROVE  r <= sent' /\ req'[r].user = req[r].user /\ req'[r].peer = req[r].peer
  BY <1>2, <1>3 DEF Kept
<1>4. \A r \in Waiting(q)' : r <= sent' /\ req'[r].peer = q
  BY <1>1, <1>3 DEF AtHome
<1>5. \A u \in Users : \A r \in Range(queue'[q][u]) \cup Range(log'[q][u]) :
        r <= sent' /\ req'[r].peer = q /\ req'[r].user = u
  BY <1>1, <1>3 DEF AtHome
<1>6. \A r \in loose'[q] : r <= sent' /\ req'[r].user = NoUser
  BY <1>1, <1>3 DEF AtHome
<1> QED
  BY <1>4, <1>5, <1>6 DEF AtHome

(* A peer whose stages a step leaves alone stays at home.                  *)
LEMMA HomeFrame ==
  ASSUME RpcConstants, RpcType, NEW q \in Peers, AtHome(q), Untouched(q), loose'[q] \subseteq loose[q], Kept
  PROVE  AtHome(q)'
<1>1. /\ Waiting(q)' = Waiting(q) /\ queue'[q] = queue[q] /\ log'[q] = log[q]
  BY DEF Untouched, Waiting, Coming, Held
<1> QED
  BY <1>1, HomeMoves

(* Requests keep all but their result, logs grow, and a positive answer,   *)
(* on its way or received, is that of a request in the log.                *)
Answering ==
  /\ sent' = sent
  /\ \A r \in Numbers : /\ req'[r].user = req[r].user /\ req'[r].peer = req[r].peer
                        /\ req'[r].kind = req[r].kind
  /\ \A p \in Peers, u \in Users : Range(log[p][u]) \subseteq Range(log'[p][u])
  /\ \A m \in replies' \ replies : m[1] \in Numbers /\ m[1] <= sent /\ (m[2] = "ok" => Logged(m[1])')
  /\ \A r \in Numbers : \/ req'[r].result = req[r].result
                        \/ r <= sent /\ (req'[r].result = "ok" => Logged(r))

(* A step that only answers, or logs, keeps what holds of answers.         *)
LEMMA AnswersMove ==
  ASSUME RpcConstants, RpcType, Answers, Answering
  PROVE  Answers' /\ Kept
<1>0. sent \in Nat /\ Numbers \in SUBSET Nat /\ replies \subseteq Numbers \X {"ok", "error"}
  BY NumbersAreNat DEF RpcType
<1>1. ASSUME NEW r \in Numbers, r <= sent, Logged(r) PROVE Logged(r)'
  <2>1. CASE req[r].user \in Users
    <3>1. req[r].peer \in Peers
      BY <1>1 DEF Answers
    <3>2. r \in Range(log'[req[r].peer][req[r].user])
      BY ZenonT(20), <1>1, <2>1, <3>1 DEF Answering, Logged
    <3> QED
      BY <3>2 DEF Answering, Logged
  <2>2. CASE req[r].user \notin Users
    BY <2>2 DEF Answering, Logged
  <2> QED
    BY <2>1, <2>2
<1>2. \A m \in replies' : m[1] <= sent' /\ (m[2] = "ok" => Logged(m[1])')
  BY ZenonT(20), <1>0, <1>1 DEF Answers, Answering
<1>3. ASSUME NEW r \in Numbers
      PROVE  /\ r <= sent' => req'[r].peer \in Peers
             /\ req'[r].result = "ok" /\ req'[r].kind # "notify" => r <= sent' /\ Logged(r)'
             /\ req'[r].result = "waiting" => r <= sent'
  BY <1>1 DEF Answers, Answering
<1>4. Kept
  BY <1>0 DEF Answering, Kept
<1> QED
  BY <1>2, <1>3, <1>4 DEF Answers
-----------------------------------------------------------------------------
(* Call and Notify publish: the new request is the largest, at the end of  *)
(* the wire of its peer.                                                   *)
LEMMA CallStep ==
  ASSUME RpcConstants, IInv, NEW p \in Peers, NEW u \in Senders, NEW kind \in Kinds, Call(p, u, kind)
  PROVE  IInv'
<1> DEFINE n == sent + 1
<1>1. RpcType /\ Answers /\ Numbers \in SUBSET Nat /\ Nil \notin Numbers
  BY NumbersAreNat DEF IInv
<1>2. /\ sent \in Nat /\ n \in Numbers /\ sent' = n /\ n <= sent' /\ MaxRequests \in Nat
      /\ req' = [req EXCEPT ![n] = [user |-> u, peer |-> p, kind |-> kind,
                                    result |-> IF kind = "notify" THEN "ok" ELSE "waiting"]]
      /\ wire' = [wire EXCEPT ![p] = Append(@, n)]
      /\ UNCHANGED <<replies, subChan, inHand, queue, loose, log, server>>
  BY DEF IInv, RpcType, RpcConstants, Numbers, Call, server_vars
<1> HIDE DEF n
<1>3. /\ \A r \in Numbers : r # n => req'[r] = req[r]
      /\ req'[n].user = u /\ req'[n].peer = p /\ req'[n].kind = kind
      /\ req'[n].result = IF kind = "notify" THEN "ok" ELSE "waiting"
      /\ \A r \in Numbers : r <= sent <=> r # n /\ r <= n
  BY <1>1, <1>2 DEF RpcType, n
<1>4. /\ wire[p] \in Seq(Numbers) /\ wire'[p] = Append(wire[p], n)
      /\ wire'[p] \in Seq(Numbers) /\ Range(wire'[p]) = Range(wire[p]) \cup {n}
      /\ Sorted(wire[p]) /\ Before(Range(wire[p]), {n}) => Sorted(wire'[p])
  BY ZenonT(20), <1>1, <1>2, Appended DEF RpcType
<1>5. RpcType'
  <2>1. req' \in [Numbers -> [user : Senders, peer : Peers \cup {Nil}, kind : Kinds, result : Results]]
    BY <1>1, <1>2 DEF RpcType, Results
  <2>2. wire' \in [Peers -> Seq(Numbers)]
    BY <1>1, <1>2, <1>4 DEF RpcType
  <2> QED
    BY <1>1, <1>2, <2>1, <2>2 DEF RpcType, Numbers
<1>6. ASSUME NEW q \in Peers PROVE InOrder(q)' /\ AtHome(q)'
  <2>0. InOrder(q) /\ AtHome(q)
    BY DEF IInv
  <2>1. Kept
    BY <1>2, <1>3 DEF Kept, n
  <2>2. CASE q # p
    <3>1. Untouched(q) /\ loose'[q] \subseteq loose[q]
      BY <1>1, <1>2, <2>2 DEF Untouched, RpcType
    <3> QED
      BY <1>1, <2>0, <2>1, <3>1, OrderFrame, HomeFrame
  <2>3. CASE q = p
    <3>0. InOrder(p) /\ AtHome(p)
      BY DEF IInv
    <3>1. /\ Held(p)' = Held(p) /\ Coming(p)' = Coming(p) \cup {n} /\ Waiting(p)' = Waiting(p) \cup {n}
      BY <1>2, <1>4 DEF Held, Coming, Waiting
    <3>2. /\ Before(Waiting(p), {n}) /\ Before(Range(wire[p]), {n}) /\ Before(Range(subChan[p]), {n})
          /\ Before(Held(p), {n})
          /\ \A v \in Users : Before(Range(queue[p][v]), {n}) /\ Before(Range(log[p][v]), {n})
      <4>1. \A r \in Waiting(p) : r < n
        <5>1. Waiting(p) \subseteq Numbers
          BY <1>1, RangeIn DEF RpcType, Waiting, Coming, Held
        <5>2. \A r \in Numbers : r <= sent => r < n
          BY <1>1, <1>2 DEF n
        <5> QED
          BY <3>0, <5>1, <5>2 DEF AtHome
      <4>2. \A v \in Users : \A r \in Range(queue[p][v]) \cup Range(log[p][v]) : r < n
        <5>1. \A v \in Users : Range(queue[p][v]) \cup Range(log[p][v]) \subseteq Numbers
          BY <1>1, RangeIn DEF RpcType
        <5>2. \A r \in Numbers : r <= sent => r < n
          BY <1>1, <1>2 DEF n
        <5> QED
          BY <3>0, <5>1, <5>2 DEF AtHome
      <4> QED
        BY <4>1, <4>2 DEF Before, Waiting, Coming
    <3>3. InOrder(p)'
      BY <1>2, <1>4, <3>0, <3>1, <3>2 DEF InOrder, Before
    <3>4. AtHome(p)'
      <4>1. Waiting(p) \subseteq Numbers /\ loose[p] \subseteq Numbers
        BY <1>1, RangeIn DEF RpcType, Waiting, Coming, Held
      <4>2. \A v \in Users : Range(queue[p][v]) \cup Range(log[p][v]) \subseteq Numbers
        BY <1>1, RangeIn DEF RpcType
      <4>3. ASSUME NEW r \in Numbers, r <= sent
            PROVE  r <= sent' /\ req'[r].user = req[r].user /\ req'[r].peer = req[r].peer
        BY ZenonT(30), <1>1, <1>2, <1>3, <4>3
      <4>4. \A r \in Waiting(p)' : r <= sent' /\ req'[r].peer = p
        BY ZenonT(30), <1>2, <1>3, <3>0, <3>1, <4>1, <4>3 DEF AtHome
      <4>5. \A v \in Users : \A r \in Range(queue'[p][v]) \cup Range(log'[p][v]) :
              r <= sent' /\ req'[r].peer = p /\ req'[r].user = v
        BY <1>2, <3>0, <4>2, <4>3 DEF AtHome
      <4>6. \A r \in loose'[p] : r <= sent' /\ req'[r].user = NoUser
        BY <1>2, <3>0, <4>1, <4>3 DEF AtHome
      <4> QED
        BY <4>4, <4>5, <4>6 DEF AtHome
    <3> QED
      BY <2>3, <3>3, <3>4
  <2> QED
    BY <2>2, <2>3
<1>7. Answers'
  <2>1. \A m \in replies : m[1] \in Numbers
    BY <1>1 DEF RpcType
  <2>2. ASSUME NEW r \in Numbers, r <= sent
        PROVE  r <= sent' /\ req'[r] = req[r] /\ (Logged(r) => Logged(r)')
    BY <1>1, <1>2, <1>3, <2>2 DEF Logged
  <2>3. \A m \in replies' : m[1] <= sent' /\ (m[2] = "ok" => Logged(m[1])')
    BY ZenonT(20), <1>1, <1>2, <2>1, <2>2 DEF Answers
  <2>4. ASSUME NEW r \in Numbers
        PROVE  /\ r <= sent' => req'[r].peer \in Peers
               /\ req'[r].result = "ok" /\ req'[r].kind # "notify" => r <= sent' /\ Logged(r)'
               /\ req'[r].result = "waiting" => r <= sent'
    <3>1. CASE r = n
      BY <1>2, <1>3, <3>1
    <3>2. CASE r # n
      BY <1>1, <1>2, <1>3, <2>2, <3>2 DEF Answers
    <3> QED
      BY <3>1, <3>2
  <2> QED
    BY <2>3, <2>4 DEF Answers
<1> QED
  BY <1>5, <1>6, <1>7 DEF IInv

(* The caller's side: a reply, a timeout, and the news that nobody is      *)
(* there, which takes a request off the wire.                              *)
LEMMA OffTheWire ==
  ASSUME RpcConstants, RpcType, NEW p \in Peers, InOrder(p), wire[p] # <<>>,
         wire'[p] = Tail(wire[p]), UNCHANGED <<inHand[p], queue[p], log[p]>>,
         \/ subChan'[p] = subChan[p]
         \/ subChan'[p] = Append(subChan[p], Head(wire[p]))
  PROVE  InOrder(p)' /\ Waiting(p)' \subseteq Waiting(p)
<1> DEFINE h == Head(wire[p])
<1>1. Numbers \in SUBSET Nat /\ wire[p] \in Seq(Numbers) /\ subChan[p] \in Seq(Numbers)
  BY NumbersAreNat DEF RpcType
<1>2. /\ h \in Numbers /\ Range(wire[p]) = {h} \cup Range(wire'[p])
      /\ Sorted(wire'[p]) /\ Before({h}, Range(wire'[p]))
  BY ZenonT(20), <1>1, Shortened DEF InOrder
<1>3. /\ Sorted(subChan'[p])
      /\ Range(subChan[p]) \subseteq Range(subChan'[p])
      /\ Range(subChan'[p]) \subseteq Range(subChan[p]) \cup {h}
  <2>1. Sorted(subChan[p]) /\ Before(Range(subChan[p]), {h})
    BY <1>2 DEF InOrder, Before
  <2>2. CASE subChan'[p] = subChan[p]
    BY <2>1, <2>2
  <2>3. CASE subChan'[p] = Append(subChan[p], h)
    <3>1. /\ Range(Append(subChan[p], h)) = Range(subChan[p]) \cup {h}
          /\ Sorted(subChan[p]) /\ Before(Range(subChan[p]), {h}) => Sorted(Append(subChan[p], h))
      BY ZenonT(20), <1>1, <1>2, Appended
    <3> QED
      BY <2>1, <2>3, <3>1
  <2> QED
    BY <2>2, <2>3
<1>4. Held(p)' = Held(p) /\ Coming(p)' \subseteq Coming(p) /\ Waiting(p)' \subseteq Waiting(p)
  BY <1>2, <1>3 DEF Held, Coming, Waiting
<1>5. Before(Range(subChan'[p]), Range(wire'[p]))
  BY ZenonT(30), <1>2, <1>3 DEF InOrder, Before
<1> HIDE DEF h
<1>6. InOrder(p)'
  BY <1>2, <1>3, <1>4, <1>5 DEF InOrder, Before
<1> QED
  BY <1>4, <1>6

(* handleMessages takes the first request of subChan in hand: it comes     *)
(* after all that is queued or logged and before all that still comes.     *)
LEMMA HandedOver ==
  ASSUME RpcConstants, RpcType, NEW p \in Peers, InOrder(p), inHand[p] = Nil, subChan[p] # <<>>,
         inHand'[p] = Head(subChan[p]), subChan'[p] = Tail(subChan[p]), UNCHANGED <<wire[p], queue[p], log[p]>>
  PROVE  InOrder(p)' /\ Waiting(p)' \subseteq Waiting(p)
<1> DEFINE h == Head(subChan[p])
<1>1. Numbers \in SUBSET Nat /\ Nil \notin Numbers /\ subChan[p] \in Seq(Numbers)
  BY NumbersAreNat DEF RpcType
<1>2. /\ h \in Numbers /\ Range(subChan[p]) = {h} \cup Range(subChan'[p])
      /\ Sorted(subChan'[p]) /\ Before({h}, Range(subChan'[p]))
  BY ZenonT(20), <1>1, Shortened DEF InOrder
<1>3. inHand'[p] = h
  OBVIOUS
<1> HIDE DEF h
<1>4. Held(p)' = {h} /\ Coming(p)' \subseteq Coming(p) /\ Waiting(p)' = Coming(p) /\ Waiting(p) = Coming(p)
  BY <1>1, <1>2, <1>3 DEF Held, Coming, Waiting
<1>5. Before({h}, Coming(p)')
  BY ZenonT(20), <1>2 DEF InOrder, Before, Coming
<1>6. InOrder(p)'
  BY <1>2, <1>4, <1>5 DEF InOrder, Before
<1> QED
  BY <1>4, <1>6

(* A request that leaves the hand for no queue disturbs no order.          *)
LEMMA LetGo ==
  ASSUME NEW p \in Peers, InOrder(p), inHand'[p] = Nil, UNCHANGED <<wire[p], subChan[p], queue[p], log[p]>>
  PROVE  InOrder(p)' /\ Waiting(p)' \subseteq Waiting(p)
<1>1. Held(p)' = {} /\ Coming(p)' = Coming(p) /\ Waiting(p)' \subseteq Waiting(p)
  BY ZenonT(30) DEF Held, Coming, Waiting
<1> QED
  BY <1>1 DEF InOrder, Before

(* processMessages puts the request in hand at the end of the queue of its *)
(* user: it is larger than what that queue and log hold.                   *)
LEMMA Queued ==
  ASSUME RpcConstants, RpcType, NEW p \in Peers, InOrder(p), NEW u \in Users, inHand[p] # Nil,
         inHand'[p] = Nil, queue'[p] = [queue[p] EXCEPT ![u] = Append(@, inHand[p])],
         UNCHANGED <<wire[p], subChan[p], log[p]>>
  PROVE  /\ InOrder(p)' /\ Waiting(p)' \subseteq Waiting(p) /\ inHand[p] \in Waiting(p)
         /\ Range(queue'[p][u]) = Range(queue[p][u]) \cup {inHand[p]}
         /\ \A v \in Users \ {u} : queue'[p][v] = queue[p][v]
<1> DEFINE h == inHand[p]
<1>1. /\ Numbers \in SUBSET Nat /\ h \in Numbers /\ queue[p][u] \in Seq(Numbers)
      /\ queue[p] \in [Users -> Seq(Numbers)]
  BY NumbersAreNat DEF RpcType
<1>2. /\ queue'[p][u] = Append(queue[p][u], h)
      /\ \A v \in Users \ {u} : queue'[p][v] = queue[p][v]
  BY <1>1
<1>3. Held(p) = {h} /\ Held(p)' = {} /\ Coming(p)' = Coming(p)
  BY DEF Held, Coming
<1>4. Waiting(p) = {h} \cup Coming(p) /\ Waiting(p)' = Coming(p)
  BY <1>3 DEF Waiting
<1> HIDE DEF h
<1>5. Sorted(queue[p][u]) /\ Before(Range(queue[p][u]), {h}) /\ Before({h}, Coming(p))
  BY <1>3, <1>4 DEF InOrder, Before
<1>6. Sorted(queue'[p][u]) /\ Range(queue'[p][u]) = Range(queue[p][u]) \cup {h}
  <2>1. /\ Range(Append(queue[p][u], h)) = Range(queue[p][u]) \cup {h}
        /\ Sorted(queue[p][u]) /\ Before(Range(queue[p][u]), {h}) => Sorted(Append(queue[p][u], h))
    BY ZenonT(30), <1>1, Appended
  <2> QED
    BY <1>2, <1>5, <2>1
<1>7. ASSUME NEW v \in Users
      PROVE  /\ Sorted(queue'[p][v]) /\ Sorted(log'[p][v])
             /\ Before(Range(queue'[p][v]), Waiting(p)')
             /\ Before(Range(log'[p][v]), Range(queue'[p][v]) \cup Waiting(p)')
  <2>1. /\ Sorted(queue[p][v]) /\ Sorted(log[p][v]) /\ Before(Range(queue[p][v]), {h} \cup Coming(p))
        /\ Before(Range(log[p][v]), Range(queue[p][v]) \cup {h} \cup Coming(p)) /\ log'[p][v] = log[p][v]
    BY <1>4 DEF InOrder, Before
  <2>2. CASE v = u
    BY <1>4, <1>5, <1>6, <2>1, <2>2 DEF Before
  <2>3. CASE v # u
    BY <1>2, <1>4, <2>1, <2>3 DEF Before
  <2> QED
    BY <2>2, <2>3
<1>8. InOrder(p)'
  BY ZenonT(30), <1>3, <1>7 DEF InOrder, Before
<1> QED
  BY <1>2, <1>4, <1>6, <1>8 DEF h

(* The goroutine of a user runs the first task of its queue: it is larger  *)
(* than what the log holds and smaller than what still waits.              *)
LEMMA Executed ==
  ASSUME RpcConstants, RpcType, NEW p \in Peers, InOrder(p), NEW u \in Users, queue[p][u] # <<>>,
         queue'[p] = [queue[p] EXCEPT ![u] = Tail(@)],
         log'[p] = [log[p] EXCEPT ![u] = Append(@, Head(queue[p][u]))],
         UNCHANGED <<wire[p], subChan[p], inHand[p]>>
  PROVE  /\ InOrder(p)' /\ Waiting(p)' = Waiting(p) /\ Head(queue[p][u]) \in Numbers
         /\ Range(queue[p][u]) = {Head(queue[p][u])} \cup Range(queue'[p][u])
         /\ Range(log'[p][u]) = Range(log[p][u]) \cup {Head(queue[p][u])}
         /\ \A v \in Users \ {u} : queue'[p][v] = queue[p][v] /\ log'[p][v] = log[p][v]
<1> DEFINE h == Head(queue[p][u])
<1>1. /\ Numbers \in SUBSET Nat /\ queue[p][u] \in Seq(Numbers) /\ log[p][u] \in Seq(Numbers)
      /\ queue[p] \in [Users -> Seq(Numbers)] /\ log[p] \in [Users -> Seq(Numbers)]
  BY NumbersAreNat DEF RpcType
<1>2. /\ queue'[p][u] = Tail(queue[p][u]) /\ log'[p][u] = Append(log[p][u], h)
      /\ \A v \in Users \ {u} : queue'[p][v] = queue[p][v] /\ log'[p][v] = log[p][v]
  BY <1>1
<1>3. Held(p)' = Held(p) /\ Coming(p)' = Coming(p) /\ Waiting(p)' = Waiting(p)
  BY DEF Held, Coming, Waiting
<1>4. /\ h \in Numbers /\ Range(queue[p][u]) = {h} \cup Range(queue'[p][u])
      /\ Sorted(queue'[p][u]) /\ Before({h}, Range(queue'[p][u]))
  <2>1. Sorted(queue[p][u])
    BY ZenonT(20) DEF InOrder
  <2>2. /\ h \in Numbers /\ Range(queue[p][u]) = {h} \cup Range(Tail(queue[p][u]))
        /\ Sorted(Tail(queue[p][u])) /\ Before({h}, Range(Tail(queue[p][u])))
    BY ZenonT(30), <1>1, <2>1, Shortened
  <2> QED
    BY <1>2, <2>2
<1> HIDE DEF h
<1>5. Sorted(log[p][u]) /\ Before(Range(log[p][u]), {h}) /\ Before({h}, Waiting(p))
  BY <1>4 DEF InOrder, Before
<1>6. Sorted(log'[p][u]) /\ Range(log'[p][u]) = Range(log[p][u]) \cup {h}
  <2>0. h \in Numbers /\ Numbers \in SUBSET Nat /\ log[p][u] \in Seq(Numbers)
    BY <1>1, <1>4
  <2>1. /\ Range(Append(log[p][u], h)) = Range(log[p][u]) \cup {h}
        /\ Sorted(log[p][u]) /\ Before(Range(log[p][u]), {h}) => Sorted(Append(log[p][u], h))
    <3> DEFINE s == log[p][u]
    <3>1. s \in Seq(Numbers)
      BY <2>0
    <3> HIDE DEF s
    <3>2. /\ Range(Append(s, h)) = Range(s) \cup {h}
          /\ Sorted(s) /\ Before(Range(s), {h}) => Sorted(Append(s, h))
      BY ZenonT(30), <2>0, <3>1, Appended
    <3> QED
      BY <3>2 DEF s
  <2> QED
    BY ZenonT(30), <1>2, <1>5, <2>1
<1>7. ASSUME NEW v \in Users
      PROVE  /\ Sorted(queue'[p][v]) /\ Sorted(log'[p][v])
             /\ Before(Range(queue'[p][v]), Waiting(p)')
             /\ Before(Range(log'[p][v]), Range(queue'[p][v]) \cup Waiting(p)')
  <2>1. /\ Sorted(queue[p][v]) /\ Sorted(log[p][v]) /\ Before(Range(queue[p][v]), Waiting(p))
        /\ Before(Range(log[p][v]), Range(queue[p][v]) \cup Waiting(p))
    BY ZenonT(20) DEF InOrder
  <2>2. CASE v = u
    BY <1>3, <1>4, <1>5, <1>6, <2>1, <2>2 DEF Before
  <2>3. CASE v # u
    BY <1>2, <1>3, <2>1, <2>3 DEF Before
  <2> QED
    BY <2>2, <2>3
<1>8. InOrder(p)'
  BY <1>3, <1>7 DEF InOrder, Before
<1> QED
  BY ZenonT(30), <1>2, <1>3, <1>4, <1>6, <1>8 DEF h

(* A server that leaves forgets what it received: what is on the wire      *)
(* keeps its order.                                                        *)
LEMMA Emptied ==
  ASSUME NEW p \in Peers, InOrder(p), subChan'[p] = <<>>, inHand'[p] = Nil,
         queue'[p] = [v \in Users |-> <<>>], log'[p] = log[p],
         Sorted(wire'[p]), Range(wire'[p]) \subseteq Range(wire[p])
  PROVE  InOrder(p)' /\ Waiting(p)' \subseteq Waiting(p)
<1>1. Held(p)' = {} /\ Coming(p)' = Range(wire'[p]) /\ Waiting(p)' = Range(wire'[p])
  BY Empty DEF Held, Coming, Waiting
<1>2. Range(wire[p]) \subseteq Waiting(p)
  BY DEF Coming, Waiting
<1>3. ASSUME NEW v \in Users
      PROVE  /\ Sorted(queue'[p][v]) /\ Sorted(log'[p][v]) /\ Range(queue'[p][v]) = {}
             /\ Before(Range(log'[p][v]), Waiting(p)')
  <2>1. queue'[p][v] = <<>> /\ log'[p][v] = log[p][v]
    OBVIOUS
  <2> QED
    BY <1>1, <1>2, <2>1, Empty DEF InOrder, Before
<1> QED
  BY <1>1, <1>2, <1>3, Empty DEF InOrder, Before
=============================================================================
