----------------------------- MODULE RpcProofs ------------------------------
(***************************************************************************)
(* Every step of the remote calls over NATS keeps the inductive invariant  *)
(* of RpcOrder, so what Rpc says of order and answers holds for any peers, *)
(* users, numbers of requests and buffer sizes.                            *)
(***************************************************************************)
EXTENDS RpcOrder

(* Steps that change requests and replies only.                            *)
LEMMA FinishType ==
  ASSUME RpcType, NEW r \in Numbers, NEW x \in {"ok", "error"}, Finish(r, x)
  PROVE  /\ req' \in [Numbers -> [user : Senders, peer : Peers \cup {Nil}, kind : Kinds, result : Results]]
         /\ \A q \in Numbers : /\ req'[q].user = req[q].user /\ req'[q].peer = req[q].peer
                               /\ req'[q].kind = req[q].kind
                               /\ req'[q].result = IF q = r THEN x ELSE req[q].result
<1> DEFINE R == [user : Senders, peer : Peers \cup {Nil}, kind : Kinds, result : Results]
<1>1. req \in [Numbers -> R] /\ x \in Results /\ req' = [req EXCEPT ![r] = [@ EXCEPT !.result = x]]
  BY DEF RpcType, Finish, Results
<1>2. \A q \in Numbers : req'[q] = IF q = r THEN [req[r] EXCEPT !.result = x] ELSE req[q]
  BY <1>1
<1>3. [req[r] EXCEPT !.result = x] \in R
  BY <1>1
<1>4. req' \in [Numbers -> R]
  BY <1>1, <1>3
<1> QED
  BY <1>1, <1>2, <1>4

(* Reply and Timeout: a caller takes the response to its own request, or   *)
(* gives up on it.                                                         *)
LEMMA ReplyStep ==
  ASSUME RpcConstants, IInv, NEW r \in Numbers, NEW x \in {"ok", "error"}, Reply(r, x) \/ (x = "error" /\ Timeout(r))
  PROVE  IInv'
<1>1. RpcType /\ Answers
  BY DEF IInv
<1>2. /\ UNCHANGED <<sent, wire, subChan, inHand, queue, loose, log, server>> /\ replies' \subseteq replies
      /\ \/ UNCHANGED req
         \/ Finish(r, x) /\ req[r].result = "waiting" /\ (x = "ok" => <<r, x>> \in replies)
  BY DEF Reply, Timeout, server_vars
<1>3. /\ req' \in [Numbers -> [user : Senders, peer : Peers \cup {Nil}, kind : Kinds, result : Results]]
      /\ \A q \in Numbers : /\ req'[q].user = req[q].user /\ req'[q].peer = req[q].peer
                            /\ req'[q].kind = req[q].kind
                            /\ \/ req'[q].result = req[q].result
                               \/ q = r /\ req'[q].result = x /\ req[r].result = "waiting"
                                  /\ (x = "ok" => <<r, x>> \in replies)
  BY <1>1, <1>2, FinishType DEF RpcType
<1>4. Answering
  <2>1. req[r].result = "waiting" => r <= sent
    BY <1>1 DEF Answers
  <2>2. <<r, "ok">> \in replies => Logged(r)
    BY <1>1 DEF Answers
  <2>3. \A q \in Numbers : \/ req'[q].result = req[q].result
                           \/ q <= sent /\ (req'[q].result = "ok" => Logged(q))
    BY <1>3, <2>1, <2>2
  <2> QED
    BY <1>2, <1>3, <2>3 DEF Answering
<1>5. Answers' /\ Kept
  BY <1>1, <1>4, AnswersMove
<1>6. ASSUME NEW q \in Peers PROVE InOrder(q)' /\ AtHome(q)'
  <2>1. InOrder(q) /\ AtHome(q) /\ Untouched(q) /\ loose'[q] \subseteq loose[q]
    BY <1>2 DEF IInv, Untouched
  <2> QED
    BY <1>1, <1>5, <2>1, OrderFrame, HomeFrame
<1>7. RpcType'
  BY <1>1, <1>2, <1>3 DEF RpcType
<1> QED
  BY <1>5, <1>6, <1>7 DEF IInv

(* NoResponders: a request to a peer that is gone is answered by the       *)
(* connection and leaves the wire.                                         *)
LEMMA NoRespondersStep ==
  ASSUME RpcConstants, IInv, NEW p \in Peers, NoResponders(p)
  PROVE  IInv'
<1> DEFINE r == Head(wire[p])
<1>1. RpcType /\ Answers /\ InOrder(p) /\ AtHome(p) /\ Numbers \in SUBSET Nat
  BY NumbersAreNat DEF IInv
<1>2. /\ UNCHANGED <<sent, replies, subChan, inHand, queue, loose, log, server>>
      /\ wire[p] # <<>> /\ wire' = [wire EXCEPT ![p] = Tail(@)]
      /\ UNCHANGED req \/ (Finish(r, "error") /\ req[r].result = "waiting")
  BY DEF NoResponders, server_vars
<1>3. wire[p] \in Seq(Numbers) /\ wire'[p] = Tail(wire[p]) /\ r \in Numbers /\ Tail(wire[p]) \in Seq(Numbers)
  BY <1>1, <1>2 DEF RpcType
<1> HIDE DEF r
<1>4. /\ req' \in [Numbers -> [user : Senders, peer : Peers \cup {Nil}, kind : Kinds, result : Results]]
      /\ \A q \in Numbers : /\ req'[q].user = req[q].user /\ req'[q].peer = req[q].peer
                            /\ req'[q].kind = req[q].kind
                            /\ \/ req'[q].result = req[q].result
                               \/ req[q].result = "waiting" /\ req'[q].result = "error"
  BY <1>1, <1>2, <1>3, FinishType DEF RpcType
<1>5. Answering
  BY <1>1, <1>2, <1>4 DEF Answering, Answers
<1>6. Answers' /\ Kept
  BY <1>1, <1>5, AnswersMove
<1>7. ASSUME NEW q \in Peers PROVE InOrder(q)' /\ AtHome(q)'
  <2>1. CASE q = p
    <3>1. InOrder(p)' /\ Waiting(p)' \subseteq Waiting(p)
      BY <1>1, <1>2, <1>3, OffTheWire
    <3>2. AtHome(p)'
      BY <1>1, <1>2, <1>6, <3>1, HomeMoves
    <3> QED
      BY <2>1, <3>1, <3>2
  <2>2. CASE q # p
    <3>1. InOrder(q) /\ AtHome(q) /\ Untouched(q) /\ loose'[q] \subseteq loose[q]
      BY <1>1, <1>2, <2>2 DEF IInv, Untouched, RpcType
    <3> QED
      BY <1>1, <1>6, <3>1, OrderFrame, HomeFrame
  <2> QED
    BY <2>1, <2>2
<1>8. RpcType'
  BY <1>1, <1>2, <1>3, <1>4 DEF RpcType
<1> QED
  BY <1>6, <1>7, <1>8 DEF IInv
-----------------------------------------------------------------------------
(* Steps of one peer: what they have to show.                              *)
LEMMA PeerMoves ==
  ASSUME RpcConstants, IInv, RpcType', NEW p \in Peers, UNCHANGED <<sent, req>>,
         InOrder(p)', Waiting(p)' \subseteq Waiting(p),
         \A u \in Users : Range(queue'[p][u]) \cup Range(log'[p][u]) \subseteq
           Range(queue[p][u]) \cup Range(log[p][u]) \cup {r \in Waiting(p) : req[r].user = u},
         \A u \in Users : Range(log[p][u]) \subseteq Range(log'[p][u]),
         loose'[p] \subseteq loose[p] \cup {r \in Waiting(p) : req[r].user = NoUser},
         \A q \in Peers \ {p} : Untouched(q) /\ loose'[q] = loose[q],
         \A m \in replies' \ replies : m[1] \in Numbers /\ m[1] <= sent /\ (m[2] = "ok" => Logged(m[1])')
  PROVE  IInv'
<1>1. RpcType /\ Answers /\ InOrder(p) /\ AtHome(p)
  BY DEF IInv
<1>2. \A q \in Peers, u \in Users : Range(log[q][u]) \subseteq Range(log'[q][u])
  BY DEF Untouched
<1>3. Answering
  BY <1>2 DEF Answering
<1>4. Answers' /\ Kept
  BY <1>1, <1>3, AnswersMove
<1>5. ASSUME NEW q \in Peers PROVE InOrder(q)' /\ AtHome(q)'
  <2>1. CASE q = p
    <3>1. AtHome(p)'
      BY <1>1, <1>4, HomeMoves
    <3> QED
      BY <2>1, <3>1
  <2>2. CASE q # p
    <3>1. InOrder(q) /\ AtHome(q) /\ Untouched(q) /\ loose'[q] \subseteq loose[q]
      BY <2>2 DEF IInv
    <3> QED
      BY <1>1, <1>4, <3>1, OrderFrame, HomeFrame
  <2> QED
    BY <2>1, <2>2
<1> QED
  BY <1>4, <1>5 DEF IInv

(* A server leaves, on its own or when a message meets its closed channel: *)
(* all it received is lost, what it logged is not.                         *)
LEMMA LeaveStep ==
  ASSUME RpcConstants, IInv, NEW p \in Peers, Leave(p), UNCHANGED <<sent, req, log, replies>>,
         UNCHANGED wire \/ (wire[p] # <<>> /\ wire' = [wire EXCEPT ![p] = Tail(@)])
  PROVE  IInv'
<1>1. RpcType /\ InOrder(p) /\ Numbers \in SUBSET Nat
  BY NumbersAreNat DEF IInv
<1>2. /\ server' = [server EXCEPT ![p] = "gone"] /\ subChan' = [subChan EXCEPT ![p] = <<>>]
      /\ inHand' = [inHand EXCEPT ![p] = Nil] /\ queue' = [queue EXCEPT ![p] = [u \in Users |-> <<>>]]
      /\ loose' = [loose EXCEPT ![p] = {}]
  BY DEF Leave
<1>3. /\ subChan'[p] = <<>> /\ inHand'[p] = Nil /\ queue'[p] = [u \in Users |-> <<>>] /\ loose'[p] = {}
      /\ \A q \in Peers \ {p} : /\ wire'[q] = wire[q] /\ subChan'[q] = subChan[q] /\ inHand'[q] = inHand[q]
                                /\ queue'[q] = queue[q] /\ loose'[q] = loose[q]
  BY <1>1, <1>2 DEF RpcType
<1>4. Sorted(wire'[p]) /\ Range(wire'[p]) \subseteq Range(wire[p]) /\ wire'[p] \in Seq(Numbers)
  <2>1. Sorted(wire[p]) /\ wire[p] \in Seq(Numbers)
    BY <1>1 DEF InOrder, RpcType
  <2>2. CASE UNCHANGED wire
    BY <2>1, <2>2
  <2>3. CASE wire[p] # <<>> /\ wire' = [wire EXCEPT ![p] = Tail(@)]
    <3>1. wire'[p] = Tail(wire[p])
      BY <1>1, <2>3 DEF RpcType
    <3>2. Sorted(Tail(wire[p])) /\ Range(Tail(wire[p])) \subseteq Range(wire[p]) /\ Tail(wire[p]) \in Seq(Numbers)
      BY ZenonT(20), <1>1, <2>1, <2>3, Shortened
    <3> QED
      BY <3>1, <3>2
  <2> QED
    BY <2>2, <2>3
<1>5. InOrder(p)' /\ Waiting(p)' \subseteq Waiting(p)
  BY <1>1, <1>3, <1>4, Emptied
<1>6. \A u \in Users : queue'[p][u] = <<>> /\ Range(queue'[p][u]) = {}
  BY <1>3, Empty
<1>7. RpcType'
  <2>1. wire' \in [Peers -> Seq(Numbers)]
    BY ZenonT(20), <1>1, <1>4 DEF RpcType
  <2>2. subChan' \in [Peers -> Seq(Numbers)] /\ \A q \in Peers : Len(subChan'[q]) <= Buffer
    BY <1>1, <1>2, <1>3 DEF RpcType, RpcConstants
  <2>3. queue' \in [Peers -> [Users -> Seq(Numbers)]]
    BY <1>1, <1>2 DEF RpcType
  <2>4. \A q \in Peers, u \in Users : Len(queue'[q][u]) <= TaskBuffer
    <3>1. Len(<<>>) = 0 /\ 0 <= TaskBuffer
      BY DEF RpcConstants
    <3> QED
      BY ZenonT(20), <1>1, <1>3, <1>6, <3>1 DEF RpcType
  <2>5. /\ inHand' \in [Peers -> Numbers \cup {Nil}] /\ loose' \in [Peers -> SUBSET Numbers]
        /\ server' \in [Peers -> {"running", "stopping", "closed", "gone"}]
    BY <1>1, <1>2 DEF RpcType
  <2> QED
    BY <1>1, <2>1, <2>2, <2>3, <2>4, <2>5 DEF RpcType
<1>8. \A q \in Peers \ {p} : Untouched(q) /\ loose'[q] = loose[q]
  BY <1>3 DEF Untouched
<1> QED
  BY <1>3, <1>5, <1>6, <1>7, <1>8, PeerMoves

(* Arrive: the subscription puts a message into subChan, drops it when     *)
(* subChan is full, or meets a closed channel.                             *)
LEMMA ArriveStep ==
  ASSUME RpcConstants, IInv, NEW p \in Peers, Arrive(p)
  PROVE  IInv'
<1>1. RpcType /\ InOrder(p) /\ Numbers \in SUBSET Nat
  BY NumbersAreNat DEF IInv
<1>2. CASE server[p] = "closed"
  BY ZenonT(30), <1>2, LeaveStep DEF Arrive
<1>3. CASE server[p] # "closed"
  <2> DEFINE h == Head(wire[p])
  <2>1. /\ wire[p] # <<>> /\ wire' = [wire EXCEPT ![p] = Tail(@)]
        /\ subChan' = [subChan EXCEPT ![p] = IF Len(@) < Buffer THEN Append(@, h) ELSE @]
        /\ UNCHANGED <<sent, req, inHand, queue, loose, log, replies, server>>
    BY <1>3 DEF Arrive
  <2>2. /\ wire'[p] = Tail(wire[p])
        /\ subChan'[p] = IF Len(subChan[p]) < Buffer THEN Append(subChan[p], h) ELSE subChan[p]
        /\ \A q \in Peers \ {p} : wire'[q] = wire[q] /\ subChan'[q] = subChan[q]
    BY <1>1, <2>1 DEF RpcType
  <2>3. wire[p] \in Seq(Numbers) /\ subChan[p] \in Seq(Numbers) /\ Len(subChan[p]) <= Buffer
    BY <1>1 DEF RpcType
  <2>4. h \in Numbers /\ Tail(wire[p]) \in Seq(Numbers)
    BY <2>1, <2>3
  <2>5. Append(subChan[p], h) \in Seq(Numbers) /\ Len(Append(subChan[p], h)) = Len(subChan[p]) + 1
    BY <2>3, <2>4
  <2>6. InOrder(p)' /\ Waiting(p)' \subseteq Waiting(p)
    BY <1>1, <2>1, <2>2, OffTheWire
  <2> HIDE DEF h
  <2>7. subChan'[p] \in Seq(Numbers) /\ Len(subChan'[p]) <= Buffer
    <3>1. Len(subChan[p]) \in Nat /\ Buffer \in Nat
      BY <2>3 DEF RpcConstants
    <3> QED
      BY <2>2, <2>3, <2>5, <3>1
  <2>8. RpcType'
    <3>1. wire' \in [Peers -> Seq(Numbers)] /\ subChan' \in [Peers -> Seq(Numbers)]
      BY <1>1, <2>1, <2>2, <2>4, <2>7 DEF RpcType
    <3>2. \A q \in Peers : Len(subChan'[q]) <= Buffer
      BY ZenonT(20), <1>1, <2>2, <2>7 DEF RpcType
    <3> QED
      BY <1>1, <2>1, <3>1, <3>2 DEF RpcType
  <2>9. \A q \in Peers \ {p} : Untouched(q) /\ loose'[q] = loose[q]
    BY <2>1, <2>2 DEF Untouched
  <2> QED
    BY <2>1, <2>6, <2>8, <2>9, PeerMoves
<1> QED
  BY <1>2, <1>3

(* HandleMessage: the next message of subChan is taken in hand.            *)
LEMMA HandleMessageStep ==
  ASSUME RpcConstants, IInv, NEW p \in Peers, HandleMessage(p)
  PROVE  IInv'
<1>1. RpcType /\ InOrder(p) /\ subChan[p] \in Seq(Numbers) /\ Len(subChan[p]) <= Buffer
  BY DEF IInv, RpcType
<1>2. /\ inHand[p] = Nil /\ subChan[p] # <<>> /\ inHand' = [inHand EXCEPT ![p] = Head(subChan[p])]
      /\ subChan' = [subChan EXCEPT ![p] = Tail(@)]
      /\ UNCHANGED <<sent, req, wire, queue, loose, log, replies, server>>
  BY DEF HandleMessage
<1>3. /\ inHand'[p] = Head(subChan[p]) /\ subChan'[p] = Tail(subChan[p])
      /\ \A q \in Peers \ {p} : inHand'[q] = inHand[q] /\ subChan'[q] = subChan[q]
  BY <1>1, <1>2 DEF RpcType
<1>4. /\ Head(subChan[p]) \in Numbers /\ Tail(subChan[p]) \in Seq(Numbers)
      /\ Len(Tail(subChan[p])) = Len(subChan[p]) - 1 /\ Len(subChan[p]) \in Nat
  BY <1>1, <1>2
<1>5. InOrder(p)' /\ Waiting(p)' \subseteq Waiting(p)
  BY <1>1, <1>2, <1>3, HandedOver
<1>6. RpcType'
  <2>1. subChan' \in [Peers -> Seq(Numbers)] /\ inHand' \in [Peers -> Numbers \cup {Nil}]
    BY <1>1, <1>2, <1>4 DEF RpcType
  <2>2. Len(subChan'[p]) <= Buffer
    BY <1>1, <1>3, <1>4 DEF RpcConstants
  <2>3. \A q \in Peers : Len(subChan'[q]) <= Buffer
    BY ZenonT(20), <1>1, <1>3, <2>2 DEF RpcType
  <2> QED
    BY <1>1, <1>2, <2>1, <2>3 DEF RpcType
<1>7. \A q \in Peers \ {p} : Untouched(q) /\ loose'[q] = loose[q]
  BY <1>2, <1>3 DEF Untouched
<1> QED
  BY <1>2, <1>5, <1>6, <1>7, PeerMoves

(* Refuse, Reject and a task without user put the request out of hand.     *)
LEMMA LetGoStep ==
  ASSUME RpcConstants, IInv, NEW p \in Peers, inHand[p] # Nil, inHand' = [inHand EXCEPT ![p] = Nil],
         UNCHANGED <<sent, req, wire, subChan, queue, log, server>>,
         loose' = loose \/ (req[inHand[p]].user = NoUser /\ loose' = [loose EXCEPT ![p] = @ \cup {inHand[p]}]),
         replies' \subseteq replies \cup {<<inHand[p], "error">>}
  PROVE  IInv'
<1>1. RpcType /\ InOrder(p) /\ AtHome(p)
  BY DEF IInv
<1>2. inHand'[p] = Nil /\ inHand[p] \in Numbers /\ \A q \in Peers \ {p} : inHand'[q] = inHand[q] /\ loose'[q] = loose[q]
  BY <1>1 DEF RpcType
<1>3. InOrder(p)' /\ Waiting(p)' \subseteq Waiting(p) /\ inHand[p] \in Waiting(p)
  <2>1. inHand[p] \in Waiting(p)
    BY ZenonT(30) DEF Waiting, Held
  <2> QED
    BY <1>1, <1>2, <2>1, LetGo
<1>4. RpcType'
  <2>1. replies' \subseteq Numbers \X {"ok", "error"}
    <3>1. <<inHand[p], "error">> \in Numbers \X {"ok", "error"}
      BY <1>2
    <3> QED
      BY <1>1, <3>1 DEF RpcType
  <2>2. loose' \in [Peers -> SUBSET Numbers]
    <3>1. CASE loose' = loose
      BY <1>1, <3>1 DEF RpcType
    <3>2. CASE loose' = [loose EXCEPT ![p] = @ \cup {inHand[p]}]
      BY <1>1, <1>2, <3>2 DEF RpcType
    <3> QED
      BY <3>1, <3>2
  <2>3. inHand' \in [Peers -> Numbers \cup {Nil}]
    BY ZenonT(30), <1>1 DEF RpcType
  <2> QED
    BY <1>1, <2>1, <2>2, <2>3 DEF RpcType
<1>5. loose'[p] \subseteq loose[p] \cup {r \in Waiting(p) : req[r].user = NoUser}
  BY <1>1, <1>3 DEF RpcType
<1>6. \A q \in Peers \ {p} : Untouched(q) /\ loose'[q] = loose[q]
  BY <1>2 DEF Untouched
<1>7. \A m \in replies' \ replies : m[1] \in Numbers /\ m[1] <= sent /\ (m[2] = "ok" => Logged(m[1])')
  <2>1. inHand[p] <= sent
    BY <1>1, <1>3 DEF AtHome
  <2> QED
    BY <1>2, <2>1
<1> QED
  BY <1>3, <1>4, <1>5, <1>6, <1>7, PeerMoves

(* Dispatch: the request in hand becomes a task of its user, or of none.   *)
LEMMA DispatchStep ==
  ASSUME RpcConstants, IInv, NEW p \in Peers, Dispatch(p)
  PROVE  IInv'
<1> DEFINE r == inHand[p]  u == req[r].user
<1>1. RpcType /\ InOrder(p)
  BY DEF IInv
<1>2. /\ r # Nil /\ inHand' = [inHand EXCEPT ![p] = Nil]
      /\ UNCHANGED <<sent, req, wire, subChan, log, replies, server>>
      /\ \/ u = NoUser /\ loose' = [loose EXCEPT ![p] = @ \cup {r}] /\ UNCHANGED queue
         \/ /\ u \in Users /\ Len(queue[p][u]) < TaskBuffer
            /\ queue' = [queue EXCEPT ![p][u] = Append(@, r)] /\ UNCHANGED loose
  BY ZenonT(20) DEF Dispatch
<1>3. CASE u = NoUser /\ loose' = [loose EXCEPT ![p] = @ \cup {r}] /\ UNCHANGED queue
  BY ZenonT(20), <1>2, <1>3, LetGoStep
<1>4. CASE /\ u \in Users /\ Len(queue[p][u]) < TaskBuffer
           /\ queue' = [queue EXCEPT ![p][u] = Append(@, r)] /\ UNCHANGED loose
  <2>0. r \in Numbers /\ queue[p] \in [Users -> Seq(Numbers)]
    BY ZenonT(30), <1>1, <1>2 DEF RpcType
  <2> HIDE DEF u
  <2>1. r \in Numbers /\ queue[p] \in [Users -> Seq(Numbers)] /\ queue[p][u] \in Seq(Numbers)
    BY <1>4, <2>0
  <2>2. /\ inHand'[p] = Nil /\ queue'[p] = [queue[p] EXCEPT ![u] = Append(@, r)]
        /\ \A q \in Peers \ {p} : inHand'[q] = inHand[q] /\ queue'[q] = queue[q]
    BY <1>1, <1>2, <1>4 DEF RpcType
  <2>3. /\ InOrder(p)' /\ Waiting(p)' \subseteq Waiting(p) /\ r \in Waiting(p)
        /\ Range(queue'[p][u]) = Range(queue[p][u]) \cup {r}
        /\ \A v \in Users \ {u} : queue'[p][v] = queue[p][v]
    BY ZenonT(30), <1>1, <1>2, <1>4, <2>2, Queued
  <2>a. req[r].user = u
    BY DEF u
  <2> HIDE DEF r
  <2>4. Append(queue[p][u], r) \in Seq(Numbers) /\ Len(Append(queue[p][u], r)) = Len(queue[p][u]) + 1
    BY <2>1
  <2>5. queue'[p][u] = Append(queue[p][u], r)
    BY ZenonT(30), <1>4, <2>1, <2>2
  <2>6. RpcType'
    <3>1. queue'[p] \in [Users -> Seq(Numbers)]
      BY ZenonT(20), <2>1, <2>2, <2>4
    <3>2. queue' \in [Peers -> [Users -> Seq(Numbers)]]
      BY <1>1, <1>4, <2>2, <3>1 DEF RpcType
    <3>3. Len(queue'[p][u]) <= TaskBuffer
      <4>1. Len(queue[p][u]) \in Nat /\ TaskBuffer \in Nat
        BY <2>1 DEF RpcConstants
      <4> QED
        BY <1>4, <2>4, <2>5, <4>1
    <3>4. \A q \in Peers, v \in Users : Len(queue'[q][v]) <= TaskBuffer
      BY ZenonT(30), <1>1, <2>2, <2>3, <3>3 DEF RpcType
    <3>5. inHand' \in [Peers -> Numbers \cup {Nil}]
      BY <1>1, <1>2 DEF RpcType
    <3> QED
      BY <1>1, <1>2, <1>4, <3>2, <3>4, <3>5 DEF RpcType
  <2>7. \A q \in Peers \ {p} : Untouched(q) /\ loose'[q] = loose[q]
    BY <1>2, <1>4, <2>2 DEF Untouched
  <2>8. \A v \in Users : Range(queue'[p][v]) \cup Range(log'[p][v]) \subseteq
          Range(queue[p][v]) \cup Range(log[p][v]) \cup {x \in Waiting(p) : req[x].user = v}
    BY <1>2, <2>3, <2>a
  <2> QED
    BY ZenonT(30), <1>2, <1>4, <2>3, <2>6, <2>7, <2>8, PeerMoves
<1> QED
  BY ZenonT(20), <1>2, <1>3, <1>4

(* Run: the goroutine of a user runs the next task and may answer it.      *)
LEMMA RunStep ==
  ASSUME RpcConstants, IInv, NEW p \in Peers, NEW u \in Users, Run(p, u)
  PROVE  IInv'
<1> DEFINE r == Head(queue[p][u])
<1>1. /\ RpcType /\ InOrder(p) /\ AtHome(p)
      /\ queue[p] \in [Users -> Seq(Numbers)] /\ queue[p][u] \in Seq(Numbers) /\ Len(queue[p][u]) <= TaskBuffer
      /\ log[p] \in [Users -> Seq(Numbers)] /\ log[p][u] \in Seq(Numbers)
  BY DEF IInv, RpcType
<1>2. /\ queue[p][u] # <<>> /\ queue' = [queue EXCEPT ![p][u] = Tail(@)]
      /\ log' = [log EXCEPT ![p][u] = Append(@, r)]
      /\ UNCHANGED <<sent, req, wire, subChan, inHand, loose, server>>
      /\ replies' \subseteq replies \cup {<<r, "ok">>, <<r, "error">>}
  BY DEF Run, Respond
<1>3. /\ queue'[p] = [queue[p] EXCEPT ![u] = Tail(@)] /\ log'[p] = [log[p] EXCEPT ![u] = Append(@, r)]
      /\ \A q \in Peers \ {p} : queue'[q] = queue[q] /\ log'[q] = log[q]
  BY <1>1, <1>2 DEF RpcType
<1>4. /\ InOrder(p)' /\ Waiting(p)' = Waiting(p) /\ r \in Numbers
      /\ Range(queue[p][u]) = {r} \cup Range(queue'[p][u])
      /\ Range(log'[p][u]) = Range(log[p][u]) \cup {r}
      /\ \A v \in Users \ {u} : queue'[p][v] = queue[p][v] /\ log'[p][v] = log[p][v]
  BY ZenonT(30), <1>1, <1>2, <1>3, Executed
<1>5. /\ Tail(queue[p][u]) \in Seq(Numbers) /\ Len(Tail(queue[p][u])) = Len(queue[p][u]) - 1
      /\ Len(queue[p][u]) \in Nat /\ queue'[p][u] = Tail(queue[p][u])
      /\ Append(log[p][u], r) \in Seq(Numbers)
  BY <1>1, <1>2, <1>3, <1>4
<1> HIDE DEF r
<1>6. RpcType'
  <2>1. queue'[p] \in [Users -> Seq(Numbers)] /\ log'[p] \in [Users -> Seq(Numbers)]
    BY <1>1, <1>3, <1>5
  <2>2. queue' \in [Peers -> [Users -> Seq(Numbers)]] /\ log' \in [Peers -> [Users -> Seq(Numbers)]]
    BY <1>1, <1>2, <1>3, <2>1 DEF RpcType
  <2>3. Len(queue'[p][u]) <= TaskBuffer
    BY <1>1, <1>5 DEF RpcConstants
  <2>4. \A q \in Peers, v \in Users : Len(queue'[q][v]) <= TaskBuffer
    BY ZenonT(30), <1>1, <1>3, <1>4, <2>3 DEF RpcType
  <2>5. replies' \subseteq Numbers \X {"ok", "error"}
    BY <1>1, <1>2, <1>4 DEF RpcType
  <2> QED
    BY <1>1, <1>2, <2>2, <2>4, <2>5 DEF RpcType
<1>7. \A q \in Peers \ {p} : Untouched(q) /\ loose'[q] = loose[q]
  BY <1>2, <1>3 DEF Untouched
<1>8. \A v \in Users : /\ Range(log[p][v]) \subseteq Range(log'[p][v])
                       /\ Range(queue'[p][v]) \cup Range(log'[p][v]) \subseteq Range(queue[p][v]) \cup Range(log[p][v])
  BY <1>4
<1>9. \A m \in replies' \ replies : m[1] \in Numbers /\ m[1] <= sent /\ (m[2] = "ok" => Logged(m[1])')
  <2>1. r <= sent /\ req[r].peer = p /\ req[r].user = u
    <3>1. r \in Range(queue[p][u]) \cup Range(log[p][u])
      BY <1>4
    <3> QED
      BY <1>1, <3>1 DEF AtHome
  <2>2. ASSUME NEW n, n = r PROVE Logged(n)'
    <3>1. n \in Range(log'[p][u])
      BY <1>4, <2>2
    <3>2. req'[n].peer = p /\ req'[n].user = u
      BY <1>2, <2>1, <2>2
    <3> QED
      BY <3>1, <3>2 DEF Logged
  <2>3. \A m \in replies' \ replies : m[1] = r
    BY <1>2
  <2> QED
    BY ZenonT(30), <1>4, <2>1, <2>2, <2>3
<1> QED
  BY ZenonT(30), <1>2, <1>4, <1>6, <1>7, <1>8, <1>9, PeerMoves

(* RunLoose: a task without user is in no log.                             *)
LEMMA RunLooseStep ==
  ASSUME RpcConstants, IInv, NEW p \in Peers, NEW r \in Numbers, RunLoose(p, r)
  PROVE  IInv'
<1>1. RpcType /\ InOrder(p) /\ AtHome(p)
  BY DEF IInv
<1>2. r <= sent /\ req[r].user = NoUser /\ req[r].user \notin Users
  BY <1>1 DEF RunLoose, AtHome, RpcConstants
<1>3. /\ loose' = [loose EXCEPT ![p] = @ \ {r}]
      /\ replies' \subseteq replies \cup {<<r, "ok">>, <<r, "error">>}
      /\ UNCHANGED <<sent, req, wire, subChan, inHand, queue, server, log>>
  BY <1>2 DEF RunLoose, Respond
<1>4. RpcType'
  <2>1. loose' \in [Peers -> SUBSET Numbers]
    BY <1>1, <1>3 DEF RpcType
  <2>2. replies' \subseteq Numbers \X {"ok", "error"}
    <3>1. <<r, "ok">> \in Numbers \X {"ok", "error"} /\ <<r, "error">> \in Numbers \X {"ok", "error"}
      OBVIOUS
    <3> QED
      BY <1>1, <1>3, <3>1 DEF RpcType
  <2> QED
    BY <1>1, <1>3, <2>1, <2>2 DEF RpcType
<1>5. \A q \in Peers : Untouched(q)
  BY <1>3 DEF Untouched
<1>6. loose'[p] \subseteq loose[p] /\ \A q \in Peers \ {p} : loose'[q] = loose[q]
  BY ZenonT(30), <1>1, <1>3 DEF RpcType
<1>7. InOrder(p)' /\ Waiting(p)' = Waiting(p)
  BY <1>1, <1>5, OrderFrame DEF Untouched, Waiting, Coming, Held
<1>8. Logged(r)'
  BY <1>2, <1>3 DEF Logged
<1>9. \A m \in replies' \ replies : m[1] \in Numbers /\ m[1] <= sent /\ (m[2] = "ok" => Logged(m[1])')
  BY <1>2, <1>3, <1>8
<1> QED
  BY <1>3, <1>4, <1>5, <1>6, <1>7, <1>9, PeerMoves

(* Shutdown and HandleStop: handleMessages is told to stop, and stops.     *)
LEMMA ServerStep ==
  ASSUME RpcConstants, IInv, NEW p \in Peers, NEW st \in {"running", "stopping", "closed", "gone"},
         server' = [server EXCEPT ![p] = st],
         UNCHANGED <<sent, req, wire, subChan, inHand, queue, loose, log, replies>>
  PROVE  IInv'
<1>1. RpcType /\ InOrder(p)
  BY DEF IInv
<1>2. RpcType'
  BY ZenonT(30), <1>1 DEF RpcType
<1>3. \A q \in Peers : Untouched(q)
  BY DEF Untouched
<1>4. InOrder(p)' /\ Waiting(p)' = Waiting(p)
  BY <1>1, <1>3, OrderFrame DEF Untouched, Waiting, Coming, Held
<1> QED
  BY <1>2, <1>3, <1>4, PeerMoves
-----------------------------------------------------------------------------
(* Nothing was sent: the inductive invariant holds.                        *)
LEMMA Initially == ASSUME RpcConstants, RpcInit PROVE IInv
<1>1. RpcType
  <2>1. <<>> \in Seq(Numbers) /\ Len(<<>>) = 0
    OBVIOUS
  <2>2. /\ sent \in 0 .. MaxRequests
        /\ req \in [Numbers -> [user : Senders, peer : Peers \cup {Nil}, kind : Kinds, result : Results]]
    BY DEF RpcInit, RpcConstants, Free, Senders, Kinds, Results
  <2> QED
    BY <2>1, <2>2 DEF RpcInit, RpcType, RpcConstants
<1>2. ASSUME NEW p \in Peers PROVE InOrder(p) /\ AtHome(p)
  <2>1. /\ wire[p] = <<>> /\ subChan[p] = <<>> /\ inHand[p] = Nil /\ loose[p] = {}
        /\ \A u \in Users : queue[p][u] = <<>> /\ log[p][u] = <<>>
    BY DEF RpcInit
  <2>2. Waiting(p) = {} /\ Coming(p) = {} /\ Held(p) = {}
    BY <2>1, Empty DEF Waiting, Coming, Held
  <2> QED
    BY <2>1, <2>2, Empty DEF InOrder, AtHome, Before
<1>3. Answers
  <2>1. \A r \in Numbers : r >= 1 /\ r \in Nat
    BY DEF Numbers
  <2> QED
    BY <2>1 DEF RpcInit, Answers, Free
<1> QED
  BY <1>1, <1>2, <1>3 DEF IInv

(* Every step keeps it.                                                    *)
LEMMA Inductive == ASSUME RpcConstants, IInv, [RpcNext]_rpcVars PROVE IInv'
<1>1. CASE UNCHANGED rpcVars
  <2>1. ASSUME NEW p \in Peers PROVE InOrder(p)' /\ AtHome(p)'
    <3>1. InOrder(p) /\ AtHome(p) /\ Untouched(p)
      BY <1>1 DEF rpcVars, IInv, Untouched
    <3>2. AtHome(p)'
      BY <1>1, <3>1 DEF rpcVars, AtHome, Waiting, Coming, Held
    <3> QED
      BY <3>1, <3>2, OrderFrame
  <2>2. RpcType' /\ Answers'
    BY ZenonT(20), <1>1 DEF rpcVars, IInv, RpcType, Answers, Logged
  <2> QED
    BY <2>1, <2>2 DEF IInv
<1>2. ASSUME NEW p \in Peers, NEW u \in Senders, NEW kind \in {"request", "notify"}, Call(p, u, kind) PROVE IInv'
  BY <1>2, CallStep DEF Kinds
<1>3. ASSUME NEW r \in Numbers, NEW result \in {"ok", "error"}, Reply(r, result) PROVE IInv'
  BY <1>3, ReplyStep
<1>4. ASSUME NEW r \in Numbers, Timeout(r) PROVE IInv'
  BY <1>4, ReplyStep
<1>5. ASSUME NEW p \in Peers, Arrive(p) PROVE IInv'
  BY <1>5, ArriveStep
<1>6. ASSUME NEW p \in Peers, NoResponders(p) PROVE IInv'
  BY <1>6, NoRespondersStep
<1>7. ASSUME NEW p \in Peers, HandleMessage(p) PROVE IInv'
  BY <1>7, HandleMessageStep
<1>8. ASSUME NEW p \in Peers, HandleStop(p) \/ RpcShutdown(p) PROVE IInv'
  BY <1>8, ServerStep DEF HandleStop, RpcShutdown
<1>9. ASSUME NEW p \in Peers, Dispatch(p) PROVE IInv'
  BY <1>9, DispatchStep
<1>10. ASSUME NEW p \in Peers, Refuse(p) PROVE IInv'
  BY ZenonT(20), <1>10, LetGoStep DEF Refuse
<1>11. ASSUME NEW p \in Peers, Reject(p) PROVE IInv'
  BY ZenonT(20), <1>11, LetGoStep DEF Reject
<1>12. ASSUME NEW p \in Peers, Exit(p) PROVE IInv'
  BY <1>12, LeaveStep DEF Exit
<1>13. ASSUME NEW p \in Peers, NEW u \in Users, Run(p, u) PROVE IInv'
  BY <1>13, RunStep
<1>14. ASSUME NEW p \in Peers, NEW r \in Numbers, RunLoose(p, r) PROVE IInv'
  BY <1>14, RunLooseStep
<1> QED
  BY <1>1, <1>2, <1>3, <1>4, <1>5, <1>6, <1>7, <1>8, <1>9, <1>10, <1>11, <1>12, <1>13, <1>14 DEF RpcNext

(* TypeOK: requests, channels and queues keep their types, and neither     *)
(* subChan nor a user's task queue outgrows its capacity.                  *)
THEOREM RpcTypes == ASSUME RpcConstants PROVE RpcSpec => []RpcTypeOK
<1>1. RpcInit => IInv
  BY Initially
<1>2. IInv /\ [RpcNext]_rpcVars => IInv'
  BY Inductive
<1>3. IInv => RpcTypeOK
  <2> SUFFICES ASSUME IInv PROVE RpcTypeOK
    OBVIOUS
  <2>1. RpcType
    BY DEF IInv
  <2> QED
    BY <2>1 DEF RpcType, RpcTypeOK
<1> QED
  BY <1>1, <1>2, <1>3, PTL DEF RpcSpec

(* CallsServed: handleMessages, processMessages and the users' goroutines  *)
(* run the requests of a user in the order in which Call published them,   *)
(* each at most once, and Call takes for its answer only the response to   *)
(* its own request, whatever is dropped, times out or meets a shutdown.    *)
THEOREM CallsAreServed == ASSUME RpcConstants PROVE RpcSpec => []CallsServed
<1>1. RpcInit => IInv
  BY Initially
<1>2. IInv /\ [RpcNext]_rpcVars => IInv'
  BY Inductive
<1>3. IInv => CallsServed
  <2> SUFFICES ASSUME IInv PROVE CallsServed
    OBVIOUS
  <2>1. UserOrder
    BY ZenonT(20) DEF IInv, InOrder, Sorted, UserOrder
  <2>2. OwnAnswer
    <3>1. SUFFICES ASSUME NEW r \in Numbers, req[r].result = "ok", req[r].kind # "notify", req[r].user \in Users
                   PROVE  \E i \in DOMAIN log[req[r].peer][req[r].user] : log[req[r].peer][req[r].user][i] = r
      BY DEF OwnAnswer
    <3>2. r \in Range(log[req[r].peer][req[r].user])
      BY <3>1 DEF IInv, Answers, Logged
    <3> QED
      BY <3>2 DEF Range
  <2> QED
    BY <2>1, <2>2 DEF CallsServed
<1> QED
  BY <1>1, <1>2, <1>3, PTL DEF RpcSpec
=============================================================================
