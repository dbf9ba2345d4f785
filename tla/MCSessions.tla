----------------------------- MODULE MCSessions -----------------------------
(* Sessions at a frontend: the pool (Frontend, two sessions of one user),  *)
(* the data of a session and its copies (SessionData), the order of the    *)
(* answers on one connection (Connection), the bytes on it (Wire) and its  *)
(* rate limit (RateLimiter).  `which' is the part that moves in a          *)
(* behaviour.  The data, the answers and the bytes share the variables x1, *)
(* x2, ..., in the order in which a part declares its own.                 *)
EXTENDS Frontend, RateLimiter, TLC

CONSTANTS Keys, MaxFaults,
          Requests, BufferSize, TaskBuffer, MaxBeats,
          IDs

VARIABLES
  which,
  x1, x2, x3, x4, x5, x6, x7, x8, x9, x10, x11, x12, x13, x14, x15, x16, x17, x18

beyond4 == <<x5, x6, x7, x8, x9, x10>>
beyond10 == <<x11, x12, x13, x14, x15, x16, x17, x18>>
shared == <<x1, x2, x3, x4, beyond4, beyond10>>

(* A number, and a value that has no JSON form.                            *)
Values == {[kind |-> "int", n |-> 1], [kind |-> "func", n |-> 0]}

(* Routes with a code of one and of two bytes, one that is trimmed, and    *)
(* one without code, as long as a route can be.                            *)
Dictionaries == [s \in {"s1"} |-> {[key |-> "r1", code |-> 1], [key |-> " r2", code |-> 258],
                                   [key |-> "r2", code |-> 3]}]
TrimSpace == [r \in {"r1", " r2", "r2", "r3"} |-> IF r = " r2" THEN "r2" ELSE r]
RouteLen == [r \in {"r1", "r2", "r3"} |-> IF r = "r3" THEN 255 ELSE 2]

(* Empty, worth compressing, and around the largest packet.                *)
Payloads == {[size |-> 0, packed |-> 8], [size |-> 9000, packed |-> 200],
             [size |-> 2^24 - 300, packed |-> 2^24 - 290], [size |-> 2^24 - 1, packed |-> 2^24 + 10],
             [size |-> 2^24 + 1, packed |-> 2^24 + 10]}

(* Two requests at once that change the data, and one that changes it      *)
(* twice over two logins.                                                  *)
D == INSTANCE SessionData WITH Copies <- {"b1", "b2"}, MaxChanges <- 1, MaxLogins <- 1,
       front <- x1, record <- x2, copy <- x3, pushes <- x4, binding <- x5, changes <- x6, logins <-
       x7, troubles <- x8, overlap <- x9, panics <- x10
D2 == INSTANCE SessionData WITH Copies <- {"b1"}, MaxChanges <- 2, MaxLogins <- 2,
       front <- x1, record <- x2, copy <- x3, pushes <- x4, binding <- x5, changes <- x6, logins <-
       x7, troubles <- x8, overlap <- x9, panics <- x10
C == INSTANCE Connection WITH
       peer <- x1, next <- x2, beats <- x3, readerAt <- x4, bound <- x5, queued <- x6, current <-
       x7, chSend <- x8, writerAt <- x9, outgoing <- x10, beatAt <- x11, cacheAt <- x12, age <- x13,
       agentState <- x14, chDie <- x15, connOpen <- x16, wire <- x17, via <- x18
W == INSTANCE Wire WITH Servers <- {"s1"}, Compressing <- TRUE,
       tables <- x1, peerOf <- x2, stream <- x3, delivered <- x4

ASSUME SessionsConstants ==
  D!SessionDataConstants /\ D2!SessionDataConstants /\ C!ConnectionConstants /\ RateConstants

Symmetry == Permutations(Sessions)

Unused10 ==
  /\ x11 = None /\ x12 = None /\ x13 = None /\ x14 = None
  /\ x15 = None /\ x16 = None /\ x17 = None /\ x18 = None
Unused4 ==
  /\ x5 = None /\ x6 = None /\ x7 = None /\ x8 = None /\ x9 = None /\ x10 = None
  /\ Unused10
Unused0 == x1 = None /\ x2 = None /\ x3 = None /\ x4 = None /\ Unused4

MCInit ==
  /\ Init /\ RateInit
  /\ \/ which \in {"session", "rate"} /\ Unused0
     \/ which = "data" /\ D!Init /\ Unused10
     \/ which = "relogin" /\ D2!Init /\ Unused10
     \/ which = "connection" /\ C!Init
     \/ which = "wire" /\ W!Init /\ Unused4

MCNext ==
  /\ UNCHANGED which
  /\ \/ which = "session" /\ Next /\ UNCHANGED <<rateVars, shared>>
     \/ which = "rate" /\ RateNext /\ UNCHANGED <<vars, shared>>
     \/ which = "data" /\ D!Next /\ UNCHANGED <<vars, rateVars, beyond10>>
     \/ which = "relogin" /\ D2!Next /\ UNCHANGED <<vars, rateVars, beyond10>>
     \/ which = "connection" /\ C!Next /\ UNCHANGED <<vars, rateVars>>
     \/ which = "wire" /\ W!Next /\ UNCHANGED <<vars, rateVars, beyond4, beyond10>>

MCSpec == MCInit /\ [][MCNext]_<<which, vars, rateVars, shared>>
-----------------------------------------------------------------------------
(* SessionData: the encoded data, the cache and the frontend's session     *)
(* follow each other.                                                      *)
DataFollows ==
  /\ which = "data" => D!DataFollows
  /\ which = "relogin" => D2!DataFollows

(* SessionData: Set stores its value on any session.                       *)
SetWorks == which = "data" => D!SetWorks

(* Connection: answers of one thread arrive in order, each at most once.   *)
AnswersInOrder == which = "connection" => C!AnswersInOrder

(* Wire: what is decoded is what was encoded.                              *)
RoundTrip == which = "wire" => W!RoundTrip
=============================================================================
