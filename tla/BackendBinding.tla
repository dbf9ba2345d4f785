--------------------------- MODULE BackendBinding ---------------------------
(***************************************************************************)
(* How one user is bound to stateful backends: Session.BindBackend and     *)
(* KickBackend (session/session.go) with the callbacks and remotes of      *)
(* remote/sys.go, the session a backend keeps for a user that is bound to  *)
(* it, the frontend's copy and the copy in the shared cache.               *)
(*                                                                         *)
(* A session is an object that a request shares with the pool when the     *)
(* pool holds the user, and that otherwise is made for the request from    *)
(* what the frontend sent or the cache holds.  Steps without I/O between   *)
(* them are one action: a server runs the handlers of one user one at a    *)
(* time.                                                                   *)
(***************************************************************************)
EXTENDS Naturals, Sequences

CONSTANTS Servers,   \* stateful backend servers
          Types,     \* their types
          Type,      \* the type of each server
          Sessions,  \* session objects
          Callers,   \* goroutines, on any server, that bind or kick
          None,
          MaxMail,   \* bound on undelivered notifications per server pair
          MaxOps     \* bound on the operations of the direct regime

BackendBindingConstants ==
  /\ Type \in [Servers -> Types]
  /\ None \notin Servers \cup Sessions
  /\ None \notin [Types -> Servers \cup {None}]

VARIABLES
  regime,    \* what the application does: see MayStart
  online,    \* the frontend has a session bound to the user
  front,     \* the backends that session records
  login,     \* what a bind in progress on the frontend read from the cache
  cache,     \* the field "backends" of the user's hash in the shared cache
  up,        \* servers that run; an id is never used again
  pool,      \* the session each server holds for the user
  backends,  \* what each session object records
  call,      \* the call each caller is in
  mail,      \* notifications on their way from one server to another
  ops        \* operations started in the direct regime

vars == <<regime, online, front, login, cache, up, pool, backends, call, mail, ops>>

Bindings == [Types -> Servers \cup {None}]
Unbound == [t \in Types |-> None]
Errors == {"none", "already", "failed"}
Frames == [op : {"bind", "kick"}, at : Servers, tgt : Servers, sess : Sessions,
           pc : {"forward", "front", "notify", "return"}, err : Errors,
           outer : Sessions \cup {None}, from : Servers]
Mails == [msg : {"boundFork", "bound", "kicked"}, id : Servers]

Init ==
  /\ regime \in {"sequential", "direct"}
  /\ online = TRUE /\ front = Unbound /\ login = None /\ cache = Unbound
  /\ up = [x \in Servers |-> TRUE]
  /\ pool = [x \in Servers |-> None]
  /\ backends = [o \in Sessions |-> Unbound]
  /\ call = [c \in Callers |-> None]
  /\ mail = [p \in Servers \X Servers |-> <<>>]
  /\ ops = 0

Quiet == /\ \A c \in Callers : call[c] = None
         /\ \A p \in Servers \X Servers : mail[p] = <<>>
         /\ login = None

(* In the sequential regime the user's operations follow one another, and  *)
(* may be called on any server; in the direct regime they overlap but each *)
(* is called on the server it binds the user to or unbinds it from.        *)
MayStart(x, y) ==
  \/ regime = "sequential" /\ Quiet /\ ops' = ops
  \/ regime = "direct" /\ x = y /\ ops < MaxOps /\ ops' = ops + 1

(* Objects nobody refers to are garbage.                                   *)
Live(p, cs) == {p[x] : x \in Servers}
                 \cup {cs[c].sess : c \in {d \in Callers : cs[d] # None}}
                 \cup {cs[c].outer : c \in {d \in Callers : cs[d] # None}}
Keep(b, p, cs) == [o \in Sessions |-> IF o \in Live(p, cs) THEN b[o] ELSE Unbound]
Fresh == Sessions \ Live(pool, call)

(* The session a handler on server x gets: the pooled one, or a new object *)
(* with the given content (NewSession, NewRemote).                         *)
SessionAt(x, contents) ==
  IF pool[x] # None THEN {<<pool[x], backends[pool[x]]>>} ELSE Fresh \X contents

(* Content of a session made for a request: what the frontend sent with it *)
(* or, for a call by user id, what the cache holds.                        *)
Known == {cache} \cup (IF online THEN {front} ELSE {})

Frame(op, x, y, o, pc, err) ==
  [op |-> op, at |-> x, tgt |-> y, sess |-> o, pc |-> pc, err |-> err,
   outer |-> None, from |-> x]
-----------------------------------------------------------------------------
(* The first steps of BindBackend(Type[y], y) on server x with session o   *)
(* of content v: where the call goes, and the object and pool it leaves.   *)
BindPcUnchecked(x, y, v) == IF x = y /\ pool[x] # None THEN "return"
                            ELSE IF x = y THEN "front" ELSE "forward"
BindPc(x, y, v) == IF v[Type[y]] # None \/ (x = y /\ pool[x] # None) THEN "return"
                   ELSE IF x = y THEN "front" ELSE "forward"
BindErr(y, v) == IF v[Type[y]] # None THEN "already" ELSE "none"
BindContent(y, v) == IF v[Type[y]] # None THEN v ELSE [v EXCEPT ![Type[y]] = y]
BindPool(x, y, o, v) ==
  IF x = y /\ v[Type[y]] = None /\ pool[x] = None THEN [pool EXCEPT ![x] = o] ELSE pool

Removed(x) == [pool EXCEPT ![x] = None]

Bind(c, x, y) ==
  /\ call[c] = None /\ up[x] /\ MayStart(x, y)
  /\ \E s \in SessionAt(x, Known) :
       LET o == s[1]  v == s[2]
       IN  /\ call' = [call EXCEPT ![c] =
                         Frame("bind", x, y, o, BindPc(x, y, v), BindErr(y, v))]
           /\ pool' = BindPool(x, y, o, v)
           /\ backends' = [backends EXCEPT ![o] = BindContent(y, v)]
  /\ UNCHANGED <<regime, online, front, login, cache, up, mail>>

(* A request between servers carries the session's record of backends.     *)
Carried(o) == backends[o]

(* The target runs BindBackend on its own session of the user.             *)
BindForward(c) ==
  LET f == call[c]  y == f.tgt
  IN  /\ f # None /\ f.op = "bind" /\ f.pc = "forward" /\ up[y]
      /\ \E s \in SessionAt(y, {Carried(f.sess)}) :
           LET o == s[1]  v == s[2]
           IN  /\ call' = [call EXCEPT ![c] =
                             [Frame("bind", y, y, o, BindPc(y, y, v), BindErr(y, v))
                                EXCEPT !.outer = f.sess, !.from = f.at]]
               /\ pool' = BindPool(y, y, o, v)
               /\ backends' = [backends EXCEPT ![o] = BindContent(y, v)]
      /\ UNCHANGED <<regime, online, front, login, cache, up, mail, ops>>

(* The frontend records the backend and flushes all it records.            *)
BindFront(c) ==
  LET f == call[c]  t == Type[f.tgt]
  IN  /\ f # None /\ f.op = "bind" /\ f.pc = "front" /\ online
      /\ front' = [front EXCEPT ![t] = f.tgt] /\ cache' = front'
      /\ call' = [call EXCEPT ![c].pc = "notify"]
      /\ UNCHANGED <<regime, online, login, up, pool, backends, mail, ops>>

(* The frontend does not have the user: rollback.                          *)
BindRollback(c) ==
  LET f == call[c]  o == f.sess
  IN  /\ f # None /\ f.op = "bind" /\ f.pc = "front" /\ ~online
      /\ backends' = [backends EXCEPT ![o][Type[f.tgt]] = None]
      /\ pool' = Removed(f.at)
      /\ cache' = backends'[o]
      /\ call' = [call EXCEPT ![c].pc = "return", ![c].err = "failed"]
      /\ UNCHANGED <<regime, online, front, login, up, mail, ops>>
-----------------------------------------------------------------------------
(* NotifyAll reaches, of every other type, the server the session is bound *)
(* to; Fork reaches every other server of the target's type.               *)
Routed(o, y) == backends[o][Type[y]] = y /\ up[y]
Informed(x, o) == {y \in Servers : Type[y] # Type[x] /\ Routed(o, y)}
Peers(x) == {y \in Servers \ {x} : Type[y] = Type[x] /\ up[y]}
Posted(x, o, msg, forked, id) ==
  [p \in Servers \X Servers |->
     IF p[1] # x THEN mail[p]
     ELSE IF forked /\ p[2] \in Peers(x) THEN Append(mail[p], [msg |-> "boundFork", id |-> id])
     ELSE IF p[2] \in Informed(x, o) THEN Append(mail[p], [msg |-> msg, id |-> id])
     ELSE mail[p]]
Fits(m) == \A p \in Servers \X Servers : Len(m[p]) <= MaxMail

NotifyUnforked(c) ==
  LET f == call[c]
  IN  /\ f # None /\ f.pc = "notify"
      /\ mail' = Posted(f.at, f.sess, IF f.op = "bind" THEN "bound" ELSE "kicked", FALSE, f.tgt)
      /\ Fits(mail')
      /\ call' = [call EXCEPT ![c].pc = "return"]
      /\ UNCHANGED <<regime, online, front, login, cache, up, pool, backends, ops>>

(* The last step of both callbacks.                                        *)
Notify(c) ==
  LET f == call[c]
  IN  /\ f # None /\ f.pc = "notify"
      /\ mail' = Posted(f.at, f.sess, IF f.op = "bind" THEN "bound" ELSE "kicked",
                        f.op = "bind", f.tgt)
      /\ Fits(mail')
      /\ call' = [call EXCEPT ![c].pc = "return"]
      /\ UNCHANGED <<regime, online, front, login, cache, up, pool, backends, ops>>
-----------------------------------------------------------------------------
KickKeepsPool(c, x, y) ==
  /\ call[c] = None /\ up[x] /\ MayStart(x, y)
  /\ \E s \in SessionAt(x, Known) :
       LET o == s[1]  v == s[2]
       IN  /\ v[Type[y]] = y
           /\ call' = [call EXCEPT ![c] =
                         Frame("kick", x, y, o, IF x = y THEN "front" ELSE "forward", "none")]
           /\ pool' = pool
           /\ backends' = Keep([backends EXCEPT ![o] = [v EXCEPT ![Type[y]] = None]],
                               pool', call')
  /\ UNCHANGED <<regime, online, front, login, cache, up, mail>>

(* KickBackend(Type[y]) on server x with a session that records y: the     *)
(* record goes first, and the server itself also drops its session.        *)
Kick(c, x, y) ==
  /\ call[c] = None /\ up[x] /\ MayStart(x, y)
  /\ \E s \in SessionAt(x, Known) :
       LET o == s[1]  v == s[2]
       IN  /\ v[Type[y]] = y
           /\ call' = [call EXCEPT ![c] =
                         Frame("kick", x, y, o, IF x = y THEN "front" ELSE "forward", "none")]
           /\ pool' = IF x = y THEN Removed(x) ELSE pool
           /\ backends' = Keep([backends EXCEPT ![o] = [v EXCEPT ![Type[y]] = None]],
                               pool', call')
  /\ UNCHANGED <<regime, online, front, login, cache, up, mail>>

(* The target answers ErrSessionNotFound when it does not hold the user.   *)
KickForward(c) ==
  LET f == call[c]  y == f.tgt  o == pool[y]
  IN  /\ f # None /\ f.op = "kick" /\ f.pc = "forward" /\ up[y]
      /\ IF o # None /\ backends[o][Type[y]] = y
         THEN /\ call' = [call EXCEPT ![c] =
                            [Frame("kick", y, y, o, "front", "none")
                               EXCEPT !.outer = f.sess, !.from = f.at]]
              /\ pool' = Removed(y)
              /\ backends' = [backends EXCEPT ![o][Type[y]] = None]
         ELSE /\ call' = [call EXCEPT ![c].pc = "return", ![c].err = "failed"]
              /\ UNCHANGED <<pool, backends>>
      /\ UNCHANGED <<regime, online, front, login, cache, up, mail, ops>>

(* A target that is gone is not in service discovery: a bind fails, and a  *)
(* kick is carried out by the caller in its place.                         *)
ForwardNoServer(c) ==
  LET f == call[c]
  IN  /\ f # None /\ f.pc = "forward" /\ ~up[f.tgt]
      /\ call' = [call EXCEPT ![c].pc = IF f.op = "kick" THEN "front" ELSE "return",
                              ![c].err = IF f.op = "kick" THEN "none" ELSE "failed"]
      /\ UNCHANGED <<regime, online, front, login, cache, up, pool, backends, mail, ops>>

KickFrontOnly(c) ==
  LET f == call[c]  t == Type[f.tgt]
  IN  /\ f # None /\ f.op = "kick" /\ f.pc = "front"
      /\ front' = IF online THEN [front EXCEPT ![t] = None] ELSE front
      /\ cache' = IF online THEN front' ELSE cache
      /\ call' = [call EXCEPT ![c].pc = "notify"]
      /\ UNCHANGED <<regime, online, login, up, pool, backends, mail, ops>>

(* The frontend drops the record and flushes; without the frontend the     *)
(* backend flushes what its own session records.                           *)
KickFront(c) ==
  LET f == call[c]  t == Type[f.tgt]
  IN  /\ f # None /\ f.op = "kick" /\ f.pc = "front"
      /\ front' = IF online THEN [front EXCEPT ![t] = None] ELSE front
      /\ cache' = IF online THEN front' ELSE backends[f.sess]
      /\ call' = [call EXCEPT ![c].pc = "notify"]
      /\ UNCHANGED <<regime, online, login, up, pool, backends, mail, ops>>
-----------------------------------------------------------------------------
ReturnToNobody(c) ==
  LET f == call[c]
  IN  /\ f # None /\ f.pc = "return"
      /\ call' = [call EXCEPT ![c] = Frame(f.op, f.from, f.tgt, f.outer, "return", f.err)]
      /\ UNCHANGED <<regime, online, front, login, cache, up, pool, backends, mail, ops>>

(* A callback returns: BindBackend takes its record back on an error; a    *)
(* forwarded call returns to the server it came from, where a bind that    *)
(* succeeded goes on as if that server were the target.                    *)
Return(c) ==
  LET f == call[c]
      b == IF f.op = "bind" /\ f.err = "failed"
           THEN [backends EXCEPT ![f.sess][Type[f.tgt]] = None] ELSE backends
      stored == f.op = "bind" /\ f.err = "none" /\ f.outer # None /\ pool[f.from] = None
  IN  /\ f # None /\ f.pc = "return"
      /\ call' = [call EXCEPT ![c] =
           IF f.outer = None THEN None
           ELSE Frame(f.op, f.from, f.tgt, f.outer, IF stored THEN "front" ELSE "return",
                      IF f.err = "none" THEN "none" ELSE "failed")]
      /\ pool' = IF stored THEN [pool EXCEPT ![f.from] = f.outer] ELSE pool
      /\ backends' = Keep(b, pool', call')
      /\ UNCHANGED <<regime, online, front, login, cache, up, mail, ops>>

(* OnUserBindBackend of UniqueSession: another server of the type bound    *)
(* the user.                                                               *)
Rebound(m, y) == IF m.msg = "boundFork" /\ pool[y] # None THEN Removed(y) ELSE pool

(* SessionBoundBackend and SessionKickedBackend update the session the     *)
(* server holds; SessionBoundBackendFork calls the binding listeners.      *)
Deliver(x, y) ==
  LET m == Head(mail[<<x, y>>])  t == Type[m.id]  o == pool[y]
  IN  /\ mail[<<x, y>>] # <<>>
      /\ mail' = [mail EXCEPT ![<<x, y>>] = Tail(@)]
      /\ pool' = Rebound(m, y)
      /\ backends' = IF o = None THEN backends
                     ELSE Keep([backends EXCEPT ![o][t] = IF m.msg = "bound" THEN m.id ELSE None],
                               pool', call)
      /\ UNCHANGED <<regime, online, front, login, cache, up, call, ops>>
-----------------------------------------------------------------------------
(* The frontend's session closes; the bindings stay in the cache.          *)
SessionClosed ==
  /\ online
  /\ online' = FALSE /\ front' = Unbound
  /\ UNCHANGED <<regime, login, cache, up, pool, backends, call, mail, ops>>

(* The user binds again on the frontend: the callback reads the cache, and *)
(* the session is found by its user id once the callbacks have returned.   *)
LoginRead ==
  /\ ~online /\ login = None
  /\ regime = "direct" \/ Quiet
  /\ login' = cache
  /\ UNCHANGED <<regime, online, front, cache, up, pool, backends, call, mail, ops>>

LoginDone ==
  /\ login # None
  /\ online' = TRUE /\ front' = login /\ login' = None
  /\ UNCHANGED <<regime, cache, up, pool, backends, call, mail, ops>>

(* A server dies with what it holds and the calls it runs.  A call it      *)
(* forwarded goes on at the target; a call forwarded to it has failed.     *)
Crash(x) ==
  LET after(f) == IF f = None \/ (f.at = x /\ f.from = x) THEN None
                  ELSE IF f.at = x
                  THEN Frame(f.op, f.from, f.tgt, f.outer, "return", "failed")
                  ELSE IF f.from = x THEN [f EXCEPT !.outer = None, !.from = f.at]
                  ELSE f
  IN  /\ up[x]
      /\ up' = [up EXCEPT ![x] = FALSE]
      /\ pool' = Removed(x)
      /\ call' = [c \in Callers |-> after(call[c])]
      /\ mail' = [p \in Servers \X Servers |-> IF p[2] = x THEN <<>> ELSE mail[p]]
      /\ backends' = Keep(backends, pool', call')
      /\ UNCHANGED <<regime, online, front, login, cache, ops>>

Next ==
  \/ \E c \in Callers, x, y \in Servers : Bind(c, x, y) \/ Kick(c, x, y)
  \/ \E c \in Callers : \/ BindForward(c) \/ BindFront(c) \/ BindRollback(c)
                        \/ KickForward(c) \/ ForwardNoServer(c) \/ KickFront(c)
                        \/ Notify(c) \/ Return(c)
  \/ \E x, y \in Servers : Deliver(x, y)
  \/ SessionClosed \/ LoginRead \/ LoginDone
  \/ \E x \in Servers : Crash(x)

Spec == Init /\ [][Next]_vars
-----------------------------------------------------------------------------
(* Every variable has its type.                                            *)
TypeOK ==
  /\ regime \in {"sequential", "direct"} /\ online \in BOOLEAN
  /\ front \in Bindings /\ login \in Bindings \cup {None} /\ cache \in Bindings
  /\ up \in [Servers -> BOOLEAN]
  /\ pool \in [Servers -> Sessions \cup {None}]
  /\ backends \in [Sessions -> Bindings]
  /\ \A c \in Callers : call[c] = None \/ call[c] \in Frames
  /\ \A p \in Servers \X Servers : mail[p] \in Seq(Mails)
  /\ ops \in 0 .. MaxOps

(* When nothing is in flight and the operations of the user followed one   *)
(* another, the frontend and the cache record the same backends, a server  *)
(* that runs holds the user exactly if they record it, and what its own    *)
(* session records of running servers is the same, whichever of the        *)
(* rollback of BindBackend, the substitute paths of KickBackend and the    *)
(* notifications ran, and whoever crashed or went offline in between.      *)
Running(v) == [t \in Types |-> IF v[t] # None /\ up[v[t]] THEN v[t] ELSE None]
CopiesAgree ==
  regime = "sequential" /\ Quiet =>
    /\ online => front = cache
    /\ \A x \in Servers : up[x] =>
         /\ pool[x] # None <=> cache[Type[x]] = x
         /\ pool[x] # None => Running(backends[pool[x]]) = Running(cache)

(* However binds and kicks of one user overlap, once nothing is in flight  *)
(* at most one server of a type holds the user: each bind is announced to  *)
(* the servers of the type after the session was stored, and               *)
(* UniqueSession.OnUserBindBackend drops the session of the other.         *)
OneHome ==
  Quiet => \A x, y \in Servers :
             Type[x] = Type[y] /\ pool[x] # None /\ pool[y] # None => x = y

(* The session a server holds records that server: KickBackend and the     *)
(* rebind kick of UniqueSession act on the server itself and never forward *)
(* to another one.                                                         *)
HeldForSelf ==
  \A x \in Servers : pool[x] # None => backends[pool[x]][Type[x]] = x

(* However operations overlap, notifications are late and servers crash,   *)
(* the copies of a user's binding come to agree on one server per type.    *)
BindingsAgree == CopiesAgree /\ OneHome /\ HeldForSelf

(* A user bound to one server of a type is bound to another only after it  *)
(* was unbound: BindBackend refuses a session that records a backend.      *)
RebindNeedsKick ==
  [][regime = "sequential" /\ online /\ online' =>
       \A t \in Types : front[t] = None \/ front'[t] \in {front[t], None}]_vars

(* BindBackend answers ErrSessionAlreadyBound only when the user is bound  *)
(* to a backend of the type, on whichever server it was called             *)
(* (SessionBindBackendRoute forwards the call to the target).              *)
AlreadyBoundIsTrue ==
  regime = "sequential" =>
    \A c \in Callers : call[c] # None /\ call[c].err = "already" =>
                         cache[Type[call[c].tgt]] # None
=============================================================================
