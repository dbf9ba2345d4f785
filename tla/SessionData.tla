----------------------------- MODULE SessionData ----------------------------
(***************************************************************************)
(* The custom data of one user's session: the frontend's session object,   *)
(* the copies backends make of it, and the user's record in the cluster    *)
(* cache (a redis hash).  Backends change their copy and push it whole;    *)
(* a bind restores the record and writes it back.                          *)
(*                                                                         *)
(* Data travels as JSON: every number comes back as a float64, a nil map   *)
(* is written "null", and no text at all is read as a nil map.             *)
(***************************************************************************)
EXTENDS Naturals, FiniteSets

CONSTANTS Keys,        \* keys of the data
          Values,      \* Go values the application stores: [kind, n]
          Copies,      \* backend requests that hold a copy of the session
          MaxChanges,  \* bound on the application's changes
          MaxLogins,   \* bound on the connections the user makes
          MaxFaults    \* bound on failed cache commands

Kinds == {"int", "float64", "string", "func"}

SessionDataConstants ==
  /\ IsFiniteSet(Copies) /\ Values \subseteq [kind : Kinds, n : Nat]
  /\ MaxChanges \in Nat /\ MaxLogins \in Nat /\ MaxFaults \in Nat

VARIABLES
  front,    \* the frontend's session of the user's connection
  record,   \* the user's hash in the cache
  copy,     \* each backend copy
  pushes,   \* each copy's call of the frontend: where it is, and the text it carries
  binding,  \* the frontend's Bind: the hash it is about to write
  changes, logins, troubles,
  overlap,  \* history: the frontend's data was changed other than by one push at a time
  panics    \* history: the calls that panicked

sdVars == <<front, record, copy, pushes, binding, changes, logins, troubles, overlap, panics>>
-----------------------------------------------------------------------------
Nil == [nil |-> TRUE, m |-> <<>>]
Map(m) == [nil |-> FALSE, m |-> m]
NoText == [text |-> "", m |-> <<>>]
Null == [text |-> "null", m |-> <<>>]

ToJSON(v) == [kind |-> IF v.kind = "string" THEN "string" ELSE "number", n |-> v.n]
FromJSON(j) == [kind |-> IF j.kind = "string" THEN "string" ELSE "float64", n |-> j.n]

Encodable(d) == \A k \in DOMAIN d.m : d.m[k].kind # "func"
EncodeSessionData(d) ==
  IF d.nil THEN Null ELSE [text |-> "{}", m |-> [k \in DOMAIN d.m |-> ToJSON(d.m[k])]]
DecodeSessionData(e) ==
  IF e.text = "{}" THEN Map([k \in DOMAIN e.m |-> FromJSON(e.m[k])]) ELSE Nil

(* updateEncodedData: the text stays what it was if the map has a value    *)
(* that JSON cannot express.                                               *)
updateEncodedData(s) == IF Encodable(s.data) THEN [s EXCEPT !.enc = EncodeSessionData(s.data)] ELSE s

WithData(s, d) == updateEncodedData([s EXCEPT !.data = d])
SetData(s, d) == WithData(s, Map(d.m))
SetDataEncoded(s, e) == IF e = NoText THEN s ELSE SetData(s, DecodeSessionData(e))
SetKey(s, k, v) ==
  WithData(s, Map([x \in DOMAIN s.data.m \cup {k} |-> IF x = k THEN v ELSE s.data.m[x]]))
Without(s, k) == [s.data EXCEPT !.m = [x \in DOMAIN s.data.m \ {k} |-> s.data.m[x]]]
RemoveStale(s, k) == [s EXCEPT !.data = Without(s, k)]
Remove(s, k) == WithData(s, Without(s, k))

(* Int ... Uint64, Float32, Float64 and String: the value if it has exactly *)
(* the type asked for, and the type's zero otherwise.                      *)
Typed(s, k, kind) ==
  IF k \in DOMAIN s.data.m /\ s.data.m[k].kind = kind THEN s.data.m[k].n ELSE 0

NewSession(sid) ==
  [sid |-> sid, open |-> TRUE, bound |-> FALSE, online |-> TRUE, data |-> Map(<<>>), enc |-> NoText]
Closed == [NewSession(0) EXCEPT !.open = FALSE, !.online = FALSE]
NoRecord == [some |-> FALSE, sid |-> 0, online |-> FALSE, enc |-> NoText]
Quiet == [at |-> "idle", enc |-> NoText, sid |-> 0, bound |-> FALSE]

Init ==
  /\ front = Closed /\ record = NoRecord
  /\ copy = [b \in Copies |-> Closed] /\ pushes = [b \in Copies |-> Quiet]
  /\ binding = [at |-> "idle", by |-> {}, hash |-> NoRecord]
  /\ changes = 0 /\ logins = 0 /\ troubles = 0 /\ overlap = FALSE /\ panics = {}
-----------------------------------------------------------------------------
(* The client connects: newAgent makes the session.                        *)
Connect ==
  /\ ~front.open /\ logins < MaxLogins
  /\ logins' = logins + 1 /\ front' = NewSession(logins')
  /\ UNCHANGED <<record, copy, pushes, binding, changes, troubles, overlap, panics>>

(* The connection ends: Close, and the callback that notes it in the cache *)
(* (FlushOnline) if a user is bound.                                       *)
Disconnect ==
  /\ front.open
  /\ front' = [front EXCEPT !.open = FALSE, !.online = FALSE]
  /\ \/ /\ front.bound /\ record' = [record EXCEPT !.online = FALSE] /\ UNCHANGED troubles
     \/ /\ front.bound /\ troubles < MaxFaults /\ troubles' = troubles + 1 /\ UNCHANGED record
     \/ ~front.bound /\ UNCHANGED <<record, troubles>>
  /\ UNCHANGED <<copy, pushes, binding, changes, logins, overlap, panics>>

(* A request of the client reaches a backend, which makes its session from *)
(* what the request carries (NewRemote).                                   *)
Request(b) ==
  /\ front.open /\ pushes[b].at = "idle"
  /\ copy' = [copy EXCEPT ![b] =
                SetDataEncoded([NewSession(front.sid) EXCEPT !.bound = front.bound], front.enc)]
  /\ UNCHANGED <<front, record, pushes, binding, changes, logins, troubles, overlap, panics>>

(* ObtainFromCluster: the copy becomes what the cache holds.               *)
ObtainFromCluster(s) ==
  [WithData(s, DecodeSessionData(record.enc)) EXCEPT !.online = record.online, !.sid = record.sid]

(* A backend asks for the user's session itself (NewCluster).              *)
NewCluster(b) ==
  /\ pushes[b].at = "idle" /\ record.some
  /\ copy' = [copy EXCEPT ![b] = ObtainFromCluster([NewSession(0) EXCEPT !.bound = TRUE])]
  /\ UNCHANGED <<front, record, pushes, binding, changes, logins, troubles, overlap, panics>>

(* The application sets a key: on a nil map that panics, which ends the    *)
(* handler (Pcall recovers).                                               *)
BackSet(b, k, v) ==
  /\ copy[b].open /\ pushes[b].at = "idle" /\ changes < MaxChanges
  /\ changes' = changes + 1
  /\ copy' = [copy EXCEPT ![b] = IF @.data.nil THEN Closed ELSE SetKey(@, k, v)]
  /\ panics' = IF copy[b].data.nil THEN panics \cup {"Set"} ELSE panics
  /\ UNCHANGED <<front, record, pushes, binding, logins, troubles, overlap>>

BackRemove(b, k) ==
  /\ copy[b].open /\ pushes[b].at = "idle" /\ changes < MaxChanges
  /\ changes' = changes + 1
  /\ copy' = [copy EXCEPT ![b] = Remove(@, k)]
  /\ UNCHANGED <<front, record, pushes, binding, logins, troubles, overlap, panics>>

(* Clear forgets the user and the data.                                    *)
BackClear(b) ==
  /\ copy[b].open /\ pushes[b].at = "idle" /\ changes < MaxChanges
  /\ changes' = changes + 1
  /\ copy' = [copy EXCEPT ![b] = [WithData(@, Map(<<>>)) EXCEPT !.bound = FALSE]]
  /\ UNCHANGED <<front, record, pushes, binding, logins, troubles, overlap, panics>>

(* Code of the frontend sets a key itself: nothing writes the cache.       *)
FrontSet(k, v) ==
  /\ front.open /\ changes < MaxChanges
  /\ changes' = changes + 1 /\ overlap' = TRUE
  /\ front' = IF front.data.nil THEN front ELSE SetKey(front, k, v)
  /\ panics' = IF front.data.nil THEN panics \cup {"Set"} ELSE panics
  /\ UNCHANGED <<record, copy, pushes, binding, logins, troubles>>
-----------------------------------------------------------------------------
(* PushToFront sends the copy's text to the frontend, as the last thing    *)
(* the request does with its copy.                                         *)
PushToFront(b) ==
  /\ copy[b].open /\ copy[b].sid # 0 /\ pushes[b].at = "idle"
  /\ pushes' = [pushes EXCEPT ![b] = [at |-> "sent", enc |-> copy[b].enc, sid |-> copy[b].sid,
                                      bound |-> copy[b].bound]]
  /\ copy' = [copy EXCEPT ![b] = Closed]
  /\ UNCHANGED <<front, record, binding, changes, logins, troubles, overlap, panics>>

Busy(b) == binding.at # "idle" \/ \E o \in Copies \ {b} : pushes[o].at = "set"

(* Sys.PushSession: the session must exist and have the same user.  Its    *)
(* data is replaced, and FlushUserData takes the text to write, which it   *)
(* refuses to do without a user.                                           *)
PushSession(b) ==
  LET p == pushes[b]
  IN  /\ p.at = "sent"
      /\ IF front.open /\ front.sid = p.sid /\ front.bound = p.bound
         THEN /\ front' = SetDataEncoded(front, p.enc)
              /\ pushes' = [pushes EXCEPT ![b] = IF front.bound
                                                 THEN [p EXCEPT !.at = "set", !.enc = front'.enc]
                                                 ELSE Quiet]
              /\ overlap' = (overlap \/ Busy(b))
         ELSE pushes' = [pushes EXCEPT ![b] = Quiet] /\ UNCHANGED <<front, overlap>>
      /\ UNCHANGED <<record, copy, binding, changes, logins, troubles, panics>>

FlushNothing(b) ==
  /\ pushes[b].at = "set"
  /\ pushes' = [pushes EXCEPT ![b] = Quiet]
  /\ UNCHANGED <<front, record, copy, binding, changes, logins, troubles, overlap, panics>>

(* The cache executes the command, or fails and the push reports it.       *)
FlushUserData(b) ==
  /\ pushes[b].at = "set"
  /\ pushes' = [pushes EXCEPT ![b] = Quiet]
  /\ \/ record' = [record EXCEPT !.enc = pushes[b].enc, !.some = TRUE] /\ UNCHANGED <<troubles, overlap>>
     \/ troubles < MaxFaults /\ troubles' = troubles + 1 /\ overlap' = TRUE /\ UNCHANGED record
  /\ UNCHANGED <<front, copy, binding, changes, logins, panics>>
-----------------------------------------------------------------------------
BindForgets(s, mine) == WithData(s, DecodeSessionData(record.enc))

(* The bind hook: what the cache holds replaces the data, unless the       *)
(* caller brought data of its own.                                         *)
Restored(s, mine) ==
  LET initial == IF record.some THEN WithData(s, DecodeSessionData(record.enc)) ELSE s
  IN  IF DOMAIN mine.m # {} THEN SetData(initial, mine) ELSE initial

(* Bind at the frontend, by its own handler (by = {}) or for the backend   *)
(* copy b whose text came with the call (by = {b}), up to FlushFrontendData *)
(* putting its command together.                                           *)
BindSession(by) ==
  LET s == IF by = {} THEN front
           ELSE SetDataEncoded(front, copy[CHOOSE b \in by : TRUE].enc)
      bound == Restored([s EXCEPT !.bound = TRUE], s.data)
  IN  /\ front.open /\ ~front.bound /\ binding.at = "idle"
      /\ \A b \in by : copy[b].open /\ ~copy[b].bound /\ copy[b].sid = front.sid /\ pushes[b].at = "idle"
      /\ front' = bound
      /\ binding' = [at |-> "bind", by |-> by,
                     hash |-> [some |-> TRUE, sid |-> front.sid, online |-> bound.online, enc |-> bound.enc]]
      /\ overlap' = \E b \in Copies : pushes[b].at = "set"
      /\ UNCHANGED <<record, copy, pushes, changes, logins, troubles, panics>>

(* The cache executes it and the backend obtains the result; or it fails   *)
(* and the session has no user.                                            *)
FlushFrontendData ==
  /\ binding.at = "bind"
  /\ binding' = [at |-> "idle", by |-> {}, hash |-> NoRecord]
  /\ \/ /\ record' = binding.hash
        /\ copy' = [b \in Copies |-> IF b \in binding.by
                      THEN [WithData([copy[b] EXCEPT !.bound = TRUE], DecodeSessionData(binding.hash.enc))
                              EXCEPT !.online = binding.hash.online]
                      ELSE copy[b]]
        /\ UNCHANGED <<front, troubles>>
     \/ /\ troubles < MaxFaults /\ troubles' = troubles + 1
        /\ front' = IF front.sid = binding.hash.sid THEN [front EXCEPT !.bound = FALSE] ELSE front
        /\ UNCHANGED <<record, copy>>
  /\ UNCHANGED <<pushes, changes, logins, overlap, panics>>

(* The record's time to live runs out; an open session of a bound user     *)
(* keeps it alive (keepClusterCacheAlive).                                 *)
Expire ==
  /\ record.some /\ ~(front.open /\ front.bound) /\ record' = NoRecord
  /\ UNCHANGED <<front, copy, pushes, binding, changes, logins, troubles, overlap, panics>>
-----------------------------------------------------------------------------
Next ==
  \/ Connect \/ Disconnect \/ FlushFrontendData \/ Expire \/ BindSession({})
  \/ \E b \in Copies : \/ Request(b) \/ NewCluster(b) \/ BackClear(b) \/ PushToFront(b)
                       \/ PushSession(b) \/ FlushUserData(b) \/ BindSession({b})
  \/ \E b \in Copies, k \in Keys : BackRemove(b, k) \/ \E v \in Values : BackSet(b, k, v)
  \/ \E k \in Keys, v \in Values : FrontSet(k, v)

Spec == Init /\ [][Next]_sdVars
-----------------------------------------------------------------------------
Datas == {Nil} \cup {Map(m) : m \in UNION {[ks -> Values \cup {[v EXCEPT !.kind = "float64"] : v \in Values}] :
                                          ks \in SUBSET Keys}}
Held == {front} \cup {copy[b] : b \in Copies}

(* Every session has data of its kind, and a nil map holds nothing.        *)
TypeOK ==
  /\ \A s \in Held : s.data \in Datas /\ s.enc.text \in {"", "null", "{}"} /\ s.bound \in BOOLEAN
  /\ \A b \in Copies : pushes[b].at \in {"idle", "sent", "set"}
  /\ record.some \in BOOLEAN /\ binding.at \in {"idle", "bind"} /\ panics \subseteq {"Set"}

(* encodedData is what other servers and the cache get to see: after any   *)
(* sequence of Set, Remove, SetData, Clear, pushes, binds and refusals of  *)
(* values that have no JSON form, it is the text of the data the session   *)
(* has now, unless the data still holds such a value.  A session made from *)
(* it returns every number to Float64 and every text to String.            *)
EncodedCurrent ==
  \A s \in Held : Encodable(s.data) =>
     /\ s.enc = EncodeSessionData(s.data) \/ (s.enc = NoText /\ s.data = Map(<<>>))
     /\ \A k \in DOMAIN s.data.m :
          Typed(SetDataEncoded(NewSession(1), s.enc), k,
                IF s.data.m[k].kind = "string" THEN "string" ELSE "float64") = s.data.m[k].n

(* PushToFront "will sync the frontend's session and refresh the cache":   *)
(* as long as no two pushes overlap, no cache command failed and no code   *)
(* of the frontend set a key behind the cache's back, the cache holds the  *)
(* very data of the bound session whenever no call is under way, through   *)
(* reconnects and rebinds as well.                                         *)
CacheFollows ==
  /\ front.open /\ front.bound /\ binding.at = "idle" /\ ~overlap
  /\ \A b \in Copies : pushes[b].at # "set"
  => record.some /\ DecodeSessionData(record.enc) = DecodeSessionData(front.enc)

(* The three views of a session's data follow each other: both of the      *)
(* above.                                                                  *)
DataFollows == EncodedCurrent /\ CacheFollows

(* "Set associates value with the key in session storage": it does so on   *)
(* any session an application can hold, one obtained from the cluster too. *)
SetWorks == panics = {}
=============================================================================
