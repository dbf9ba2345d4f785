------------------------------- MODULE Wire --------------------------------
(***************************************************************************)
(* What goes over a client connection: the message encoding with its route *)
(* dictionary (conn/message), the packet framing (conn/codec, the readers  *)
(* of acceptor/tcp_acceptor.go and client/client.go) and the handshake     *)
(* that gives the client the server's dictionary.                          *)
(*                                                                         *)
(* Bytes that are computed are numbers, and keep their width; a route or a *)
(* payload is one block with a length.  The client's dictionary is a       *)
(* variable of its process: it outlives the connection.                    *)
(***************************************************************************)
EXTENDS Naturals, Sequences, FiniteSets, FiniteSetsExt, SequencesExt

CONSTANTS
  Servers,          \* the servers the client connects to, one after the other
  Dictionaries,     \* what the application gives SetDictionary on each of them
  TrimSpace,        \* strings.TrimSpace on the names of routes
  RouteLen,         \* the length of a route's name
  Payloads,         \* [size, packed]: its size and its size deflated
  IDs,              \* message ids in use
  Compressing,      \* DataCompression of either side
  None

WireConstants ==
  /\ \A s \in Servers : \A e \in Dictionaries[s] : e.key \in DOMAIN TrimSpace /\ e.code \in 0 .. 2^16 - 1
  /\ \A r \in DOMAIN RouteLen : RouteLen[r] \in Nat
  /\ IDs \subseteq Nat \ {0} /\ Compressing \in BOOLEAN

VARIABLES
  tables,     \* routes and codes in the process of each server and the client's
  peerOf,     \* the server the client is connected to
  stream,     \* the packet under way, its first bytes and what it was made from
  delivered   \* what the receiver made of the last packet, beside what was sent

wireVars == <<tables, peerOf, stream, delivered>>

Request == 0
Notify == 1
Response == 2
Push == 3
Data == 4
Empty == [routes |-> << >>, codes |-> << >>]
Nothing == [sent |-> None, got |-> None]

-----------------------------------------------------------------------------
(* The dictionary.                                                         *)

Put(f, k, v) == [x \in DOMAIN f \cup {k} |-> IF x = k THEN v ELSE f[x]]
Enter(e, table) == [routes |-> Put(table.routes, TrimSpace[e.key], e.code),
                    codes  |-> Put(table.codes, e.code, TrimSpace[e.key])]

Duplicate(table, e) == TrimSpace[e.key] \in DOMAIN table.routes \/ e.code \in DOMAIN table.codes

SetDictionaryUnchecked(table, dict) == {FoldSet(Enter, table, dict)}

(* The tables SetDictionary can leave: it walks the map in any order and   *)
(* returns at the first entry whose route or code is taken, with those it  *)
(* entered before in place.                                                *)
SetDictionary(table, dict) ==
  LET Entered(S) == \A e \in S : /\ ~Duplicate(table, e)
                                 /\ \A o \in S \ {e} : ~Duplicate(Enter(o, Empty), e)
      Ended(S) == S = dict \/ \E e \in dict \ S : Duplicate(FoldSet(Enter, table, S), e)
  IN  {FoldSet(Enter, table, S) : S \in {T \in SUBSET dict : Entered(T) /\ Ended(T)}}

GetDictionary(table) == {[key |-> r, code |-> table.routes[r]] : r \in DOMAIN table.routes}
-----------------------------------------------------------------------------
(* Message encoding.                                                       *)

routable(t) == t \in {Request, Notify, Push}
Numbered(t) == t \in {Request, Response}
Bit(b, mask) == IF b THEN mask ELSE 0
Has(flag, mask) == (flag \div mask) % 2 = 1

(* Seven bits a byte, the lowest first; the top bit says that more follow. *)
Varint[n \in Nat] == IF n < 128 THEN <<n>> ELSE <<(n % 128) + 128>> \o Varint[n \div 128]

(* The bytes of the id: up to the first one below 128.                     *)
Unvarint(bytes) ==
  LET last == CHOOSE i \in DOMAIN bytes : bytes[i] < 128 /\ \A j \in 1 .. i - 1 : bytes[j] >= 128
  IN  [n |-> FoldLeft(LAMBDA acc, i : acc + (bytes[i] % 128) * 128 ^ (i - 1), 0, [i \in 1 .. last |-> i]),
       used |-> last]

(* message.Encode.  head holds the flag, the id, and the route's code or   *)
(* its length; name and body are the blocks behind it.                     *)
EncodeMessage(table, m) ==
  LET compressed == m.route \in DOMAIN table.routes
      code == table.routes[m.route]
      deflate == Compressing /\ m.data.packed < m.data.size
      flag == 2 * m.typ + Bit(compressed, 1) + Bit(m.err, 32) + Bit(deflate, 16)
      id == IF Numbered(m.typ) THEN Varint[m.id] ELSE << >>
      route == IF ~routable(m.typ) THEN << >>
               ELSE IF compressed THEN <<code \div 256, code % 256>> ELSE <<RouteLen[m.route] % 256>>
  IN  [head |-> <<flag>> \o id \o route,
       name |-> IF routable(m.typ) /\ ~compressed THEN m.route ELSE None,
       body |-> m.data, deflated |-> deflate]

EncodedLen(b) == Len(b.head) + (IF b.name = None THEN 0 ELSE RouteLen[b.name])
                 + (IF b.deflated THEN b.body.packed ELSE b.body.size)

Invalid == [typ |-> None]

(* Decode.  A length byte that is not the length of the name cuts it, and  *)
(* the rest of the name becomes part of the payload.                       *)
DecodeMessage(table, b) ==
  LET flag == b.head[1]
      typ == (flag \div 2) % 8
      id == Unvarint(Tail(b.head))
      at == 1 + (IF Numbered(typ) THEN id.used ELSE 0)
      code == b.head[at + 1] * 256 + b.head[at + 2]
      whole == b.head[at + 1] = RouteLen[b.name]
      data == [b.body EXCEPT !.size = IF b.deflated /\ ~Has(flag, 16) THEN b.body.packed ELSE @]
      Result(route, d) == [typ |-> typ, id |-> IF Numbered(typ) THEN id.n ELSE 0, route |-> route,
                           data |-> d, err |-> Has(flag, 32)]
  IN  IF typ \notin {Request, Notify, Response, Push} THEN Invalid
      ELSE IF ~routable(typ) THEN Result(None, data)
      ELSE IF Has(flag, 1) THEN (IF code \in DOMAIN table.codes THEN Result(table.codes[code], data) ELSE Invalid)
      ELSE IF whole THEN Result(b.name, data) ELSE Result("cut", [data EXCEPT !.size = @ + 1])
-----------------------------------------------------------------------------
(* Packet framing.                                                         *)

MaxPacketSize == 2 ^ 24
IntToShortBytes(n) == <<0, (n \div 2 ^ 8) % 256, (n % 256)>>

IntToBytes(n) == <<(n \div 2 ^ 16) % 256, (n \div 2 ^ 8) % 256, (n % 256)>>
BytesToInt(b) == b[1] * 2 ^ 16 + b[2] * 2 ^ 8 + b[3]

(* PomeloPacketEncoder.Encode, of a data packet.                           *)
EncodePacket(b) ==
  IF EncodedLen(b) > MaxPacketSize THEN None
  ELSE [header |-> <<Data>> \o IntToBytes(EncodedLen(b)), data |-> b]

(* ParseHeader: the length, or none for a header that cannot be.           *)
ParseHeader(header) ==
  LET size == BytesToInt(Tail(header))
  IN  IF Len(header) # 4 \/ header[1] \notin 1 .. 7 \/ size > MaxPacketSize THEN None ELSE size

(* GetNextMessage of the acceptors, and readPacket of the client: the      *)
(* header says how many bytes to read; any other number than was written   *)
(* leaves the reader in the middle of a packet.                            *)
GetNextMessage(p) == IF ParseHeader(p.header) = EncodedLen(p.data) THEN p ELSE None
readPacket(p) == IF ParseHeader(p.header) = EncodedLen(p.data) THEN p.data ELSE None

(* PomeloPacketDecoder.Decode of what GetNextMessage returned: one packet, *)
(* if its header says so as well.                                          *)
DecodePacket(p) == IF p = None THEN None ELSE readPacket(p)
-----------------------------------------------------------------------------
Init ==
  /\ tables \in [Servers \cup {"client"} -> UNION {SetDictionary(Empty, Dictionaries[s]) : s \in Servers} \cup {Empty}]
  /\ \A s \in Servers : tables[s] \in SetDictionary(Empty, Dictionaries[s])
  /\ tables["client"] = Empty
  /\ peerOf = None /\ stream = None /\ delivered = Nothing

(* What hbdEncode puts into the answer to a handshake.                     *)
hbdEncode(s) == GetDictionary(tables[s])

(* The handshake: the server sends its dictionary, and the client enters   *)
(* it into its own, whatever SetDictionary returns.                        *)
Handshake(s) ==
  /\ peerOf = None /\ peerOf' = s
  /\ \E table \in SetDictionary(tables["client"], hbdEncode(s)) :
       tables' = [tables EXCEPT !["client"] = table]
  /\ UNCHANGED <<stream, delivered>>

Disconnect ==
  /\ peerOf # None /\ stream = None /\ peerOf' = None
  /\ UNCHANGED <<tables, stream, delivered>>

Messages(types) ==
  {[typ |-> t, id |-> IF Numbered(t) THEN i ELSE 0, route |-> IF routable(t) THEN r ELSE None,
    data |-> d, err |-> e] :
   t \in types, i \in IDs, r \in DOMAIN RouteLen, d \in Payloads, e \in BOOLEAN}

(* Either side sends a message; a packet that is too large is not sent.    *)
Send(from, to, types) ==
  /\ peerOf # None /\ stream = None
  /\ \E m \in Messages(types) :
       LET p == EncodePacket(EncodeMessage(tables[from], m))
       IN  stream' = IF p = None THEN None ELSE [to |-> to, packet |-> p, sent |-> m]
  /\ delivered' = Nothing
  /\ UNCHANGED <<tables, peerOf>>

ClientSends == Send("client", peerOf, {Request, Notify})
ServerSends == Send(peerOf, "client", {Response, Push})

Receive ==
  /\ stream # None /\ stream' = None
  /\ LET b == IF stream.to = "client" THEN readPacket(stream.packet)
              ELSE DecodePacket(GetNextMessage(stream.packet))
     IN  delivered' = [sent |-> stream.sent,
                       got |-> IF b = None THEN None ELSE DecodeMessage(tables[stream.to], b)]
  /\ UNCHANGED <<tables, peerOf>>

Next == (\E s \in Servers : Handshake(s)) \/ Disconnect \/ ClientSends \/ ServerSends \/ Receive

Spec == Init /\ [][Next]_wireVars
-----------------------------------------------------------------------------
(* Every variable keeps its type.                                          *)
TypeOK ==
  /\ \A p \in DOMAIN tables : DOMAIN tables[p].codes \subseteq 0 .. 2 ^ 16 - 1
  /\ peerOf \in Servers \cup {None}
  /\ stream # None => stream.to \in DOMAIN tables /\ Len(stream.packet.header) = 4
  /\ DOMAIN delivered = {"sent", "got"}

(* What the receiver decodes is the message that was sent, in both         *)
(* directions, with and without the dictionary and compression, up to the  *)
(* largest id, route and packet the encoding has room for: no route is     *)
(* taken for another and no packet runs into the next.                     *)
RoundTrip == delivered.got = delivered.sent

(* "update map, using last value when key duplicated": after a handshake   *)
(* the client uses the codes of the server it is connected to.             *)
LastValueUsed ==
  peerOf # None =>
    \A r \in DOMAIN tables[peerOf].routes :
      r \in DOMAIN tables["client"].routes /\ tables["client"].routes[r] = tables[peerOf].routes[r]

=============================================================================
