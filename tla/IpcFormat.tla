------------------------------ MODULE IpcFormat ------------------------------
(***************************************************************************)
(* The messages of the three local links (front - initiator, initiator -   *)
(* back, front - back) as bytes: a header of a type and the size of the    *)
(* body, then the fields in order.  A message is a type and its fields; a  *)
(* string is a sequence of bytes, a float its four bytes.                  *)
(***************************************************************************)
EXTENDS Integers, SequencesExt, TLC

\* The position in this list, from 0, is the byte of the type.
MessageType ==
  << "Reject", "FrontToInitiatorAuth", "InitiatorToFrontAuth", "BackToInitiatorAuth",
     "InitiatorToBackAuth", "InitiatorToFrontValidToken", "FrontToBackValidToken",
     "BackToFrontValidToken", "HandShakeAuth", "Status", "Logon", "OrderSingle",
     "ExecNew", "ExecEvent" >>

HeaderSize == 5

\* The fields of the messages, in the order both operators << and >> take them.
AuthLayout ==
  [ FrontToInitiatorAuth |-> <<"string", "string">>,
    InitiatorToFrontAuth |-> <<"string">>,
    InitiatorToBackAuth  |-> <<"string", "string">>,
    BackToInitiatorAuth  |-> <<"string", "u32">>,
    HandShakeAuth        |-> <<>> ]

TokenLayout ==
  [ InitiatorToFrontValidToken |-> <<"string", "u32">>,
    FrontToBackValidToken      |-> <<"string">>,
    BackToFrontValidToken      |-> <<"string">> ]

LogonLayout     == <<"string", "u32", "u32">>
OrderLayout     == <<"string", "string", "float", "float", "u8">>
ExecutionLayout == <<"string", "string", "string", "float", "float", "u8", "float", "float">>
RejectLayout    == <<"string">>

Layout ==
  AuthLayout @@ TokenLayout @@
  [ Logon |-> LogonLayout, OrderSingle |-> OrderLayout, ExecNew |-> ExecutionLayout,
    ExecEvent |-> ExecutionLayout, Reject |-> RejectLayout, Status |-> <<"u8">> ]

-----------------------------------------------------------------------------
(* net::Buffer *)

\* Integers are in network order.
WriteU32(n) == <<n \div 16777216, (n \div 65536) % 256, (n \div 256) % 256, n % 256>>

ReadU32(b) == 16777216 * b[1] + 65536 * b[2] + 256 * b[3] + b[4]

WriteString(s) == WriteU32(Len(s)) \o s

WriteField(kind, v) ==
  CASE kind = "string" -> WriteString(v)
    [] kind = "u32"    -> WriteU32(v)
    [] kind = "u8"     -> <<v>>
    [] kind = "float"  -> v

\* A buffer that is read: once a read asks for more than there is, it and those
\* after it take nothing.  "unset" is what the reader's variable held.
Open(bytes) == [left |-> bytes, valid |-> TRUE, fields |-> <<>>]

Take(b, n) == [b EXCEPT !.left = SubSeq(@, n + 1, Len(@))]
checkSize(b, n) == b.valid /\ n <= Len(b.left)

SizeOf == [u32 |-> 4, u8 |-> 1, float |-> 4]

FixedValue(kind, bytes) ==
  CASE kind = "u32"   -> ReadU32(bytes)
    [] kind = "u8"    -> bytes[1]
    [] kind = "float" -> bytes

ReadFixed(b, kind) ==
  LET n == SizeOf[kind]
  IN IF checkSize(b, n)
     THEN [Take(b, n) EXCEPT !.fields = Append(@, FixedValue(kind, SubSeq(b.left, 1, n)))]
     ELSE [b EXCEPT !.valid = FALSE, !.fields = Append(@, "unset")]

\* A string whose size cannot be read is empty, as is one cut short.
ReadString(b) ==
  LET known == checkSize(b, 4)
      n == IF known THEN ReadU32(b.left) ELSE 0
      c == IF known THEN Take(b, 4) ELSE [b EXCEPT !.valid = FALSE]
      enough == n = 0 \/ checkSize(c, n)
      read == IF n > 0 /\ enough THEN SubSeq(c.left, 1, n) ELSE <<>>
  IN [Take(c, Len(read)) EXCEPT !.valid = @ /\ enough, !.fields = Append(@, read)]

ReadField(b, kind) == IF kind = "string" THEN ReadString(b) ELSE ReadFixed(b, kind)

-----------------------------------------------------------------------------
(* The helpers that write a message, and what onReceive() reads of one *)

\* What the sizes count besides the characters of the strings.
FixedSize ==
  [ FrontToInitiatorAuth |-> 4 * 2, InitiatorToFrontAuth |-> 4, BackToInitiatorAuth |-> 4 * 2,
    InitiatorToBackAuth |-> 4 * 2, HandShakeAuth |-> 0,
    InitiatorToFrontValidToken |-> 4 * 2, FrontToBackValidToken |-> 4, BackToFrontValidToken |-> 4,
    Reject |-> 4, Status |-> 1, Logon |-> 4 * 2 + 4, OrderSingle |-> 4 * 2 + 4 + 4 + 1,
    ExecNew |-> 4 * 3 + 4 * 2 + 1 + 4 * 2, ExecEvent |-> 4 * 3 + 4 * 2 + 1 + 4 * 2 ]

Characters(m) ==
  FoldLeft(LAMBDA n, i : IF Layout[m.type][i] = "string" THEN n + Len(m.fields[i]) ELSE n,
           0, [i \in 1..Len(m.fields) |-> i])

\* Faulty: only the first string is counted.
BodySizeOfOne(m) == FixedSize[m.type] + (IF Characters(m) = 0 THEN 0 ELSE Len(m.fields[1]))

BodySize(m) == FixedSize[m.type] + Characters(m)

WriteHeader(type, size) ==
  <<(CHOOSE i \in DOMAIN MessageType : MessageType[i] = type) - 1>> \o WriteU32(size)

Encode(m) ==
  WriteHeader(m.type, BodySize(m))
    \o FlattenSeq([i \in DOMAIN m.fields |-> WriteField(Layout[m.type][i], m.fields[i])])

ReadHeader(bytes) == [type |-> MessageType[bytes[1] + 1], size |-> ReadU32(SubSeq(bytes, 2, 5))]

Decode(type, body) ==
  [type |-> type, fields |-> FoldLeft(ReadField, Open(body), Layout[type]).fields]
=============================================================================
