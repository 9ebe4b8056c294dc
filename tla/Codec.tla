-------------------------------- MODULE Codec --------------------------------
(***************************************************************************)
(* What the programs write to each other is read as it was meant: a FIX    *)
(* field through its text, an IPC message through a stream of bytes that   *)
(* arrives in pieces.                                                      *)
(***************************************************************************)
EXTENDS Convertor

CONSTANTS Written,   \* the <<type, value>> that are written as FIX fields
          Foreign,   \* the <<type, text>> that come from elsewhere
          Messages,  \* the IPC messages
          Cuts,      \* sizes of a piece that arrives before the rest
          MaxSent    \* how many messages are sent

I == INSTANCE IpcFormat

VARIABLES
  field,   \* the FIX field under way
  sent,    \* the IPC messages sent, and received
  got,
  wire,    \* bytes sent that did not arrive, and bytes that wait to be read
  inbox,
  header,  \* the header that was read, whose body was not
  short    \* a read came up short: the stream is not followed any further

fixVars == <<field>>
ipcVars == <<sent, got, wire, inbox, header, short>>
vars == <<field, sent, got, wire, inbox, header, short>>

NoField == [step |-> "none"]
NoHeader == [type |-> "none", size |-> 0]

Init ==
  /\ field = NoField
  /\ sent = <<>> /\ got = <<>>
  /\ wire = <<>> /\ inbox = <<>>
  /\ header = NoHeader
  /\ short = FALSE

-----------------------------------------------------------------------------
(* FIX fields.  They have the process to themselves until a message is sent. *)

Idle == sent = <<>> /\ field = NoField

ToFix(w) ==
  /\ Idle
  /\ field' = [step |-> "text", type |-> w[1], text |-> Write(w[1], w[2]), of |-> Value(w[2])]
  /\ UNCHANGED ipcVars

FromElsewhere(t) ==
  /\ Idle
  /\ field' = [step |-> "text", type |-> t[1], text |-> t[2], of |-> Error("unknown")]
  /\ UNCHANGED ipcVars

\* The text is read into a value, or refused.
FromFix ==
  /\ field.step = "text"
  /\ field' = [step |-> "read", type |-> field.type, text |-> field.text, of |-> field.of,
               value |-> Read(field.type, field.text)]
  /\ UNCHANGED ipcVars

\* A value that was read is written in an answer.
Answer ==
  /\ field.step = "read"
  /\ field.value.error = "none"
  /\ field.of.error = "unknown"
  /\ field' = [step |-> "text", type |-> field.type, text |-> Write(field.type, field.value.value),
               of |-> field.value]
  /\ UNCHANGED ipcVars

Forget ==
  /\ field.step = "read"
  /\ field' = NoField
  /\ UNCHANGED ipcVars

-----------------------------------------------------------------------------
(* IPC messages *)

Send(m) ==
  /\ field = NoField
  /\ Len(sent) < MaxSent
  /\ sent' = Append(sent, m)
  /\ wire' = wire \o I!Encode(m)
  /\ UNCHANGED <<fixVars, got, inbox, header, short>>

Arrive(n) ==
  /\ n \in 1..Len(wire)
  /\ inbox' = inbox \o SubSeq(wire, 1, n)
  /\ wire' = SubSeq(wire, n + 1, Len(wire))
  /\ UNCHANGED <<fixVars, sent, got, header, short>>

\* recv() gives what there is, up to the size that is asked for.
Received(n) == SubSeq(inbox, 1, n)
Unread(n) == SubSeq(inbox, n + 1, Len(inbox))

ReceiveHeader ==
  /\ ~short
  /\ header = NoHeader
  /\ inbox # <<>>
  /\ IF Len(inbox) < I!HeaderSize
     THEN /\ short' = TRUE
          /\ UNCHANGED header
     ELSE /\ header' = I!ReadHeader(Received(I!HeaderSize))
          /\ UNCHANGED short
  /\ inbox' = Unread(I!HeaderSize)
  /\ UNCHANGED <<fixVars, sent, got, wire>>

\* Without a body recv() returns at once; else it waits for the first bytes of it.
ReceiveBody ==
  /\ header # NoHeader
  /\ header.size = 0 \/ inbox # <<>>
  /\ IF Len(inbox) < header.size
     THEN /\ short' = TRUE
          /\ UNCHANGED got
     ELSE /\ got' = Append(got, I!Decode(header.type, Received(header.size)))
          /\ UNCHANGED short
  /\ inbox' = Unread(header.size)
  /\ header' = NoHeader
  /\ UNCHANGED <<fixVars, sent, wire>>

Next ==
  \/ Idle /\ \E w \in Written : ToFix(w)
  \/ Idle /\ \E t \in Foreign : FromElsewhere(t)
  \/ FromFix
  \/ Answer
  \/ Forget
  \/ \E m \in Messages : Send(m)
  \/ \E n \in Cuts \cup {Len(wire)} : Arrive(n)
  \/ ReceiveHeader
  \/ ReceiveBody

Spec == Init /\ [][Next]_vars

-----------------------------------------------------------------------------
(* Properties *)

\* A value that is written as a field is read as that value.  A time is not: it is
\* written in UTC and read as of the zone of the process, so that it comes back
\* earlier by the zone (FixConvertor.cpp:441 and :453).
RoundTrip ==
  field.step = "read" /\ field.of.error = "none" =>
    /\ field.value.error = "none"
    /\ field.value.value = IF field.type = "time"
                           THEN At(field.of.value[1], field.of.value[2] - Zone)
                           ELSE field.of.value

\* The codes the error text of each from_FIX() says it expects.
Stated ==
  [ TransactionType        |-> 48..51,
    OrderStatus            |-> 48..57 \cup 65..69,
    OrderRejectReason      |-> 48..56,
    Side                   |-> 49..57,
    RejectReasonBusiness   |-> 48..53,
    EncryptionMethod       |-> 48..54,
    HandleInstance         |-> 49..51,
    OrderType              |-> 49..57 \cup 65..73 \cup {80},
    CancelRejectResponseTo |-> {49, 50},
    CancelRejectReason     |-> 49..52,
    RejectReasonSession    |-> 1..10 ]

\* Where the code contradicts its own text: "1 GE value GE 10", and 11 is accepted
\* (FixConvertor.cpp:30); "1 GE value GE 4", and '0' is accepted and '4' is not (:286).
AcceptedUnstated == [CancelRejectReason |-> {48}, RejectReasonSession |-> {11}]
RefusedThoughStated == [CancelRejectReason |-> {52}, RejectReasonSession |-> {}]

Expected(type) ==
  IF type \in DOMAIN AcceptedUnstated
  THEN (Stated[type] \ RefusedThoughStated[type]) \cup AcceptedUnstated[type]
  ELSE Stated[type]

\* Of nine enumerations from_FIX() accepts the codes its error text states and refuses
\* every other one as out of range.  The texts of the other two are wrong: those accept
\* and refuse what they state but for the codes listed above.
AcceptedAsStated ==
  field.step = "read" /\ field.type \in DOMAIN Stated =>
    /\ field.value.error = "none" => field.value.value \in Expected(field.type)
    /\ field.value.error = "range" /\ Len(field.text) = 1 =>
         (IF field.type = "RejectReasonSession" THEN field.text[1] - 48 ELSE field.text[1])
           \notin Expected(field.type)

\* As long as no read came up short, what is received are the messages sent, each with
\* its fields and in order; and all of them once nothing is under way: the size in each
\* header is that of the body behind it (Helper.cpp, IPCNetworkManager.inl:49).
FramesKept ==
  ~short =>
    /\ got = SubSeq(sent, 1, Len(got))
    /\ wire = <<>> /\ inbox = <<>> /\ header = NoHeader => got = sent
=============================================================================
