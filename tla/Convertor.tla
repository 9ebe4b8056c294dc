------------------------------ MODULE Convertor ------------------------------
(***************************************************************************)
(* The conversions of FIX fields, from_FIX() and to_FIX().  A text is the  *)
(* sequence of the codes of its characters.  The value of a number is its  *)
(* decimal digits, so that no width is beyond reach; a time is a day since *)
(* 1970 and a second of that day.                                          *)
(***************************************************************************)
EXTENDS Integers, SequencesExt

\* Seconds by which the zone of the process is ahead of UTC.
CONSTANT Zone

ASSUME ZoneAssumption == Zone \in -43200..50400

Value(v) == [error |-> "none", value |-> v]
Error(e) == [error |-> e, value |-> <<>>]

Digit == 48..57
Dot == 46
Minus == 45
Nul == 0

-----------------------------------------------------------------------------
(* The enumerations: n codes from a first one, and what is read of them *)

Run(first, n) == first..(first + n - 1)

\* The enumerators.
Enumerators ==
  [ TransactionType       |-> Run(48, 4),
    OrderStatus           |-> Run(48, 10) \cup Run(65, 5),
    OrderRejectReason     |-> Run(48, 9),
    Side                  |-> Run(49, 9),
    RejectReasonBusiness  |-> Run(48, 6),
    EncryptionMethod      |-> Run(48, 7),
    HandleInstance        |-> Run(49, 3),
    OrderType             |-> Run(49, 9) \cup Run(65, 9) \cup {80},
    CancelRejectResponseTo |-> Run(49, 2),
    CancelRejectReason    |-> Run(48, 4) ]

SessionReasons == 1..11

\* A text of one character that is listed.  That of no character reads as NUL.
ReadListed(listed, text) ==
  LET c == IF text = <<>> THEN Nul ELSE text[1]
  IN IF Len(text) > 1 THEN Error("format")
     ELSE IF c \in listed THEN Value(c) ELSE Error("range")

\* The cases of each from_FIX().
ReadTransactionType(text)        == ReadListed(Run(48, 4), text)
ReadOrderStatus(text)            == ReadListed(Run(48, 10) \cup Run(65, 5), text)
ReadOrderRejectReason(text)      == ReadListed(Run(48, 9), text)
\* Faulty: the last two sides are forgotten.
ReadSideShort(text)              == ReadListed(Run(49, 7), text)
ReadSide(text)                   == ReadListed(Run(49, 9), text)
ReadRejectReasonBusiness(text)   == ReadListed(Run(48, 6), text)
ReadEncryptionMethod(text)       == ReadListed(Run(48, 7), text)
ReadHandleInstance(text)         == ReadListed(Run(49, 3), text)
ReadOrderType(text)              == ReadListed(Run(49, 9) \cup Run(65, 9) \cup {80}, text)
ReadCancelRejectResponseTo(text) == ReadListed(Run(49, 2), text)
ReadCancelRejectReason(text)     == ReadListed(Run(48, 4), text)

-----------------------------------------------------------------------------
(* Numbers *)

Largest == [uint8  |-> <<2, 5, 5>>,
            uint16 |-> <<6, 5, 5, 3, 5>>,
            uint32 |-> <<4, 2, 9, 4, 9, 6, 7, 2, 9, 5>>]

\* How many characters from position i on are digits.
Digits(text, i) ==
  LET ends == {n \in i..Len(text) : text[n] \notin Digit}
  IN (IF ends = {} THEN Len(text) + 1 ELSE CHOOSE n \in ends : \A k \in ends : n <= k) - i

\* The digits without the zeros before the first other one, which a number keeps
\* to have one digit.
Significant(ds) ==
  LET some == {n \in DOMAIN ds : ds[n] # 0}
  IN IF some = {} THEN <<0>> ELSE SubSeq(ds, CHOOSE n \in some : \A k \in some : n <= k, Len(ds))

Number(text) == Significant([n \in DOMAIN text |-> text[n] - 48])

Exceeds(ds, max) ==
  \/ Len(ds) > Len(max)
  \/ /\ Len(ds) = Len(max)
     /\ \E n \in DOMAIN ds : ds[n] > max[n] /\ \A k \in 1..(n - 1) : ds[k] = max[k]

\* from_chars(): the digits there are, which have to be all of the text.
ReadUnsigned(type, text) ==
  LET n == Digits(text, 1)
      ds == Number(SubSeq(text, 1, n))
  IN IF n = 0 THEN Error("format")
     ELSE IF Exceeds(ds, Largest[type]) THEN Error("range")
     ELSE IF n < Len(text) THEN Error("format") ELSE Value(ds)

WriteUnsigned(ds) == [n \in DOMAIN ds |-> ds[n] + 48]

ReadUint8(text)  == ReadUnsigned("uint8", text)
ReadUint16(text) == ReadUnsigned("uint16", text)
ReadUint32(text) == ReadUnsigned("uint32", text)

\* The reason of a Reject is a number; its to_FIX() has room for two digits.
ReasonOf(ds) == IF Len(ds) = 1 THEN ds[1] ELSE 10 * ds[1] + ds[2]
ReadRejectReasonSession(text) ==
  LET r == ReadUint8(text)
  IN IF r.error = "none" /\ (Len(r.value) > 2 \/ ReasonOf(r.value) \notin SessionReasons)
     THEN Error("range")
     ELSE IF r.error = "none" THEN Value(ReasonOf(r.value)) ELSE r

\* Faulty: a buffer of one digit.
WriteReasonShort(v) == <<48 + (v % 10)>>

WriteReason(v) == IF v < 10 THEN <<48 + v>> ELSE <<48 + (v \div 10), 48 + (v % 10)>>

\* A float: sign, digits before and after the point, of which there is one.
ReadFloat(text) ==
  LET s == IF text # <<>> /\ text[1] = Minus THEN 1 ELSE 0
      n == Digits(text, s + 1)
      dotted == s + n < Len(text) /\ text[s + n + 1] = Dot
      k == IF dotted THEN Digits(text, s + n + 2) ELSE 0
      int == SubSeq(text, s + 1, s + n)
      frac == SubSeq(text, s + n + 2, s + n + 1 + k)
      kept == {i \in DOMAIN frac : frac[i] # 48}
  IN IF n + k = 0 THEN Error("format")
     ELSE IF s + n + (IF dotted THEN 1 + k ELSE 0) < Len(text) THEN Error("format")
     ELSE Value([minus |-> s = 1, int |-> Number(int),
                 frac |-> IF kept = {} THEN <<>>
                          ELSE SubSeq(frac, 1, CHOOSE i \in kept : \A j \in kept : j <= i)])

\* to_chars(): the shortest text, here without an exponent.
WriteFloat(f) ==
  (IF f.minus THEN <<Minus>> ELSE <<>>) \o WriteUnsigned(f.int)
    \o (IF f.frac = <<>> THEN <<>> ELSE <<Dot>> \o f.frac)

-----------------------------------------------------------------------------
(* Characters, strings, times *)

ReadChar(text) ==
  IF Len(text) > 1 THEN Error("range") ELSE Value(IF text = <<>> THEN Nul ELSE text[1])

ReadString(text) == Value(text)

\* Days since 1970 of a date, whose month and day may be any: mktime() takes the
\* month over into the year, and the day into the month.
Days(year, month, day) ==
  LET y == year + (month - 1) \div 12
      m == (month - 1) % 12
      past == <<0, 31, 59, 90, 120, 151, 181, 212, 243, 273, 304, 334>>
      before == y - 1
      leaps == before \div 4 - before \div 100 + before \div 400
      leap == y % 4 = 0 /\ (y % 100 # 0 \/ y % 400 = 0)
  IN 365 * (y - 1970) + leaps - 477 + past[m + 1] + (IF leap /\ m > 1 THEN 1 ELSE 0) + day - 1

At(days, seconds) == <<days + seconds \div 86400, seconds % 86400>>

TwoDigits(text, i) == 10 * (text[i] - 48) + text[i + 1] - 48

\* The text is taken for the time of the zone.
ReadTime(text) ==
  IF Len(text) # 17 \/ text[9] # Minus \/ text[12] # 58 \/ text[15] # 58
     \/ \E i \in 1..17 \ {9, 12, 15} : text[i] \notin Digit
  THEN Error("format")
  ELSE LET date == Days(100 * TwoDigits(text, 1) + TwoDigits(text, 3), TwoDigits(text, 5), TwoDigits(text, 7))
           time == At(date, 3600 * TwoDigits(text, 10) + 60 * TwoDigits(text, 13) + TwoDigits(text, 16) - Zone)
       IN IF time = <<-1, 86399>> THEN Error("range") ELSE Value(time)

Pair(n) == <<48 + (n \div 10), 48 + (n % 10)>>

\* gmtime() and the digits of its fields.
WriteTime(time) ==
  LET y == CHOOSE y \in 1900..2100 : Days(y, 1, 1) <= time[1] /\ time[1] < Days(y + 1, 1, 1)
      m == CHOOSE m \in 1..12 : Days(y, m, 1) <= time[1] /\ time[1] < Days(y, m + 1, 1)
      s == time[2]
  IN Pair(y \div 100) \o Pair(y % 100) \o Pair(m) \o Pair(time[1] - Days(y, m, 1) + 1)
       \o <<Minus>> \o Pair(s \div 3600) \o <<58>> \o Pair((s \div 60) % 60) \o <<58>> \o Pair(s % 60)

-----------------------------------------------------------------------------

Types == DOMAIN Enumerators \cup
  {"RejectReasonSession", "uint8", "uint16", "uint32", "float", "char", "string", "time"}

Read(type, text) ==
  CASE type = "TransactionType"        -> ReadTransactionType(text)
    [] type = "OrderStatus"            -> ReadOrderStatus(text)
    [] type = "OrderRejectReason"      -> ReadOrderRejectReason(text)
    [] type = "Side"                   -> ReadSide(text)
    [] type = "RejectReasonBusiness"   -> ReadRejectReasonBusiness(text)
    [] type = "EncryptionMethod"       -> ReadEncryptionMethod(text)
    [] type = "HandleInstance"         -> ReadHandleInstance(text)
    [] type = "OrderType"              -> ReadOrderType(text)
    [] type = "CancelRejectResponseTo" -> ReadCancelRejectResponseTo(text)
    [] type = "CancelRejectReason"     -> ReadCancelRejectReason(text)
    [] type = "RejectReasonSession"    -> ReadRejectReasonSession(text)
    [] type = "uint8"  -> ReadUint8(text)
    [] type = "uint16" -> ReadUint16(text)
    [] type = "uint32" -> ReadUint32(text)
    [] type = "float"  -> ReadFloat(text)
    [] type = "char"   -> ReadChar(text)
    [] type = "string" -> ReadString(text)
    [] type = "time"   -> ReadTime(text)

Write(type, value) ==
  CASE type \in DOMAIN Enumerators \cup {"char"}  -> <<value>>
    [] type = "RejectReasonSession"               -> WriteReason(value)
    [] type \in {"uint8", "uint16", "uint32"}     -> WriteUnsigned(value)
    [] type = "float"                             -> WriteFloat(value)
    [] type = "string"                            -> value
    [] type = "time"                              -> WriteTime(value)
=============================================================================
