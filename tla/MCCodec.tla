------------------------------- MODULE MCCodec -------------------------------
(* Every enumerator and the numbers at their limits, every character as a foreign *)
(* text, and a message of each type.                                              *)
EXTENDS Codec

Text(ds) == [n \in DOMAIN ds |-> ds[n] + 48]

MCWritten ==
  UNION {{<<type, c>> : c \in Enumerators[type]} : type \in DOMAIN Enumerators}
    \cup {<<"RejectReasonSession", r>> : r \in SessionReasons}
    \cup {<<type, ds>> : type \in {"uint8", "uint16", "uint32"},
                         ds \in {<<0>>, <<9>>, <<1, 0>>, <<2, 5, 5>>}}
    \cup {<<type, Largest[type]>> : type \in {"uint16", "uint32"}}
    \cup {<<"float", [minus |-> s, int |-> i, frac |-> f]>> :
            s \in BOOLEAN, i \in {<<0>>, <<1, 2>>}, f \in {<<>>, <<50, 53>>}}
    \cup {<<"char", c>> : c \in {0, 65}}
    \cup {<<"string", s>> : s \in {<<>>, <<65, 61>>}}
    \cup {<<"time", t>> : t \in {<<11016, 0>>, <<19782, 3661>>, <<20088, 86399>>, <<20089, 0>>}}

\* YYYYMMDD-HH:MM:SS from its digits.
Moment(ds) ==
  LET t == Text(ds)
  IN SubSeq(t, 1, 8) \o <<45>> \o SubSeq(t, 9, 10) \o <<58>> \o SubSeq(t, 11, 12)
       \o <<58>> \o SubSeq(t, 13, 14)

MCForeign ==
  {<<type, t>> : type \in Types, t \in {<<>>} \cup {<<c>> : c \in 0..127}}
    \cup {<<type, Text(t)>> : type \in Types,
            t \in {<<0, 7>>, <<1, 1>>, <<1, 2>>, <<2, 5, 6>>, <<6, 5, 5, 3, 6>>,
                   <<4, 2, 9, 4, 9, 6, 7, 2, 9, 6>>}}
    \cup {<<type, t>> : type \in Types,
            t \in {<<45, 49>>, <<49, 65>>, <<49, 46, 53, 48>>, <<46, 53>>, <<49, 46>>, <<45, 46>>}}
    \cup {<<"time", Moment(t)>> :
            t \in {<<2, 0, 2, 4, 0, 2, 2, 9, 2, 3, 5, 9, 5, 9>>,
                   <<2, 0, 2, 3, 1, 3, 3, 2, 2, 5, 6, 1, 6, 1>>,
                   <<1, 9, 7, 0, 0, 1, 0, 1, 0, 0, 5, 9, 5, 9>>}}
    \cup {<<"time", [Moment(<<2, 0, 2, 4, 0, 2, 2, 9, 2, 3, 5, 9, 5, 9>>) EXCEPT ![n] = 65]>> :
            n \in {1, 9, 17}}

Name == <<97, 98>>
Float(n) == <<n, 0, 128, 63>>

MCMessages ==
  {[type |-> type, fields |->
      [i \in DOMAIN I!Layout[type] |->
         CASE I!Layout[type][i] = "string" -> IF i = 1 THEN Name ELSE <<99>>
           [] I!Layout[type][i] = "u32"    -> 8080 + 65536 * i
           [] I!Layout[type][i] = "u8"     -> 49
           [] I!Layout[type][i] = "float"  -> Float(i)]] : type \in DOMAIN I!Layout}
    \cup {[type |-> "Reject", fields |-> << <<>> >>]}

MCCuts == {3, 5}
=============================================================================
