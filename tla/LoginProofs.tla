----------------------------- MODULE LoginProofs -----------------------------
(***************************************************************************)
(* Proofs about Login, for any GUIs, keys, names and accounts.             *)
(***************************************************************************)
EXTENDS Login, TLAPS, SequenceTheorems, WellFoundedInduction

-----------------------------------------------------------------------------
(* Queues *)

\* A queue of one element.
Single(q) == q # <<>> /\ Tail(q) = <<>>

\* Whose messages are in a pool, and that each of them has one.
Served(q) == {m.of : m \in ToSet(q)}
Once(q) == \A j, k \in DOMAIN q : q[j].of = q[k].of => j = k

\* A queue to which something is appended.
LEMMA Appended ==
  ASSUME NEW S, NEW q \in Seq(S), NEW m \in S
  PROVE  /\ Append(q, m) \in Seq(S) /\ Append(q, m) # <<>>
         /\ ToSet(Append(q, m)) = ToSet(q) \cup {m}
         /\ Head(Append(q, m)) = IF q = <<>> THEN m ELSE Head(q)
<1>1. /\ Append(q, m) \in Seq(S) /\ Append(q, m) # <<>>
      /\ Len(Append(q, m)) = Len(q) + 1
      /\ \A k \in 1..Len(q) : Append(q, m)[k] = q[k]
      /\ Append(q, m)[Len(q) + 1] = m
  BY AppendProperties
<1>2. Len(q) \in Nat /\ DOMAIN q = 1..Len(q) /\ DOMAIN Append(q, m) = 1..(Len(q) + 1)
  BY <1>1, LenProperties
<1>3. ToSet(Append(q, m)) = ToSet(q) \cup {m}
  BY <1>1, <1>2 DEF ToSet
<1>4. Head(Append(q, m)) = IF q = <<>> THEN m ELSE Head(q)
  <2>1. CASE q = <<>>
    BY <1>1, <2>1
  <2>2. CASE q # <<>>
    BY <1>1, <1>2, <2>2, EmptySeq
  <2>. QED BY <2>1, <2>2
<1>. QED BY <1>1, <1>3, <1>4

\* A queue whose head is taken.
LEMMA HeadTaken ==
  ASSUME NEW S, NEW q \in Seq(S), q # <<>>
  PROVE  /\ Tail(q) \in Seq(S) /\ Head(q) \in S
         /\ ToSet(q) = {Head(q)} \cup ToSet(Tail(q))
<1>1. /\ Head(q) \in S /\ Tail(q) \in Seq(S) /\ Len(Tail(q)) = Len(q) - 1
      /\ \A k \in 1..Len(Tail(q)) : Tail(q)[k] = q[k + 1]
  BY HeadTailProperties
<1>2. /\ Len(q) \in Nat /\ DOMAIN q = 1..Len(q) /\ DOMAIN Tail(q) = 1..(Len(q) - 1)
      /\ Len(q) >= 1 /\ Head(q) = q[1]
  BY <1>1, LenProperties, EmptySeq
<1>3. ToSet(q) \subseteq {Head(q)} \cup ToSet(Tail(q))
  <2> SUFFICES ASSUME NEW k \in 1..Len(q) PROVE q[k] \in {Head(q)} \cup ToSet(Tail(q))
    BY <1>2 DEF ToSet
  <2>1. CASE k = 1
    BY <1>2, <2>1
  <2>2. CASE k # 1
    <3>1. k - 1 \in 1..Len(Tail(q)) /\ k - 1 + 1 = k
      BY <1>1, <1>2, <2>2
    <3>2. Tail(q)[k - 1] = q[k]
      BY <1>1, <3>1
    <3>. QED BY <1>1, <1>2, <3>1, <3>2 DEF ToSet
  <2>. QED BY <2>1, <2>2
<1>4. {Head(q)} \cup ToSet(Tail(q)) \subseteq ToSet(q)
  BY <1>1, <1>2 DEF ToSet
<1>. QED BY <1>1, <1>3, <1>4

\* What a queue holds is of its type, and a queue that is not empty holds something.
LEMMA Contents ==
  ASSUME NEW S, NEW q \in Seq(S)
  PROVE  /\ ToSet(q) \subseteq S /\ (q = <<>> <=> ToSet(q) = {}) /\ ToSet(<<>>) = {}
         /\ \A k \in DOMAIN q : q[k] \in S /\ q[k] \in ToSet(q)
<1>1. Len(q) \in Nat /\ DOMAIN q = 1..Len(q) /\ \A k \in 1..Len(q) : q[k] \in S
  BY LenProperties, ElementOfSeq
<1>2. ToSet(<<>>) = {}
  BY DEF ToSet
<1>3. q # <<>> => ToSet(q) # {}
  BY HeadTaken
<1>. QED BY <1>1, <1>2, <1>3 DEF ToSet

\* A queue that was empty holds what is appended alone.
LEMMA AppendedAlone ==
  ASSUME NEW S, NEW m \in S
  PROVE  /\ Append(<<>>, m) \in Seq(S) /\ Single(Append(<<>>, m))
         /\ Head(Append(<<>>, m)) = m /\ ToSet(Append(<<>>, m)) = {m}
<1>1. <<>> \in Seq(S) /\ ToSet(<<>>) = {}
  BY Contents, EmptySeq
<1>2. /\ Append(<<>>, m) \in Seq(S) /\ Append(<<>>, m) # <<>> /\ Head(Append(<<>>, m)) = m
      /\ ToSet(Append(<<>>, m)) = {m}
  BY <1>1, Appended
<1>3. Tail(Append(<<>>, m)) = <<>>
  OBVIOUS
<1>. QED BY <1>2, <1>3 DEF Single

\* One more message of somebody who had none.
LEMMA ServedAppended ==
  ASSUME NEW S, NEW q \in Seq(S), NEW m \in S
  PROVE  /\ Served(Append(q, m)) = Served(q) \cup {m.of}
         /\ Once(q) /\ m.of \notin Served(q) => Once(Append(q, m))
<1>1. /\ Len(Append(q, m)) = Len(q) + 1
      /\ \A k \in 1..Len(q) : Append(q, m)[k] = q[k]
      /\ Append(q, m)[Len(q) + 1] = m
      /\ Append(q, m) \in Seq(S)
  BY AppendProperties
<1>2. Len(q) \in Nat /\ DOMAIN q = 1..Len(q) /\ DOMAIN Append(q, m) = 1..(Len(q) + 1)
  BY <1>1, LenProperties
<1>3. Served(Append(q, m)) = Served(q) \cup {m.of}
  BY Appended DEF Served
<1>4. ASSUME Once(q), m.of \notin Served(q) PROVE Once(Append(q, m))
  <2> SUFFICES ASSUME NEW j \in 1..(Len(q) + 1), NEW k \in 1..(Len(q) + 1),
                      Append(q, m)[j].of = Append(q, m)[k].of
               PROVE  j = k
    BY <1>2 DEF Once
  <2>1. \A i \in 1..Len(q) : q[i].of \in Served(q)
    BY <1>2 DEF Served, ToSet
  <2>2. \A i \in 1..(Len(q) + 1) : i \in 1..Len(q) \/ i = Len(q) + 1
    BY <1>2
  <2>. QED BY <1>1, <1>2, <1>4, <2>1, <2>2 DEF Once
<1>. QED BY <1>3, <1>4

\* The first message is served.
LEMMA ServedHead ==
  ASSUME NEW S, NEW q \in Seq(S), q # <<>>, Once(q)
  PROVE  /\ Head(q).of \in Served(q) /\ Once(Tail(q))
         /\ Served(Tail(q)) = Served(q) \ {Head(q).of}
<1>1. /\ Tail(q) \in Seq(S) /\ Len(Tail(q)) = Len(q) - 1
      /\ \A k \in 1..Len(Tail(q)) : Tail(q)[k] = q[k + 1]
  BY HeadTailProperties
<1>2. /\ Len(q) \in Nat /\ DOMAIN q = 1..Len(q) /\ DOMAIN Tail(q) = 1..(Len(q) - 1)
      /\ Len(q) >= 1 /\ Head(q) = q[1]
  BY <1>1, LenProperties, EmptySeq
<1>3. \A k \in 1..(Len(q) - 1) : Tail(q)[k] = q[k + 1] /\ k + 1 \in 1..Len(q) /\ k + 1 # 1
  BY <1>1, <1>2
<1>4. Once(Tail(q))
  <2>. SUFFICES ASSUME NEW j \in 1..(Len(q) - 1), NEW k \in 1..(Len(q) - 1),
                       Tail(q)[j].of = Tail(q)[k].of
                PROVE  j = k
    BY <1>2 DEF Once
  <2>1. j + 1 = k + 1
    BY <1>2, <1>3 DEF Once
  <2>. QED BY <1>2, <2>1
<1>5. ToSet(q) = {Head(q)} \cup ToSet(Tail(q))
  BY HeadTaken
<1>6. Head(q).of \in Served(q) /\ Served(q) = {Head(q).of} \cup Served(Tail(q))
  BY <1>5 DEF Served
<1>7. Head(q).of \notin Served(Tail(q))
  <2> SUFFICES ASSUME NEW k \in 1..(Len(q) - 1), Tail(q)[k].of = Head(q).of PROVE FALSE
    BY <1>2 DEF Served, ToSet
  <2>1. 1 \in 1..Len(q)
    BY <1>2
  <2>. QED BY <1>2, <1>3, <2>1 DEF Once
<1>. QED BY <1>4, <1>6, <1>7


\* Nothing is in a list twice.
Distinct(q) == \A j, k \in DOMAIN q : q[j] = q[k] => j = k

\* What is not in a list is appended to it.
LEMMA DistinctAppended ==
  ASSUME NEW S, NEW q \in Seq(S), Distinct(q), NEW x \in S, x \notin ToSet(q)
  PROVE  Distinct(Append(q, x))
<1>1. /\ Len(Append(q, x)) = Len(q) + 1
      /\ \A k \in 1..Len(q) : Append(q, x)[k] = q[k]
      /\ Append(q, x)[Len(q) + 1] = x
      /\ Append(q, x) \in Seq(S)
  BY AppendProperties
<1>2. Len(q) \in Nat /\ DOMAIN q = 1..Len(q) /\ DOMAIN Append(q, x) = 1..(Len(q) + 1)
  BY <1>1, LenProperties
<1> SUFFICES ASSUME NEW j \in 1..(Len(q) + 1), NEW k \in 1..(Len(q) + 1), Append(q, x)[j] = Append(q, x)[k]
             PROVE  j = k
  BY <1>2 DEF Distinct
<1>3. \A i \in 1..Len(q) : q[i] # x
  BY <1>2 DEF ToSet
<1>4. \A i \in 1..(Len(q) + 1) : i \in 1..Len(q) \/ i = Len(q) + 1
  BY <1>2
<1>. QED BY <1>1, <1>2, <1>3, <1>4 DEF Distinct

\* A list without its last element.
LEMMA FrontOf ==
  ASSUME NEW S, NEW q \in Seq(S), q # <<>>, Distinct(q)
  PROVE  Front(q) \in Seq(S) /\ ToSet(Front(q)) \subseteq ToSet(q) /\ Distinct(Front(q))
<1>1. /\ Len(q) \in Nat \ {0} /\ DOMAIN q = 1..Len(q) /\ \A k \in 1..Len(q) : q[k] \in S
  BY LenProperties, ElementOfSeq, EmptySeq
<1> DEFINE n == Len(q) - 1
           f == Front(q)
<1>2. n \in Nat /\ 1..n \subseteq 1..Len(q)
  BY <1>1
<1>3. \A k \in 1..n : q[k] \in S
  BY <1>1, <1>2
<1>4. f = SubSeq(q, 1, n)
  BY DEF Front
<1> HIDE DEF n, f
<1>5. f \in Seq(S) /\ Len(f) = n /\ \A k \in 1..n : f[k] = q[k]
  <2>1. 1 \in Int /\ n \in Int
    BY <1>2
  <2>2. /\ SubSeq(q, 1, n) \in Seq(S)
        /\ Len(SubSeq(q, 1, n)) = IF 1 <= n THEN n - 1 + 1 ELSE 0
        /\ \A k \in 1..(n - 1 + 1) : SubSeq(q, 1, n)[k] = q[1 + k - 1]
    BY <1>3, <2>1, SubSeqProperties
  <2>3. (IF 1 <= n THEN n - 1 + 1 ELSE 0) = n /\ n - 1 + 1 = n
    BY <1>2
  <2>4. \A k \in 1..n : 1 + k - 1 = k
    BY <1>2
  <2>. QED BY <1>4, <2>2, <2>3, <2>4
<1>6. DOMAIN f = 1..n
  BY <1>5, LenProperties
<1>7. ToSet(f) \subseteq ToSet(q)
  BY <1>1, <1>2, <1>5, <1>6 DEF ToSet
<1>8. Distinct(f)
  BY <1>1, <1>2, <1>5, <1>6 DEF Distinct
<1>. QED BY <1>5, <1>7, <1>8 DEF f

\* An element is taken out of a list.
LEMMA Removed ==
  ASSUME NEW S, NEW q \in Seq(S), Distinct(q), NEW x \in ToSet(q)
  PROVE  /\ RemoveFirst(q, x) \in Seq(S) /\ Distinct(RemoveFirst(q, x))
         /\ ToSet(RemoveFirst(q, x)) = ToSet(q) \ {x}
<1> DEFINE n == Len(q)
<1>1. n \in Nat /\ DOMAIN q = 1..n /\ \A k \in 1..n : q[k] \in S
  BY LenProperties, ElementOfSeq
<1>2. PICK i \in 1..n : q[i] = x
  BY <1>1 DEF ToSet
<1>3. {k \in 1..n : q[k] = x} = {i}
  BY <1>1, <1>2 DEF Distinct
<1>4. Min({i}) = i
  BY DEF Min
<1>5. RemoveFirst(q, x) = RemoveAt(q, i)
  BY <1>2, <1>3, <1>4 DEF RemoveFirst, SelectInSeq
<1> DEFINE a == SubSeq(q, 1, i - 1)
           b == SubSeq(q, i + 1, n)
           r == RemoveFirst(q, x)
<1>6. r = a \o b
  BY <1>5 DEF RemoveAt
<1> HIDE DEF n
<1>7. a \in Seq(S) /\ Len(a) = i - 1 /\ \A k \in 1..(i - 1) : a[k] = q[k]
  <2> DEFINE m == i - 1
  <2>1. m \in Nat /\ 1..m \subseteq 1..n
    BY <1>1, <1>2
  <2>2. \A k \in 1..m : q[k] \in S
    BY <1>1, <2>1
  <2>3. (IF 1 <= m THEN m - 1 + 1 ELSE 0) = m /\ m - 1 + 1 = m /\ \A k \in 1..m : 1 + k - 1 = k
    BY <2>1
  <2> HIDE DEF m
  <2>4. /\ SubSeq(q, 1, m) \in Seq(S)
        /\ Len(SubSeq(q, 1, m)) = IF 1 <= m THEN m - 1 + 1 ELSE 0
        /\ \A k \in 1..(m - 1 + 1) : SubSeq(q, 1, m)[k] = q[1 + k - 1]
    BY <2>1, <2>2, SubSeqProperties
  <2>. QED BY <2>3, <2>4 DEF m
<1>8. b \in Seq(S) /\ Len(b) = n - i /\ \A k \in 1..(n - i) : b[k] = q[k + i]
  <2> DEFINE m == i + 1
  <2>1. m \in Int /\ n \in Int /\ \A k \in m..n : q[k] \in S
    BY <1>1, <1>2
  <2>2. (IF m <= n THEN n - m + 1 ELSE 0) = n - i /\ n - m + 1 = n - i
    <3>1. i \in Int /\ n \in Int /\ i <= n
      BY <1>1, <1>2
    <3>. QED BY <3>1
  <2>3. \A k \in 1..(n - i) : m + k - 1 = k + i
    BY <1>1, <1>2
  <2> HIDE DEF m
  <2>4. /\ SubSeq(q, m, n) \in Seq(S)
        /\ Len(SubSeq(q, m, n)) = IF m <= n THEN n - m + 1 ELSE 0
        /\ \A k \in 1..(n - m + 1) : SubSeq(q, m, n)[k] = q[m + k - 1]
    BY <2>1, SubSeqProperties
  <2>. QED BY <2>2, <2>3, <2>4 DEF m
<1> HIDE DEF a, b, r
<1>9. /\ r \in Seq(S) /\ Len(r) = n - 1
      /\ \A k \in 1..(n - 1) : r[k] = IF k <= i - 1 THEN a[k] ELSE b[k - (i - 1)]
  <2>1. /\ a \o b \in Seq(S) /\ Len(a \o b) = Len(a) + Len(b)
        /\ \A k \in 1..(Len(a) + Len(b)) : (a \o b)[k] = IF k <= Len(a) THEN a[k] ELSE b[k - Len(a)]
    BY <1>7, <1>8, ConcatProperties
  <2>2. Len(a) + Len(b) = n - 1
    BY <1>1, <1>2, <1>7, <1>8
  <2>. QED BY <1>6, <1>7, <2>1, <2>2
<1>10. DOMAIN r = 1..(n - 1)
  BY <1>9, LenProperties
<1>11. ASSUME NEW k \in 1..(n - 1)
       PROVE  r[k] = (IF k < i THEN q[k] ELSE q[k + 1]) /\ k \in 1..n /\ k + 1 \in 1..n
  <2>1. k \in 1..n /\ k + 1 \in 1..n
    BY <1>1
  <2>2. CASE k < i
    <3>1. k <= i - 1 /\ k \in 1..(i - 1)
      BY <1>1, <1>2, <2>2
    <3>. QED BY <1>7, <1>9, <2>1, <2>2, <3>1
  <2>3. CASE ~(k < i)
    <3>1. ~(k <= i - 1) /\ k - (i - 1) \in 1..(n - i) /\ (k - (i - 1)) + i = k + 1
      BY <1>1, <1>2, <2>3
    <3>. QED BY <1>8, <1>9, <2>1, <2>3, <3>1
  <2>. QED BY <2>2, <2>3
<1>12. Distinct(r)
  <2> SUFFICES ASSUME NEW j \in 1..(n - 1), NEW k \in 1..(n - 1), r[j] = r[k] PROVE j = k
    BY <1>10 DEF Distinct
  <2>1. \A u, v \in 1..n : q[u] = q[v] => u = v
    BY <1>1 DEF Distinct
  <2>2. (IF j < i THEN j ELSE j + 1) = (IF k < i THEN k ELSE k + 1)
    BY <1>11, <2>1
  <2>. QED BY <1>1, <1>2, <2>2
<1>13. ToSet(r) \subseteq ToSet(q) \ {x}
  <2> SUFFICES ASSUME NEW k \in 1..(n - 1) PROVE r[k] \in ToSet(q) \ {x}
    BY <1>10 DEF ToSet
  <2>1. \A u \in 1..n : q[u] = x => u = i
    BY <1>1, <1>2 DEF Distinct
  <2>2. PICK u \in 1..n : u # i /\ r[k] = q[u]
    <3>1. CASE k < i
      BY <1>2, <1>11, <3>1
    <3>2. CASE ~(k < i)
      <4>1. k + 1 # i /\ k + 1 \in 1..n /\ r[k] = q[k + 1]
        BY <1>1, <1>2, <1>11, <3>2
      <4>. QED BY <4>1
    <3>. QED BY <3>1, <3>2
  <2>. QED BY <1>1, <2>1, <2>2 DEF ToSet
<1>14. ToSet(q) \ {x} \subseteq ToSet(r)
  <2> SUFFICES ASSUME NEW u \in 1..n, q[u] # x PROVE q[u] \in ToSet(r)
    BY <1>1 DEF ToSet
  <2>1. u # i
    BY <1>2
  <2>2. PICK k \in 1..(n - 1) : r[k] = q[u]
    <3>1. CASE u < i
      <4>1. u \in 1..(n - 1)
        BY <1>1, <1>2, <3>1
      <4>. QED BY <1>11, <3>1, <4>1
    <3>2. CASE ~(u < i)
      <4>1. u - 1 \in 1..(n - 1) /\ ~(u - 1 < i) /\ u - 1 + 1 = u
        BY <1>1, <1>2, <2>1, <3>2
      <4>. QED BY <1>11, <4>1
    <3>. QED BY <3>1, <3>2
  <2>. QED BY <1>10, <2>2 DEF ToSet
<1>. QED BY <1>9, <1>12, <1>13, <1>14 DEF r

\* The order of the naturals as a relation.
LessThan == OpToRel(<, Nat)

\* It is well founded.
LEMMA LessThanFounded == IsWellFoundedOn(LessThan, Nat)
BY NatLessThanWellFounded, Zenon DEF LessThan

\* It relates what it should.
LEMMA LessThanRelates == \A i, j \in Nat : j < i => <<j, i>> \in LessThan
BY DEF LessThan, OpToRel

\* A set of positions has an earliest one.
LEMMA EarliestIn ==
  ASSUME NEW S, S \subseteq Nat, S # {}
  PROVE  Earliest(S) \in S
<1>1. PICK i \in S : \A j \in S : ~ (<<j, i>> \in LessThan)
  BY LessThanFounded, WFMin
<1>2. \A j \in S : ~(j < i)
  BY <1>1, LessThanRelates, Zenon
<1>3. \A j \in S : i <= j
  BY <1>2
<1>. QED BY <1>3 DEF Earliest

-----------------------------------------------------------------------------
(* Streams *)

Names == (UNION {Typed[g] : g \in Guis}) \cup {None}
Tokens == {GenerateToken}

\* What is sent in each direction, by or to each GUI or its back.
Ident(g) == [type : {"FrontToInitiatorAuth"}, key : {ApiKey[g]}, name : Names]
Port == [type : {"InitiatorToFrontValidToken"}, token : Tokens, port : Guis]
ToScreenMessages == [type : {"Reject", "InitiatorToFrontAuth"}] \cup Port
ToBackMessages == [type : {"FrontToBackValidToken"}, token : Tokens]
                    \cup [type : {"HandShakeAuth", "Logon"}]
FromBackMessages == [type : {"BackToFrontValidToken", "Reject", "Logon"}]
                      \cup [type : {"Status"}, status : {"Initialize", "Running", "Stop"}]
Messages(d, g) ==
  CASE d = "toInitiator" -> Ident(g)
    [] d = "toScreen" -> ToScreenMessages
    [] d = "backToInitiator" -> [type : {"BackToInitiatorAuth"}, key : {ApiKey[g]}, port : {g}]
    [] d = "initiatorToBack" -> [type : {"InitiatorToBackAuth"}, token : Tokens]
    [] d = "screenToBack" -> ToBackMessages
    [] d = "backToScreen" -> FromBackMessages

Stream(d, g) == [bytes : Seq(Messages(d, g)), edge : BOOLEAN, open : BOOLEAN, ended : BOOLEAN]
AnyStream == UNION {Stream(d, g) : d \in Directions, g \in Guis}
Streams(w) == /\ w \in [Directions -> [Guis -> AnyStream]]
              /\ \A d \in Directions, g \in Guis : w[d][g] \in Stream(d, g)

\* One stream of v is s, the others are those of w.
Alters(v, w, d, g, s) ==
  \A e \in Directions, h \in Guis : v[e][h] = IF e = d /\ h = g THEN s ELSE w[e][h]

\* A stream after send(), after a read, and after its writer has closed it.
AfterPut(s, m) == IF s.open THEN [s EXCEPT !.bytes = Append(@, m), !.edge = TRUE] ELSE s
AfterTake(s) == [s EXCEPT !.bytes = IF @ = <<>> THEN @ ELSE Tail(@), !.edge = FALSE]
AfterEnd(s) == [s EXCEPT !.ended = TRUE, !.edge = TRUE]

\* A stream that is reported once more, and one whose reader opens or closes its end.
AfterEdge(s) == [s EXCEPT !.edge = TRUE]
AfterOpen(s, b) == [s EXCEPT !.open = b]

\* A stream is put into the place of another one.
LEMMA OneStream ==
  ASSUME NEW w, Streams(w), NEW d \in Directions, NEW g \in Guis, NEW s \in Stream(d, g),
         NEW v, v = [w EXCEPT ![d][g] = s]
  PROVE  Streams(v) /\ Alters(v, w, d, g, s)
<1>1. s \in AnyStream
  BY DEF AnyStream
<1>2. w[d] \in [Guis -> AnyStream] /\ w \in [Directions -> [Guis -> AnyStream]]
  BY DEF Streams
<1>3. [w[d] EXCEPT ![g] = s] \in [Guis -> AnyStream]
  BY <1>1, <1>2
<1>4. v \in [Directions -> [Guis -> AnyStream]]
  BY <1>2, <1>3
<1>5. Alters(v, w, d, g, s)
  BY <1>2 DEF Alters
<1>6. \A e \in Directions, h \in Guis : v[e][h] \in Stream(e, h)
  BY <1>5 DEF Alters, Streams
<1>. QED BY <1>4, <1>5, <1>6 DEF Streams

\* send()
LEMMA PutStream ==
  ASSUME NEW w, Streams(w), NEW d \in Directions, NEW g \in Guis, NEW m \in Messages(d, g)
  PROVE  Streams(Put(w, d, g, m)) /\ Alters(Put(w, d, g, m), w, d, g, AfterPut(w[d][g], m))
<1>1. w[d][g] \in Stream(d, g) /\ w \in [Directions -> [Guis -> AnyStream]]
  BY DEF Streams
<1>2. Append(w[d][g].bytes, m) \in Seq(Messages(d, g))
  BY <1>1, Appended DEF Stream
<1>3. PICK s \in Stream(d, g) : s = AfterPut(w[d][g], m)
  BY <1>1, <1>2 DEF Stream, AfterPut
<1>4. CASE w[d][g].open
  <2>1. Put(w, d, g, m) = [w EXCEPT ![d][g] = s]
    BY <1>1, <1>3, <1>4 DEF Put, AfterPut
  <2>. QED BY <1>3, <2>1, OneStream
<1>5. CASE ~w[d][g].open
  BY <1>5 DEF Put, Alters, AfterPut
<1>. QED BY <1>4, <1>5

\* A message is read, or the end of the stream.
LEMMA TakeStream ==
  ASSUME NEW w, Streams(w), NEW d \in Directions, NEW g \in Guis
  PROVE  Streams(Take(w, d, g)) /\ Alters(Take(w, d, g), w, d, g, AfterTake(w[d][g]))
<1>1. w[d][g] \in Stream(d, g) /\ w \in [Directions -> [Guis -> AnyStream]]
  BY DEF Streams
<1>2. w[d][g].bytes # <<>> => Tail(w[d][g].bytes) \in Seq(Messages(d, g))
  BY <1>1, HeadTaken DEF Stream
<1>3. PICK s \in Stream(d, g) : s = AfterTake(w[d][g])
  BY <1>1, <1>2 DEF Stream, AfterTake
<1>4. Take(w, d, g) = [w EXCEPT ![d][g] = s]
  BY <1>1, <1>3 DEF Take, AfterTake
<1>. QED BY <1>3, <1>4, OneStream

\* A writer closes its end.
LEMMA EndStream ==
  ASSUME NEW w, Streams(w), NEW d \in Directions, NEW g \in Guis
  PROVE  Streams(End(w, d, g)) /\ Alters(End(w, d, g), w, d, g, AfterEnd(w[d][g]))
<1>1. w[d][g] \in Stream(d, g) /\ w \in [Directions -> [Guis -> AnyStream]]
  BY DEF Streams
<1>2. PICK s \in Stream(d, g) : s = AfterEnd(w[d][g])
  BY <1>1 DEF Stream, AfterEnd
<1>3. End(w, d, g) = [w EXCEPT ![d][g] = s]
  BY <1>1, <1>2 DEF End, AfterEnd
<1>. QED BY <1>2, <1>3, OneStream

\* A reader opens or closes its end.
LEMMA OpenStream ==
  ASSUME NEW w, Streams(w), NEW d \in Directions, NEW g \in Guis, NEW b \in BOOLEAN,
         NEW v, v = [w EXCEPT ![d][g].open = b]
  PROVE  Streams(v) /\ Alters(v, w, d, g, AfterOpen(w[d][g], b))
<1>1. w[d][g] \in Stream(d, g) /\ w \in [Directions -> [Guis -> AnyStream]]
  BY DEF Streams
<1>2. PICK s \in Stream(d, g) : s = AfterOpen(w[d][g], b)
  BY <1>1 DEF Stream, AfterOpen
<1>3. v = [w EXCEPT ![d][g] = s]
  BY <1>1, <1>2 DEF AfterOpen, AfterEdge
<1>. QED BY <1>2, <1>3, OneStream

\* It is told of its stream once more.
LEMMA EdgeStream ==
  ASSUME NEW w, Streams(w), NEW d \in Directions, NEW g \in Guis,
         NEW v, v = [w EXCEPT ![d][g].edge = TRUE]
  PROVE  Streams(v) /\ Alters(v, w, d, g, AfterEdge(w[d][g]))
<1>1. w[d][g] \in Stream(d, g) /\ w \in [Directions -> [Guis -> AnyStream]]
  BY DEF Streams
<1>2. PICK s \in Stream(d, g) : s = AfterEdge(w[d][g])
  BY <1>1 DEF Stream, AfterEdge
<1>3. v = [w EXCEPT ![d][g] = s]
  BY <1>1, <1>2 DEF AfterOpen, AfterEdge
<1>. QED BY <1>2, <1>3, OneStream

\* What is sent to nobody changes nothing.
LEMMA PutNowhere ==
  ASSUME NEW w, Streams(w), NEW d \in Directions, NEW g, g \notin Guis, NEW m
  PROVE  Put(w, d, g, m) = w
<1>1. w \in [Directions -> [Guis -> AnyStream]] /\ w[d] \in [Guis -> AnyStream]
  BY DEF Streams
<1>. QED BY <1>1 DEF Put

-----------------------------------------------------------------------------
(* Types *)

Signals == [type : {"connectionReady"}] \cup ToScreenMessages \cup FromBackMessages
Tasks == {t \in [of : Guis, msg : UNION {Ident(g) : g \in Guis}] : t.msg \in Ident(t.of)}
BackTasks == [of : Guis, port : Guis]

ScreenPart == /\ ScreenTypes /\ events \in [Guis -> Seq(Signals)]
HostPart == /\ proc \in [Guis -> {"none", "running", "told", "gone"}]
            /\ dialed \in [Guis -> Guis \cup {None}]
InitiatorPart ==
  /\ InitiatorTypes /\ tasks \in Seq(Tasks) /\ backTasks \in Seq(BackTasks)
  /\ \A g \in Guis : session[g] # None => session[g].key \in {None, ApiKey[g]}
BackPart == BackStartTypes /\ token \in [Guis -> Tokens \cup {None}]

\* A session is looked up, noted and closed only for a GUI that was accepted,
\* and is listed once.
Accepted(g) == session[g] # None
AcceptedInv ==
  /\ Served(tasks) \cup Served(backTasks) \cup ToSet(sessions) \cup ToSet(removing) \cup watched
       \subseteq {g \in Guis : Accepted(g)}
  /\ front.at # "loop" => front.of \in Guis /\ Accepted(front.of)
  /\ Distinct(sessions)

\* The first message of the pool is the one whose login is under way, and it
\* names an account.
TurnInv ==
  /\ login # "none" => tasks # <<>>
  /\ login \in {"found", "marked"} => Rows(Head(tasks).msg.key, Head(tasks).msg.name) # {}

LoginTypes ==
  Streams(wire) /\ ScreenPart /\ HostPart /\ InitiatorPart /\ BackPart /\ AcceptedInv /\ TurnInv

\* The streams of these directions are as they were, all or but for one.
Kept(D) == \A d \in D, h \in Guis : wire'[d][h] = wire[d][h]
Becomes(d, g, s) == \A h \in Guis : wire'[d][h] = IF h = g THEN s ELSE wire[d][h]

\* The elements of the tuple that is the type of a stream.
LEMMA StreamFields ==
  ASSUME Streams(wire), NEW d \in Directions, NEW g \in Guis
  PROVE  /\ wire[d][g].bytes \in Seq(Messages(d, g)) /\ wire[d][g].open \in BOOLEAN
         /\ wire[d][g].edge \in BOOLEAN /\ wire[d][g].ended \in BOOLEAN
BY DEF Streams, Stream

\* The first message of a stream is one of its direction.
LEMMA FirstFits ==
  ASSUME Streams(wire), NEW d \in Directions, NEW g \in Guis, ~AtEnd(d, g)
  PROVE  First(d, g) \in Messages(d, g)
BY StreamFields, HeadTaken DEF AtEnd, First

-----------------------------------------------------------------------------
(* What the actions do to the streams *)

\* A user, or the slot of a signal, asks the initiator for the login.
LEMMA AskStreams ==
  ASSUME LoginTypes, NEW g \in Guis, NEW name \in Names,
         wire' = Put(wire, "toInitiator", g, Identification(g, name))
  PROVE  /\ Streams(wire') /\ Kept(Directions \ {"toInitiator"})
         /\ Identification(g, name) \in Ident(g)
         /\ Becomes("toInitiator", g, AfterPut(wire["toInitiator"][g], Identification(g, name)))
<1>1. Identification(g, name) \in Messages("toInitiator", g) /\ "toInitiator" \in Directions
      /\ Identification(g, name) \in Ident(g)
  BY DEF Identification, Messages, Ident, Directions
<1>. QED BY <1>1, PutStream DEF LoginTypes, Alters, Kept, Becomes

\* The GUI writes to a back, or to none.
LEMMA ToBackStreams ==
  ASSUME LoginTypes, NEW b, NEW m \in ToBackMessages, wire' = Put(wire, "screenToBack", b, m)
  PROVE  /\ Streams(wire') /\ Kept(Directions \ {"screenToBack"})
         /\ Becomes("screenToBack", b, AfterPut(wire["screenToBack"][b], m))
<1>1. "screenToBack" \in Directions /\ Messages("screenToBack", b) = ToBackMessages
  BY DEF Directions, Messages
<1>2. CASE b \in Guis
  BY <1>1, <1>2, PutStream DEF LoginTypes, Alters, Kept, Becomes
<1>3. CASE b \notin Guis
  BY <1>1, <1>3, PutNowhere DEF LoginTypes, Kept, Becomes
<1>. QED BY <1>2, <1>3

\* A stream is read.
LEMMA ReadStreams ==
  ASSUME LoginTypes, NEW d \in Directions, NEW g \in Guis, wire' = Take(wire, d, g)
  PROVE  Streams(wire') /\ Kept(Directions \ {d}) /\ Becomes(d, g, AfterTake(wire[d][g]))
BY TakeStream DEF LoginTypes, Alters, Kept, Becomes

\* send() to a GUI.
LEMMA ScreenStreams ==
  ASSUME LoginTypes, NEW g \in Guis, NEW m \in ToScreenMessages, ToScreen(g, m)
  PROVE  /\ Streams(wire') /\ up' \in BOOLEAN
         /\ Kept(Directions \ {"toScreen", "toInitiator"})
         /\ Becomes("toScreen", g, AfterPut(wire["toScreen"][g], m))
         /\ wire["toScreen"][g].open => Kept({"toInitiator"}) /\ UNCHANGED up
         /\ ~wire["toScreen"][g].open =>
              Becomes("toInitiator", g, AfterEdge(wire["toInitiator"][g]))
<1>1. "toScreen" \in Directions /\ "toInitiator" \in Directions /\ m \in Messages("toScreen", g)
  BY DEF Directions, Messages
<1>2. CASE wire["toScreen"][g].open
  <2>1. wire' = Put(wire, "toScreen", g, m) /\ UNCHANGED up
    BY <1>2 DEF ToScreen
  <2>2. Streams(wire') /\ Alters(wire', wire, "toScreen", g, AfterPut(wire["toScreen"][g], m))
    BY <1>1, <2>1, PutStream DEF LoginTypes
  <2>3. up' \in BOOLEAN
    BY <2>1 DEF LoginTypes, InitiatorPart, InitiatorTypes
  <2>. QED BY <1>1, <1>2, <2>1, <2>2, <2>3 DEF Alters, Kept, Becomes
<1>3. CASE ~wire["toScreen"][g].open
  <2>1. wire' = [wire EXCEPT !["toInitiator"][g].edge = TRUE] /\ up' \in BOOLEAN
    BY <1>3 DEF ToScreen
  <2>2. Streams(wire') /\ Alters(wire', wire, "toInitiator", g, AfterEdge(wire["toInitiator"][g]))
    BY <1>1, <2>1, EdgeStream DEF LoginTypes
  <2>3. AfterPut(wire["toScreen"][g], m) = wire["toScreen"][g]
    BY <1>3 DEF AfterPut
  <2>4. Kept(Directions \ {"toInitiator"})
    BY <2>2 DEF Alters, Kept
  <2>5. Becomes("toScreen", g, AfterPut(wire["toScreen"][g], m))
    BY <1>1, <2>3, <2>4 DEF Kept, Becomes
  <2>6. Becomes("toInitiator", g, AfterEdge(wire["toInitiator"][g]))
    BY <1>1, <2>2 DEF Alters, Becomes
  <2>. QED BY <1>3, <2>1, <2>2, <2>4, <2>5, <2>6 DEF Kept
<1>. QED BY <1>2, <1>3

\* The token is sent to the back and to the GUI.
Tells(g, s, m) ==
  LET told == Put(wire, "initiatorToBack", s, [type |-> "InitiatorToBackAuth", token |-> GenerateToken])
  IN IF wire["toScreen"][g].open
     THEN wire' = Put(told, "toScreen", g, m) /\ UNCHANGED up
     ELSE wire' = [told EXCEPT !["toInitiator"][g].edge = TRUE] /\ up' \in BOOLEAN

\* It changes these streams.
LEMMA TokenStreams ==
  ASSUME LoginTypes, NEW g \in Guis, NEW s, NEW m \in ToScreenMessages, Tells(g, s, m)
  PROVE  /\ Streams(wire') /\ up' \in BOOLEAN
         /\ Kept(Directions \ {"initiatorToBack", "toScreen", "toInitiator"})
         /\ Becomes("toScreen", g, AfterPut(wire["toScreen"][g], m))
         /\ wire["toScreen"][g].open => Kept({"toInitiator"}) /\ UNCHANGED up
         /\ ~wire["toScreen"][g].open => Becomes("toInitiator", g, AfterEdge(wire["toInitiator"][g]))
<1> DEFINE n == [type |-> "InitiatorToBackAuth", token |-> GenerateToken]
           told == Put(wire, "initiatorToBack", s, n)
<1>6. IF wire["toScreen"][g].open
      THEN wire' = Put(told, "toScreen", g, m) /\ UNCHANGED up
      ELSE wire' = [told EXCEPT !["toInitiator"][g].edge = TRUE] /\ up' \in BOOLEAN
  BY DEF Tells
<1>1. "toScreen" \in Directions /\ "toInitiator" \in Directions /\ "initiatorToBack" \in Directions
      /\ m \in Messages("toScreen", g) /\ n \in Messages("initiatorToBack", s)
  BY DEF Directions, Messages, Tokens
<1>2. /\ Streams(told)
      /\ \A d \in Directions \ {"initiatorToBack"}, h \in Guis : told[d][h] = wire[d][h]
  <2>1. CASE s \in Guis
    BY <1>1, <2>1, PutStream DEF LoginTypes, Alters
  <2>2. CASE s \notin Guis
    BY <1>1, <2>2, PutNowhere DEF LoginTypes
  <2>. QED BY <2>1, <2>2
<1> HIDE DEF told, n
<1>3. told["toScreen"][g] = wire["toScreen"][g] /\ told["toInitiator"][g] = wire["toInitiator"][g]
  BY <1>1, <1>2
<1>4. CASE wire["toScreen"][g].open
  <2>1. wire' = Put(told, "toScreen", g, m) /\ UNCHANGED up
    BY <1>4, <1>6
  <2>2. Streams(wire') /\ Alters(wire', told, "toScreen", g, AfterPut(told["toScreen"][g], m))
    BY <1>1, <1>2, <2>1, PutStream
  <2>3. up' \in BOOLEAN
    BY <2>1 DEF LoginTypes, InitiatorPart, InitiatorTypes
  <2>4. Kept(Directions \ {"initiatorToBack", "toScreen"})
    BY <1>2, <2>2 DEF Alters, Kept
  <2>5. Becomes("toScreen", g, AfterPut(wire["toScreen"][g], m))
    BY <1>1, <1>2, <1>3, <2>2 DEF Alters, Becomes
  <2>. QED BY <1>1, <1>4, <2>1, <2>2, <2>3, <2>4, <2>5 DEF Kept
<1>5. CASE ~wire["toScreen"][g].open
  <2>1. wire' = [told EXCEPT !["toInitiator"][g].edge = TRUE] /\ up' \in BOOLEAN
    BY <1>5, <1>6
  <2>2. Streams(wire') /\ Alters(wire', told, "toInitiator", g, AfterEdge(told["toInitiator"][g]))
    BY <1>1, <1>2, <2>1, EdgeStream
  <2>3. AfterPut(wire["toScreen"][g], m) = wire["toScreen"][g]
    BY <1>5 DEF AfterPut
  <2>4. Kept(Directions \ {"initiatorToBack", "toInitiator"})
    BY <1>2, <2>2 DEF Alters, Kept
  <2>5. Becomes("toScreen", g, AfterPut(wire["toScreen"][g], m))
    BY <1>1, <2>3, <2>4 DEF Kept, Becomes
  <2>6. Becomes("toInitiator", g, AfterEdge(wire["toInitiator"][g]))
    <3>1. AfterEdge(told["toInitiator"][g]) = AfterEdge(wire["toInitiator"][g])
      BY <1>3
    <3>2. \A h \in Guis : told["toInitiator"][h] = wire["toInitiator"][h]
      BY <1>1, <1>2
    <3>. QED BY <1>1, <2>2, <3>1, <3>2 DEF Alters, Becomes
  <2>. QED BY <1>5, <2>1, <2>2, <2>4, <2>5, <2>6 DEF Kept
<1>. QED BY <1>4, <1>5

\* A GUI connects to the initiator.
LEMMA ConnectStreams ==
  ASSUME LoginTypes, NEW g \in Guis, wire' = Open(wire, g)
  PROVE  /\ Streams(wire') /\ Kept(Directions \ {"toInitiator", "toScreen"})
         /\ Becomes("toInitiator", g, AfterOpen(wire["toInitiator"][g], TRUE))
         /\ Becomes("toScreen", g, AfterOpen(wire["toScreen"][g], TRUE))
<1>1. "toScreen" \in Directions /\ "toInitiator" \in Directions
  BY DEF Directions
<1> DEFINE first == [wire EXCEPT !["toInitiator"][g].open = TRUE]
<1>2. Streams(first) /\ Alters(first, wire, "toInitiator", g, AfterOpen(wire["toInitiator"][g], TRUE))
  BY <1>1, OpenStream DEF LoginTypes
<1>3. wire' = [first EXCEPT !["toScreen"][g].open = TRUE]
  BY DEF Open
<1> HIDE DEF first
<1>4. Streams(wire') /\ Alters(wire', first, "toScreen", g, AfterOpen(first["toScreen"][g], TRUE))
  BY <1>1, <1>2, <1>3, OpenStream
<1>5. first["toScreen"][g] = wire["toScreen"][g]
  BY <1>1, <1>2 DEF Alters
<1>6. Kept(Directions \ {"toInitiator", "toScreen"})
  BY <1>2, <1>4 DEF Alters, Kept
<1>7. Becomes("toInitiator", g, AfterOpen(wire["toInitiator"][g], TRUE))
  BY <1>1, <1>2, <1>4 DEF Alters, Becomes
<1>8. Becomes("toScreen", g, AfterOpen(wire["toScreen"][g], TRUE))
  <2>1. AfterOpen(first["toScreen"][g], TRUE) = AfterOpen(wire["toScreen"][g], TRUE)
    BY <1>5
  <2>2. \A h \in Guis \ {g} : first["toScreen"][h] = wire["toScreen"][h]
    BY <1>1, <1>2 DEF Alters
  <2>. QED BY <1>1, <1>4, <2>1, <2>2 DEF Alters, Becomes
<1>. QED BY <1>4, <1>6, <1>7, <1>8

\* The sockets of a GUI that quits are closed.
Closes(g, b) ==
  LET left == End([wire EXCEPT !["toScreen"][g].open = FALSE], "toInitiator", g)
  IN wire' = IF b # None
             THEN End([left EXCEPT !["backToScreen"][b].open = FALSE], "screenToBack", b)
             ELSE left

\* They change these streams.
LEMMA QuitStreams ==
  ASSUME LoginTypes, NEW g \in Guis, NEW b \in Guis \cup {None}, Closes(g, b)
  PROVE  /\ Streams(wire')
         /\ Becomes("toInitiator", g, AfterEnd(wire["toInitiator"][g]))
         /\ Becomes("toScreen", g, AfterOpen(wire["toScreen"][g], FALSE))
         /\ Becomes("backToScreen", b, AfterOpen(wire["backToScreen"][b], FALSE))
         /\ Becomes("screenToBack", b, AfterEnd(wire["screenToBack"][b]))
         /\ Kept({"backToInitiator", "initiatorToBack"})
<1>1. {"toScreen", "toInitiator", "backToScreen", "screenToBack", "backToInitiator", "initiatorToBack"}
        \subseteq Directions /\ None \notin Guis
  BY NoneAssumption DEF Directions
<1> DEFINE shut == [wire EXCEPT !["toScreen"][g].open = FALSE]
<1> DEFINE left == End(shut, "toInitiator", g)
<1>2. wire' = IF b # None
              THEN End([left EXCEPT !["backToScreen"][b].open = FALSE], "screenToBack", b)
              ELSE left
  BY DEF Closes
<1>3. Streams(shut) /\ Alters(shut, wire, "toScreen", g, AfterOpen(wire["toScreen"][g], FALSE))
  BY <1>1, OpenStream DEF LoginTypes
<1>4. left = End(shut, "toInitiator", g)
  OBVIOUS
<1> HIDE DEF shut, left
<1>5. Streams(left) /\ Alters(left, shut, "toInitiator", g, AfterEnd(shut["toInitiator"][g]))
  BY <1>1, <1>3, <1>4, EndStream
<1>6. shut["toInitiator"][g] = wire["toInitiator"][g]
  BY <1>1, <1>3 DEF Alters
<1>7. /\ \A d \in Directions \ {"toScreen", "toInitiator"}, h \in Guis : left[d][h] = wire[d][h]
      /\ \A h \in Guis : left["toInitiator"][h] =
           IF h = g THEN AfterEnd(wire["toInitiator"][g]) ELSE wire["toInitiator"][h]
      /\ \A h \in Guis : left["toScreen"][h] =
           IF h = g THEN AfterOpen(wire["toScreen"][g], FALSE) ELSE wire["toScreen"][h]
  <2>1. \A d \in Directions \ {"toScreen", "toInitiator"}, h \in Guis : left[d][h] = wire[d][h]
    BY <1>3, <1>5 DEF Alters
  <2>2. \A h \in Guis : left["toInitiator"][h] =
           IF h = g THEN AfterEnd(wire["toInitiator"][g]) ELSE wire["toInitiator"][h]
    <3>1. \A h \in Guis : shut["toInitiator"][h] = wire["toInitiator"][h]
      BY <1>1, <1>3 DEF Alters
    <3>2. left["toInitiator"][g] = AfterEnd(wire["toInitiator"][g])
      BY <1>1, <1>5, <1>6 DEF Alters
    <3>3. \A h \in Guis \ {g} : left["toInitiator"][h] = shut["toInitiator"][h]
      BY <1>1, <1>5 DEF Alters
    <3>. QED BY <3>1, <3>2, <3>3
  <2>3. \A h \in Guis : left["toScreen"][h] =
           IF h = g THEN AfterOpen(wire["toScreen"][g], FALSE) ELSE wire["toScreen"][h]
    <3>1. \A h \in Guis : left["toScreen"][h] = shut["toScreen"][h]
      BY <1>1, <1>5 DEF Alters
    <3>2. shut["toScreen"][g] = AfterOpen(wire["toScreen"][g], FALSE)
      BY <1>1, <1>3 DEF Alters
    <3>3. \A h \in Guis \ {g} : shut["toScreen"][h] = wire["toScreen"][h]
      BY <1>1, <1>3 DEF Alters
    <3>. QED BY <3>1, <3>2, <3>3
  <2>. QED BY <2>1, <2>2, <2>3
<1>8. CASE b = None
  <2>1. wire' = left
    BY <1>8, <1>2
  <2>2. Becomes("toInitiator", g, AfterEnd(wire["toInitiator"][g]))
    BY <1>1, <1>7, <2>1 DEF Becomes
  <2>3. Becomes("toScreen", g, AfterOpen(wire["toScreen"][g], FALSE))
    BY <1>1, <1>7, <2>1 DEF Becomes
  <2>4. Becomes("backToScreen", b, AfterOpen(wire["backToScreen"][b], FALSE))
    <3>1. \A h \in Guis : wire'["backToScreen"][h] = wire["backToScreen"][h] /\ h # b
      BY <1>1, <1>7, <1>8, <2>1
    <3>. QED BY <3>1 DEF Becomes
  <2>5. Becomes("screenToBack", b, AfterEnd(wire["screenToBack"][b]))
    <3>1. \A h \in Guis : wire'["screenToBack"][h] = wire["screenToBack"][h] /\ h # b
      BY <1>1, <1>7, <1>8, <2>1
    <3>. QED BY <3>1 DEF Becomes
  <2>6. Kept({"backToInitiator", "initiatorToBack"})
    BY <1>1, <1>7, <2>1 DEF Kept
  <2>. QED BY <1>5, <2>1, <2>2, <2>3, <2>4, <2>5, <2>6
<1>9. CASE b # None
  <2> DEFINE away == [left EXCEPT !["backToScreen"][b].open = FALSE]
  <2>1. b \in Guis
    BY <1>9
  <2>2. Streams(away) /\ Alters(away, left, "backToScreen", b, AfterOpen(left["backToScreen"][b], FALSE))
    BY <1>1, <1>5, <2>1, OpenStream
  <2>3. wire' = End(away, "screenToBack", b)
    BY <1>9, <1>2
  <2> HIDE DEF away
  <2>4. Streams(wire') /\ Alters(wire', away, "screenToBack", b, AfterEnd(away["screenToBack"][b]))
    BY <1>1, <2>1, <2>2, <2>3, EndStream
  <2>5. left["backToScreen"][b] = wire["backToScreen"][b]
    BY <1>1, <1>7, <2>1
  <2>6. \A d \in Directions \ {"backToScreen", "screenToBack"}, h \in Guis :
          wire'[d][h] = away[d][h] /\ away[d][h] = left[d][h]
    <3>1. \A d \in Directions \ {"backToScreen", "screenToBack"}, h \in Guis : wire'[d][h] = away[d][h]
      BY <2>4 DEF Alters
    <3>2. \A d \in Directions \ {"backToScreen", "screenToBack"}, h \in Guis : away[d][h] = left[d][h]
      BY <2>2 DEF Alters
    <3>. QED BY <3>1, <3>2
  <2>7. Becomes("backToScreen", b, AfterOpen(wire["backToScreen"][b], FALSE))
    <3>1. \A h \in Guis : wire'["backToScreen"][h] = away["backToScreen"][h]
      BY <1>1, <2>4 DEF Alters
    <3>2. away["backToScreen"][b] = AfterOpen(wire["backToScreen"][b], FALSE)
      BY <1>1, <2>1, <2>2, <2>5 DEF Alters
    <3>3. \A h \in Guis \ {b} : away["backToScreen"][h] = left["backToScreen"][h]
      BY <1>1, <2>2 DEF Alters
    <3>4. \A h \in Guis : left["backToScreen"][h] = wire["backToScreen"][h]
      BY <1>1, <1>7
    <3>. QED BY <3>1, <3>2, <3>3, <3>4 DEF Becomes
  <2>8. \A h \in Guis : wire'["toInitiator"][h] = left["toInitiator"][h] /\ wire'["toScreen"][h] = left["toScreen"][h]
    BY <1>1, <2>6
  <2>9. Becomes("toInitiator", g, AfterEnd(wire["toInitiator"][g]))
    BY <1>7, <2>8 DEF Becomes
  <2>10. Becomes("toScreen", g, AfterOpen(wire["toScreen"][g], FALSE))
    BY <1>7, <2>8 DEF Becomes
  <2>11. Kept({"backToInitiator", "initiatorToBack"})
    <3>1. \A h \in Guis : /\ wire'["backToInitiator"][h] = left["backToInitiator"][h]
                          /\ wire'["initiatorToBack"][h] = left["initiatorToBack"][h]
      BY <1>1, <2>6
    <3>2. \A h \in Guis : /\ left["backToInitiator"][h] = wire["backToInitiator"][h]
                          /\ left["initiatorToBack"][h] = wire["initiatorToBack"][h]
      BY <1>1, <1>7
    <3>. QED BY <3>1, <3>2 DEF Kept
  <2>12. Becomes("screenToBack", b, AfterEnd(wire["screenToBack"][b]))
    <3>1. \A h \in Guis : away["screenToBack"][h] = wire["screenToBack"][h]
      <4>1. \A h \in Guis : away["screenToBack"][h] = left["screenToBack"][h]
        BY <1>1, <2>2 DEF Alters
      <4>2. \A h \in Guis : left["screenToBack"][h] = wire["screenToBack"][h]
        BY <1>1, <1>7
      <4>. QED BY <4>1, <4>2
    <3>2. wire'["screenToBack"][b] = AfterEnd(away["screenToBack"][b])
      BY <1>1, <2>1, <2>4 DEF Alters
    <3>3. \A h \in Guis \ {b} : wire'["screenToBack"][h] = away["screenToBack"][h]
      BY <1>1, <2>4 DEF Alters
    <3>. QED BY <2>1, <3>1, <3>2, <3>3 DEF Becomes
  <2>. QED BY <2>4, <2>7, <2>9, <2>10, <2>11, <2>12
<1>. QED BY <1>8, <1>9

\* A back ends; its messages stay where they are.
LEMMA ExitStreams ==
  ASSUME LoginTypes, NEW b \in Guis, wire' = Exit(wire, b)
  PROVE  /\ Streams(wire') /\ Kept(Directions \ {"backToInitiator", "backToScreen"})
         /\ Becomes("backToInitiator", b, AfterEnd(wire["backToInitiator"][b]))
         /\ Becomes("backToScreen", b, AfterEnd(wire["backToScreen"][b]))
<1>1. "backToInitiator" \in Directions /\ "backToScreen" \in Directions
  BY DEF Directions
<1> DEFINE first == End(wire, "backToInitiator", b)
<1>2. Streams(first) /\ Alters(first, wire, "backToInitiator", b, AfterEnd(wire["backToInitiator"][b]))
  BY <1>1, EndStream DEF LoginTypes
<1>3. wire' = End(first, "backToScreen", b)
  BY DEF Exit
<1> HIDE DEF first
<1>4. Streams(wire') /\ Alters(wire', first, "backToScreen", b, AfterEnd(first["backToScreen"][b]))
  BY <1>1, <1>2, <1>3, EndStream
<1>5. \A h \in Guis : first["backToScreen"][h] = wire["backToScreen"][h]
  BY <1>1, <1>2 DEF Alters
<1>6. Kept(Directions \ {"backToInitiator", "backToScreen"})
  BY <1>2, <1>4 DEF Alters, Kept
<1>7. Becomes("backToInitiator", b, AfterEnd(wire["backToInitiator"][b]))
  BY <1>1, <1>2, <1>4 DEF Alters, Becomes
<1>8. Becomes("backToScreen", b, AfterEnd(wire["backToScreen"][b]))
  BY <1>1, <1>4, <1>5 DEF Alters, Becomes
<1>. QED BY <1>4, <1>6, <1>7, <1>8

\* A back tells its GUI something, or is ended by it.
LEMMA GuiStreams ==
  ASSUME LoginTypes, NEW b \in Guis, NEW m \in FromBackMessages, ToGui(b, m)
  PROVE  /\ Streams(wire') /\ Kept(Directions \ {"backToInitiator", "backToScreen"})
         /\ \/ /\ Kept({"backToInitiator"}) /\ UNCHANGED proc
               /\ Becomes("backToScreen", b, AfterPut(wire["backToScreen"][b], m))
            \/ /\ ~wire["backToScreen"][b].open /\ proc' = [proc EXCEPT ![b] = "gone"]
               /\ Becomes("backToInitiator", b, AfterEnd(wire["backToInitiator"][b]))
               /\ Becomes("backToScreen", b, AfterEnd(wire["backToScreen"][b]))
<1>1. "backToScreen" \in Directions /\ "backToInitiator" \in Directions
      /\ m \in Messages("backToScreen", b)
  BY DEF Directions, Messages
<1>2. CASE wire' = Put(wire, "backToScreen", b, m) /\ UNCHANGED proc
  <2>1. Streams(wire') /\ Alters(wire', wire, "backToScreen", b, AfterPut(wire["backToScreen"][b], m))
    BY <1>1, <1>2, PutStream DEF LoginTypes
  <2>. QED BY <1>1, <1>2, <2>1 DEF Alters, Kept, Becomes
<1>3. CASE ~wire["backToScreen"][b].open /\ wire' = Exit(wire, b) /\ proc' = [proc EXCEPT ![b] = "gone"]
  BY <1>3, ExitStreams
<1>. QED BY <1>2, <1>3 DEF ToGui

\* A back tells the initiator its port.
LEMMA CallStreams ==
  ASSUME LoginTypes, NEW b \in Guis,
         wire' = Put(wire, "backToInitiator", b, [type |-> "BackToInitiatorAuth", key |-> ApiKey[b], port |-> b])
  PROVE  /\ Streams(wire') /\ Kept(Directions \ {"backToInitiator"})
         /\ Becomes("backToInitiator", b, AfterPut(wire["backToInitiator"][b],
                       [type |-> "BackToInitiatorAuth", key |-> ApiKey[b], port |-> b]))
<1>1. "backToInitiator" \in Directions
      /\ [type |-> "BackToInitiatorAuth", key |-> ApiKey[b], port |-> b] \in Messages("backToInitiator", b)
  BY DEF Directions, Messages
<1>. QED BY <1>1, PutStream DEF LoginTypes, Alters, Kept, Becomes

\* A back reads its GUI, and may answer it.
LEMMA ValidateStreams ==
  ASSUME LoginTypes, NEW b \in Guis, NEW taken, taken = Take(wire, "screenToBack", b),
         NEW m \in FromBackMessages, wire' = Put(taken, "backToScreen", b, m) \/ wire' = taken
  PROVE  /\ Streams(wire') /\ Kept(Directions \ {"screenToBack", "backToScreen"})
         /\ \/ wire' = taken /\ Kept({"backToScreen"})
            \/ Becomes("backToScreen", b, AfterPut(wire["backToScreen"][b], m))
<1>1. "screenToBack" \in Directions /\ "backToScreen" \in Directions /\ m \in Messages("backToScreen", b)
  BY DEF Directions, Messages
<1>2. Streams(taken) /\ Alters(taken, wire, "screenToBack", b, AfterTake(wire["screenToBack"][b]))
  BY <1>1, TakeStream DEF LoginTypes
<1>3. \A h \in Guis : taken["backToScreen"][h] = wire["backToScreen"][h]
  BY <1>1, <1>2 DEF Alters
<1>4. CASE wire' = taken
  BY <1>1, <1>2, <1>3, <1>4 DEF Alters, Kept
<1>5. CASE wire' = Put(taken, "backToScreen", b, m)
  <2>1. Streams(wire') /\ Alters(wire', taken, "backToScreen", b, AfterPut(taken["backToScreen"][b], m))
    BY <1>1, <1>2, <1>5, PutStream
  <2>2. Becomes("backToScreen", b, AfterPut(wire["backToScreen"][b], m))
    BY <1>1, <1>3, <2>1 DEF Alters, Becomes
  <2>3. Kept(Directions \ {"screenToBack", "backToScreen"})
    BY <1>2, <2>1 DEF Alters, Kept
  <2>. QED BY <2>1, <2>2, <2>3
<1>. QED BY <1>4, <1>5

-----------------------------------------------------------------------------
(* Types of the GUIs *)

Screens == [stage : Stages, tries : 0..MaxSubmits, name : Names, back : Guis \cup {None}]

\* The state of the dialog, and the first of its signals.
LEMMA ScreenFields ==
  ASSUME LoginTypes, NEW g \in Guis
  PROVE  /\ screen[g] \in Screens /\ screen \in [Guis -> Screens]
         /\ events[g] \in Seq(Signals)
         /\ events[g] # <<>> => Head(events[g]) \in Signals
         /\ wire \in [Directions -> [Guis -> AnyStream]]
<1>1. screen \in [Guis -> Screens] /\ events[g] \in Seq(Signals)
  BY DEF LoginTypes, ScreenPart, ScreenTypes, Screens, Names
<1>2. events[g] # <<>> => Head(events[g]) \in Signals
  BY <1>1, HeadTaken
<1>. QED BY <1>1, <1>2 DEF LoginTypes, Streams

\* The fields of a signal are those of its type.
LEMMA SignalFields ==
  ASSUME NEW m \in Signals
  PROVE  /\ m.type = "InitiatorToFrontValidToken" => m.token \in Tokens /\ m.port \in Guis
         /\ m.type = "Status" => m.status \in {"Initialize", "Running", "Stop"}
BY DEF Signals, ToScreenMessages, Port, FromBackMessages

\* The dialog goes to another stage.
LEMMA GoesTypes ==
  ASSUME LoginTypes, NEW g \in Guis, NEW stage \in Stages, Goes(g, stage)
  PROVE  /\ screen' \in [Guis -> Screens]
         /\ \A h \in Guis : screen'[h] = IF h = g THEN [screen[g] EXCEPT !.stage = stage] ELSE screen[h]
<1>1. screen[g] \in Screens /\ screen \in [Guis -> Screens]
  BY ScreenFields
<1>2. PICK s \in Screens : s = [screen[g] EXCEPT !.stage = stage]
  BY <1>1 DEF Screens
<1>3. screen' = [screen EXCEPT ![g] = s]
  BY <1>1, <1>2 DEF Goes
<1>. QED BY <1>1, <1>2, <1>3

\* A signal is emitted.
LEMMA EmitTypes ==
  ASSUME LoginTypes, NEW g \in Guis, NEW m \in Signals, Emit(g, m)
  PROVE  /\ events' \in [Guis -> Seq(Signals)] /\ lost' \subseteq Guis
         /\ \A h \in Guis \ {g} : events'[h] = events[h]
         /\ \/ /\ m.type \in Connected(screen[g].stage) /\ events'[g] = Append(events[g], m)
            \/ m.type \notin Connected(screen[g].stage) /\ events'[g] = events[g]
<1>1. events \in [Guis -> Seq(Signals)] /\ lost \subseteq Guis
  BY DEF LoginTypes, ScreenPart, ScreenTypes
<1>2. PICK q \in Seq(Signals) : q = Append(events[g], m)
  BY <1>1, Appended
<1>3. CASE m.type \in Connected(screen[g].stage)
  <2>1. events' = [events EXCEPT ![g] = q] /\ lost' = lost
    BY <1>2, <1>3 DEF Emit
  <2>. QED BY <1>1, <1>2, <1>3, <2>1
<1>4. CASE m.type \notin Connected(screen[g].stage)
  BY <1>1, <1>4 DEF Emit
<1>. QED BY <1>3, <1>4

\* A slot is run.
LEMMA HandledTypes ==
  ASSUME LoginTypes, NEW g \in Guis, events[g] # <<>>, Handled(g)
  PROVE  /\ events' \in [Guis -> Seq(Signals)] /\ events'[g] = Tail(events[g])
         /\ \A h \in Guis \ {g} : events'[h] = events[h]
<1>1. events \in [Guis -> Seq(Signals)]
  BY DEF LoginTypes, ScreenPart, ScreenTypes
<1>2. PICK q \in Seq(Signals) : q = Tail(events[g])
  BY <1>1, HeadTaken
<1>3. events' = [events EXCEPT ![g] = q]
  BY <1>2 DEF Handled
<1>. QED BY <1>1, <1>2, <1>3

ScreenSide == Streams(wire) /\ ScreenPart /\ HostPart

\* The three parts of the state a GUI may change.
LEMMA ScreenSideFrom ==
  ASSUME Streams(wire'), screen' \in [Guis -> Screens], lost' \subseteq Guis,
         events' \in [Guis -> Seq(Signals)], proc' \in [Guis -> {"none", "running", "told", "gone"}],
         dialed' \in [Guis -> Guis \cup {None}]
  PROVE  ScreenSide'
BY DEF ScreenSide, ScreenPart, ScreenTypes, HostPart, Screens, Names

\* Types after the steps of the interface.
LEMMA InterfaceTypes ==
  ASSUME LoginTypes, NEW g \in Guis, Interface(g)
  PROVE  ScreenSide'
<1>1. /\ screen[g] \in Screens /\ screen \in [Guis -> Screens]
      /\ events[g] # <<>> => Head(events[g]) \in Signals
  BY ScreenFields
<1>2. /\ lost \subseteq Guis /\ proc \in [Guis -> {"none", "running", "told", "gone"}]
      /\ dialed \in [Guis -> Guis \cup {None}] /\ Streams(wire)
  BY DEF LoginTypes, ScreenPart, ScreenTypes, HostPart
<1>3. {"asked", "named", "form", "linking", "trusted", "logon", "in"} \subseteq Stages
  BY DEF Stages
<1>4. {[type |-> "HandShakeAuth"], [type |-> "Logon"]} \subseteq ToBackMessages
  BY DEF ToBackMessages
<1>5. ASSUME SendIdentification(g) PROVE ScreenSide'
  <2>1. events' \in [Guis -> Seq(Signals)]
    BY <1>5, HandledTypes DEF SendIdentification, Slot
  <2>2. screen' \in [Guis -> Screens]
    BY <1>3, <1>5, GoesTypes DEF SendIdentification
  <2>3. screen[g].name \in Names
    BY <1>1 DEF Screens
  <2>4. Streams(wire')
    BY <1>5, <2>3, AskStreams DEF SendIdentification
  <2>5. UNCHANGED <<lost, proc, dialed>>
    BY <1>5 DEF SendIdentification
  <2>. QED BY <1>2, <2>1, <2>2, <2>4, <2>5, ScreenSideFrom
<1>6. ASSUME NEW stage \in Stages, events[g] # <<>>, Handled(g), Goes(g, stage), UNCHANGED <<lost, hostVars>>
      PROVE  ScreenSide'
  <2>1. events' \in [Guis -> Seq(Signals)] /\ screen' \in [Guis -> Screens]
    BY <1>6, HandledTypes, GoesTypes
  <2>2. UNCHANGED <<lost, wire, proc, dialed>>
    BY <1>6 DEF hostVars
  <2>. QED BY <1>2, <2>1, <2>2, ScreenSideFrom
<1>7. CASE ValidatedIdentification(g)
  BY <1>3, <1>6, <1>7 DEF ValidatedIdentification, Slot
<1>8. CASE InvalidIdentification(g)
  BY <1>3, <1>6, <1>8 DEF InvalidIdentification, Slot
<1>9. CASE BackNotifyLogon(g)
  BY <1>3, <1>6, <1>9 DEF BackNotifyLogon, Slot
<1>10. ASSUME TokenAuth(g) PROVE ScreenSide'
  <2>1. PICK m \in Signals : m = Head(events[g]) /\ m.token \in Tokens /\ m.port \in Guis
    BY <1>1, <1>10, SignalFields DEF TokenAuth, Slot
  <2>2. /\ Handled(g) /\ events[g] # <<>> /\ UNCHANGED <<lost, proc>>
        /\ screen' = [screen EXCEPT ![g].stage = "linking", ![g].back = m.port]
        /\ dialed' = [dialed EXCEPT ![m.port] = g]
        /\ wire' = Put(wire, "screenToBack", m.port, [type |-> "FrontToBackValidToken", token |-> m.token])
    BY <1>10, <2>1 DEF TokenAuth, Slot
  <2>3. [type |-> "FrontToBackValidToken", token |-> m.token] \in ToBackMessages
    BY <2>1 DEF ToBackMessages
  <2>4. Streams(wire')
    BY <2>2, <2>3, ToBackStreams
  <2>5. PICK s \in Screens : s = [[screen[g] EXCEPT !.stage = "linking"] EXCEPT !.back = m.port]
    BY <1>1, <1>3, <2>1 DEF Screens
  <2>6. screen' = [screen EXCEPT ![g] = s]
    BY <1>1, <2>2, <2>5
  <2>7. dialed' \in [Guis -> Guis \cup {None}] /\ screen' \in [Guis -> Screens]
    BY <1>1, <1>2, <2>2, <2>6
  <2>. QED BY <1>2, <2>2, <2>4, <2>7, HandledTypes, ScreenSideFrom
<1>11. ASSUME TokenValidated(g) PROVE ScreenSide'
  <2>1. Handled(g) /\ events[g] # <<>> /\ Goes(g, "trusted") /\ UNCHANGED <<lost, proc, dialed>>
    BY <1>11 DEF TokenValidated, Slot
  <2>2. Streams(wire')
    BY <1>4, <1>11, ToBackStreams DEF TokenValidated
  <2>3. events' \in [Guis -> Seq(Signals)] /\ screen' \in [Guis -> Screens]
    BY <1>3, <2>1, HandledTypes, GoesTypes
  <2>. QED BY <1>2, <2>1, <2>2, <2>3, ScreenSideFrom
<1>12. ASSUME BackNotifyStatus(g) PROVE ScreenSide'
  <2>1. Handled(g) /\ events[g] # <<>> /\ UNCHANGED <<lost, proc, dialed>>
    BY <1>12 DEF BackNotifyStatus, Slot
  <2>2. events' \in [Guis -> Seq(Signals)]
    BY <2>1, HandledTypes
  <2>3. CASE Head(events[g]).status = "Running"
    <3>1. Goes(g, "logon") /\ wire' = Put(wire, "screenToBack", screen[g].back, [type |-> "Logon"])
      BY <1>12, <2>3 DEF BackNotifyStatus
    <3>2. Streams(wire')
      BY <1>4, <3>1, ToBackStreams
    <3>3. screen' \in [Guis -> Screens]
      BY <1>3, <3>1, GoesTypes
    <3>. QED BY <1>2, <2>1, <2>2, <3>2, <3>3, ScreenSideFrom
  <2>4. CASE Head(events[g]).status # "Running"
    <3>1. UNCHANGED <<screen, wire>>
      BY <1>12, <2>4 DEF BackNotifyStatus
    <3>. QED BY <1>1, <1>2, <2>1, <2>2, <3>1, ScreenSideFrom
  <2>. QED BY <2>3, <2>4
<1>. QED BY <1>5, <1>7, <1>8, <1>9, <1>10, <1>11, <1>12 DEF Interface

\* Types after the steps of the two managers of a GUI.
LEMMA ManagersTypes ==
  ASSUME LoginTypes, NEW g \in Guis, Managers(g)
  PROVE  ScreenSide'
<1>1. screen \in [Guis -> Screens]
  BY ScreenFields
<1>2. /\ proc \in [Guis -> {"none", "running", "told", "gone"}] /\ dialed \in [Guis -> Guis \cup {None}]
      /\ Streams(wire) /\ lost \subseteq Guis /\ events \in [Guis -> Seq(Signals)]
  BY DEF LoginTypes, ScreenPart, ScreenTypes, HostPart
<1>3. ASSUME NEW m \in Signals, Emit(g, m), Streams(wire'), UNCHANGED <<screen, proc, dialed>>
      PROVE  ScreenSide'
  BY <1>1, <1>2, <1>3, EmitTypes, ScreenSideFrom
<1>4. CASE InitiatorConnects(g)
  <2>1. [type |-> "connectionReady"] \in Signals
    BY DEF Signals
  <2>2. /\ Streams(wire') /\ Emit(g, [type |-> "connectionReady"])
        /\ UNCHANGED <<screen, proc, dialed>>
    BY <1>4, ConnectStreams DEF InitiatorConnects
  <2>. QED BY <1>3, <2>1, <2>2
<1>5. CASE InitiatorReceives(g)
  <2>1. "toScreen" \in Directions /\ Messages("toScreen", g) \subseteq Signals
    BY DEF Directions, Messages, Signals
  <2>2. First("toScreen", g) \in Signals
    BY <1>2, <1>5, <2>1, FirstFits DEF InitiatorReceives
  <2>3. Streams(wire')
    BY <1>5, <2>1, ReadStreams DEF InitiatorReceives
  <2>. QED BY <1>3, <1>5, <2>2, <2>3 DEF InitiatorReceives
<1>6. CASE BackReceives(g)
  <2>1. PICK b \in Guis :
          /\ ~AtEnd("backToScreen", b) /\ wire' = Take(wire, "backToScreen", b)
          /\ IF First("backToScreen", b).type = "Reject" THEN UNCHANGED <<events, lost>>
                                                         ELSE Emit(g, First("backToScreen", b))
          /\ UNCHANGED <<screen, proc, dialed>>
    BY <1>6 DEF BackReceives
  <2>2. "backToScreen" \in Directions /\ Messages("backToScreen", b) \subseteq Signals
    BY DEF Directions, Messages, Signals
  <2>3. First("backToScreen", b) \in Signals
    BY <1>2, <2>1, <2>2, FirstFits
  <2>4. Streams(wire')
    BY <2>1, <2>2, ReadStreams
  <2>5. CASE First("backToScreen", b).type = "Reject"
    BY <1>1, <1>2, <2>1, <2>4, <2>5, ScreenSideFrom
  <2>6. CASE First("backToScreen", b).type # "Reject"
    BY <1>3, <2>1, <2>3, <2>4, <2>6
  <2>. QED BY <2>5, <2>6
<1>. QED BY <1>4, <1>5, <1>6 DEF Managers

\* Types after a click, and after the end of a GUI.
LEMMA UserTypes ==
  ASSUME LoginTypes, NEW g \in Guis, User(g)
  PROVE  ScreenSide'
<1>1. screen[g] \in Screens /\ screen \in [Guis -> Screens]
  BY ScreenFields
<1>2. /\ lost \subseteq Guis /\ proc \in [Guis -> {"none", "running", "told", "gone"}]
      /\ dialed \in [Guis -> Guis \cup {None}] /\ Streams(wire) /\ events \in [Guis -> Seq(Signals)]
  BY DEF LoginTypes, ScreenPart, ScreenTypes, HostPart
<1>3. ASSUME NEW name \in Typed[g], Submit(g, name) PROVE ScreenSide'
  <2>1. name \in Names /\ UNCHANGED <<events, lost, proc, dialed>> /\ screen[g].tries < MaxSubmits
        /\ screen[g].tries \in 0..MaxSubmits
    BY <1>1, <1>3 DEF Names, Submit, Screens
  <2>2. 1 \in 0..MaxSubmits /\ screen[g].tries + 1 \in 0..MaxSubmits
    BY <2>1, BoundsAssumption
  <2>3. CASE screen[g].tries = 0
    <3>1. PICK s \in Screens :
            s = [[[screen[g] EXCEPT !.stage = "connecting"] EXCEPT !.tries = 1] EXCEPT !.name = name]
      BY <1>1, <2>1, <2>2 DEF Screens, Stages
    <3>2. screen' = [screen EXCEPT ![g] = s] /\ wire' = wire
      BY <1>3, <2>3, <3>1 DEF Submit
    <3>. QED BY <1>1, <1>2, <2>1, <3>2, ScreenSideFrom
  <2>4. CASE screen[g].tries # 0
    <3>1. PICK s \in Screens :
            s = [[[screen[g] EXCEPT !.stage = "asked"] EXCEPT !.tries = screen[g].tries + 1] EXCEPT !.name = name]
      BY <1>1, <2>1, <2>2 DEF Screens, Stages
    <3>2. screen' = [screen EXCEPT ![g] = s]
      <4>1. screen' = [screen EXCEPT ![g] = [screen[g] EXCEPT !.stage = "asked", !.tries = screen[g].tries + 1, !.name = name]]
        BY <1>3, <2>4 DEF Submit
      <4>2. [screen[g] EXCEPT !.stage = "asked", !.tries = screen[g].tries + 1, !.name = name] = s
        BY <1>1, <3>1 DEF Screens
      <4>. QED BY <4>1, <4>2
    <3>4. wire' = Put(wire, "toInitiator", g, Identification(g, name))
      BY <1>3, <2>4 DEF Submit
    <3>3. Streams(wire')
      BY <2>1, <3>4, AskStreams
    <3>. QED BY <1>1, <1>2, <2>1, <3>2, <3>3, ScreenSideFrom
  <2>. QED BY <2>3, <2>4
<1>4. ASSUME Quit(g) PROVE ScreenSide'
  <2>1. Closes(g, screen[g].back) /\ screen[g].back \in Guis \cup {None}
    BY <1>1, <1>4 DEF Quit, Closes, Screens
  <2>2. Streams(wire')
    BY <2>1, QuitStreams
  <2>3. <<>> \in Seq(Signals)
    BY EmptySeq
  <2>4. events' \in [Guis -> Seq(Signals)] /\ UNCHANGED <<lost, proc, dialed>>
    BY <1>2, <1>4, <2>3 DEF Quit
  <2>5. PICK stage \in Stages : Goes(g, stage)
    BY <1>4 DEF Quit, Stages
  <2>. QED BY <1>2, <2>2, <2>4, <2>5, GoesTypes, ScreenSideFrom
<1>. QED BY <1>3, <1>4 DEF User

-----------------------------------------------------------------------------
(* Types of the initiator *)

Login == {"none", "found", "marked", "named"}
Fronts == [at : {"loop", "stop", "wait"}, of : Guis \cup {None}]
ListPart ==
  /\ connected \subseteq Accounts /\ sessions \in Seq(Guis) /\ watched \subseteq Guis
  /\ removing \in Seq(Guis) /\ front \in Fronts
PoolPart == login \in Login /\ tasks \in Seq(Tasks) /\ backTasks \in Seq(BackTasks)
SessionPart == /\ session \in [Guis -> Sessions \cup {None}]
               /\ \A g \in Guis : session[g] # None => session[g].key \in {None, ApiKey[g]}
FlagPart == back \in {"loop", "dead"} /\ up \in BOOLEAN
ClosedPart == closed \in [Guis -> {"no", "unnamed", "named", "twice"}]

\* These are the types of the initiator.
LEMMA InitiatorParts ==
  InitiatorPart <=> ListPart /\ PoolPart /\ SessionPart /\ FlagPart /\ ClosedPart
BY DEF InitiatorPart, InitiatorTypes, ListPart, PoolPart, SessionPart, FlagPart, ClosedPart, Login, Fronts

InitiatorSide == /\ Streams(wire) /\ HostPart /\ ListPart /\ PoolPart /\ SessionPart /\ FlagPart
                 /\ AcceptedInv /\ TurnInv

\* What the types say of the initiator.
LEMMA InitiatorFields ==
  ASSUME LoginTypes
  PROVE  InitiatorSide
BY InitiatorParts DEF LoginTypes, InitiatorSide

\* A session that is there is changed.
LEMMA SessionSet ==
  ASSUME LoginTypes, NEW g \in Guis, Accepted(g), NEW s \in Sessions, s.key \in {None, ApiKey[g]},
         session' = [session EXCEPT ![g] = s]
  PROVE  /\ SessionPart' /\ \A h \in Guis : Accepted(h)' <=> Accepted(h)
         /\ session'[g] = s /\ \A h \in Guis \ {g} : session'[h] = session[h]
<1>1. SessionPart
  BY InitiatorFields DEF InitiatorSide
<1>2. s # None
  BY SessionsAssumption
<1>. QED BY <1>1, <1>2 DEF SessionPart, Accepted

\* The pool goes on to its next task.
LEMMA DoneTypes ==
  ASSUME LoginTypes, tasks # <<>>, Done
  PROVE  /\ tasks' \in Seq(Tasks) /\ Served(tasks') \subseteq Served(tasks) /\ TurnInv'
         /\ login' \in Login
<1>1. tasks \in Seq(Tasks)
  BY DEF LoginTypes, InitiatorPart
<1>2. Tail(tasks) \in Seq(Tasks) /\ ToSet(Tail(tasks)) \subseteq ToSet(tasks)
  BY <1>1, HeadTaken
<1>. QED BY <1>2 DEF Done, Served, TurnInv, Login

\* The task that is first in the pool.
LEMMA FirstTask ==
  ASSUME LoginTypes, tasks # <<>>
  PROVE  /\ Head(tasks) \in Tasks /\ Head(tasks).of \in Guis /\ Head(tasks).of \in Served(tasks)
         /\ Accepted(Head(tasks).of) /\ session[Head(tasks).of] \in Sessions
         /\ Head(tasks).msg.key = ApiKey[Head(tasks).of]
<1>1. tasks \in Seq(Tasks) /\ AcceptedInv
  BY DEF LoginTypes, InitiatorPart
<1>2. Head(tasks) \in Tasks /\ Head(tasks) \in ToSet(tasks)
  BY <1>1, HeadTaken
<1>3. /\ Head(tasks).of \in Guis /\ Head(tasks).of \in Served(tasks)
      /\ Head(tasks).msg.key = ApiKey[Head(tasks).of]
  BY <1>2 DEF Tasks, Served, Ident
<1>4. Accepted(Head(tasks).of)
  BY <1>1, <1>3 DEF AcceptedInv
<1>5. session \in [Guis -> Sessions \cup {None}]
  BY DEF LoginTypes, InitiatorPart, InitiatorTypes
<1>. QED BY <1>2, <1>3, <1>4, <1>5 DEF Accepted

\* Types after the steps of FrontHandler.
LEMMA FrontHandlerTypes ==
  ASSUME LoginTypes, FrontHandler
  PROVE  InitiatorSide'
<1>1. InitiatorSide
  BY InitiatorFields
<1>2. /\ connected \subseteq Accounts /\ sessions \in Seq(Guis) /\ watched \subseteq Guis
      /\ removing \in Seq(Guis) /\ front \in Fronts
  BY <1>1 DEF InitiatorSide, ListPart
<1>3. /\ Served(tasks) \cup Served(backTasks) \cup ToSet(sessions) \cup ToSet(removing) \cup watched
           \subseteq {g \in Guis : Accepted(g)}
      /\ front.at # "loop" => front.of \in Guis /\ Accepted(front.of)
      /\ Distinct(sessions)
  BY <1>1 DEF InitiatorSide, AcceptedInv
<1>4. ASSUME front.at # "loop", removing' = Append(removing, front.of), front' = [at |-> "loop", of |-> None],
             UNCHANGED <<connected, session, sessions, watched, tasks, login, backVars, up, wire, dialed>>,
             HostPart'
      PROVE  InitiatorSide'
  <2>1. removing' \in Seq(Guis) /\ ToSet(removing') = ToSet(removing) \cup {front.of}
    BY <1>2, <1>3, <1>4, Appended
  <2>2. ListPart' /\ Streams(wire)' /\ PoolPart' /\ SessionPart' /\ FlagPart' /\ TurnInv'
    BY <1>1, <1>2, <1>4, <2>1
       DEF InitiatorSide, ListPart, PoolPart, SessionPart, FlagPart, TurnInv, backVars, Fronts
  <2>3. AcceptedInv'
    BY <1>3, <1>4, <2>1 DEF AcceptedInv, Accepted, backVars
  <2>. QED BY <1>4, <2>2, <2>3 DEF InitiatorSide
<1>5. ASSUME StopBack PROVE InitiatorSide'
  <2>1. /\ front.at = "stop" /\ front.of \in Guis /\ Accepted(front.of)
        /\ UNCHANGED <<connected, session, sessions, watched, tasks, login, backVars, up, wire, dialed>>
    BY <1>3, <1>5 DEF StopBack
  <2>2. CASE session[front.of].cmd
    <3>1. /\ proc' = [proc EXCEPT ![front.of] = IF @ = "running" THEN "told" ELSE @]
          /\ front' = [front EXCEPT !.at = "wait"] /\ UNCHANGED removing
      BY <1>5, <2>2 DEF StopBack
    <3>2. HostPart'
      BY <1>1, <2>1, <3>1 DEF InitiatorSide, HostPart
    <3>3. front' \in Fronts /\ front'.of = front.of
      BY <1>2, <3>1 DEF Fronts
    <3>4. ListPart' /\ Streams(wire)' /\ PoolPart' /\ SessionPart' /\ FlagPart' /\ TurnInv'
      BY <1>1, <1>2, <2>1, <3>1, <3>3
         DEF InitiatorSide, ListPart, PoolPart, SessionPart, FlagPart, TurnInv, backVars
    <3>5. AcceptedInv'
      BY <1>3, <2>1, <3>1, <3>3 DEF AcceptedInv, Accepted, backVars
    <3>. QED BY <3>2, <3>4, <3>5 DEF InitiatorSide
  <2>3. CASE ~session[front.of].cmd
    <3>1. removing' = Append(removing, front.of) /\ front' = [at |-> "loop", of |-> None] /\ UNCHANGED proc
      BY <1>5, <2>3 DEF StopBack
    <3>2. HostPart'
      BY <1>1, <2>1, <3>1 DEF InitiatorSide, HostPart
    <3>. QED BY <1>4, <2>1, <3>1, <3>2
  <2>. QED BY <2>2, <2>3
<1>6. ASSUME BackReaped PROVE InitiatorSide'
  <2>1. /\ front.at = "wait" /\ removing' = Append(removing, front.of) /\ front' = [at |-> "loop", of |-> None]
        /\ UNCHANGED <<connected, session, sessions, watched, tasks, login, backVars, up, wire, proc, dialed>>
    BY <1>6 DEF BackReaped, hostVars
  <2>2. HostPart'
    BY <1>1, <2>1 DEF InitiatorSide, HostPart
  <2>. QED BY <1>4, <2>1, <2>2
<1>7. ASSUME NEW g \in Guis, AcceptFront(g) PROVE InitiatorSide'
  <2>1. /\ session[g] = None /\ watched' = watched \cup {g}
        /\ session' = [session EXCEPT ![g] = NewSession] /\ sessions' = Append(sessions, g)
        /\ UNCHANGED <<connected, front, tasks, login, backVars, removing, up, wire, proc, dialed>>
    BY <1>7 DEF AcceptFront, hostVars
  <2>2. NewSession \in Sessions /\ NewSession # None /\ NewSession.key = None
    <3>1. NewSession \in Sessions /\ NewSession.key = None
      BY DEF NewSession, Sessions
    <3>. QED BY <3>1, SessionsAssumption
  <2>3. session \in [Guis -> Sessions \cup {None}]
    BY <1>1 DEF InitiatorSide, SessionPart
  <2>4. /\ SessionPart' /\ session'[g] # None /\ \A h \in Guis \ {g} : session'[h] = session[h]
    BY <1>1, <2>1, <2>2, <2>3 DEF InitiatorSide, SessionPart
  <2>5. g \notin ToSet(sessions)
    BY <1>3, <2>1 DEF Accepted
  <2>6. sessions' \in Seq(Guis) /\ ToSet(sessions') = ToSet(sessions) \cup {g} /\ Distinct(sessions')
    BY <1>2, <1>3, <2>1, <2>5, Appended, DistinctAppended
  <2>7. ListPart' /\ Streams(wire)' /\ HostPart' /\ PoolPart' /\ FlagPart' /\ TurnInv'
    BY <1>1, <1>2, <2>1, <2>6 DEF InitiatorSide, ListPart, HostPart, PoolPart, FlagPart, TurnInv, backVars
  <2>8. AcceptedInv'
    BY <1>3, <2>1, <2>4, <2>6 DEF AcceptedInv, Accepted, backVars
  <2>. QED BY <2>4, <2>7, <2>8 DEF InitiatorSide
<1>8. ASSUME NEW g \in Guis, FrontMessage(g) PROVE InitiatorSide'
  <2>1. /\ g \in watched /\ ~AtEnd("toInitiator", g) /\ wire' = Take(wire, "toInitiator", g)
        /\ tasks' = Append(tasks, [of |-> g, msg |-> First("toInitiator", g)])
        /\ UNCHANGED <<connected, session, sessions, watched, front, login, backVars, removing, up, proc, dialed>>
    BY <1>8 DEF FrontMessage
  <2>2. "toInitiator" \in Directions /\ Messages("toInitiator", g) = Ident(g) /\ Streams(wire)
    BY DEF LoginTypes, Directions, Messages
  <2>3. First("toInitiator", g) \in Ident(g)
    BY <2>1, <2>2, FirstFits
  <2>4. PICK t \in Tasks : t = [of |-> g, msg |-> First("toInitiator", g)]
    BY <2>3 DEF Tasks
  <2>5. tasks \in Seq(Tasks) /\ TurnInv
    BY <1>1 DEF InitiatorSide, PoolPart
  <2>6. /\ tasks' \in Seq(Tasks) /\ tasks' # <<>>
        /\ Head(tasks') = IF tasks = <<>> THEN t ELSE Head(tasks)
    BY <2>1, <2>4, <2>5, Appended
  <2>7. Served(tasks') = Served(tasks) \cup {g}
    BY <2>1, <2>4, <2>5, ServedAppended
  <2>8. TurnInv'
    BY <2>1, <2>5, <2>6 DEF TurnInv, Rows
  <2>9. Streams(wire')
    BY <2>1, <2>2, ReadStreams
  <2>10. HostPart' /\ ListPart' /\ PoolPart' /\ SessionPart' /\ FlagPart'
    BY <1>1, <1>2, <2>1, <2>6 DEF InitiatorSide, ListPart, HostPart, PoolPart, SessionPart, FlagPart, backVars
  <2>11. AcceptedInv'
    BY <1>3, <2>1, <2>7 DEF AcceptedInv, Accepted, backVars
  <2>. QED BY <2>8, <2>9, <2>10, <2>11 DEF InitiatorSide
<1>9. ASSUME NEW g \in Guis, FrontEnd(g) PROVE InitiatorSide'
  <2>1. /\ wire' = Take(wire, "toInitiator", g)
        /\ UNCHANGED <<session, sessions, watched, tasks, login, backVars, removing, proc, dialed>>
    BY <1>9 DEF FrontEnd
  <2>2. /\ connected' \subseteq Accounts /\ front' \in Fronts /\ up' \in BOOLEAN
        /\ front'.at # "loop" => front'.of \in Guis /\ Accepted(front'.of)
    <3>1. CASE g \in ToSet(sessions)
      BY <1>1, <1>2, <1>3, <1>9, <3>1 DEF FrontEnd, Fronts, InitiatorSide, FlagPart
    <3>2. CASE g \notin ToSet(sessions)
      BY <1>2, <1>3, <1>9, <3>2 DEF FrontEnd
    <3>. QED BY <3>1, <3>2
  <2>3. Streams(wire')
    BY <2>1, ReadStreams DEF Directions
  <2>4. HostPart' /\ ListPart' /\ PoolPart' /\ SessionPart' /\ FlagPart' /\ TurnInv'
    BY <1>1, <1>2, <2>1, <2>2
       DEF InitiatorSide, ListPart, HostPart, PoolPart, SessionPart, FlagPart, TurnInv, backVars
  <2>5. AcceptedInv'
    BY <1>3, <2>1, <2>2 DEF AcceptedInv, Accepted, backVars
  <2>. QED BY <2>3, <2>4, <2>5 DEF InitiatorSide
<1>. QED BY <1>5, <1>6, <1>7, <1>8, <1>9 DEF FrontHandler

\* Types after the steps of the pool of FrontHandler.
LEMMA FrontPoolTypes ==
  ASSUME LoginTypes, FrontPool
  PROVE  InitiatorSide'
<1>1. InitiatorSide
  BY InitiatorFields
<1>2. /\ Served(tasks) \cup Served(backTasks) \cup ToSet(sessions) \cup ToSet(removing) \cup watched
           \subseteq {g \in Guis : Accepted(g)}
      /\ front.at # "loop" => front.of \in Guis /\ Accepted(front.of)
      /\ Distinct(sessions) /\ TurnInv
  BY <1>1 DEF InitiatorSide, AcceptedInv
<1>3. tasks # <<>>
  BY <1>2 DEF FrontPool, LookUp, MarkConnected, Identify, ForkBack, TurnInv
<1> DEFINE g == Head(tasks).of
           m == Head(tasks).msg
<1>4. g \in Guis /\ Accepted(g) /\ session[g] \in Sessions /\ m.key = ApiKey[g]
  BY <1>3, FirstTask
<1> HIDE DEF g, m
<1>5. ASSUME LookUp PROVE InitiatorSide'
  <2>1. UNCHANGED <<connected, session, sessions, watched, front, backVars, removing, proc, dialed>>
    BY <1>5 DEF LookUp
  <2>2. /\ Streams(wire') /\ up' \in BOOLEAN
        /\ \/ Done
           \/ login' = "found" /\ UNCHANGED tasks /\ Rows(m.key, m.name) # {}
    <3>1. CASE session[g].key # None
      BY <1>1, <1>5, <3>1 DEF LookUp, InitiatorSide, FlagPart, g
    <3>2. CASE session[g].key = None /\ (Rows(m.key, m.name) = {} \/ Rows(m.key, m.name) \subseteq connected)
      <4>1. Done /\ ToScreen(g, [type |-> "Reject"])
        BY <1>5, <3>2 DEF LookUp, g, m
      <4>2. [type |-> "Reject"] \in ToScreenMessages
        BY DEF ToScreenMessages
      <4>. QED BY <1>4, <4>1, <4>2, ScreenStreams
    <3>3. CASE session[g].key = None /\ ~(Rows(m.key, m.name) = {} \/ Rows(m.key, m.name) \subseteq connected)
      BY <1>1, <1>5, <3>3 DEF LookUp, InitiatorSide, FlagPart, g, m
    <3>. QED BY <3>1, <3>2, <3>3
  <2>3. PoolPart' /\ TurnInv' /\ Served(tasks') \subseteq Served(tasks)
    <3>1. CASE Done
      BY <1>1, <1>3, <2>1, <3>1, DoneTypes DEF InitiatorSide, PoolPart, backVars
    <3>2. CASE login' = "found" /\ UNCHANGED tasks /\ Rows(m.key, m.name) # {}
      BY <1>1, <1>3, <2>1, <3>2 DEF InitiatorSide, PoolPart, backVars, TurnInv, Login, Rows, m
    <3>. QED BY <2>2, <3>1, <3>2
  <2>4. HostPart' /\ ListPart' /\ SessionPart' /\ FlagPart'
    BY <1>1, <2>1, <2>2 DEF InitiatorSide, ListPart, HostPart, SessionPart, FlagPart, backVars
  <2>5. AcceptedInv'
    BY <1>2, <2>1, <2>3 DEF AcceptedInv, Accepted, backVars
  <2>. QED BY <2>2, <2>3, <2>4, <2>5 DEF InitiatorSide
<1>6. ASSUME MarkConnected PROVE InitiatorSide'
  <2>1. /\ login = "found" /\ login' = "marked" /\ connected' = connected \cup Rows(m.key, m.name)
        /\ UNCHANGED <<session, sessions, watched, front, tasks, backVars, removing, up, wire, proc, dialed>>
    BY <1>6 DEF MarkConnected, hostVars, m
  <2>2. Rows(m.key, m.name) \subseteq Accounts
    BY DEF Rows
  <2>3. /\ Streams(wire)' /\ HostPart' /\ ListPart' /\ PoolPart' /\ SessionPart' /\ FlagPart'
    BY <1>1, <2>1, <2>2
       DEF InitiatorSide, ListPart, HostPart, PoolPart, SessionPart, FlagPart, backVars, Login
  <2>4. AcceptedInv' /\ TurnInv'
    BY <1>2, <2>1 DEF AcceptedInv, Accepted, backVars, TurnInv, Rows
  <2>. QED BY <2>3, <2>4 DEF InitiatorSide
<1>7. ASSUME Identify PROVE InitiatorSide'
  <2> DEFINE r == CHOOSE r \in Rows(m.key, m.name) : TRUE
  <2>1. /\ login = "marked" /\ login' = "named"
        /\ session' = [session EXCEPT ![g].key = m.key, ![g].name = ServerName[r]]
        /\ ToScreen(g, [type |-> "InitiatorToFrontAuth"])
        /\ UNCHANGED <<connected, sessions, watched, front, tasks, backVars, removing, proc, dialed>>
    BY <1>7 DEF Identify, g, m
  <2>2. r \in Accounts
    BY <1>2, <2>1 DEF TurnInv, Rows, m
  <2> HIDE DEF r
  <2>3. PICK s \in Sessions : s = [[session[g] EXCEPT !.key = m.key] EXCEPT !.name = ServerName[r]]
    BY <1>4, <2>2 DEF Sessions
  <2>4. session \in [Guis -> Sessions \cup {None}]
    BY <1>1 DEF InitiatorSide, SessionPart
  <2>5. session' = [session EXCEPT ![g] = s] /\ s.key = ApiKey[g]
    BY <1>4, <2>1, <2>3, <2>4 DEF Sessions
  <2>6. SessionPart' /\ \A h \in Guis : Accepted(h)' <=> Accepted(h)
    BY <1>4, <2>5, SessionSet
  <2>7. Streams(wire') /\ up' \in BOOLEAN
    <3>1. [type |-> "InitiatorToFrontAuth"] \in ToScreenMessages
      BY DEF ToScreenMessages
    <3>. QED BY <1>4, <2>1, <3>1, ScreenStreams
  <2>8. HostPart' /\ ListPart' /\ PoolPart' /\ FlagPart' /\ TurnInv'
    BY <1>1, <1>3, <2>1, <2>7
       DEF InitiatorSide, ListPart, HostPart, PoolPart, FlagPart, backVars, Login, TurnInv
  <2>9. AcceptedInv'
    BY <1>2, <2>1, <2>6 DEF AcceptedInv, backVars
  <2>. QED BY <2>6, <2>7, <2>8, <2>9 DEF InitiatorSide
<1>8. ASSUME ForkBack PROVE InitiatorSide'
  <2>1. /\ session' = [session EXCEPT ![g].cmd = TRUE] /\ proc' = [proc EXCEPT ![g] = "running"] /\ Done
        /\ UNCHANGED <<connected, sessions, watched, front, backVars, removing, up, wire, dialed>>
    BY <1>8 DEF ForkBack, g
  <2>2. PICK s \in Sessions : s = [session[g] EXCEPT !.cmd = TRUE]
    BY <1>4 DEF Sessions
  <2>3. SessionPart
    BY <1>1 DEF InitiatorSide
  <2>4. session' = [session EXCEPT ![g] = s] /\ s.key \in {None, ApiKey[g]}
    BY <1>4, <2>1, <2>2, <2>3 DEF Sessions, SessionPart, Accepted
  <2>5. SessionPart' /\ \A h \in Guis : Accepted(h)' <=> Accepted(h)
    BY <1>4, <2>4, SessionSet
  <2>6. PoolPart' /\ TurnInv' /\ Served(tasks') \subseteq Served(tasks)
    BY <1>1, <1>3, <2>1, DoneTypes DEF InitiatorSide, PoolPart, backVars
  <2>7. Streams(wire)' /\ HostPart' /\ ListPart' /\ FlagPart'
    BY <1>1, <2>1 DEF InitiatorSide, ListPart, HostPart, FlagPart, backVars
  <2>8. AcceptedInv'
    BY <1>2, <2>1, <2>5, <2>6 DEF AcceptedInv, backVars
  <2>. QED BY <2>5, <2>6, <2>7, <2>8 DEF InitiatorSide
<1>. QED BY <1>5, <1>6, <1>7, <1>8 DEF FrontPool

\* A back whose message is given to a session is given to one in the list, which
\* has its key.
LEMMA BackFound ==
  ASSUME LoginTypes, NEW b \in Guis, BackMessage(b)
  PROVE  /\ ~AtEnd("backToInitiator", b) /\ wire' = Take(wire, "backToInitiator", b)
         /\ UNCHANGED <<connected, frontVars, removing, proc, dialed, closed>>
         /\ \/ \E g \in Guis :
                 /\ g \in ToSet(sessions) /\ session[g].key = ApiKey[b]
                 /\ session' = [session EXCEPT ![g].socket = b]
                 /\ backTasks' = Append(backTasks, [of |-> g, port |-> b])
                 /\ UNCHANGED <<back, up>>
            \/ back' = "dead" /\ UNCHANGED <<session, backTasks, up>>
            \/ up' = FALSE /\ UNCHANGED <<session, backTasks, back>>
<1> DEFINE m == First("backToInitiator", b)
           before(i) == {j \in Unnamed : j < i}
           e == Earliest(Matches(m.key))
<1>1. /\ ~AtEnd("backToInitiator", b) /\ wire' = Take(wire, "backToInitiator", b)
      /\ UNCHANGED <<connected, frontVars, removing, proc, dialed, closed>>
      /\ IF Matches(m.key) # {} /\ before(e) = {}
         THEN LET g == sessions[e]
              IN /\ session' = [session EXCEPT ![g].socket = b]
                 /\ backTasks' = Append(backTasks, [of |-> g, port |-> m.port])
                 /\ UNCHANGED <<back, up>>
         ELSE IF Unnamed # {}
              THEN back' = "dead" /\ UNCHANGED <<session, backTasks, up>>
              ELSE up' = FALSE /\ UNCHANGED <<session, backTasks, back>>
  BY DEF BackMessage
<1> HIDE DEF before
<1>2. m.key = ApiKey[b] /\ m.port = b
  <2>1. "backToInitiator" \in Directions /\ Streams(wire)
    BY DEF Directions, LoginTypes
  <2>2. m \in Messages("backToInitiator", b)
    BY <1>1, <2>1, FirstFits
  <2>. QED BY <2>2 DEF Messages
<1> HIDE DEF m
<1>3. sessions \in Seq(Guis)
  BY DEF LoginTypes, InitiatorPart, InitiatorTypes
<1>4. ASSUME Matches(m.key) # {}
      PROVE  e \in DOMAIN sessions /\ session[sessions[e]].key = m.key
  <2> DEFINE S == Matches(m.key)
  <2>1. S \subseteq DOMAIN sessions /\ DOMAIN sessions = 1..Len(sessions) /\ Len(sessions) \in Nat
    BY <1>3, LenProperties DEF Matches
  <2>4. e \in S
    BY <1>4, <2>1, EarliestIn
  <2>. QED BY <2>1, <2>4 DEF Matches
<1>5. CASE Matches(m.key) # {} /\ before(e) = {}
  <2>1. e \in DOMAIN sessions /\ session[sessions[e]].key = m.key
    BY <1>4, <1>5
  <2>2. PICK g \in Guis : g = sessions[e] /\ g \in ToSet(sessions)
    BY <1>3, <2>1, Contents
  <2>. QED BY <1>1, <1>2, <1>5, <2>1, <2>2
<1>6. CASE ~(Matches(m.key) # {} /\ before(e) = {})
  BY <1>1, <1>6
<1>. QED BY <1>1, <1>5, <1>6

\* Types after a message of a back.
LEMMA BackHandlerTypes ==
  ASSUME LoginTypes, NEW b \in Guis, BackMessage(b)
  PROVE  InitiatorSide'
<1>1. InitiatorSide
  BY InitiatorFields
<1>2. /\ Served(tasks) \cup Served(backTasks) \cup ToSet(sessions) \cup ToSet(removing) \cup watched
           \subseteq {g \in Guis : Accepted(g)}
      /\ front.at # "loop" => front.of \in Guis /\ Accepted(front.of)
      /\ Distinct(sessions) /\ TurnInv
  BY <1>1 DEF InitiatorSide, AcceptedInv
<1>3. /\ ~AtEnd("backToInitiator", b) /\ wire' = Take(wire, "backToInitiator", b)
      /\ UNCHANGED <<connected, frontVars, removing, proc, dialed, closed>>
  BY BackFound
<1>4. Streams(wire')
  BY <1>3, ReadStreams DEF Directions
<1>5. HostPart' /\ ListPart' /\ TurnInv' /\ login' \in Login /\ tasks' \in Seq(Tasks)
  BY <1>1, <1>3 DEF InitiatorSide, ListPart, HostPart, TurnInv, PoolPart, frontVars, Rows
<1>6. ASSUME NEW g \in ToSet(sessions), session' = [session EXCEPT ![g].socket = b],
             backTasks' = Append(backTasks, [of |-> g, port |-> b]), UNCHANGED <<back, up>>
      PROVE  InitiatorSide'
  <2>1. g \in Guis /\ Accepted(g)
    BY <1>2, <1>6
  <2>2. SessionPart
    BY <1>1 DEF InitiatorSide
  <2>3. session[g] \in Sessions
    BY <2>1, <2>2 DEF SessionPart, Accepted
  <2>4. PICK s \in Sessions : s = [session[g] EXCEPT !.socket = b]
    BY <2>3 DEF Sessions
  <2>5. session' = [session EXCEPT ![g] = s] /\ s.key \in {None, ApiKey[g]}
    BY <1>6, <2>1, <2>2, <2>3, <2>4 DEF SessionPart, Accepted, Sessions
  <2>6. SessionPart' /\ \A h \in Guis : Accepted(h)' <=> Accepted(h)
    BY <2>1, <2>5, SessionSet
  <2>7. PICK t \in BackTasks : t = [of |-> g, port |-> b]
    BY <2>1 DEF BackTasks
  <2>8. backTasks \in Seq(BackTasks) /\ backTasks' = Append(backTasks, t)
    BY <1>1, <1>6, <2>7 DEF InitiatorSide, PoolPart
  <2>9. backTasks' \in Seq(BackTasks)
    BY <2>8, Appended
  <2>10. Served(backTasks') = Served(backTasks) \cup {g}
    BY <2>7, <2>8, ServedAppended
  <2>11. PoolPart' /\ FlagPart'
    BY <1>1, <1>5, <1>6, <2>9 DEF InitiatorSide, PoolPart, FlagPart
  <2>12. AcceptedInv'
    BY <1>2, <1>3, <2>1, <2>6, <2>10 DEF AcceptedInv, frontVars
  <2>. QED BY <1>4, <1>5, <2>6, <2>11, <2>12 DEF InitiatorSide
<1>7. ASSUME UNCHANGED <<session, backTasks>>, back' \in {"loop", "dead"}, up' \in BOOLEAN
      PROVE  InitiatorSide'
  <2>1. SessionPart' /\ PoolPart' /\ FlagPart'
    BY <1>1, <1>5, <1>7 DEF InitiatorSide, PoolPart, FlagPart, SessionPart
  <2>2. AcceptedInv'
    BY <1>2, <1>3, <1>7 DEF AcceptedInv, frontVars, Accepted
  <2>. QED BY <1>4, <1>5, <2>1, <2>2 DEF InitiatorSide
<1>8. back \in {"loop", "dead"} /\ up \in BOOLEAN
  BY <1>1 DEF InitiatorSide, FlagPart
<1>. QED BY <1>6, <1>7, <1>8, BackFound

\* What the pool of BackHandler does.
LEMMA BackPoolDone ==
  ASSUME LoginTypes, IdentifyBack
  PROVE  /\ backTasks # <<>> /\ backTasks' = Tail(backTasks)
         /\ Head(backTasks) \in BackTasks /\ Accepted(Head(backTasks).of)
         /\ session' = [session EXCEPT ![Head(backTasks).of].token = GenerateToken]
         /\ UNCHANGED <<connected, frontVars, back, removing, proc, dialed, closed>>
         /\ Streams(wire') /\ up' \in BOOLEAN
         /\ Kept(Directions \ {"initiatorToBack", "toScreen", "toInitiator"})
         /\ Becomes("toScreen", Head(backTasks).of, AfterPut(wire["toScreen"][Head(backTasks).of],
              [type |-> "InitiatorToFrontValidToken", token |-> GenerateToken, port |-> Head(backTasks).port]))
         /\ wire["toScreen"][Head(backTasks).of].open => Kept({"toInitiator"}) /\ UNCHANGED up
         /\ ~wire["toScreen"][Head(backTasks).of].open =>
              Becomes("toInitiator", Head(backTasks).of, AfterEdge(wire["toInitiator"][Head(backTasks).of]))
<1> DEFINE g == Head(backTasks).of
           s == session[g].socket
           m == [type |-> "InitiatorToFrontValidToken", token |-> GenerateToken, port |-> Head(backTasks).port]
<1>1. /\ backTasks # <<>> /\ backTasks' = Tail(backTasks)
      /\ session' = [session EXCEPT ![g].token = GenerateToken]
      /\ UNCHANGED <<connected, frontVars, back, removing, proc, dialed, closed>>
      /\ Tells(g, s, m)
  BY DEF IdentifyBack, Tells
<1>2. backTasks \in Seq(BackTasks) /\ AcceptedInv
  BY DEF LoginTypes, InitiatorPart
<1>3. Head(backTasks) \in BackTasks /\ Head(backTasks) \in ToSet(backTasks)
  BY <1>1, <1>2, HeadTaken
<1>4. g \in Guis /\ Accepted(g) /\ m \in ToScreenMessages
  BY <1>2, <1>3 DEF AcceptedInv, Served, BackTasks, ToScreenMessages, Port, Tokens
<1> HIDE DEF m, g, s
<1>5. /\ Streams(wire') /\ up' \in BOOLEAN
      /\ Kept(Directions \ {"initiatorToBack", "toScreen", "toInitiator"})
      /\ Becomes("toScreen", g, AfterPut(wire["toScreen"][g], m))
      /\ wire["toScreen"][g].open => Kept({"toInitiator"}) /\ UNCHANGED up
      /\ ~wire["toScreen"][g].open =>
           Becomes("toInitiator", g, AfterEdge(wire["toInitiator"][g]))
  BY <1>1, <1>4, TokenStreams
<1>. QED BY <1>1, <1>3, <1>4, <1>5 DEF g, m

\* Types after the steps of the pool of BackHandler.
LEMMA BackPoolTypes ==
  ASSUME LoginTypes, IdentifyBack
  PROVE  InitiatorSide'
<1>1. InitiatorSide
  BY InitiatorFields
<1>2. /\ Served(tasks) \cup Served(backTasks) \cup ToSet(sessions) \cup ToSet(removing) \cup watched
           \subseteq {g \in Guis : Accepted(g)}
      /\ front.at # "loop" => front.of \in Guis /\ Accepted(front.of)
      /\ Distinct(sessions)
  BY <1>1 DEF InitiatorSide, AcceptedInv
<1> DEFINE g == Head(backTasks).of
<1>3. /\ backTasks # <<>> /\ backTasks' = Tail(backTasks) /\ Head(backTasks) \in BackTasks
      /\ Accepted(g) /\ session' = [session EXCEPT ![g].token = GenerateToken]
      /\ UNCHANGED <<connected, frontVars, back, removing, proc, dialed, closed>>
      /\ Streams(wire') /\ up' \in BOOLEAN
  BY BackPoolDone
<1>4. g \in Guis
  BY <1>3 DEF BackTasks
<1> HIDE DEF g
<1>5. SessionPart
  BY <1>1 DEF InitiatorSide
<1>6. session[g] \in Sessions
  BY <1>3, <1>4, <1>5 DEF SessionPart, Accepted
<1>7. PICK s \in Sessions : s = [session[g] EXCEPT !.token = GenerateToken]
  BY <1>6 DEF Sessions, GenerateToken
<1>8. session' = [session EXCEPT ![g] = s] /\ s.key \in {None, ApiKey[g]}
  BY <1>3, <1>4, <1>5, <1>6, <1>7 DEF SessionPart, Accepted, Sessions
<1>9. SessionPart' /\ \A h \in Guis : Accepted(h)' <=> Accepted(h)
  BY <1>3, <1>4, <1>8, SessionSet
<1>10. backTasks' \in Seq(BackTasks) /\ Served(backTasks') \subseteq Served(backTasks)
  BY <1>1, <1>3, HeadTaken DEF InitiatorSide, PoolPart, Served
<1>11. HostPart' /\ ListPart' /\ TurnInv' /\ PoolPart' /\ FlagPart'
  BY <1>1, <1>3, <1>10
     DEF InitiatorSide, ListPart, HostPart, TurnInv, PoolPart, FlagPart, frontVars, Rows
<1>12. AcceptedInv'
  BY <1>2, <1>3, <1>9, <1>10 DEF AcceptedInv, frontVars
<1>. QED BY <1>3, <1>9, <1>11, <1>12 DEF InitiatorSide

\* Types after a session is taken out of the list.
LEMMA RemoveTypes ==
  ASSUME LoginTypes, RemoveSession
  PROVE  InitiatorSide'
<1>1. InitiatorSide
  BY InitiatorFields
<1>2. /\ Served(tasks) \cup Served(backTasks) \cup ToSet(sessions) \cup ToSet(removing) \cup watched
           \subseteq {g \in Guis : Accepted(g)}
      /\ front.at # "loop" => front.of \in Guis /\ Accepted(front.of)
      /\ Distinct(sessions)
  BY <1>1 DEF InitiatorSide, AcceptedInv
<1>3. sessions \in Seq(Guis) /\ removing \in Seq(Guis) /\ watched \subseteq Guis
  BY <1>1 DEF InitiatorSide, ListPart
<1> DEFINE g == Head(removing)
<1>4. /\ removing # <<>> /\ removing' = Tail(removing) /\ watched' = watched \ {g}
      /\ UNCHANGED <<connected, session, front, tasks, login, backVars, wire, proc, dialed>>
      /\ IF g \in ToSet(sessions)
         THEN sessions' = RemoveFirst(sessions, g) /\ UNCHANGED up
         ELSE \/ sessions # <<>> /\ sessions' = Front(sessions) /\ UNCHANGED up
              \/ up' = FALSE /\ UNCHANGED sessions
  BY DEF RemoveSession, hostVars
<1> HIDE DEF g
<1>5. removing' \in Seq(Guis) /\ ToSet(removing') \subseteq ToSet(removing)
  BY <1>3, <1>4, HeadTaken
<1>6. /\ sessions' \in Seq(Guis) /\ ToSet(sessions') \subseteq ToSet(sessions) /\ Distinct(sessions')
      /\ up' \in BOOLEAN
  <2>1. CASE g \in ToSet(sessions)
    BY <1>1, <1>2, <1>3, <1>4, <2>1, Removed DEF InitiatorSide, FlagPart
  <2>2. CASE g \notin ToSet(sessions) /\ sessions # <<>> /\ sessions' = Front(sessions) /\ UNCHANGED up
    BY <1>1, <1>2, <1>3, <2>2, FrontOf DEF InitiatorSide, FlagPart
  <2>3. CASE up' = FALSE /\ UNCHANGED sessions
    BY <1>2, <1>3, <2>3
  <2>. QED BY <1>4, <2>1, <2>2, <2>3
<1>7. Streams(wire)' /\ HostPart' /\ ListPart' /\ TurnInv' /\ PoolPart' /\ FlagPart' /\ SessionPart'
  BY <1>1, <1>3, <1>4, <1>5, <1>6
     DEF InitiatorSide, ListPart, HostPart, TurnInv, PoolPart, FlagPart, SessionPart, backVars, Rows
<1>8. AcceptedInv'
  BY <1>2, <1>4, <1>5, <1>6 DEF AcceptedInv, backVars, Accepted
<1>. QED BY <1>7, <1>8 DEF InitiatorSide

-----------------------------------------------------------------------------
(* Types of the backs, and of all *)

BackSide == Streams(wire) /\ HostPart /\ BackPart

Mains == {"start", "wait", "dial", "core", "run", "stop"}

\* A back that told its GUI something, or ended.
LEMMA ToGuiTypes ==
  ASSUME LoginTypes, NEW b \in Guis, NEW m \in FromBackMessages, ToGui(b, m), UNCHANGED dialed
  PROVE  Streams(wire') /\ HostPart'
<1>1. /\ Streams(wire')
      /\ \/ UNCHANGED proc
         \/ proc' = [proc EXCEPT ![b] = "gone"]
  BY GuiStreams
<1>2. HostPart
  BY DEF LoginTypes
<1>. QED BY <1>1, <1>2 DEF HostPart

\* Types after the steps of main().
LEMMA MainTypes ==
  ASSUME LoginTypes, NEW b \in Guis, Main(b)
  PROVE  BackSide'
<1>1. /\ Streams(wire) /\ HostPart /\ main \in [Guis -> Mains]
      /\ greeter \in [Guis -> {"none", "accept", "read"}] /\ auth \in [Guis -> [valid : BOOLEAN, shaken : BOOLEAN]]
      /\ logon \in [Guis -> {"none", "asked", "answered"}] /\ token \in [Guis -> Tokens \cup {None}]
  BY DEF LoginTypes, BackPart, BackStartTypes, Mains
<1>2. ASSUME Streams(wire'), HostPart', main' \in [Guis -> Mains], UNCHANGED <<token, greeter, auth, logon>>
      PROVE  BackSide'
  BY <1>1, <1>2 DEF BackSide, BackPart, BackStartTypes, Mains
<1>3. {[type |-> "Status", status |-> "Initialize"], [type |-> "Status", status |-> "Running"],
       [type |-> "Status", status |-> "Stop"]} \subseteq FromBackMessages
  BY DEF FromBackMessages
<1>4. ASSUME wire' = Exit(wire, b), proc' = [proc EXCEPT ![b] = "gone"], UNCHANGED <<backStartVars, dialed>>
      PROVE  BackSide'
  <2>1. Streams(wire')
    BY <1>4, ExitStreams
  <2>2. HostPart'
    BY <1>1, <1>4 DEF HostPart
  <2>. QED BY <1>1, <1>2, <1>4, <2>1, <2>2 DEF backStartVars
<1>5. CASE KilledEarly(b)
  BY <1>4, <1>5 DEF KilledEarly
<1>6. CASE Joined(b)
  BY <1>4, <1>6 DEF Joined
<1>7. CASE Connect(b)
  <2>1. /\ main' = [main EXCEPT ![b] = "wait"] /\ UNCHANGED <<token, greeter, auth, logon, proc, dialed>>
        /\ wire' = Put(wire, "backToInitiator", b,
                       [type |-> "BackToInitiatorAuth", key |-> ApiKey[b], port |-> b])
    BY <1>7 DEF Connect
  <2>2. Streams(wire')
    BY <2>1, CallStreams
  <2>3. main' \in [Guis -> Mains] /\ HostPart'
    BY <1>1, <2>1 DEF Mains, HostPart
  <2>. QED BY <1>2, <2>1, <2>2, <2>3
<1>8. CASE FrontendThere(b)
  <2>1. main' = [main EXCEPT ![b] = "dial"] /\ UNCHANGED <<token, greeter, auth, logon, wire, proc, dialed>>
    BY <1>8 DEF FrontendThere, hostVars
  <2>2. main' \in [Guis -> Mains] /\ HostPart'
    BY <1>1, <2>1 DEF Mains, HostPart
  <2>. QED BY <1>1, <1>2, <2>1, <2>2
<1>9. CASE Initialize(b)
  <2>1. /\ main' = [main EXCEPT ![b] = "core"] /\ UNCHANGED <<token, greeter, auth, logon, dialed>>
        /\ ToGui(b, [type |-> "Status", status |-> "Initialize"])
    BY <1>9 DEF Initialize
  <2>2. Streams(wire') /\ HostPart'
    BY <1>3, <2>1, ToGuiTypes
  <2>3. main' \in [Guis -> Mains]
    BY <1>1, <2>1 DEF Mains
  <2>. QED BY <1>2, <2>1, <2>2, <2>3
<1>10. CASE Start(b)
  <2>1. /\ main' = [main EXCEPT ![b] = "run"] /\ UNCHANGED <<token, greeter, auth, logon, dialed>>
        /\ ToGui(b, [type |-> "Status", status |-> "Running"])
    BY <1>10 DEF Start
  <2>2. Streams(wire') /\ HostPart'
    BY <1>3, <2>1, ToGuiTypes
  <2>3. main' \in [Guis -> Mains]
    BY <1>1, <2>1 DEF Mains
  <2>. QED BY <1>2, <2>1, <2>2, <2>3
<1>11. CASE Stop(b)
  <2>1. /\ main' = [main EXCEPT ![b] = "stop"] /\ UNCHANGED <<token, greeter, auth, logon, dialed>>
        /\ ToGui(b, [type |-> "Status", status |-> "Stop"])
    BY <1>11 DEF Stop
  <2>2. Streams(wire') /\ HostPart'
    BY <1>3, <2>1, ToGuiTypes
  <2>3. main' \in [Guis -> Mains]
    BY <1>1, <2>1 DEF Mains
  <2>. QED BY <1>2, <2>1, <2>2, <2>3
<1>. QED BY <1>5, <1>6, <1>7, <1>8, <1>9, <1>10, <1>11 DEF Main

\* Types after the steps of the other threads of a back.
LEMMA GreeterTypes ==
  ASSUME LoginTypes, NEW b \in Guis, Greeter(b) \/ LoggedOn(b)
  PROVE  BackSide'
<1>1. /\ Streams(wire) /\ HostPart /\ main \in [Guis -> Mains]
      /\ greeter \in [Guis -> {"none", "accept", "read"}] /\ auth \in [Guis -> [valid : BOOLEAN, shaken : BOOLEAN]]
      /\ logon \in [Guis -> {"none", "asked", "answered"}] /\ token \in [Guis -> Tokens \cup {None}]
  BY DEF LoginTypes, BackPart, BackStartTypes, Mains
<1>2. ASSUME Streams(wire'), HostPart', UNCHANGED main,
             greeter' \in [Guis -> {"none", "accept", "read"}], auth' \in [Guis -> [valid : BOOLEAN, shaken : BOOLEAN]],
             logon' \in [Guis -> {"none", "asked", "answered"}], token' \in [Guis -> Tokens \cup {None}]
      PROVE  BackSide'
  BY <1>1, <1>2 DEF BackSide, BackPart, BackStartTypes, Mains
<1>3. CASE SetupToken(b)
  <2>1. /\ ~AtEnd("initiatorToBack", b) /\ wire' = Take(wire, "initiatorToBack", b)
        /\ token' = [token EXCEPT ![b] = First("initiatorToBack", b).token]
        /\ greeter' = [greeter EXCEPT ![b] = "accept"]
        /\ UNCHANGED <<main, auth, logon, proc, dialed>>
    BY <1>3 DEF SetupToken
  <2>2. "initiatorToBack" \in Directions
    BY DEF Directions
  <2>3. First("initiatorToBack", b).token \in Tokens
    <3>1. First("initiatorToBack", b) \in Messages("initiatorToBack", b)
      BY <1>1, <2>1, <2>2, FirstFits
    <3>. QED BY <3>1 DEF Messages
  <2>4. Streams(wire') /\ HostPart'
    BY <1>1, <2>1, <2>2, ReadStreams DEF HostPart
  <2>5. token' \in [Guis -> Tokens \cup {None}] /\ greeter' \in [Guis -> {"none", "accept", "read"}]
    BY <1>1, <2>1, <2>3
  <2>. QED BY <1>1, <1>2, <2>1, <2>4, <2>5
<1>4. CASE AcceptGui(b)
  <2>1. /\ greeter' = [greeter EXCEPT ![b] = "read"]
        /\ UNCHANGED <<main, token, auth, logon, wire, proc, dialed>>
    BY <1>4 DEF AcceptGui, hostVars
  <2>2. greeter' \in [Guis -> {"none", "accept", "read"}] /\ HostPart'
    BY <1>1, <2>1 DEF HostPart
  <2>. QED BY <1>1, <1>2, <2>1, <2>2
<1>5. CASE Validate(b)
  <2> DEFINE taken == Take(wire, "screenToBack", b)
             m == First("screenToBack", b)
             n == [type |-> "BackToFrontValidToken"]
             r == [type |-> "Reject"]
  <2>1. UNCHANGED <<main, token, greeter, proc, dialed>>
    BY <1>5 DEF Validate
  <2>2. n \in FromBackMessages /\ r \in FromBackMessages
    BY DEF FromBackMessages
  <2>3. \E k \in FromBackMessages : wire' = Put(taken, "backToScreen", b, k) \/ wire' = taken
    BY <1>5, <2>2 DEF Validate
  <2>4. auth' \in [Guis -> [valid : BOOLEAN, shaken : BOOLEAN]]
    <3>1. \/ auth' = auth
          \/ auth' = [auth EXCEPT ![b].valid = TRUE]
          \/ auth' = [auth EXCEPT ![b].shaken = TRUE]
      BY <1>5 DEF Validate
    <3>2. auth[b] \in [valid : BOOLEAN, shaken : BOOLEAN]
      BY <1>1
    <3>3. PICK v \in [valid : BOOLEAN, shaken : BOOLEAN] : v = [auth[b] EXCEPT !.valid = TRUE]
      BY <3>2
    <3>4. PICK s \in [valid : BOOLEAN, shaken : BOOLEAN] : s = [auth[b] EXCEPT !.shaken = TRUE]
      BY <3>2
    <3>5. auth' = auth \/ auth' = [auth EXCEPT ![b] = v] \/ auth' = [auth EXCEPT ![b] = s]
      BY <3>1, <3>3, <3>4
    <3>. QED BY <1>1, <3>5
  <2>5. logon' \in [Guis -> {"none", "asked", "answered"}]
    BY <1>1, <1>5 DEF Validate
  <2>6. Streams(wire')
    BY <2>3, ValidateStreams
  <2>7. HostPart'
    BY <1>1, <2>1 DEF HostPart
  <2>. QED BY <1>1, <1>2, <2>1, <2>4, <2>5, <2>6, <2>7
<1>6. CASE LoggedOn(b)
  <2>1. /\ logon' = [logon EXCEPT ![b] = "answered"] /\ ToGui(b, [type |-> "Logon"])
        /\ UNCHANGED <<main, token, greeter, auth, dialed>>
    BY <1>6 DEF LoggedOn
  <2>2. [type |-> "Logon"] \in FromBackMessages
    BY DEF FromBackMessages
  <2>3. Streams(wire') /\ HostPart'
    BY <2>1, <2>2, ToGuiTypes
  <2>4. logon' \in [Guis -> {"none", "asked", "answered"}]
    BY <1>1, <2>1
  <2>. QED BY <1>1, <1>2, <2>1, <2>3, <2>4
<1>. QED BY <1>3, <1>4, <1>5, <1>6 DEF Greeter

\* Only FrontHandler closes a session.
LEMMA ClosedTypes ==
  ASSUME LoginTypes,
         FrontHandler \/ FrontPool \/ BackHandler \/ IdentifyBack \/ RemoveSession
  PROVE  ClosedPart'
<1>1. ClosedPart
  BY InitiatorParts DEF LoginTypes
<1>2. UNCHANGED closed \/ \E g \in Guis : CloseOf(g)
  BY DEF FrontHandler, AcceptFront, FrontMessage, FrontEnd, StopBack, BackReaped, RemoveSession, FrontPool,
         LookUp, MarkConnected, Identify, ForkBack, BackHandler, BackMessage, IdentifyBack
<1>. QED BY <1>1, <1>2 DEF ClosedPart, CloseOf

\* A step of one program keeps the types of the others, and a step of none all.
LEMMA TypeStep ==
  LoginTypes /\ [Next]_vars => LoginTypes'
<1> SUFFICES ASSUME LoginTypes, [Next]_vars PROVE LoginTypes'
  OBVIOUS
<1>1. ASSUME UNCHANGED initiatorVars PROVE InitiatorPart' /\ AcceptedInv' /\ TurnInv'
  BY <1>1 DEF LoginTypes, InitiatorPart, InitiatorTypes, AcceptedInv, Accepted, TurnInv, Rows,
              initiatorVars, frontVars, backVars
<1>2. ASSUME UNCHANGED screenVars PROVE ScreenPart'
  BY <1>2 DEF LoginTypes, ScreenPart, ScreenTypes, screenVars
<1>3. ASSUME UNCHANGED backStartVars PROVE BackPart'
  BY <1>3 DEF LoginTypes, BackPart, BackStartTypes, backStartVars
<1>4. ASSUME ScreenSide', UNCHANGED <<initiatorVars, backStartVars>> PROVE LoginTypes'
  BY <1>1, <1>3, <1>4 DEF ScreenSide, LoginTypes
<1>5. ASSUME InitiatorSide', ClosedPart', UNCHANGED <<screenVars, backStartVars>> PROVE LoginTypes'
  <2>1. InitiatorPart'
    BY <1>5, InitiatorParts, PTL DEF InitiatorSide
  <2>. QED BY <1>2, <1>3, <1>5, <2>1 DEF InitiatorSide, LoginTypes
<1>6. ASSUME BackSide', UNCHANGED <<screenVars, initiatorVars>> PROVE LoginTypes'
  BY <1>1, <1>2, <1>6 DEF BackSide, LoginTypes
<1>7. CASE UNCHANGED vars
  <2>1. UNCHANGED <<initiatorVars, backStartVars>> /\ UNCHANGED hostVars /\ UNCHANGED screenVars
    BY <1>7 DEF vars
  <2>2. ScreenSide'
    BY <1>2, <2>1 DEF ScreenSide, LoginTypes, HostPart, hostVars
  <2>. QED BY <1>4, <2>1, <2>2
<1>8. ASSUME NEW g \in Guis, InterfaceStep(g) \/ ManagersStep(g) \/ UserStep(g) PROVE LoginTypes'
  BY <1>4, <1>8, InterfaceTypes, ManagersTypes, UserTypes DEF InterfaceStep, ManagersStep, UserStep
<1>9. CASE FrontHandlerStep
  BY <1>5, <1>9, FrontHandlerTypes, ClosedTypes DEF FrontHandlerStep
<1>10. CASE FrontPoolStep
  BY <1>5, <1>10, FrontPoolTypes, ClosedTypes DEF FrontPoolStep
<1>11. CASE BackHandlerStep
  BY <1>5, <1>11, BackHandlerTypes, ClosedTypes DEF BackHandlerStep, BackHandler
<1>12. CASE BackPoolStep
  BY <1>5, <1>12, BackPoolTypes, ClosedTypes DEF BackPoolStep
<1>13. CASE RemoveStep
  BY <1>5, <1>13, RemoveTypes, ClosedTypes DEF RemoveStep
<1>14. ASSUME NEW b \in Guis, MainStep(b) \/ GreeterStep(b) \/ ServerStep(b) PROVE LoginTypes'
  BY <1>6, <1>14, MainTypes, GreeterTypes DEF MainStep, GreeterStep, ServerStep
<1>. QED BY <1>7, <1>8, <1>9, <1>10, <1>11, <1>12, <1>13, <1>14 DEF Next, Threads

\* Init has the types.
LEMMA TypeInit ==
  Init => LoginTypes
<1> SUFFICES ASSUME Init PROVE LoginTypes
  OBVIOUS
<1> USE DEF Init
<1>1. \A S : <<>> \in Seq(S) /\ ToSet(<<>>) = {}
  BY EmptySeq, Contents
<1>2. Streams(wire)
  <2>1. \A d \in Directions, g \in Guis :
          [NewStream EXCEPT !.open = d \notin {"toInitiator", "toScreen"}] \in Stream(d, g)
    BY <1>1 DEF NewStream, Stream
  <2>2. \A d \in Directions, g \in Guis : wire[d][g] \in Stream(d, g)
    BY <2>1 DEF HostInit
  <2>3. \A d \in Directions, g \in Guis : Stream(d, g) \subseteq AnyStream
    BY DEF AnyStream
  <2>4. wire \in [Directions -> [Guis -> AnyStream]]
    BY <2>1, <2>3 DEF HostInit
  <2>. QED BY <2>2, <2>4 DEF Streams
<1>3. ScreenPart
  <2>1. 0 \in 0..MaxSubmits
    BY BoundsAssumption
  <2>2. [stage |-> "form", tries |-> 0, name |-> None, back |-> None] \in Screens
    <3>1. "form" \in Stages /\ None \in Names
      BY DEF Stages, Names
    <3>. QED BY <2>1, <3>1 DEF Screens
  <2>3. screen \in [Guis -> Screens] /\ events \in [Guis -> Seq(Signals)] /\ lost \subseteq Guis
    BY <1>1, <2>2 DEF ScreenInit
  <2>. QED BY <2>3 DEF ScreenPart, ScreenTypes, Screens, Names
<1>4. HostPart
  BY DEF HostPart, HostInit
<1>5. InitiatorPart
  BY <1>1 DEF InitiatorPart, InitiatorTypes, InitiatorInit
<1>6. BackPart
  BY DEF BackPart, BackStartTypes, BackStartInit
<1>7. AcceptedInv /\ TurnInv
  <2>1. Served(<<>>) = {} /\ Distinct(<<>>)
    BY <1>1 DEF Served, Distinct
  <2>. QED BY <1>1, <2>1 DEF AcceptedInv, TurnInv, InitiatorInit
<1>. QED BY <1>2, <1>3, <1>4, <1>5, <1>6, <1>7 DEF LoginTypes

\* Every variable of a login keeps its type.
THEOREM TypeCorrect == Spec => []TypeOK
<1>1. LoginTypes => TypeOK
  <2> SUFFICES ASSUME LoginTypes PROVE TypeOK
    OBVIOUS
  <2>1. \A d \in Directions, g \in Guis :
          /\ DOMAIN wire[d][g] = DOMAIN NewStream
          /\ wire[d][g].edge \in BOOLEAN /\ wire[d][g].open \in BOOLEAN /\ wire[d][g].ended \in BOOLEAN
    BY DEF LoginTypes, Streams, Stream, NewStream
  <2>. QED BY <2>1 DEF TypeOK, HostTypes, LoginTypes, HostPart, ScreenPart, InitiatorPart, BackPart
<1>. QED BY TypeInit, TypeStep, <1>1, PTL DEF Spec


-----------------------------------------------------------------------------
(* Where the login of a GUI is *)

\* A back was given to the session of a GUI that has ended, for good: its own
\* back has had its turn.
Astray == \E g \in Guis :
  /\ screen[g].stage = "gone" /\ session[g] # None /\ session[g].socket \notin {None, g}
  /\ main[g] # "start" /\ wire["backToInitiator"][g].bytes = <<>>
Good == Patient /\ ~Astray

Bytes(d, g) == wire[d][g].bytes
Linked(g) == wire["toInitiator"][g].open /\ wire["toScreen"][g].open
Named(g) == session[g] # None /\ session[g].key # None
AtFork(g) == login = "named" /\ Head(tasks).of = g

\* The back of g has not told its port.
Untold(g) == main[g] = "start" /\ Bytes("backToInitiator", g) = <<>> /\ g \notin Served(backTasks)

\* g is not identified.
Stranger(g) == ~Named(g) /\ proc[g] = "none" /\ Untold(g)
Asks(g) == Stranger(g) /\ screen[g].stage = "asked" /\ Linked(g)
Idle(g) == Bytes("toInitiator", g) = <<>> /\ g \notin Served(tasks)
Silent(g) == Bytes("toScreen", g) = <<>> /\ events[g] = <<>>

AtForm(g) ==
  /\ Stranger(g) /\ Idle(g) /\ Bytes("toScreen", g) = <<>>
  /\ screen[g].stage \in {"form", "connecting", "gone"}
  /\ screen[g].stage = "form" /\ screen[g].tries # 0 => Linked(g)
  /\ \/ events[g] = <<>>
     \/ /\ screen[g].stage = "connecting" /\ Linked(g)
        /\ Single(events[g]) /\ Head(events[g]).type = "connectionReady"
AskSent(g) == Asks(g) /\ Silent(g) /\ Single(Bytes("toInitiator", g)) /\ g \notin Served(tasks)
AskPooled(g) == Asks(g) /\ Silent(g) /\ Bytes("toInitiator", g) = <<>> /\ g \in Served(tasks) /\ ~AtFork(g)
Refused(g) == /\ Asks(g) /\ Idle(g) /\ events[g] = <<>>
              /\ Single(Bytes("toScreen", g)) /\ Head(Bytes("toScreen", g)).type = "Reject"
RefusalRead(g) == /\ Asks(g) /\ Idle(g) /\ Bytes("toScreen", g) = <<>>
                  /\ Single(events[g]) /\ Head(events[g]).type = "Reject"

\* g is identified, and its back has not been given to its session.
Answers(g) == ToSet(Bytes("toScreen", g)) \cup ToSet(events[g])
Waits(g) ==
  /\ Named(g) /\ Bytes("toInitiator", g) = <<>> /\ screen[g].stage \in {"asked", "named"}
  /\ \A m \in Answers(g) : m.type = "InitiatorToFrontAuth"
Started(g) == g \notin Served(tasks) /\ proc[g] # "none"
Told(g) == Started(g) /\ main[g] # "start"

Forking(g) == Waits(g) /\ AtFork(g) /\ g \in Served(tasks) /\ proc[g] = "none" /\ Untold(g)
Launched(g) == Waits(g) /\ Started(g) /\ Untold(g)
PortSent(g) == Waits(g) /\ Told(g) /\ Single(Bytes("backToInitiator", g)) /\ g \notin Served(backTasks)
PortPooled(g) == Waits(g) /\ Told(g) /\ Bytes("backToInitiator", g) = <<>> /\ g \in Served(backTasks)
PortKnown(g) ==
  /\ Named(g) /\ Told(g)
  /\ Bytes("toInitiator", g) = <<>> /\ Bytes("backToInitiator", g) = <<>> /\ g \notin Served(backTasks)
  /\ screen[g].stage \notin {"form", "connecting"}
  /\ \A m \in Answers(g) : /\ m.type \notin {"Reject", "connectionReady"}
                           /\ m.type = "InitiatorToFrontValidToken" => m.port = g

\* What carries the login on is in one of ten places.
PlaceOf(g) ==
  \/ AtForm(g) \/ AskSent(g) \/ AskPooled(g) \/ Refused(g) \/ RefusalRead(g)
  \/ Forking(g) \/ Launched(g) \/ PortSent(g) \/ PortPooled(g) \/ PortKnown(g)
PlaceInv == \A g \in Guis : PlaceOf(g)
QueuesOnce == Once(tasks) /\ Once(backTasks) /\ \A m \in ToSet(backTasks) : m.port = m.of
OwnDial == \A g \in Guis : /\ dialed[g] \in {None, g} /\ screen[g].back \in {None, g}
                           /\ dialed[g] = g \/ screen[g].back = g => PortKnown(g)

\* g uses its account: no other GUI does, and the account is set connected.  A
\* GUI that ends does so until FrontHandler has seen it.
Owner(g) == Named(g) /\ (screen[g].stage # "gone" \/ wire["toInitiator"][g].edge)
OwnerInv ==
  /\ \A g, h \in Guis : Owner(g) /\ Owner(h) /\ ApiKey[g] = ApiKey[h] => g = h
  /\ \A g \in Guis : Owner(g) => \A r \in Accounts : Key[r] = ApiKey[g] => r \in connected
  /\ \A g \in Guis : Named(g) => \E r \in Accounts : Key[r] = ApiKey[g]
  /\ login \in {"found", "marked"} => \A h \in Guis : Owner(h) => ApiKey[h] # Head(tasks).msg.key
  /\ login = "marked" => Rows(Head(tasks).msg.key, Head(tasks).msg.name) \subseteq connected

\* A GUI whose stream ends has ended, and handles no signals.
EndInv == \A g \in Guis :
  /\ wire["toInitiator"][g].ended => screen[g].stage \in Ended
  /\ screen[g].stage \in Ended => events[g] = <<>>
PortInv == PlaceInv /\ QueuesOnce /\ OwnDial /\ OwnerInv

-----------------------------------------------------------------------------
(* What the steps change of a stream, and of a place *)

\* The other streams of a direction are as they were, and this one is open and
\* ended as before.
Steady(d, g) ==
  /\ \A h \in Guis \ {g} : wire'[d][h] = wire[d][h]
  /\ \A h \in Guis : wire'[d][h].open = wire[d][h].open /\ wire'[d][h].ended = wire[d][h].ended

\* What send() does.
LEMMA PutEffect ==
  ASSUME Streams(wire), NEW d \in Directions, NEW g \in Guis, NEW m, Becomes(d, g, AfterPut(wire[d][g], m))
  PROVE  /\ Steady(d, g)
         /\ wire[d][g].open => Bytes(d, g)' = Append(Bytes(d, g), m)
         /\ ~wire[d][g].open => wire'[d][g] = wire[d][g]
<1>1. wire[d][g] \in Stream(d, g)
  BY DEF Streams
<1>. QED BY <1>1 DEF Stream, AfterPut, Becomes, Bytes, Steady

\* What a read does.
LEMMA TakeEffect ==
  ASSUME Streams(wire), NEW d \in Directions, NEW g \in Guis, Becomes(d, g, AfterTake(wire[d][g]))
  PROVE  /\ Steady(d, g) /\ wire'[d][g].edge = FALSE
         /\ Bytes(d, g) # <<>> => Bytes(d, g)' = Tail(Bytes(d, g))
         /\ Bytes(d, g) = <<>> => Bytes(d, g)' = <<>>
<1>1. wire[d][g] \in Stream(d, g)
  BY DEF Streams
<1>. QED BY <1>1 DEF Stream, AfterTake, Becomes, Bytes, Steady

\* What the end of a stream does.
LEMMA EndEffect ==
  ASSUME Streams(wire), NEW d \in Directions, NEW g \in Guis, Becomes(d, g, AfterEnd(wire[d][g]))
  PROVE  /\ \A h \in Guis \ {g} : wire'[d][h] = wire[d][h]
         /\ \A h \in Guis : Bytes(d, h)' = Bytes(d, h) /\ wire'[d][h].open = wire[d][h].open
         /\ wire'[d][g].edge = TRUE
<1>1. wire[d][g] \in Stream(d, g)
  BY DEF Streams
<1>. QED BY <1>1 DEF Stream, AfterEnd, Becomes, Bytes

\* What one more report does.
LEMMA EdgeEffect ==
  ASSUME Streams(wire), NEW d \in Directions, NEW g \in Guis, Becomes(d, g, AfterEdge(wire[d][g]))
  PROVE  Steady(d, g) /\ \A h \in Guis : Bytes(d, h)' = Bytes(d, h)
<1>1. wire[d][g] \in Stream(d, g)
  BY DEF Streams
<1>. QED BY <1>1 DEF Stream, AfterEdge, Becomes, Bytes, Steady

\* What a reader does that opens or closes its end.
LEMMA OpenEffect ==
  ASSUME Streams(wire), NEW d \in Directions, NEW g \in Guis, NEW b \in BOOLEAN,
         Becomes(d, g, AfterOpen(wire[d][g], b))
  PROVE  /\ \A h \in Guis \ {g} : wire'[d][h] = wire[d][h]
         /\ \A h \in Guis : /\ Bytes(d, h)' = Bytes(d, h) /\ wire'[d][h].ended = wire[d][h].ended
                           /\ wire'[d][h].edge = wire[d][h].edge
         /\ wire'[d][g].open = b
<1>1. wire[d][g] \in Stream(d, g)
  BY DEF Streams
<1>. QED BY <1>1 DEF Stream, AfterOpen, Becomes, Bytes

\* Nothing happens that the place of g tells apart.
SameView(g) ==
  /\ screen'[g].stage = screen[g].stage /\ screen'[g].tries = screen[g].tries
  /\ events'[g] = events[g]
  /\ Bytes("toInitiator", g)' = Bytes("toInitiator", g)
  /\ Bytes("toScreen", g)' = Bytes("toScreen", g)
  /\ Bytes("backToInitiator", g)' = Bytes("backToInitiator", g)
  /\ (Linked(g) => Linked(g)')
  /\ (Named(g)' <=> Named(g))
  /\ (proc'[g] = "none" <=> proc[g] = "none")
  /\ (main'[g] = "start" <=> main[g] = "start")
  /\ (g \in Served(tasks)' <=> g \in Served(tasks))
  /\ (g \in Served(backTasks)' <=> g \in Served(backTasks))
  /\ (AtFork(g)' <=> AtFork(g))

\* g has a place after the step, and stays at the last one.
Moves(g) == PlaceOf(g)' /\ (PortKnown(g) => PortKnown(g)')

\* Then it stays where it is.
LEMMA Stays ==
  ASSUME NEW g \in Guis, PlaceOf(g), SameView(g)
  PROVE  Moves(g)
<1>1. AtForm(g) => AtForm(g)'
  BY DEF SameView, AtForm, Stranger, Untold, Idle
<1>2. AskSent(g) => AskSent(g)'
  BY DEF SameView, AskSent, Asks, Silent, Stranger, Untold
<1>3. AskPooled(g) => AskPooled(g)'
  BY DEF SameView, AskPooled, Asks, Silent, Stranger, Untold
<1>4. Refused(g) => Refused(g)'
  BY DEF SameView, Refused, Asks, Idle, Stranger, Untold
<1>5. RefusalRead(g) => RefusalRead(g)'
  BY DEF SameView, RefusalRead, Asks, Idle, Stranger, Untold
<1>6. Answers(g)' = Answers(g)
  BY DEF SameView, Answers
<1>7. Waits(g) => Waits(g)'
  BY <1>6 DEF SameView, Waits
<1>8. Forking(g) => Forking(g)'
  BY <1>7 DEF SameView, Forking, Untold
<1>9. Launched(g) => Launched(g)'
  BY <1>7 DEF SameView, Launched, Started, Untold
<1>10. PortSent(g) => PortSent(g)'
  BY <1>7 DEF SameView, PortSent, Told, Started
<1>11. PortPooled(g) => PortPooled(g)'
  BY <1>7 DEF SameView, PortPooled, Told, Started
<1>12. PortKnown(g) => PortKnown(g)'
  BY <1>6 DEF SameView, PortKnown, Told, Started
<1>. QED BY <1>1, <1>2, <1>3, <1>4, <1>5, <1>8, <1>9, <1>10, <1>11, <1>12 DEF Moves, PlaceOf

\* Backs and GUIs are connected as they were.
LEMMA DialKept ==
  ASSUME OwnDial, UNCHANGED dialed, \A g \in Guis : screen'[g].back = screen[g].back,
         \A g \in Guis : Moves(g)
  PROVE  OwnDial'
BY DEF OwnDial, Moves

\* Accounts are used as they were, or less.
LEMMA OwnerKept ==
  ASSUME OwnerInv, connected \subseteq connected',
         \A g \in Guis : (Owner(g)' => Owner(g)) /\ (Named(g)' => Named(g)),
         login' \in {"found", "marked"} => login' = login /\ Head(tasks)' = Head(tasks)
  PROVE  OwnerInv'
<1>1. \A g, h \in Guis : Owner(g)' /\ Owner(h)' /\ ApiKey[g] = ApiKey[h] => g = h
  BY DEF OwnerInv
<1>2. \A g \in Guis : Owner(g)' => \A r \in Accounts : Key[r] = ApiKey[g] => r \in connected'
  BY DEF OwnerInv
<1>3. \A g \in Guis : Named(g)' => \E r \in Accounts : Key[r] = ApiKey[g]
  BY DEF OwnerInv
<1>4. login' \in {"found", "marked"} => \A h \in Guis : Owner(h)' => ApiKey[h] # Head(tasks)'.msg.key
  BY DEF OwnerInv
<1>5. login' = "marked" => Rows(Head(tasks).msg.key, Head(tasks).msg.name)' \subseteq connected'
  BY DEF OwnerInv, Rows
<1>. QED BY <1>1, <1>2, <1>3, <1>4, <1>5 DEF OwnerInv

\* What is left of SameView once g is identified and its signals are handled.
LateView(g) ==
  /\ Bytes("toInitiator", g)' = Bytes("toInitiator", g)
  /\ Bytes("backToInitiator", g)' = Bytes("backToInitiator", g)
  /\ (Named(g)' <=> Named(g))
  /\ (proc'[g] = "none" <=> proc[g] = "none")
  /\ (main'[g] = "start" <=> main[g] = "start")
  /\ (g \in Served(tasks)' <=> g \in Served(tasks))
  /\ (g \in Served(backTasks)' <=> g \in Served(backTasks))
  /\ (AtFork(g)' <=> AtFork(g))

Late(g) == Forking(g) \/ Launched(g) \/ PortSent(g) \/ PortPooled(g) \/ PortKnown(g)

\* The interface reads an answer, or handles it.
LEMMA LateStays ==
  ASSUME NEW g \in Guis, Late(g), LateView(g), Answers(g)' \subseteq Answers(g),
         screen'[g].stage \notin {"form", "connecting"},
         PortKnown(g) \/ screen'[g].stage \in {"asked", "named"}
  PROVE  Moves(g)
<1>1. PortKnown(g) => PortKnown(g)'
  BY DEF LateView, PortKnown, Told, Started
<1>2. CASE PortKnown(g)
  BY <1>1, <1>2 DEF Moves, PlaceOf
<1>3. CASE ~PortKnown(g)
  <2>1. Waits(g) => Waits(g)'
    BY <1>3 DEF LateView, Waits
  <2>2. Forking(g) => Forking(g)'
    BY <2>1 DEF LateView, Forking, Untold
  <2>3. Launched(g) => Launched(g)'
    BY <2>1 DEF LateView, Launched, Started, Untold
  <2>4. PortSent(g) => PortSent(g)'
    BY <2>1 DEF LateView, PortSent, Told, Started
  <2>5. PortPooled(g) => PortPooled(g)'
    BY <2>1 DEF LateView, PortPooled, Told, Started
  <2>. QED BY <1>3, <2>2, <2>3, <2>4, <2>5 DEF Moves, PlaceOf, Late
<1>. QED BY <1>2, <1>3

\* Where a GUI is whose interface has a signal to handle.
LEMMA EventPlace ==
  ASSUME LoginTypes, NEW g \in Guis, PlaceOf(g), events[g] # <<>>
  PROVE  \/ /\ AtForm(g) /\ screen[g].stage = "connecting" /\ Linked(g)
            /\ Tail(events[g]) = <<>> /\ Head(events[g]).type = "connectionReady"
         \/ RefusalRead(g) /\ Tail(events[g]) = <<>> /\ Head(events[g]).type = "Reject"
         \/ Late(g) /\ Head(events[g]).type = "InitiatorToFrontAuth"
         \/ /\ PortKnown(g) /\ Head(events[g]).type \notin {"Reject", "connectionReady"}
            /\ Head(events[g]).type = "InitiatorToFrontValidToken" => Head(events[g]).port = g
<1>1. Head(events[g]) \in Answers(g)
  BY ScreenFields, HeadTaken DEF Answers
<1>2. AtForm(g) => /\ screen[g].stage = "connecting" /\ Linked(g)
                   /\ Tail(events[g]) = <<>> /\ Head(events[g]).type = "connectionReady"
  BY DEF AtForm, Single
<1>3. ~AskSent(g) /\ ~AskPooled(g) /\ ~Refused(g)
  BY DEF AskSent, AskPooled, Refused, Silent
<1>4. RefusalRead(g) => Tail(events[g]) = <<>> /\ Head(events[g]).type = "Reject"
  BY DEF RefusalRead, Single
<1>5. Waits(g) => Head(events[g]).type = "InitiatorToFrontAuth"
  BY <1>1 DEF Waits
<1>6. PortKnown(g) => /\ Head(events[g]).type \notin {"Reject", "connectionReady"}
                      /\ Head(events[g]).type = "InitiatorToFrontValidToken" => Head(events[g]).port = g
  BY <1>1 DEF PortKnown
<1>. QED BY <1>2, <1>3, <1>4, <1>5, <1>6 DEF PlaceOf, Late, Forking, Launched, PortSent, PortPooled

\* A step of one GUI moves no other one, and nothing in the initiator.
GuiFrame(g) ==
  /\ UNCHANGED <<initiatorVars, backStartVars, proc>>
  /\ \A h \in Guis \ {g} : /\ screen'[h] = screen[h] /\ events'[h] = events[h]
                           /\ wire'["toInitiator"][h] = wire["toInitiator"][h]
                           /\ wire'["toScreen"][h] = wire["toScreen"][h]
  /\ \A h \in Guis : wire'["backToInitiator"][h] = wire["backToInitiator"][h]

\* What stays the same of all GUIs.
LEMMA GuiView ==
  ASSUME NEW g \in Guis, GuiFrame(g)
  PROVE  /\ \A h \in Guis \ {g} : SameView(h) /\ Owner(h)' = Owner(h)
         /\ \A h \in Guis : Named(h)' = Named(h)
         /\ Bytes("backToInitiator", g)' = Bytes("backToInitiator", g)
         /\ (g \in Served(tasks)' <=> g \in Served(tasks))
         /\ (g \in Served(backTasks)' <=> g \in Served(backTasks))
         /\ (AtFork(g)' <=> AtFork(g)) /\ proc'[g] = proc[g] /\ main'[g] = main[g]
<1>1. /\ UNCHANGED <<session, tasks, login, backTasks, main, proc>>
  BY DEF GuiFrame, initiatorVars, frontVars, backVars, backStartVars
<1>2. \A h \in Guis : /\ Named(h)' = Named(h) /\ (AtFork(h)' <=> AtFork(h))
                      /\ Bytes("backToInitiator", h)' = Bytes("backToInitiator", h)
                      /\ (h \in Served(tasks)' <=> h \in Served(tasks))
                      /\ (h \in Served(backTasks)' <=> h \in Served(backTasks))
  BY <1>1 DEF Named, AtFork, Bytes, GuiFrame
<1>3. ASSUME NEW h \in Guis \ {g} PROVE SameView(h) /\ Owner(h)' = Owner(h)
  <2>1. /\ screen'[h] = screen[h] /\ events'[h] = events[h]
        /\ Bytes("toInitiator", h)' = Bytes("toInitiator", h)
        /\ Bytes("toScreen", h)' = Bytes("toScreen", h) /\ (Linked(h) => Linked(h)')
        /\ wire'["toInitiator"][h].edge = wire["toInitiator"][h].edge
    BY <1>3 DEF GuiFrame, Bytes, Linked
  <2>2. SameView(h)
    BY <1>1, <1>2, <2>1 DEF SameView
  <2>3. Owner(h)' = Owner(h)
    BY <1>2, <2>1 DEF Owner
  <2>. QED BY <2>2, <2>3
<1>. QED BY <1>1, <1>2, <1>3

\* Then its own move is all there is to show.
LEMMA GuiStep ==
  ASSUME PortInv, NEW g \in Guis, GuiFrame(g), Moves(g), Owner(g)' => Owner(g),
         (UNCHANGED dialed /\ screen'[g].back = screen[g].back) \/ OwnDial'
  PROVE  PortInv'
<1>1. UNCHANGED <<session, tasks, login, backTasks, connected>>
  BY DEF GuiFrame, initiatorVars, frontVars, backVars
<1>2. \A h \in Guis : Moves(h)
  <2>1. \A h \in Guis \ {g} : Moves(h)
    BY GuiView, Stays DEF PortInv, PlaceInv
  <2>. QED BY <2>1
<1>3. PlaceInv'
  BY <1>2 DEF PlaceInv, Moves
<1>4. QueuesOnce'
  BY <1>1 DEF PortInv, QueuesOnce
<1>5. OwnDial'
  <2>1. CASE UNCHANGED dialed /\ screen'[g].back = screen[g].back
    <3>1. \A h \in Guis : screen'[h].back = screen[h].back
      BY <2>1 DEF GuiFrame
    <3>. QED BY <1>2, <2>1, <3>1, DialKept DEF PortInv
  <2>. QED BY <2>1
<1>6. OwnerInv'
  <2>1. \A h \in Guis : (Owner(h)' => Owner(h)) /\ (Named(h)' => Named(h))
    BY GuiView
  <2>2. Head(tasks)' = Head(tasks) /\ login' = login /\ connected \subseteq connected'
    BY <1>1
  <2>. QED BY <2>1, <2>2, OwnerKept DEF PortInv
<1>. QED BY <1>3, <1>4, <1>5, <1>6 DEF PortInv

-----------------------------------------------------------------------------
(* The steps of the GUIs *)

\* These streams are those the places are told apart by.
LEMMA SomeDirections ==
  {"toInitiator", "toScreen", "backToInitiator", "initiatorToBack", "screenToBack", "backToScreen"} = Directions
BY DEF Directions

\* A GUI asks for the login.
LEMMA AskMoves ==
  ASSUME LoginTypes, PortInv, NEW g \in Guis, AtForm(g), Linked(g), NEW name \in Names,
         wire' = Put(wire, "toInitiator", g, Identification(g, name)),
         UNCHANGED <<initiatorVars, backStartVars, proc, dialed>>,
         screen'[g].stage = "asked", screen'[g].back = screen[g].back, events'[g] = <<>>,
         \A h \in Guis \ {g} : screen'[h] = screen[h] /\ events'[h] = events[h]
  PROVE  PortInv'
<1> DEFINE m == Identification(g, name)
<1>1. Streams(wire) /\ "toInitiator" \in Directions /\ "toScreen" \in Directions
  BY SomeDirections DEF LoginTypes
<1>2. /\ \A h \in Guis : /\ wire'["backToInitiator"][h] = wire["backToInitiator"][h]
                         /\ wire'["toScreen"][h] = wire["toScreen"][h]
      /\ Becomes("toInitiator", g, AfterPut(wire["toInitiator"][g], m)) /\ m \in Ident(g)
  BY AskStreams, SomeDirections DEF Kept
<1> HIDE DEF m
<1>3. /\ ~Named(g) /\ proc[g] = "none" /\ main[g] = "start" /\ Bytes("backToInitiator", g) = <<>>
      /\ g \notin Served(backTasks) /\ Bytes("toInitiator", g) = <<>> /\ g \notin Served(tasks)
      /\ Bytes("toScreen", g) = <<>> /\ wire["toInitiator"][g].open /\ wire["toScreen"][g].open
  BY DEF AtForm, Stranger, Untold, Idle, Linked
<1>4. /\ Steady("toInitiator", g) /\ Bytes("toInitiator", g)' = Append(<<>>, m)
  <2>1. wire["toInitiator"][g].open /\ Bytes("toInitiator", g) = <<>>
    BY <1>3
  <2>2. Steady("toInitiator", g) /\ Bytes("toInitiator", g)' = Append(Bytes("toInitiator", g), m)
    BY <1>1, <1>2, <2>1, PutEffect
  <2>. QED BY <2>1, <2>2
<1>5. GuiFrame(g)
  BY <1>2, <1>4 DEF GuiFrame, Steady
<1>6. Single(Bytes("toInitiator", g)') /\ Bytes("toScreen", g)' = <<>> /\ Linked(g)'
  <2>1. Single(Append(<<>>, m))
    BY <1>2, AppendedAlone
  <2>. QED BY <1>2, <1>3, <1>4, <2>1 DEF Bytes, Linked, Steady
<1>7. AskSent(g)'
  BY <1>3, <1>5, <1>6, GuiView DEF AskSent, Asks, Stranger, Untold, Silent
<1>8. ~PortKnown(g) /\ ~Owner(g)'
  BY <1>3, <1>5, GuiView DEF PortKnown, Owner
<1>. QED BY <1>5, <1>7, <1>8, GuiStep DEF Moves, PlaceOf

\* A click.
LEMMA SubmitMoves ==
  ASSUME LoginTypes, PortInv, NEW g \in Guis, NEW name \in Typed[g], Submit(g, name),
         UNCHANGED <<initiatorVars, backStartVars>>
  PROVE  PortInv'
<1>1. screen \in [Guis -> Screens] /\ screen[g] \in Screens
  BY ScreenFields
<1>2. screen[g].stage = "form" /\ PlaceOf(g)
  BY DEF Submit, PortInv, PlaceInv
<1>3. AtForm(g) /\ events[g] = <<>> /\ (screen[g].tries # 0 => Linked(g))
  BY <1>2 DEF PlaceOf, AtForm, AskSent, AskPooled, Refused, RefusalRead, Forking, Launched, PortSent,
              PortPooled, PortKnown, Asks, Waits
<1>4. name \in Names /\ UNCHANGED <<events, lost, proc, dialed>>
  BY DEF Names, Submit
<1>7. screen[g].tries < MaxSubmits /\ 1 \in 0..MaxSubmits /\ screen[g].tries + 1 \in 0..MaxSubmits
  BY <1>1, BoundsAssumption DEF Screens, Submit
<1>5. CASE screen[g].tries = 0
  <2>1. PICK s \in Screens :
          s = [[[screen[g] EXCEPT !.stage = "connecting"] EXCEPT !.tries = 1] EXCEPT !.name = name]
    BY <1>1, <1>4, <1>7 DEF Screens, Stages
  <2>7. s.stage = "connecting" /\ s.back = screen[g].back
    BY <1>1, <2>1 DEF Screens
  <2>2. screen' = [screen EXCEPT ![g] = s] /\ wire' = wire
    BY <1>5, <2>1 DEF Submit
  <2>3. /\ screen'[g].stage = "connecting" /\ screen'[g].back = screen[g].back
        /\ \A h \in Guis \ {g} : screen'[h] = screen[h]
    BY <1>1, <2>2, <2>7
  <2>4. GuiFrame(g)
    BY <1>4, <2>2, <2>3 DEF GuiFrame
  <2>5. AtForm(g)'
    BY <1>3, <1>4, <2>2, <2>3, <2>4, GuiView DEF AtForm, Stranger, Untold, Idle, Bytes
  <2>6. ~PortKnown(g) /\ ~Owner(g)'
    BY <1>3, <2>4, GuiView DEF PortKnown, Owner, AtForm, Stranger
  <2>. QED BY <1>4, <2>3, <2>4, <2>5, <2>6, GuiStep DEF Moves, PlaceOf
<1>6. CASE screen[g].tries # 0
  <2>1. PICK s \in Screens :
          s = [[[screen[g] EXCEPT !.stage = "asked"] EXCEPT !.tries = screen[g].tries + 1] EXCEPT !.name = name]
    BY <1>1, <1>4, <1>7 DEF Screens, Stages
  <2>5. s.stage = "asked" /\ s.back = screen[g].back
    BY <1>1, <2>1 DEF Screens
  <2>2. /\ screen' = [screen EXCEPT ![g] =
                        [screen[g] EXCEPT !.stage = "asked", !.tries = screen[g].tries + 1, !.name = name]]
        /\ wire' = Put(wire, "toInitiator", g, Identification(g, name))
    BY <1>6 DEF Submit
  <2>3. [screen[g] EXCEPT !.stage = "asked", !.tries = screen[g].tries + 1, !.name = name] = s
    BY <1>1, <2>1 DEF Screens
  <2>4. /\ screen'[g].stage = "asked" /\ screen'[g].back = screen[g].back
        /\ \A h \in Guis \ {g} : screen'[h] = screen[h]
    BY <1>1, <2>2, <2>3, <2>5
  <2>. QED BY <1>3, <1>4, <1>6, <2>2, <2>4, AskMoves
<1>. QED BY <1>5, <1>6

\* A GUI that quits in time.
LEMMA QuitMoves ==
  ASSUME LoginTypes, PortInv, NEW g \in Guis, Quit(g), Patient',
         UNCHANGED <<initiatorVars, backStartVars>>
  PROVE  PortInv'
<1>1. screen[g].back \in Guis \cup {None} /\ screen \in [Guis -> Screens] /\ events \in [Guis -> Seq(Signals)]
  BY ScreenFields DEF Screens, LoginTypes, ScreenPart
<1>2. /\ events' = [events EXCEPT ![g] = <<>>] /\ UNCHANGED <<lost, proc, dialed>>
      /\ Closes(g, screen[g].back)
  BY DEF Quit, Closes
<1>3. Goes(g, IF screen[g].stage \in {"form", "in"} THEN "gone" ELSE "aborted") /\ screen[g].stage \in Stages
  BY <1>1 DEF Quit, Screens
<1>4. PICK stage \in Stages : stage = (IF screen[g].stage \in {"form", "in"} THEN "gone" ELSE "aborted")
  BY DEF Stages
<1>5. \A h \in Guis : screen'[h] = IF h = g THEN [screen[g] EXCEPT !.stage = stage] ELSE screen[h]
  BY <1>3, <1>4, GoesTypes
<1>6. screen'[g].stage = stage /\ screen'[g].back = screen[g].back
  BY <1>1, <1>5 DEF Screens
<1>7. stage = "gone" /\ screen[g].stage \in {"form", "in"}
  BY <1>4, <1>6 DEF Patient
<1>8. /\ \A h \in Guis : wire'["backToInitiator"][h] = wire["backToInitiator"][h]
      /\ \A h \in Guis : Bytes("toInitiator", h)' = Bytes("toInitiator", h)
      /\ \A h \in Guis : Bytes("toScreen", h)' = Bytes("toScreen", h)
      /\ \A h \in Guis \ {g} : /\ wire'["toInitiator"][h] = wire["toInitiator"][h]
                               /\ wire'["toScreen"][h] = wire["toScreen"][h]
  <2>1. Streams(wire) /\ "toInitiator" \in Directions /\ "toScreen" \in Directions
    BY SomeDirections DEF LoginTypes
  <2>2. /\ Becomes("toInitiator", g, AfterEnd(wire["toInitiator"][g]))
        /\ Becomes("toScreen", g, AfterOpen(wire["toScreen"][g], FALSE)) /\ Kept({"backToInitiator"})
    BY <1>1, <1>2, QuitStreams DEF Kept
  <2>3. /\ \A h \in Guis \ {g} : wire'["toInitiator"][h] = wire["toInitiator"][h]
        /\ \A h \in Guis : Bytes("toInitiator", h)' = Bytes("toInitiator", h)
    BY <2>1, <2>2, EndEffect
  <2>4. /\ \A h \in Guis \ {g} : wire'["toScreen"][h] = wire["toScreen"][h]
        /\ \A h \in Guis : Bytes("toScreen", h)' = Bytes("toScreen", h)
    BY <2>1, <2>2, OpenEffect
  <2>. QED BY <2>2, <2>3, <2>4 DEF Kept
<1>9. GuiFrame(g)
  BY <1>1, <1>2, <1>5, <1>8 DEF GuiFrame
<1>10. /\ Bytes("toInitiator", g)' = Bytes("toInitiator", g) /\ Bytes("toScreen", g)' = Bytes("toScreen", g)
  BY <1>8
<1>11. events'[g] = <<>>
  BY <1>1, <1>2
<1>12. PlaceOf(g)
  BY DEF PortInv, PlaceInv
<1>13. CASE screen[g].stage = "form"
  <2>1. AtForm(g)
    BY <1>12, <1>13 DEF PlaceOf, AtForm, AskSent, AskPooled, Refused, RefusalRead, Forking, Launched, PortSent,
              PortPooled, PortKnown, Asks, Waits
  <2>2. AtForm(g)'
    BY <1>6, <1>7, <1>9, <1>10, <1>11, <2>1, GuiView DEF AtForm, Stranger, Untold, Idle
  <2>3. ~PortKnown(g) /\ ~Owner(g)'
    BY <1>9, <2>1, GuiView DEF PortKnown, Owner, AtForm, Stranger
  <2>. QED BY <1>2, <1>6, <1>9, <2>2, <2>3, GuiStep DEF Moves, PlaceOf
<1>14. CASE screen[g].stage = "in"
  <2>1. PortKnown(g)
    BY <1>12, <1>14 DEF PlaceOf, AtForm, AskSent, AskPooled, Refused, RefusalRead, Forking, Launched, PortSent,
              PortPooled, Asks, Waits
  <2>2. Answers(g)' \subseteq Answers(g)
    <3>1. ToSet(<<>>) = {}
      BY EmptySeq, Contents
    <3>. QED BY <1>10, <1>11, <3>1 DEF Answers
  <2>3. LateView(g)
    BY <1>9, <1>10, GuiView DEF LateView
  <2>4. Moves(g)
    BY <1>6, <1>7, <2>1, <2>2, <2>3, LateStays DEF Late
  <2>5. Owner(g)
    BY <1>14, <2>1 DEF Owner, PortKnown
  <2>. QED BY <1>2, <1>6, <1>9, <2>4, <2>5, GuiStep
<1>. QED BY <1>7, <1>13, <1>14

\* An answer of the initiator is handled.
LEMMA LateHandles ==
  ASSUME LoginTypes, EndInv, PortInv, NEW g \in Guis, Late(g), events[g] # <<>>, Handled(g),
         Kept(Directions \ {"screenToBack"}), UNCHANGED <<initiatorVars, backStartVars, proc>>,
         \A h \in Guis \ {g} : screen'[h] = screen[h],
         screen'[g].stage \notin {"form", "connecting"},
         PortKnown(g) \/ screen'[g].stage \in {"asked", "named"},
         \/ UNCHANGED dialed /\ screen'[g].back = screen[g].back
         \/ PortKnown(g) /\ dialed' = [dialed EXCEPT ![g] = g] /\ screen'[g].back = g
  PROVE  PortInv'
<1>1. /\ events'[g] = Tail(events[g]) /\ events[g] \in Seq(Signals)
      /\ \A h \in Guis \ {g} : events'[h] = events[h]
  BY HandledTypes, ScreenFields
<1>2. \A h \in Guis : /\ wire'["toInitiator"][h] = wire["toInitiator"][h]
                      /\ wire'["toScreen"][h] = wire["toScreen"][h]
                      /\ wire'["backToInitiator"][h] = wire["backToInitiator"][h]
  BY SomeDirections DEF Kept
<1>3. GuiFrame(g)
  BY <1>1, <1>2 DEF GuiFrame
<1>4. Answers(g)' \subseteq Answers(g)
  <2>1. ToSet(Tail(events[g])) \subseteq ToSet(events[g])
    BY <1>1, HeadTaken
  <2>. QED BY <1>1, <1>2, <2>1 DEF Answers, Bytes
<1>5. LateView(g)
  BY <1>2, <1>3, GuiView DEF LateView, Bytes
<1>6. Moves(g)
  BY <1>4, <1>5, LateStays
<1>7. Owner(g)' => Owner(g)
  <2>1. screen[g].stage # "gone"
    BY DEF EndInv, Ended
  <2>. QED BY <1>3, <2>1, GuiView DEF Owner
<1>8. (UNCHANGED dialed /\ screen'[g].back = screen[g].back) \/ OwnDial'
  <2>1. CASE PortKnown(g) /\ dialed' = [dialed EXCEPT ![g] = g] /\ screen'[g].back = g
    <3>1. PortKnown(g)' /\ dialed \in [Guis -> Guis \cup {None}]
      BY <1>6, <2>1 DEF Moves, LoginTypes, HostPart
    <3>2. \A h \in Guis \ {g} : dialed'[h] = dialed[h] /\ screen'[h].back = screen[h].back
      BY <2>1, <3>1
    <3>3. dialed'[g] = g
      BY <2>1, <3>1
    <3>4. \A h \in Guis \ {g} : Moves(h)
      BY <1>3, GuiView, Stays DEF PortInv, PlaceInv
    <3>. QED BY <2>1, <3>1, <3>2, <3>3, <3>4 DEF OwnDial, Moves, PortInv
  <2>. QED BY <2>1
<1>. QED BY <1>3, <1>6, <1>7, <1>8, GuiStep

\* The steps of the interface.
LEMMA InterfaceMoves ==
  ASSUME LoginTypes, EndInv, PortInv, NEW g \in Guis, Interface(g), UNCHANGED <<initiatorVars, backStartVars>>
  PROVE  PortInv'
<1>1. /\ screen \in [Guis -> Screens] /\ screen[g] \in Screens
      /\ events[g] # <<>> => Head(events[g]) \in Signals
  BY ScreenFields
<1>2. events[g] # <<>> /\ Handled(g) /\ PlaceOf(g) /\ screen[g].stage \notin Ended
  BY DEF Interface, SendIdentification, ValidatedIdentification, InvalidIdentification, TokenAuth, TokenValidated,
         BackNotifyStatus, BackNotifyLogon, Slot, PortInv, PlaceInv, EndInv
<1> DEFINE e == Head(events[g])
<1>3. \/ /\ AtForm(g) /\ screen[g].stage = "connecting" /\ Linked(g)
         /\ Tail(events[g]) = <<>> /\ e.type = "connectionReady"
      \/ RefusalRead(g) /\ Tail(events[g]) = <<>> /\ e.type = "Reject"
      \/ Late(g) /\ e.type = "InitiatorToFrontAuth"
      \/ /\ PortKnown(g) /\ e.type \notin {"Reject", "connectionReady"}
         /\ e.type = "InitiatorToFrontValidToken" => e.port = g
  BY <1>2, EventPlace
<1>4. PortKnown(g) => Late(g) /\ screen[g].stage \notin {"form", "connecting"}
  BY DEF Late, PortKnown
<1>5. ASSUME NEW stage \in Stages, Goes(g, stage)
      PROVE  /\ screen'[g].stage = stage /\ screen'[g].back = screen[g].back
             /\ \A h \in Guis \ {g} : screen'[h] = screen[h]
  <2>1. \A h \in Guis : screen'[h] = IF h = g THEN [screen[g] EXCEPT !.stage = stage] ELSE screen[h]
    BY <1>5, GoesTypes
  <2>. QED BY <1>1, <2>1 DEF Screens
<1>6. {"asked", "named", "form", "linking", "trusted", "logon", "in"} \subseteq Stages
  BY DEF Stages
<1>7. {[type |-> "HandShakeAuth"], [type |-> "Logon"]} \subseteq ToBackMessages
  BY DEF ToBackMessages
<1>8. /\ events'[g] = Tail(events[g]) /\ \A h \in Guis \ {g} : events'[h] = events[h]
  BY <1>2, HandledTypes
<1>9. UNCHANGED wire => Kept(Directions \ {"screenToBack"})
  BY DEF Kept
<1>10. CASE SendIdentification(g)
  <2>1. AtForm(g) /\ Linked(g) /\ Tail(events[g]) = <<>>
    BY <1>3, <1>10 DEF SendIdentification, Slot
  <2>2. screen'[g].stage = "asked" /\ screen'[g].back = screen[g].back /\ \A h \in Guis \ {g} : screen'[h] = screen[h]
    BY <1>5, <1>6, <1>10 DEF SendIdentification
  <2>3. screen[g].name \in Names
    BY <1>1 DEF Screens
  <2>4. /\ wire' = Put(wire, "toInitiator", g, Identification(g, screen[g].name)) /\ UNCHANGED <<proc, dialed>>
    BY <1>10 DEF SendIdentification
  <2>. QED BY <1>8, <2>1, <2>2, <2>3, <2>4, AskMoves
<1>11. CASE InvalidIdentification(g)
  <2>1. RefusalRead(g) /\ Tail(events[g]) = <<>>
    BY <1>3, <1>11 DEF InvalidIdentification, Slot
  <2>2. screen'[g].stage = "form" /\ screen'[g].back = screen[g].back /\ \A h \in Guis \ {g} : screen'[h] = screen[h]
    BY <1>5, <1>6, <1>11 DEF InvalidIdentification
  <2>3. UNCHANGED <<wire, proc, dialed>>
    BY <1>11 DEF InvalidIdentification, hostVars
  <2>4. GuiFrame(g)
    BY <1>8, <2>2, <2>3 DEF GuiFrame
  <2>5. AtForm(g)'
    BY <1>8, <2>1, <2>2, <2>3, <2>4, GuiView DEF RefusalRead, AtForm, Asks, Stranger, Untold, Idle, Bytes, Linked
  <2>6. ~PortKnown(g) /\ ~Owner(g)'
    BY <2>1, <2>4, GuiView DEF PortKnown, Owner, RefusalRead, Asks, Stranger
  <2>. QED BY <2>2, <2>3, <2>4, <2>5, <2>6, GuiStep DEF Moves, PlaceOf
<1>12. CASE ValidatedIdentification(g)
  <2>1. Late(g)
    BY <1>3, <1>4, <1>12 DEF ValidatedIdentification, Slot
  <2>2. screen'[g].stage = "named" /\ screen'[g].back = screen[g].back /\ \A h \in Guis \ {g} : screen'[h] = screen[h]
    BY <1>5, <1>6, <1>12 DEF ValidatedIdentification
  <2>3. UNCHANGED <<wire, proc, dialed>>
    BY <1>12 DEF ValidatedIdentification, hostVars
  <2>. QED BY <1>2, <1>9, <2>1, <2>2, <2>3, LateHandles
<1>13. CASE BackNotifyLogon(g)
  <2>1. PortKnown(g)
    BY <1>3, <1>13 DEF BackNotifyLogon, Slot
  <2>2. screen'[g].stage = "in" /\ screen'[g].back = screen[g].back /\ \A h \in Guis \ {g} : screen'[h] = screen[h]
    BY <1>5, <1>6, <1>13 DEF BackNotifyLogon
  <2>3. UNCHANGED <<wire, proc, dialed>>
    BY <1>13 DEF BackNotifyLogon, hostVars
  <2>. QED BY <1>2, <1>4, <1>9, <2>1, <2>2, <2>3, LateHandles
<1>14. CASE TokenValidated(g)
  <2>1. PortKnown(g)
    BY <1>3, <1>14 DEF TokenValidated, Slot
  <2>2. screen'[g].stage = "trusted" /\ screen'[g].back = screen[g].back /\ \A h \in Guis \ {g} : screen'[h] = screen[h]
    BY <1>5, <1>6, <1>14 DEF TokenValidated
  <2>3. UNCHANGED <<proc, dialed>>
    BY <1>14 DEF TokenValidated
  <2>4. Kept(Directions \ {"screenToBack"})
    BY <1>7, <1>14, ToBackStreams DEF TokenValidated
  <2>. QED BY <1>2, <1>4, <2>1, <2>2, <2>3, <2>4, LateHandles
<1>15. CASE BackNotifyStatus(g)
  <2>1. PortKnown(g) /\ UNCHANGED <<proc, dialed>>
    BY <1>3, <1>15 DEF BackNotifyStatus, Slot
  <2>2. CASE e.status = "Running"
    <3>1. Goes(g, "logon") /\ wire' = Put(wire, "screenToBack", screen[g].back, [type |-> "Logon"])
      BY <1>15, <2>2 DEF BackNotifyStatus
    <3>2. screen'[g].stage = "logon" /\ screen'[g].back = screen[g].back /\ \A h \in Guis \ {g} : screen'[h] = screen[h]
      BY <1>5, <1>6, <3>1
    <3>3. Kept(Directions \ {"screenToBack"})
      BY <1>7, <3>1, ToBackStreams
    <3>. QED BY <1>2, <1>4, <2>1, <3>2, <3>3, LateHandles
  <2>3. CASE e.status # "Running"
    <3>1. UNCHANGED <<screen, wire>>
      BY <1>15, <2>3 DEF BackNotifyStatus
    <3>. QED BY <1>2, <1>4, <1>9, <2>1, <3>1, LateHandles
  <2>. QED BY <2>2, <2>3
<1>16. CASE TokenAuth(g)
  <2>1. PortKnown(g) /\ e.port = g
    BY <1>3, <1>16 DEF TokenAuth, Slot
  <2>2. e.token \in Tokens
    BY <1>1, <1>2, <1>16, SignalFields DEF TokenAuth, Slot
  <2>3. /\ screen' = [screen EXCEPT ![g].stage = "linking", ![g].back = g]
        /\ dialed' = [dialed EXCEPT ![g] = g] /\ UNCHANGED proc
        /\ wire' = Put(wire, "screenToBack", g, [type |-> "FrontToBackValidToken", token |-> e.token])
    BY <1>16, <2>1 DEF TokenAuth
  <2>4. [type |-> "FrontToBackValidToken", token |-> e.token] \in ToBackMessages
    BY <2>2 DEF ToBackMessages
  <2>5. Kept(Directions \ {"screenToBack"})
    BY <2>3, <2>4, ToBackStreams
  <2>6. screen'[g].stage = "linking" /\ screen'[g].back = g /\ \A h \in Guis \ {g} : screen'[h] = screen[h]
    BY <1>1, <2>3 DEF Screens
  <2>. QED BY <1>2, <1>4, <2>1, <2>3, <2>5, <2>6, LateHandles
<1>. QED BY <1>10, <1>11, <1>12, <1>13, <1>14, <1>15, <1>16 DEF Interface

\* The steps of the two managers of a GUI.
LEMMA ManagersMoves ==
  ASSUME LoginTypes, PortInv, NEW g \in Guis, Managers(g), UNCHANGED <<initiatorVars, backStartVars>>
  PROVE  PortInv'
<1>1. /\ Streams(wire) /\ "toInitiator" \in Directions /\ "toScreen" \in Directions /\ "backToScreen" \in Directions
      /\ PlaceOf(g) /\ events[g] \in Seq(Signals)
  BY SomeDirections, ScreenFields DEF LoginTypes, PortInv, PlaceInv
<1>2. UNCHANGED <<screen, proc, dialed>>
  BY DEF Managers, InitiatorConnects, InitiatorReceives, BackReceives
<1>3. ASSUME InitiatorConnects(g) PROVE PortInv'
  <2> DEFINE m == [type |-> "connectionReady"]
  <2>1. screen[g].stage = "connecting" /\ events[g] = <<>> /\ wire' = Open(wire, g) /\ Emit(g, m)
    BY <1>3 DEF InitiatorConnects
  <2>2. AtForm(g)
    BY <1>1, <2>1 DEF PlaceOf, AtForm, AskSent, AskPooled, Refused, RefusalRead, Forking, Launched, PortSent,
              PortPooled, PortKnown, Asks, Waits
  <2>3. m \in Signals /\ m.type \in Connected("connecting")
    BY DEF Signals, Connected
  <2>4. events'[g] = Append(<<>>, m) /\ \A h \in Guis \ {g} : events'[h] = events[h]
    <3>1. m.type \in Connected(screen[g].stage)
      BY <2>1, <2>3
    <3>. QED BY <2>1, <2>3, <3>1, EmitTypes
  <2>5. Single(events'[g]) /\ Head(events'[g]).type = "connectionReady"
    BY <2>3, <2>4, AppendedAlone
  <2>6. /\ Becomes("toInitiator", g, AfterOpen(wire["toInitiator"][g], TRUE))
        /\ Becomes("toScreen", g, AfterOpen(wire["toScreen"][g], TRUE))
        /\ \A h \in Guis : wire'["backToInitiator"][h] = wire["backToInitiator"][h]
    BY <2>1, ConnectStreams, SomeDirections DEF Kept
  <2>7. /\ \A h \in Guis \ {g} : wire'["toInitiator"][h] = wire["toInitiator"][h]
        /\ Bytes("toInitiator", g)' = Bytes("toInitiator", g) /\ wire'["toInitiator"][g].open
    BY <1>1, <2>6, OpenEffect
  <2>8. /\ \A h \in Guis \ {g} : wire'["toScreen"][h] = wire["toScreen"][h]
        /\ Bytes("toScreen", g)' = Bytes("toScreen", g) /\ wire'["toScreen"][g].open
    BY <1>1, <2>6, OpenEffect
  <2>9. GuiFrame(g)
    BY <1>2, <2>4, <2>6, <2>7, <2>8 DEF GuiFrame
  <2>10. AtForm(g)'
    BY <1>2, <2>1, <2>2, <2>5, <2>7, <2>8, <2>9, GuiView DEF AtForm, Stranger, Untold, Idle, Linked
  <2>11. ~PortKnown(g) /\ ~Owner(g)'
    BY <2>2, <2>9, GuiView DEF PortKnown, Owner, AtForm, Stranger
  <2>. QED BY <1>2, <2>9, <2>10, <2>11, GuiStep DEF Moves, PlaceOf
<1>4. ASSUME InitiatorReceives(g) PROVE PortInv'
  <2> DEFINE m == First("toScreen", g)
             q == Bytes("toScreen", g)
  <2>1. ~AtEnd("toScreen", g) /\ wire' = Take(wire, "toScreen", g) /\ Emit(g, m)
    BY <1>4 DEF InitiatorReceives
  <2>2. /\ \A h \in Guis : /\ wire'["toInitiator"][h] = wire["toInitiator"][h]
                           /\ wire'["backToInitiator"][h] = wire["backToInitiator"][h]
        /\ Becomes("toScreen", g, AfterTake(wire["toScreen"][g]))
    BY <1>1, <2>1, ReadStreams, SomeDirections DEF Kept
  <2>3. /\ q \in Seq(Messages("toScreen", g)) /\ q # <<>> /\ m = Head(q)
    BY <1>1, <2>1, StreamFields DEF AtEnd, First, Bytes
  <2>4. m \in Signals
    BY <1>1, <2>1, FirstFits DEF Messages, Signals
  <2>5. /\ \A h \in Guis \ {g} : wire'["toScreen"][h] = wire["toScreen"][h]
        /\ Bytes("toScreen", g)' = Tail(q) /\ wire'["toScreen"][g].open = wire["toScreen"][g].open
    BY <1>1, <2>2, <2>3, TakeEffect DEF Steady
  <2>6. /\ \A h \in Guis \ {g} : events'[h] = events[h]
        /\ \/ m.type \in Connected(screen[g].stage) /\ events'[g] = Append(events[g], m)
           \/ m.type \notin Connected(screen[g].stage) /\ events'[g] = events[g]
    BY <2>1, <2>4, EmitTypes
  <2>7. GuiFrame(g)
    BY <1>2, <2>2, <2>5, <2>6 DEF GuiFrame
  <2> HIDE DEF m, q
  <2>8. CASE Refused(g)
    <3>1. events[g] = <<>> /\ Tail(q) = <<>> /\ m.type = "Reject" /\ screen[g].stage = "asked"
      BY <2>3, <2>8 DEF Refused, Single, Asks, q
    <3>2. m.type \in Connected(screen[g].stage)
      BY <3>1 DEF Connected
    <3>3. events'[g] = Append(<<>>, m)
      BY <2>6, <3>1, <3>2
    <3>4. Single(events'[g]) /\ Head(events'[g]).type = "Reject"
      BY <2>4, <3>1, <3>3, AppendedAlone
    <3>5. RefusalRead(g)'
      BY <1>2, <2>2, <2>5, <2>7, <2>8, <3>1, <3>4, GuiView
         DEF Refused, RefusalRead, Asks, Idle, Stranger, Untold, Linked, Bytes
    <3>6. ~PortKnown(g) /\ ~Owner(g)'
      BY <2>7, <2>8, GuiView DEF PortKnown, Owner, Refused, Asks, Stranger
    <3>. QED BY <1>2, <2>7, <3>5, <3>6, GuiStep DEF Moves, PlaceOf
  <2>9. CASE Late(g)
    <3>1. ToSet(Tail(q)) \subseteq ToSet(q) /\ m \in ToSet(q)
      BY <2>3, HeadTaken
    <3>6. ToSet(Append(events[g], m)) = ToSet(events[g]) \cup {m}
      BY <1>1, <2>4, Appended
    <3>2. ToSet(events'[g]) \subseteq ToSet(events[g]) \cup {m}
      BY <2>6, <3>6
    <3>3. Answers(g)' \subseteq Answers(g)
      BY <2>5, <3>1, <3>2 DEF Answers, q
    <3>4. LateView(g)
      BY <2>2, <2>7, GuiView DEF LateView, Bytes
    <3>5. Moves(g)
      BY <1>2, <2>9, <3>3, <3>4, LateStays DEF Late, Forking, Launched, PortSent, PortPooled, PortKnown, Waits
    <3>7. Owner(g)' => Owner(g)
      BY <1>2, <2>2, <2>7, GuiView DEF Owner
    <3>. QED BY <1>2, <2>7, <3>5, <3>7, GuiStep
  <2>10. Refused(g) \/ Late(g)
    BY <1>1, <2>3 DEF PlaceOf, Late, AtForm, AskSent, AskPooled, RefusalRead, Silent, q
  <2>. QED BY <2>8, <2>9, <2>10
<1>5. ASSUME BackReceives(g) PROVE PortInv'
  <2>1. PICK b \in Guis :
          /\ dialed[b] = g /\ ~AtEnd("backToScreen", b) /\ wire' = Take(wire, "backToScreen", b)
          /\ IF First("backToScreen", b).type = "Reject" THEN UNCHANGED <<events, lost>>
                                                         ELSE Emit(g, First("backToScreen", b))
    BY <1>5 DEF BackReceives
  <2>2. b = g /\ PortKnown(g)
    BY <2>1, NoneAssumption DEF PortInv, OwnDial
  <2> DEFINE m == First("backToScreen", g)
  <2>3. m \in FromBackMessages /\ m \in Signals
    BY <1>1, <2>1, <2>2, FirstFits DEF Messages, Signals
  <2>4. \A h \in Guis : /\ wire'["toInitiator"][h] = wire["toInitiator"][h]
                        /\ wire'["toScreen"][h] = wire["toScreen"][h]
                        /\ wire'["backToInitiator"][h] = wire["backToInitiator"][h]
    BY <1>1, <2>1, ReadStreams, SomeDirections DEF Kept
  <2> HIDE DEF m
  <2>5. /\ \A h \in Guis \ {g} : events'[h] = events[h]
        /\ events'[g] = events[g] \/ (m.type # "Reject" /\ events'[g] = Append(events[g], m))
    <3>1. CASE m.type = "Reject"
      BY <2>1, <2>2, <3>1 DEF m
    <3>2. CASE m.type # "Reject"
      <4>1. Emit(g, m)
        BY <2>1, <2>2, <3>2 DEF m
      <4>. QED BY <2>3, <3>2, <4>1, EmitTypes
    <3>. QED BY <3>1, <3>2
  <2>6. GuiFrame(g)
    BY <1>2, <2>4, <2>5 DEF GuiFrame
  <2>7. \A n \in Answers(g)' : n \in Answers(g) \/ (n = m /\ m.type # "Reject")
    <3>1. ToSet(Append(events[g], m)) = ToSet(events[g]) \cup {m}
      BY <1>1, <2>3, Appended
    <3>. QED BY <2>4, <2>5, <3>1 DEF Answers, Bytes
  <2>8. m.type \notin {"connectionReady", "InitiatorToFrontValidToken"}
    BY <2>3 DEF FromBackMessages
  <2>9. PortKnown(g)'
    BY <1>2, <2>2, <2>4, <2>6, <2>7, <2>8, GuiView DEF PortKnown, Told, Started, Bytes
  <2>10. Owner(g)' => Owner(g)
    BY <1>2, <2>4, <2>6, GuiView DEF Owner
  <2>. QED BY <1>2, <2>6, <2>9, <2>10, GuiStep DEF Moves, PlaceOf
<1>. QED BY <1>3, <1>4, <1>5 DEF Managers

-----------------------------------------------------------------------------
(* The steps of the initiator *)

\* A step of the initiator moves no GUI and no back by itself.
Still == UNCHANGED <<screen, events, main, dialed>>

\* Then what the initiator holds is all there is to show.
LEMMA StillStep ==
  ASSUME PortInv, Still, \A g \in Guis : Moves(g), QueuesOnce', OwnerInv'
  PROVE  PortInv'
<1>1. PlaceInv'
  BY DEF PlaceInv, Moves
<1>2. OwnDial'
  <2>1. \A g \in Guis : screen'[g].back = screen[g].back
    BY DEF Still
  <2>. QED BY <2>1, DialKept DEF Still, PortInv
<1>. QED BY <1>1, <1>2 DEF PortInv

\* The streams are as far as they were.
StreamsStay(g) ==
  /\ Bytes("toInitiator", g)' = Bytes("toInitiator", g)
  /\ Bytes("toScreen", g)' = Bytes("toScreen", g)
  /\ Bytes("backToInitiator", g)' = Bytes("backToInitiator", g)
  /\ (Linked(g) => Linked(g)')

\* The two pools are as they were, and the step is no step of a login.
LEMMA QuietView ==
  ASSUME PortInv, Still, UNCHANGED <<tasks, login, backTasks>>,
         \A g \in Guis : StreamsStay(g) /\ (Named(g)' <=> Named(g)) /\ (proc'[g] = "none" <=> proc[g] = "none")
  PROVE  QueuesOnce' /\ \A g \in Guis : Moves(g)
<1>1. QueuesOnce'
  BY DEF PortInv, QueuesOnce
<1>2. ASSUME NEW g \in Guis PROVE Moves(g)
  <2>1. AtFork(g)' <=> AtFork(g)
    BY DEF AtFork
  <2>2. SameView(g)
    BY <2>1 DEF SameView, StreamsStay, Still
  <2>. QED BY <2>2, Stays DEF PortInv, PlaceInv
<1>. QED BY <1>1, <1>2

\* Accounts are used as they were, since nothing of them has changed.
LEMMA OwnerStays ==
  ASSUME PortInv, Still, UNCHANGED <<tasks, login, connected>>,
         \A g \in Guis : Named(g)' <=> Named(g),
         \A g \in Guis : wire'["toInitiator"][g].edge => wire["toInitiator"][g].edge
  PROVE  OwnerInv'
<1>1. \A g \in Guis : (Owner(g)' => Owner(g)) /\ (Named(g)' => Named(g))
  BY DEF Owner, Still
<1>2. Head(tasks)' = Head(tasks) /\ login' = login /\ connected \subseteq connected'
  OBVIOUS
<1>. QED BY <1>1, <1>2, OwnerKept DEF PortInv

\* FrontHandler accepts, stops a back and gives a session to the pool.
LEMMA FrontQuiet ==
  ASSUME LoginTypes, PortInv, UNCHANGED <<screenVars, backStartVars>>,
         StopBack \/ BackReaped \/ RemoveSession \/ \E g \in Guis : AcceptFront(g)
  PROVE  PortInv'
<1>1. Still /\ UNCHANGED <<tasks, login, connected, backTasks, wire>>
  BY DEF StopBack, BackReaped, RemoveSession, AcceptFront, Still, screenVars, backStartVars, backVars, hostVars
<1>2. \A g \in Guis : Named(g)' <=> Named(g)
  <2>1. CASE UNCHANGED session
    BY <2>1 DEF Named
  <2>2. ASSUME NEW g \in Guis, AcceptFront(g) PROVE \A h \in Guis : Named(h)' <=> Named(h)
    <3>1. session[g] = None /\ session' = [session EXCEPT ![g] = NewSession] /\ NewSession.key = None
      BY <2>2 DEF AcceptFront, NewSession
    <3>. QED BY <3>1 DEF LoginTypes, InitiatorPart, InitiatorTypes, Named
  <2>. QED BY <2>1, <2>2 DEF StopBack, BackReaped, RemoveSession
<1>3. \A g \in Guis : proc'[g] = "none" <=> proc[g] = "none"
  <2>1. CASE UNCHANGED proc
    BY <2>1
  <2>2. CASE proc' = [proc EXCEPT ![front.of] = IF @ = "running" THEN "told" ELSE @]
    BY <2>2 DEF LoginTypes, HostPart
  <2>. QED BY <2>1, <2>2 DEF StopBack, BackReaped, RemoveSession, AcceptFront, hostVars
<1>4. \A g \in Guis : StreamsStay(g)
  BY <1>1 DEF StreamsStay, Bytes, Linked
<1>5. OwnerInv'
  BY <1>1, <1>2, OwnerStays
<1>6. QueuesOnce' /\ \A g \in Guis : Moves(g)
  BY <1>1, <1>2, <1>3, <1>4, QuietView
<1>. QED BY <1>1, <1>5, <1>6, StillStep

\* Where a GUI is that has asked, and whose message is on its way.
LEMMA AskPlace ==
  ASSUME NEW g \in Guis, PlaceOf(g)
  PROVE  /\ Bytes("toInitiator", g) # <<>> => AskSent(g)
         /\ g \in Served(tasks) /\ ~AtFork(g) => AskPooled(g)
         /\ AtFork(g) /\ g \in Served(tasks) => Forking(g)
         /\ Bytes("backToInitiator", g) # <<>> => PortSent(g)
         /\ g \in Served(backTasks) => PortPooled(g)
BY DEF PlaceOf, AtForm, AskSent, AskPooled, Refused, RefusalRead, Forking, Launched, PortSent, PortPooled, PortKnown,
       Asks, Idle, Stranger, Untold, Waits, Started, Told

\* A message of a GUI goes to the pool.
LEMMA MessageMoves ==
  ASSUME LoginTypes, PortInv, NEW g \in Guis, FrontMessage(g), UNCHANGED <<screenVars, backStartVars>>
  PROVE  PortInv'
<1> DEFINE m == First("toInitiator", g)
           t == [of |-> g, msg |-> m]
<1>1. /\ Streams(wire) /\ tasks \in Seq(Tasks) /\ "toInitiator" \in Directions
  BY SomeDirections DEF LoginTypes, InitiatorPart
<1>2. /\ Still /\ UNCHANGED <<connected, session, login, backTasks, proc>>
      /\ ~AtEnd("toInitiator", g) /\ wire' = Take(wire, "toInitiator", g) /\ tasks' = Append(tasks, t)
  BY DEF FrontMessage, Still, screenVars, backStartVars, backVars
<1>3. t \in Tasks /\ t.of = g
  <2>1. m \in Ident(g)
    BY <1>1, <1>2, FirstFits DEF Messages
  <2>. QED BY <2>1 DEF Tasks
<1>4. Bytes("toInitiator", g) # <<>> /\ PlaceOf(g)
  BY <1>2 DEF AtEnd, Bytes, PortInv, PlaceInv
<1>5. AskSent(g)
  BY <1>4, AskPlace
<1>6. Becomes("toInitiator", g, AfterTake(wire["toInitiator"][g])) /\ Kept({"toScreen", "backToInitiator"})
  BY <1>1, <1>2, ReadStreams, SomeDirections DEF Kept
<1>7. /\ Steady("toInitiator", g) /\ wire'["toInitiator"][g].edge = FALSE
      /\ Bytes("toInitiator", g)' = Tail(Bytes("toInitiator", g))
  BY <1>1, <1>4, <1>6, TakeEffect
<1>8. Bytes("toInitiator", g)' = <<>>
  BY <1>5, <1>7 DEF AskSent, Single
<1> HIDE DEF t, m
<1>9. /\ Served(tasks') = Served(tasks) \cup {g} /\ (Once(tasks) /\ g \notin Served(tasks) => Once(tasks'))
  BY <1>1, <1>2, <1>3, ServedAppended
<1>10. QueuesOnce'
  BY <1>2, <1>5, <1>9 DEF PortInv, QueuesOnce, AskSent
<1>11. login # "none" => tasks # <<>> /\ Head(tasks') = Head(tasks)
  <2>1. Head(Append(tasks, t)) = IF tasks = <<>> THEN t ELSE Head(tasks)
    BY <1>1, <1>3, Appended
  <2>. QED BY <1>2, <2>1 DEF LoginTypes, TurnInv
<1>12. \A h \in Guis : AtFork(h)' <=> AtFork(h)
  BY <1>2, <1>11 DEF AtFork
<1>13. ~AtFork(g)
  <2>1. AtFork(g) => g \in Served(tasks)
    BY <1>1, <1>11, HeadTaken DEF AtFork, Served
  <2>. QED BY <1>5, <2>1 DEF AskSent
<1>14. \A h \in Guis : Named(h)' = Named(h)
  BY <1>2 DEF Named
<1>15. Linked(g) => Linked(g)'
  BY <1>6, <1>7 DEF Linked, Steady, Kept
<1>16. Bytes("toScreen", g)' = Bytes("toScreen", g) /\ Bytes("backToInitiator", g)' = Bytes("backToInitiator", g)
  BY <1>6 DEF Kept, Bytes
<1>17. AskPooled(g)'
  BY <1>2, <1>5, <1>8, <1>9, <1>12, <1>13, <1>14, <1>15, <1>16
     DEF AskSent, AskPooled, Asks, Stranger, Untold, Silent, Still
<1>18. Moves(g)
  BY <1>5, <1>17 DEF Moves, PlaceOf, PortKnown, AskSent, Asks, Stranger
<1>19. ASSUME NEW h \in Guis \ {g} PROVE Moves(h)
  <2>1. StreamsStay(h)
    BY <1>6, <1>7 DEF Kept, StreamsStay, Bytes, Linked, Steady
  <2>2. SameView(h)
    BY <1>2, <1>9, <1>12, <1>14, <2>1 DEF SameView, StreamsStay, Still
  <2>. QED BY <2>2, Stays DEF PortInv, PlaceInv
<1>20. OwnerInv'
  <2>1. \A h \in Guis : (Owner(h)' => Owner(h)) /\ (Named(h)' => Named(h))
    BY <1>2, <1>7, <1>14 DEF Owner, Steady, Still
  <2>2. connected \subseteq connected' /\ (login' \in {"found", "marked"} => login' = login /\ Head(tasks)' = Head(tasks))
    BY <1>2, <1>11
  <2>. QED BY <2>1, <2>2, OwnerKept DEF PortInv
<1>. QED BY <1>2, <1>10, <1>18, <1>19, <1>20, StillStep

\* FrontHandler is told that a GUI has ended, and frees its account.
LEMMA FrontEndMoves ==
  ASSUME LoginTypes, EndInv, Patient, PortInv, NEW g \in Guis, FrontEnd(g), UNCHANGED <<screenVars, backStartVars>>
  PROVE  PortInv'
<1>1. /\ Streams(wire) /\ "toInitiator" \in Directions /\ SessionPart
  BY SomeDirections, InitiatorFields DEF LoginTypes, InitiatorSide
<1>2. /\ Still /\ UNCHANGED <<session, tasks, login, backTasks, proc>> /\ AtEnd("toInitiator", g)
      /\ Reported("toInitiator", g) /\ wire' = Take(wire, "toInitiator", g)
  BY DEF FrontEnd, Still, screenVars, backStartVars, backVars
<1>3. \/ UNCHANGED connected
      \/ connected' = connected \ Rows(session[g].key, session[g].name) /\ g \in ToSet(sessions)
  BY DEF FrontEnd
<1>4. screen[g].stage = "gone" /\ wire["toInitiator"][g].edge /\ Bytes("toInitiator", g) = <<>>
  <2>1. wire["toInitiator"][g].edge /\ wire["toInitiator"][g].bytes = <<>> /\ wire["toInitiator"][g].ended
    BY <1>2 DEF Reported, AtEnd
  <2>. QED BY <2>1 DEF Bytes, EndInv, Ended, Patient
<1>5. Becomes("toInitiator", g, AfterTake(wire["toInitiator"][g])) /\ Kept({"toScreen", "backToInitiator"})
  BY <1>1, <1>2, ReadStreams, SomeDirections DEF Kept
<1>6. /\ Steady("toInitiator", g) /\ wire'["toInitiator"][g].edge = FALSE
      /\ Bytes("toInitiator", g)' = <<>>
  BY <1>1, <1>4, <1>5, TakeEffect
<1>7. \A h \in Guis : Named(h)' = Named(h)
  BY <1>2 DEF Named
<1>8. \A h \in Guis : StreamsStay(h)
  BY <1>4, <1>5, <1>6 DEF Kept, StreamsStay, Bytes, Linked, Steady
<1>9. QueuesOnce' /\ \A h \in Guis : Moves(h)
  BY <1>2, <1>7, <1>8, QuietView
<1>10. \A h \in Guis : Owner(h)' => Owner(h) /\ h # g
  BY <1>2, <1>4, <1>6, <1>7 DEF Owner, Steady, Still
<1>11. ASSUME NEW r \in Accounts, r \in connected, r \notin connected', NEW h \in Guis, Key[r] = ApiKey[h]
       PROVE  Owner(g) /\ ApiKey[g] = ApiKey[h]
  <2>1. r \in Rows(session[g].key, session[g].name) /\ g \in ToSet(sessions)
    BY <1>3, <1>11
  <2>2. session[g] # None /\ session[g].key \in {None, ApiKey[g]}
    BY <1>1, <2>1 DEF LoginTypes, AcceptedInv, SessionPart, Accepted
  <2>3. Key[r] = session[g].key /\ ApiKey[h] # None
    BY <2>1, NoneAssumption DEF Rows
  <2>. QED BY <1>4, <1>11, <2>2, <2>3 DEF Owner, Named
<1>12. OwnerInv'
  <2>1. \A h, k \in Guis : Owner(h)' /\ Owner(k)' /\ ApiKey[h] = ApiKey[k] => h = k
    BY <1>10 DEF PortInv, OwnerInv
  <2>2. ASSUME NEW h \in Guis, Owner(h)', NEW r \in Accounts, Key[r] = ApiKey[h] PROVE r \in connected'
    <3>1. Owner(h) /\ h # g /\ r \in connected
      BY <1>10, <2>2 DEF PortInv, OwnerInv
    <3>2. ~(Owner(g) /\ ApiKey[g] = ApiKey[h])
      BY <3>1 DEF PortInv, OwnerInv
    <3>. QED BY <1>11, <2>2, <3>1, <3>2
  <2>3. \A h \in Guis : Named(h)' => \E r \in Accounts : Key[r] = ApiKey[h]
    BY <1>7 DEF PortInv, OwnerInv
  <2>4. login' \in {"found", "marked"} => \A h \in Guis : Owner(h)' => ApiKey[h] # Head(tasks)'.msg.key
    BY <1>2, <1>10 DEF PortInv, OwnerInv
  <2>5. ASSUME login' = "marked" PROVE Rows(Head(tasks).msg.key, Head(tasks).msg.name)' \subseteq connected'
    <3>1. login = "marked" /\ tasks # <<>> /\ tasks' = tasks
      BY <1>2, <2>5 DEF LoginTypes, TurnInv
    <3>2. Head(tasks).of \in Guis /\ Head(tasks).msg.key = ApiKey[Head(tasks).of]
      BY <3>1, FirstTask
    <3>3. ~Owner(g) \/ ApiKey[g] # Head(tasks).msg.key
      BY <3>1 DEF PortInv, OwnerInv
    <3>4. ASSUME NEW r \in Rows(Head(tasks).msg.key, Head(tasks).msg.name) PROVE r \in connected'
      <4>1. r \in Accounts /\ Key[r] = Head(tasks).msg.key /\ r \in connected
        BY <3>1 DEF Rows, PortInv, OwnerInv
      <4>. QED BY <1>11, <3>2, <3>3, <4>1
    <3>. QED BY <3>1, <3>4 DEF Rows
  <2>. QED BY <2>1, <2>2, <2>3, <2>4, <2>5 DEF OwnerInv
<1>. QED BY <1>2, <1>9, <1>12, StillStep

\* A task of the pool is done, and no login is under way.
LEMMA TaskDone ==
  ASSUME LoginTypes, QueuesOnce, tasks # <<>>, Done
  PROVE  /\ Served(tasks') = Served(tasks) \ {Head(tasks).of} /\ Once(tasks') /\ login' = "none"
         /\ \A h \in Guis : ~AtFork(h)'
<1>1. tasks \in Seq(Tasks) /\ tasks' = Tail(tasks) /\ login' = "none" /\ Once(tasks)
  BY DEF LoginTypes, InitiatorPart, Done, QueuesOnce
<1>. QED BY <1>1, ServedHead DEF AtFork

\* The GUI of a login that is under way is told how it ends.
LEMMA AnswerMoves ==
  ASSUME LoginTypes, NEW g \in Guis, AskPooled(g), NEW m \in ToScreenMessages, ToScreen(g, m)
  PROVE  /\ \A h \in Guis \ {g} : StreamsStay(h)
         /\ Bytes("toInitiator", g)' = <<>> /\ Bytes("backToInitiator", g)' = <<>>
         /\ Bytes("toScreen", g)' = Append(<<>>, m) /\ Linked(g)'
         /\ \A h \in Guis : wire'["toInitiator"][h].edge = wire["toInitiator"][h].edge
<1>1. Streams(wire) /\ "toScreen" \in Directions
  BY SomeDirections DEF LoginTypes
<1>2. /\ wire["toScreen"][g].open /\ wire["toInitiator"][g].open
      /\ Bytes("toScreen", g) = <<>> /\ Bytes("toInitiator", g) = <<>> /\ Bytes("backToInitiator", g) = <<>>
  BY DEF AskPooled, Asks, Linked, Silent, Stranger, Untold
<1>3. /\ Becomes("toScreen", g, AfterPut(wire["toScreen"][g], m)) /\ Kept({"toInitiator", "backToInitiator"})
  BY <1>2, ScreenStreams, SomeDirections DEF Kept
<1>4. Steady("toScreen", g) /\ Bytes("toScreen", g)' = Append(Bytes("toScreen", g), m)
  BY <1>1, <1>2, <1>3, PutEffect
<1>5. Bytes("toScreen", g)' = Append(<<>>, m)
  BY <1>2, <1>4
<1>6. \A h \in Guis \ {g} : StreamsStay(h)
  BY <1>3, <1>4 DEF StreamsStay, Steady, Kept, Bytes, Linked
<1>7. Bytes("toInitiator", g)' = <<>> /\ Bytes("backToInitiator", g)' = <<>> /\ Linked(g)'
  BY <1>2, <1>3, <1>4 DEF Steady, Kept, Bytes, Linked
<1>. QED BY <1>3, <1>5, <1>6, <1>7 DEF Kept

\* The account of a login is looked up.
LEMMA LookUpMoves ==
  ASSUME LoginTypes, PortInv, LookUp, UNCHANGED <<screenVars, backStartVars>>
  PROVE  PortInv'
<1> DEFINE m == [type |-> "Reject"]
<1>1. /\ Still /\ UNCHANGED <<connected, session, backTasks, proc>> /\ tasks # <<>> /\ login = "none"
      /\ IF session[Head(tasks).of].key # None
         THEN Done /\ UNCHANGED <<wire, up>>
         ELSE \/ Done /\ ToScreen(Head(tasks).of, m)
              \/ /\ login' = "found" /\ UNCHANGED <<tasks, wire, up>>
                 /\ ~(Rows(Head(tasks).msg.key, Head(tasks).msg.name) \subseteq connected)
  BY DEF LookUp, Still, screenVars, backStartVars, backVars
<1>2. PICK g \in Guis : g = Head(tasks).of
  BY <1>1, FirstTask
<1>3. /\ g \in Served(tasks) /\ session[g] # None /\ Head(tasks).msg.key = ApiKey[g]
      /\ m \in ToScreenMessages /\ m.type = "Reject"
  BY <1>1, <1>2, FirstTask DEF Accepted, ToScreenMessages
<1> HIDE DEF m
<1>4. AskPooled(g)
  <2>1. ~AtFork(g)
    BY <1>1 DEF AtFork
  <2>. QED BY <1>3, <2>1, AskPlace DEF PortInv, PlaceInv
<1>5. session[g].key = None /\ \A h \in Guis : Named(h)' = Named(h) /\ ~AtFork(h)
  BY <1>1, <1>3, <1>4 DEF AskPooled, Asks, Stranger, Named, AtFork
<1>6. CASE Done /\ ToScreen(g, m)
  <2>1. /\ Served(tasks') = Served(tasks) \ {g} /\ Once(tasks') /\ login' = "none"
        /\ \A h \in Guis : ~AtFork(h)'
    BY <1>1, <1>2, <1>6, TaskDone DEF PortInv
  <2>2. /\ \A h \in Guis \ {g} : StreamsStay(h)
        /\ Bytes("toInitiator", g)' = <<>> /\ Bytes("backToInitiator", g)' = <<>>
        /\ Bytes("toScreen", g)' = Append(<<>>, m) /\ Linked(g)'
        /\ \A h \in Guis : wire'["toInitiator"][h].edge = wire["toInitiator"][h].edge
    BY <1>3, <1>4, <1>6, AnswerMoves
  <2>3. Single(Append(<<>>, m)) /\ Head(Append(<<>>, m)) = m
    BY <1>3, AppendedAlone
  <2>4. Refused(g)'
    BY <1>1, <1>3, <1>4, <1>5, <2>1, <2>2, <2>3
       DEF AskPooled, Refused, Asks, Stranger, Untold, Idle, Silent, Still
  <2>5. Moves(g)
    BY <1>4, <2>4 DEF Moves, PlaceOf, PortKnown, AskPooled, Asks, Stranger
  <2>6. ASSUME NEW h \in Guis \ {g} PROVE Moves(h)
    <3>1. SameView(h)
      BY <1>1, <1>5, <2>1, <2>2 DEF SameView, StreamsStay, Still
    <3>. QED BY <3>1, Stays DEF PortInv, PlaceInv
  <2>7. QueuesOnce'
    BY <1>1, <2>1 DEF PortInv, QueuesOnce
  <2>8. OwnerInv'
    <3>1. \A h \in Guis : (Owner(h)' => Owner(h)) /\ (Named(h)' => Named(h))
      BY <1>1, <1>5, <2>2 DEF Owner, Still
    <3>2. connected \subseteq connected'
      BY <1>1
    <3>. QED BY <2>1, <3>1, <3>2, OwnerKept DEF PortInv
  <2>. QED BY <1>1, <2>5, <2>6, <2>7, <2>8, StillStep
<1>7. CASE /\ login' = "found" /\ UNCHANGED <<tasks, wire>>
           /\ ~(Rows(Head(tasks).msg.key, Head(tasks).msg.name) \subseteq connected)
  <2>1. QueuesOnce'
    BY <1>1, <1>7 DEF PortInv, QueuesOnce
  <2>2. ASSUME NEW h \in Guis PROVE Moves(h)
    <3>1. ~AtFork(h)' /\ StreamsStay(h)
      BY <1>7 DEF AtFork, StreamsStay, Bytes, Linked
    <3>2. SameView(h)
      BY <1>1, <1>5, <1>7, <3>1 DEF SameView, StreamsStay, Still
    <3>. QED BY <3>2, Stays DEF PortInv, PlaceInv
  <2>3. \A h \in Guis : Owner(h)' = Owner(h)
    BY <1>1, <1>5, <1>7 DEF Owner, Still
  <2>4. \A h \in Guis : Owner(h) => ApiKey[h] # Head(tasks).msg.key
    <3>1. PICK r \in Rows(Head(tasks).msg.key, Head(tasks).msg.name) : r \notin connected
      BY <1>7
    <3>2. r \in Accounts /\ Key[r] = Head(tasks).msg.key
      BY DEF Rows
    <3>. QED BY <3>1, <3>2 DEF PortInv, OwnerInv
  <2>5. OwnerInv'
    BY <1>1, <1>5, <1>7, <2>3, <2>4 DEF PortInv, OwnerInv
  <2>. QED BY <1>1, <2>1, <2>2, <2>5, StillStep
<1>. QED BY <1>1, <1>2, <1>5, <1>6, <1>7

\* The account is set connected.
LEMMA MarkMoves ==
  ASSUME LoginTypes, PortInv, MarkConnected, UNCHANGED <<screenVars, backStartVars>>
  PROVE  PortInv'
<1>1. /\ Still /\ UNCHANGED <<session, tasks, backTasks, proc, wire>> /\ login = "found" /\ login' = "marked"
      /\ connected' = connected \cup Rows(Head(tasks).msg.key, Head(tasks).msg.name)
  BY DEF MarkConnected, Still, screenVars, backStartVars, backVars, hostVars
<1>2. QueuesOnce'
  BY <1>1 DEF PortInv, QueuesOnce
<1>3. \A h \in Guis : Named(h)' = Named(h) /\ Owner(h)' = Owner(h)
  BY <1>1 DEF Owner, Named, Still
<1>4. ASSUME NEW h \in Guis PROVE Moves(h)
  <2>1. ~AtFork(h) /\ ~AtFork(h)' /\ StreamsStay(h)
    BY <1>1 DEF AtFork, StreamsStay, Bytes, Linked
  <2>2. SameView(h)
    BY <1>1, <1>3, <2>1 DEF SameView, StreamsStay, Still
  <2>. QED BY <2>2, Stays DEF PortInv, PlaceInv
<1>5. Rows(Head(tasks).msg.key, Head(tasks).msg.name)' = Rows(Head(tasks).msg.key, Head(tasks).msg.name)
  BY <1>1 DEF Rows
<1>6. OwnerInv'
  BY <1>1, <1>3, <1>5 DEF PortInv, OwnerInv
<1>. QED BY <1>1, <1>2, <1>4, <1>6, StillStep

\* The session is identified; what no GUI uses is used by one.
LEMMA IdentifyMoves ==
  ASSUME LoginTypes, PortInv, Identify, UNCHANGED <<screenVars, backStartVars>>
  PROVE  PortInv'
<1> DEFINE m == [type |-> "InitiatorToFrontAuth"]
<1>1. /\ Still /\ UNCHANGED <<connected, tasks, backTasks, proc>> /\ login = "marked" /\ login' = "named"
      /\ tasks # <<>> /\ Rows(Head(tasks).msg.key, Head(tasks).msg.name) # {}
  BY DEF Identify, Still, screenVars, backStartVars, backVars, LoginTypes, TurnInv
<1>2. PICK g \in Guis : g = Head(tasks).of
  BY <1>1, FirstTask
<1>3. /\ g \in Served(tasks) /\ session[g] \in Sessions /\ Head(tasks).msg.key = ApiKey[g]
      /\ m \in ToScreenMessages /\ m.type = "InitiatorToFrontAuth"
  BY <1>1, <1>2, FirstTask DEF ToScreenMessages
<1>4. PICK a \in Accounts :
        /\ session' = [session EXCEPT ![g].key = ApiKey[g], ![g].name = ServerName[a]]
        /\ a \in Rows(Head(tasks).msg.key, Head(tasks).msg.name) /\ ToScreen(g, m)
  <2> DEFINE rows == Rows(Head(tasks).msg.key, Head(tasks).msg.name)
             r == CHOOSE r \in rows : TRUE
  <2>1. session' = [session EXCEPT ![g].key = ApiKey[g], ![g].name = ServerName[r]] /\ ToScreen(g, m)
    BY <1>2, <1>3 DEF Identify
  <2>2. r \in rows /\ r \in Accounts
    BY <1>1 DEF Rows
  <2>. QED BY <2>1, <2>2
<1>5. /\ \A h \in Guis \ {g} : session'[h] = session[h]
      /\ session'[g] # None /\ session'[g].key = ApiKey[g]
  <2>1. session \in [Guis -> Sessions \cup {None}]
    BY DEF LoginTypes, InitiatorPart, InitiatorTypes
  <2>2. PICK s \in Sessions : s = [[session[g] EXCEPT !.key = ApiKey[g]] EXCEPT !.name = ServerName[a]]
    BY <1>3 DEF Sessions
  <2>3. s.key = ApiKey[g] /\ s # None
    BY <1>3, <2>2, SessionsAssumption DEF Sessions
  <2>4. session' = [session EXCEPT ![g] = s]
    BY <1>4, <2>1, <2>2
  <2>. QED BY <2>1, <2>3, <2>4
<1>6. \A h \in Guis : AtFork(h)' <=> h = g
  BY <1>1, <1>2 DEF AtFork
<1> HIDE DEF m
<1>7. \A h \in Guis : ~AtFork(h)
  BY <1>1 DEF AtFork
<1>8. AskPooled(g)
  BY <1>3, <1>7, AskPlace DEF PortInv, PlaceInv
<1>9. /\ \A h \in Guis \ {g} : StreamsStay(h)
      /\ Bytes("toInitiator", g)' = <<>> /\ Bytes("backToInitiator", g)' = <<>>
      /\ Bytes("toScreen", g)' = Append(<<>>, m) /\ Linked(g)'
      /\ \A h \in Guis : wire'["toInitiator"][h].edge = wire["toInitiator"][h].edge
  BY <1>3, <1>4, <1>8, AnswerMoves
<1>10. Named(g)' /\ \A h \in Guis \ {g} : Named(h)' = Named(h)
  BY <1>5, NoneAssumption DEF Named
<1>11. Forking(g)'
  <2>1. ToSet(Append(<<>>, m)) = {m} /\ ToSet(<<>>) = {}
    BY <1>3, AppendedAlone, Contents, EmptySeq
  <2>2. Answers(g)' = {m}
    BY <1>1, <1>8, <1>9, <2>1 DEF Answers, AskPooled, Silent, Still
  <2>3. Waits(g)'
    BY <1>1, <1>3, <1>8, <1>9, <1>10, <2>2 DEF Waits, AskPooled, Asks, Still
  <2>. QED BY <1>1, <1>3, <1>6, <1>8, <1>9, <2>3 DEF Forking, AskPooled, Asks, Stranger, Untold, Still
<1>12. Moves(g)
  BY <1>8, <1>11 DEF Moves, PlaceOf, PortKnown, AskPooled, Asks, Stranger
<1>13. ASSUME NEW h \in Guis \ {g} PROVE Moves(h)
  <2>1. SameView(h)
    BY <1>1, <1>6, <1>7, <1>9, <1>10 DEF SameView, StreamsStay, Still
  <2>. QED BY <2>1, Stays DEF PortInv, PlaceInv
<1>14. QueuesOnce'
  BY <1>1 DEF PortInv, QueuesOnce
<1>15. OwnerInv'
  <2>1. \A h \in Guis \ {g} : Owner(h)' = Owner(h)
    BY <1>1, <1>9, <1>10 DEF Owner, Still
  <2>2. \A h \in Guis : Owner(h) => ApiKey[h] # ApiKey[g]
    BY <1>1, <1>3 DEF PortInv, OwnerInv
  <2>3. \A h, k \in Guis : Owner(h)' /\ Owner(k)' /\ ApiKey[h] = ApiKey[k] => h = k
    BY <2>1, <2>2 DEF PortInv, OwnerInv
  <2>4. a \in Accounts /\ Key[a] = ApiKey[g]
    BY <1>3, <1>4 DEF Rows
  <2>5. a \in connected
    BY <1>1, <1>4 DEF PortInv, OwnerInv
  <2>6. \A h \in Guis : Owner(h)' => \A s \in Accounts : Key[s] = ApiKey[h] => s \in connected'
    BY <1>1, <2>1, <2>4, <2>5, KeysAssumption DEF PortInv, OwnerInv
  <2>7. \A h \in Guis : Named(h)' => \E s \in Accounts : Key[s] = ApiKey[h]
    BY <1>10, <2>4 DEF PortInv, OwnerInv
  <2>. QED BY <1>1, <2>3, <2>6, <2>7 DEF OwnerInv
<1>. QED BY <1>1, <1>12, <1>13, <1>14, <1>15, StillStep

\* The back is forked.
LEMMA ForkMoves ==
  ASSUME LoginTypes, PortInv, ForkBack, UNCHANGED <<screenVars, backStartVars>>
  PROVE  PortInv'
<1>1. /\ Still /\ UNCHANGED <<connected, backTasks, wire>> /\ login = "named" /\ Done /\ tasks # <<>>
      /\ session' = [session EXCEPT ![Head(tasks).of].cmd = TRUE]
      /\ proc' = [proc EXCEPT ![Head(tasks).of] = "running"]
  BY DEF ForkBack, Still, screenVars, backStartVars, backVars, LoginTypes, TurnInv
<1>2. PICK g \in Guis : g = Head(tasks).of /\ g \in Served(tasks) /\ session[g] \in Sessions
  BY <1>1, FirstTask
<1>3. \A h \in Guis : AtFork(h) <=> h = g
  BY <1>1, <1>2 DEF AtFork
<1>4. Forking(g)
  BY <1>2, <1>3, AskPlace DEF PortInv, PlaceInv
<1>5. \A h \in Guis : Named(h)' <=> Named(h)
  <2>1. session \in [Guis -> Sessions \cup {None}]
    BY DEF LoginTypes, InitiatorPart, InitiatorTypes
  <2>2. PICK s \in Sessions : s = [session[g] EXCEPT !.cmd = TRUE]
    BY <1>2 DEF Sessions
  <2>3. s.key = session[g].key /\ s # None /\ session[g] # None
    BY <1>2, <2>2, SessionsAssumption DEF Sessions
  <2>4. session' = [session EXCEPT ![g] = s]
    BY <1>1, <1>2, <2>2
  <2>. QED BY <2>1, <2>3, <2>4 DEF Named
<1>6. proc'[g] = "running" /\ \A h \in Guis \ {g} : proc'[h] = proc[h]
  BY <1>1, <1>2 DEF LoginTypes, HostPart
<1>7. /\ Served(tasks') = Served(tasks) \ {g} /\ Once(tasks') /\ login' = "none"
      /\ \A h \in Guis : ~AtFork(h)'
  BY <1>1, <1>2, TaskDone DEF PortInv
<1>8. \A h \in Guis : StreamsStay(h)
  BY <1>1 DEF StreamsStay, Bytes, Linked
<1>9. Launched(g)'
  <2>1. Answers(g)' = Answers(g)
    BY <1>1 DEF Answers, Bytes, Still
  <2>. QED BY <1>1, <1>4, <1>5, <1>6, <1>7, <1>8, <2>1 DEF Forking, Launched, Waits, Started, Untold, StreamsStay, Still
<1>10. Moves(g)
  BY <1>4, <1>9 DEF Moves, PlaceOf, PortKnown, Forking, Told, Started
<1>11. ASSUME NEW h \in Guis \ {g} PROVE Moves(h)
  <2>1. SameView(h)
    BY <1>1, <1>3, <1>5, <1>6, <1>7, <1>8 DEF SameView, StreamsStay, Still
  <2>. QED BY <2>1, Stays DEF PortInv, PlaceInv
<1>12. QueuesOnce'
  BY <1>1, <1>7 DEF PortInv, QueuesOnce
<1>13. OwnerInv'
  <2>1. \A h \in Guis : (Owner(h)' => Owner(h)) /\ (Named(h)' => Named(h))
    BY <1>1, <1>5 DEF Owner, Still
  <2>2. connected \subseteq connected'
    BY <1>1
  <2>. QED BY <1>7, <2>1, <2>2, OwnerKept DEF PortInv
<1>. QED BY <1>1, <1>10, <1>11, <1>12, <1>13, StillStep

\* The thread of BackHandler gives a back to a session.
LEMMA BackMessageMoves ==
  ASSUME LoginTypes, PortInv, Good', NEW b \in Guis, BackMessage(b), UNCHANGED <<screenVars, backStartVars>>
  PROVE  PortInv'
<1>1. Streams(wire) /\ "backToInitiator" \in Directions /\ SessionPart /\ backTasks \in Seq(BackTasks)
  BY SomeDirections, InitiatorFields DEF LoginTypes, InitiatorSide, PoolPart
<1>2. /\ ~AtEnd("backToInitiator", b) /\ wire' = Take(wire, "backToInitiator", b) /\ Still
      /\ UNCHANGED <<connected, tasks, login, proc>>
  BY BackFound DEF frontVars, Still, screenVars, backStartVars
<1>3. Bytes("backToInitiator", b) # <<>> /\ PlaceOf(b)
  BY <1>2 DEF AtEnd, Bytes, PortInv, PlaceInv
<1>4. PortSent(b)
  BY <1>3, AskPlace
<1>5. /\ Becomes("backToInitiator", b, AfterTake(wire["backToInitiator"][b])) /\ Kept({"toInitiator", "toScreen"})
  BY <1>1, <1>2, ReadStreams, SomeDirections DEF Kept
<1>6. /\ Steady("backToInitiator", b) /\ Bytes("backToInitiator", b)' = <<>>
  <2>1. Steady("backToInitiator", b) /\ Bytes("backToInitiator", b)' = Tail(Bytes("backToInitiator", b))
    BY <1>1, <1>3, <1>5, TakeEffect
  <2>. QED BY <1>4, <2>1 DEF PortSent, Single
<1>7. /\ Bytes("toInitiator", b)' = Bytes("toInitiator", b) /\ Answers(b)' = Answers(b)
      /\ \A h \in Guis \ {b} : StreamsStay(h)
      /\ \A h \in Guis : wire'["toInitiator"][h].edge = wire["toInitiator"][h].edge
  BY <1>2, <1>5, <1>6 DEF StreamsStay, Bytes, Linked, Kept, Steady, Answers, Still
<1>8. \A h \in Guis : AtFork(h)' <=> AtFork(h)
  BY <1>2 DEF AtFork
<1>9. ASSUME \A h \in Guis : Named(h)' <=> Named(h), QueuesOnce', PortPooled(b)' \/ PortKnown(b)',
             \A h \in Guis \ {b} : h \in Served(backTasks)' <=> h \in Served(backTasks)
      PROVE  PortInv'
  <2>1. Moves(b)
    BY <1>4, <1>9 DEF Moves, PlaceOf, PortKnown, PortSent, Single
  <2>2. ASSUME NEW h \in Guis \ {b} PROVE Moves(h)
    <3>1. SameView(h)
      BY <1>2, <1>7, <1>8, <1>9 DEF SameView, StreamsStay, Still
    <3>. QED BY <3>1, Stays DEF PortInv, PlaceInv
  <2>3. OwnerInv'
    BY <1>2, <1>7, <1>9, OwnerStays
  <2>. QED BY <1>2, <1>9, <2>1, <2>2, <2>3, StillStep
<1>10. ASSUME NEW g \in Guis, g \in ToSet(sessions), session[g].key = ApiKey[b],
              session' = [session EXCEPT ![g].socket = b],
              backTasks' = Append(backTasks, [of |-> g, port |-> b])
       PROVE  PortInv'
  <2>1. session[g] # None /\ session[g].key = ApiKey[g] /\ ApiKey[b] = ApiKey[g] /\ ApiKey[g] # None
    BY <1>1, <1>10, NoneAssumption DEF LoginTypes, AcceptedInv, SessionPart, Accepted
  <2>2. PICK s \in Sessions : s = [session[g] EXCEPT !.socket = b]
    BY <1>1, <2>1 DEF SessionPart, Sessions
  <2>3. s.key = session[g].key /\ s.socket = b /\ s # None
    <3>1. session[g] \in Sessions
      BY <1>1, <2>1 DEF SessionPart
    <3>. QED BY <2>2, <3>1, SessionsAssumption DEF Sessions
  <2>4. session'[g] = s /\ \A h \in Guis \ {g} : session'[h] = session[h]
    BY <1>1, <1>10, <2>2 DEF SessionPart
  <2>5. \A h \in Guis : Named(h)' <=> Named(h)
    BY <2>1, <2>3, <2>4 DEF Named
  <2>6. Owner(b) /\ Named(g)
    BY <1>4, <2>1 DEF Owner, PortSent, Waits, Named
  <2>7. g = b
    <3> SUFFICES ASSUME g # b PROVE FALSE
      OBVIOUS
    <3>1. ~Owner(g)
      BY <2>1, <2>6 DEF PortInv, OwnerInv
    <3>2. screen[g].stage = "gone"
      BY <2>6, <3>1 DEF Owner
    <3>3. PortKnown(g)
      BY <2>6, <3>2 DEF PortInv, PlaceInv, PlaceOf, AtForm, AskSent, AskPooled, Refused, RefusalRead, Asks, Stranger,
                        Forking, Launched, PortSent, PortPooled, Waits
    <3>4. main[g] # "start" /\ Bytes("backToInitiator", g) = <<>>
      BY <3>3 DEF PortKnown, Told
    <3>5. main'[g] # "start" /\ Bytes("backToInitiator", g)' = <<>> /\ screen'[g].stage = "gone"
      BY <1>2, <1>7, <3>2, <3>4 DEF Still, StreamsStay
    <3>6. session'[g] # None /\ session'[g].socket = b /\ b \notin {None, g}
      BY <2>3, <2>4, NoneAssumption
    <3>7. Astray'
      BY <3>5, <3>6 DEF Astray, Bytes
    <3>. QED BY <3>7 DEF Good
  <2>8. [of |-> g, port |-> b] \in BackTasks
    BY DEF BackTasks
  <2>9. Served(backTasks') = Served(backTasks) \cup {b} /\ (Once(backTasks) /\ b \notin Served(backTasks) => Once(backTasks'))
    BY <1>1, <1>10, <2>7, <2>8, ServedAppended
  <2>10. ToSet(backTasks') = ToSet(backTasks) \cup {[of |-> g, port |-> b]}
    BY <1>1, <1>10, <2>8, Appended
  <2>11. QueuesOnce'
    BY <1>2, <1>4, <2>7, <2>9, <2>10 DEF PortInv, QueuesOnce, PortSent
  <2>12. PortPooled(b)'
    BY <1>2, <1>4, <1>6, <1>7, <2>5, <2>9 DEF PortSent, PortPooled, Waits, Told, Started, Still
  <2>. QED BY <1>9, <2>5, <2>9, <2>11, <2>12
<1>11. CASE UNCHANGED <<session, backTasks>>
  <2>1. \A h \in Guis : Named(h)' <=> Named(h)
    BY <1>11 DEF Named
  <2>2. QueuesOnce'
    BY <1>2, <1>11 DEF PortInv, QueuesOnce
  <2>3. PortKnown(b)'
    BY <1>2, <1>4, <1>6, <1>7, <1>11, <2>1 DEF PortSent, PortKnown, Waits, Told, Started, Still
  <2>. QED BY <1>9, <1>11, <2>1, <2>2, <2>3
<1>. QED BY <1>10, <1>11, BackFound

\* The pool of BackHandler gives the port to the GUI.
LEMMA IdentifyBackMoves ==
  ASSUME LoginTypes, PortInv, IdentifyBack, UNCHANGED <<screenVars, backStartVars>>
  PROVE  PortInv'
<1>1. /\ Streams(wire) /\ "toScreen" \in Directions /\ "toInitiator" \in Directions /\ SessionPart
      /\ backTasks \in Seq(BackTasks) /\ Once(backTasks)
  BY SomeDirections, InitiatorFields DEF LoginTypes, InitiatorSide, PoolPart, PortInv, QueuesOnce
<1>2. /\ backTasks # <<>> /\ backTasks' = Tail(backTasks) /\ Still /\ UNCHANGED <<connected, tasks, login, proc>>
      /\ Head(backTasks) \in BackTasks
  BY BackPoolDone DEF frontVars, Still, screenVars, backStartVars
<1>3. Head(backTasks) \in ToSet(backTasks) /\ ToSet(Tail(backTasks)) \subseteq ToSet(backTasks)
  BY <1>1, <1>2, HeadTaken
<1>4. PICK g \in Guis : g = Head(backTasks).of /\ g = Head(backTasks).port
  BY <1>2, <1>3 DEF PortInv, QueuesOnce, BackTasks
<1> DEFINE m == [type |-> "InitiatorToFrontValidToken", token |-> GenerateToken, port |-> g]
<1>5. /\ g \in Served(backTasks) /\ Once(backTasks') /\ Served(backTasks') = Served(backTasks) \ {g}
  BY <1>1, <1>2, <1>4, ServedHead
<1>6. PortPooled(g)
  BY <1>5, AskPlace DEF PortInv, PlaceInv
<1>7. m \in ToScreenMessages /\ m.type = "InitiatorToFrontValidToken" /\ m.port = g
  BY DEF ToScreenMessages, Port, Tokens
<1>8. /\ Accepted(g) /\ session' = [session EXCEPT ![g].token = GenerateToken]
      /\ Kept({"backToInitiator"})
      /\ Becomes("toScreen", g, AfterPut(wire["toScreen"][g], m))
      /\ wire["toScreen"][g].open => Kept({"toInitiator"})
      /\ ~wire["toScreen"][g].open => Becomes("toInitiator", g, AfterEdge(wire["toInitiator"][g]))
  BY <1>4, BackPoolDone, SomeDirections DEF Kept
<1> HIDE DEF m
<1>9. \A h \in Guis : Named(h)' <=> Named(h)
  <2>1. session \in [Guis -> Sessions \cup {None}] /\ session[g] \in Sessions
    BY <1>1, <1>8 DEF SessionPart, Accepted
  <2>2. PICK s \in Sessions : s = [session[g] EXCEPT !.token = GenerateToken]
    BY <2>1 DEF Sessions, GenerateToken
  <2>3. s.key = session[g].key /\ s # None /\ session[g] # None
    BY <2>1, <2>2, SessionsAssumption DEF Sessions
  <2>4. session' = [session EXCEPT ![g] = s]
    BY <1>8, <2>2
  <2>. QED BY <2>1, <2>3, <2>4 DEF Named
<1>10. /\ Steady("toInitiator", g) /\ \A h \in Guis : Bytes("toInitiator", h)' = Bytes("toInitiator", h)
  <2>1. CASE wire["toScreen"][g].open
    BY <1>8, <2>1 DEF Kept, Steady, Bytes
  <2>2. CASE ~wire["toScreen"][g].open
    BY <1>1, <1>8, <2>2, EdgeEffect
  <2>. QED BY <2>1, <2>2
<1>11. /\ Steady("toScreen", g)
       /\ Bytes("toScreen", g)' = Append(Bytes("toScreen", g), m) \/ Bytes("toScreen", g)' = Bytes("toScreen", g)
  <2>1. Steady("toScreen", g)
    BY <1>1, <1>8, PutEffect
  <2>2. wire["toScreen"][g].open => Bytes("toScreen", g)' = Append(Bytes("toScreen", g), m)
    BY <1>1, <1>8, PutEffect
  <2>3. ~wire["toScreen"][g].open => wire'["toScreen"][g] = wire["toScreen"][g]
    BY <1>1, <1>8, PutEffect
  <2>. QED BY <2>1, <2>2, <2>3 DEF Bytes
<1>12. \A n \in Answers(g)' : n \in Answers(g) \/ n = m
  <2>1. Bytes("toScreen", g) \in Seq(ToScreenMessages)
    BY <1>1, StreamFields DEF Messages, Bytes
  <2>2. ToSet(Append(Bytes("toScreen", g), m)) = ToSet(Bytes("toScreen", g)) \cup {m}
    BY <1>7, <2>1, Appended
  <2>. QED BY <1>2, <1>11, <2>2 DEF Answers, Still
<1>13. \A h \in Guis : AtFork(h)' <=> AtFork(h)
  BY <1>2 DEF AtFork
<1>14. Bytes("backToInitiator", g)' = Bytes("backToInitiator", g)
  BY <1>8 DEF Kept, Bytes
<1>15. PortKnown(g)'
  BY <1>2, <1>5, <1>6, <1>7, <1>9, <1>10, <1>12, <1>14 DEF PortPooled, PortKnown, Waits, Told, Started, Still
<1>16. Moves(g)
  BY <1>15 DEF Moves, PlaceOf
<1>17. ASSUME NEW h \in Guis \ {g} PROVE Moves(h)
  <2>1. StreamsStay(h)
    BY <1>8, <1>10, <1>11 DEF StreamsStay, Steady, Kept, Bytes, Linked
  <2>2. SameView(h)
    BY <1>2, <1>5, <1>9, <1>13, <2>1 DEF SameView, StreamsStay, Still
  <2>. QED BY <2>2, Stays DEF PortInv, PlaceInv
<1>18. QueuesOnce'
  BY <1>2, <1>3, <1>5 DEF PortInv, QueuesOnce
<1>19. OwnerInv'
  <2>1. ASSUME NEW h \in Guis PROVE Owner(h)' => Owner(h)
    <3>1. h = g => Owner(h)
      BY <1>6 DEF PortPooled, Waits, Owner
    <3>2. h # g => wire'["toInitiator"][h] = wire["toInitiator"][h]
      BY <1>10 DEF Steady
    <3>. QED BY <1>2, <1>9, <3>1, <3>2 DEF Owner, Still
  <2>2. Head(tasks)' = Head(tasks) /\ login' = login /\ connected \subseteq connected'
    BY <1>2
  <2>. QED BY <1>9, <2>1, <2>2, OwnerKept DEF PortInv
<1>. QED BY <1>2, <1>16, <1>17, <1>18, <1>19, StillStep

-----------------------------------------------------------------------------
(* The steps of the backs *)

\* What a step of one back leaves alone.
BackFrame(b) ==
  /\ UNCHANGED dialed /\ Kept({"toInitiator", "toScreen"})
  /\ \A h \in Guis \ {b} : /\ proc'[h] = proc[h] /\ main'[h] = main[h]
                           /\ auth'[h] = auth[h] /\ logon'[h] = logon[h]
                           /\ wire'["backToInitiator"][h] = wire["backToInitiator"][h]
                           /\ wire'["backToScreen"][h] = wire["backToScreen"][h]
                           /\ wire'["screenToBack"][h] = wire["screenToBack"][h]
  /\ wire'["backToScreen"][b].open = wire["backToScreen"][b].open
  /\ \/ proc'[b] = proc[b]
     \/ proc'[b] = "gone" /\ (proc[b] = "told" \/ ~wire["backToScreen"][b].open)

\* And what it says to its GUI, if anything.
Says(b, m) ==
  \/ Bytes("backToScreen", b)' = Bytes("backToScreen", b)
  \/ Bytes("backToScreen", b)' = Append(Bytes("backToScreen", b), m)

\* A back ends.
LEMMA ExitEffect ==
  ASSUME LoginTypes, NEW b \in Guis, wire' = Exit(wire, b), proc' = [proc EXCEPT ![b] = "gone"],
         proc[b] = "told" \/ ~wire["backToScreen"][b].open, UNCHANGED <<main, auth, logon, dialed>>
  PROVE  /\ BackFrame(b) /\ Bytes("backToInitiator", b)' = Bytes("backToInitiator", b)
         /\ Bytes("backToScreen", b)' = Bytes("backToScreen", b) /\ Kept({"screenToBack"})
<1>1. Streams(wire) /\ "backToInitiator" \in Directions /\ "backToScreen" \in Directions /\ HostPart
  BY SomeDirections DEF LoginTypes
<1>2. /\ Kept({"toInitiator", "toScreen", "screenToBack"})
      /\ Becomes("backToInitiator", b, AfterEnd(wire["backToInitiator"][b]))
      /\ Becomes("backToScreen", b, AfterEnd(wire["backToScreen"][b]))
  BY ExitStreams, SomeDirections DEF Kept
<1>3. /\ \A h \in Guis \ {b} : wire'["backToInitiator"][h] = wire["backToInitiator"][h]
      /\ Bytes("backToInitiator", b)' = Bytes("backToInitiator", b)
  BY <1>1, <1>2, EndEffect
<1>4. /\ \A h \in Guis \ {b} : wire'["backToScreen"][h] = wire["backToScreen"][h]
      /\ Bytes("backToScreen", b)' = Bytes("backToScreen", b)
      /\ wire'["backToScreen"][b].open = wire["backToScreen"][b].open
  BY <1>1, <1>2, EndEffect
<1>5. proc'[b] = "gone" /\ \A h \in Guis \ {b} : proc'[h] = proc[h]
  BY <1>1 DEF HostPart
<1>. QED BY <1>2, <1>3, <1>4, <1>5 DEF BackFrame, Kept

\* A back tells its GUI something, or is ended by it.
LEMMA ToGuiEffect ==
  ASSUME LoginTypes, NEW b \in Guis, NEW m \in FromBackMessages, ToGui(b, m), UNCHANGED dialed,
         \A h \in Guis \ {b} : main'[h] = main[h] /\ auth'[h] = auth[h] /\ logon'[h] = logon[h]
  PROVE  /\ BackFrame(b) /\ Says(b, m) /\ Kept({"screenToBack"})
         /\ Bytes("backToInitiator", b)' = Bytes("backToInitiator", b)
<1>1. Streams(wire) /\ "backToInitiator" \in Directions /\ "backToScreen" \in Directions /\ HostPart
  BY SomeDirections DEF LoginTypes
<1>2. /\ Kept({"toInitiator", "toScreen", "screenToBack"})
      /\ \/ /\ Kept({"backToInitiator"}) /\ UNCHANGED proc
            /\ Becomes("backToScreen", b, AfterPut(wire["backToScreen"][b], m))
         \/ /\ ~wire["backToScreen"][b].open /\ proc' = [proc EXCEPT ![b] = "gone"]
            /\ Becomes("backToInitiator", b, AfterEnd(wire["backToInitiator"][b]))
            /\ Becomes("backToScreen", b, AfterEnd(wire["backToScreen"][b]))
  BY GuiStreams, SomeDirections DEF Kept
<1>3. CASE /\ Kept({"backToInitiator"}) /\ UNCHANGED proc
           /\ Becomes("backToScreen", b, AfterPut(wire["backToScreen"][b], m))
  <2>1. Steady("backToScreen", b)
    BY <1>1, <1>3, PutEffect
  <2>2. /\ wire["backToScreen"][b].open => Bytes("backToScreen", b)' = Append(Bytes("backToScreen", b), m)
        /\ ~wire["backToScreen"][b].open => wire'["backToScreen"][b] = wire["backToScreen"][b]
    BY <1>1, <1>3, PutEffect
  <2>3. Says(b, m)
    BY <2>2 DEF Says, Bytes
  <2>4. BackFrame(b)
    BY <1>2, <1>3, <2>1 DEF BackFrame, Steady, Kept
  <2>. QED BY <1>2, <1>3, <2>3, <2>4 DEF Kept, Bytes
<1>4. CASE /\ ~wire["backToScreen"][b].open /\ proc' = [proc EXCEPT ![b] = "gone"]
           /\ Becomes("backToInitiator", b, AfterEnd(wire["backToInitiator"][b]))
           /\ Becomes("backToScreen", b, AfterEnd(wire["backToScreen"][b]))
  <2>1. /\ \A h \in Guis \ {b} : wire'["backToInitiator"][h] = wire["backToInitiator"][h]
        /\ Bytes("backToInitiator", b)' = Bytes("backToInitiator", b)
    BY <1>1, <1>4, EndEffect
  <2>2. /\ \A h \in Guis \ {b} : wire'["backToScreen"][h] = wire["backToScreen"][h]
        /\ Bytes("backToScreen", b)' = Bytes("backToScreen", b)
        /\ wire'["backToScreen"][b].open = wire["backToScreen"][b].open
    BY <1>1, <1>4, EndEffect
  <2>3. proc'[b] = "gone" /\ \A h \in Guis \ {b} : proc'[h] = proc[h]
    BY <1>1, <1>4 DEF HostPart
  <2>. QED BY <1>2, <1>4, <2>1, <2>2, <2>3 DEF BackFrame, Says, Kept
<1>. QED BY <1>2, <1>3, <1>4


\* main() has not told the GUI that it runs.
Early == {"start", "wait", "dial", "core"}
Status(s) == [type |-> "Status", status |-> s]

\* The steps of main() but the first one.
LEMMA MainEffect ==
  ASSUME LoginTypes, NEW b \in Guis, Main(b), ~Connect(b)
  PROVE  /\ BackFrame(b) /\ UNCHANGED <<auth, logon>> /\ Kept({"screenToBack"})
         /\ (main'[b] = "start" <=> main[b] = "start")
         /\ Bytes("backToInitiator", b)' = Bytes("backToInitiator", b)
         /\ (main'[b] \in Early => main[b] \in Early)
         /\ \/ Says(b, Status("Initialize")) \/ Says(b, Status("Stop"))
            \/ Says(b, Status("Running")) /\ main[b] \in Early /\ main'[b] \notin Early
<1>1. main \in [Guis -> Mains]
  BY DEF LoginTypes, BackPart, BackStartTypes, Mains
<1>2. ASSUME NEW at \in Mains \ {"start"}, main' = [main EXCEPT ![b] = at], main[b] # "start"
      PROVE  /\ main'[b] = at /\ main'[b] # "start" /\ \A h \in Guis \ {b} : main'[h] = main[h]
  BY <1>1, <1>2
<1>3. {"wait", "dial", "core", "run", "stop"} \subseteq Mains \ {"start"}
  BY DEF Mains
<1>4. ASSUME NEW status \in {"Initialize", "Running", "Stop"}, ToGui(b, Status(status)),
             UNCHANGED <<auth, logon, dialed>>, \A h \in Guis \ {b} : main'[h] = main[h]
      PROVE  /\ BackFrame(b) /\ Says(b, Status(status)) /\ Kept({"screenToBack"})
             /\ Bytes("backToInitiator", b)' = Bytes("backToInitiator", b)
  <2>1. Status(status) \in FromBackMessages
    BY DEF FromBackMessages, Status
  <2>. QED BY <1>4, <2>1, ToGuiEffect
<1>5. ASSUME wire' = Exit(wire, b), proc[b] = "told", proc' = [proc EXCEPT ![b] = "gone"],
             UNCHANGED <<backStartVars, dialed>>
      PROVE  /\ BackFrame(b) /\ Says(b, Status("Stop")) /\ UNCHANGED <<auth, logon, main>> /\ Kept({"screenToBack"})
             /\ Bytes("backToInitiator", b)' = Bytes("backToInitiator", b)
  <2>1. UNCHANGED <<main, auth, logon>>
    BY <1>5 DEF backStartVars
  <2>. QED BY <1>5, <2>1, ExitEffect DEF Says
<1>6. CASE KilledEarly(b)
  BY <1>5, <1>6 DEF KilledEarly
<1>7. CASE Joined(b)
  BY <1>5, <1>7 DEF Joined
<1>8. CASE FrontendThere(b)
  <2>1. main' = [main EXCEPT ![b] = "dial"] /\ main[b] = "wait" /\ UNCHANGED <<auth, logon, wire, proc, dialed>>
    BY <1>8 DEF FrontendThere, hostVars
  <2>2. main'[b] # "start" /\ \A h \in Guis \ {b} : main'[h] = main[h]
    BY <1>2, <1>3, <2>1
  <2>. QED BY <2>1, <2>2 DEF BackFrame, Says, Kept, Bytes, Early
<1>9. CASE Initialize(b)
  <2>1. /\ main' = [main EXCEPT ![b] = "core"] /\ main[b] = "dial" /\ UNCHANGED <<auth, logon, dialed>>
        /\ ToGui(b, Status("Initialize"))
    BY <1>9 DEF Initialize, Status
  <2>2. main'[b] # "start" /\ \A h \in Guis \ {b} : main'[h] = main[h]
    BY <1>2, <1>3, <2>1
  <2>. QED BY <1>4, <2>1, <2>2 DEF Early
<1>10. CASE Start(b)
  <2>1. /\ main' = [main EXCEPT ![b] = "run"] /\ main[b] = "core" /\ UNCHANGED <<auth, logon, dialed>>
        /\ ToGui(b, Status("Running"))
    BY <1>10 DEF Start, Status
  <2>2. main'[b] = "run" /\ \A h \in Guis \ {b} : main'[h] = main[h]
    BY <1>2, <1>3, <2>1
  <2>. QED BY <1>4, <2>1, <2>2 DEF Early
<1>11. CASE Stop(b)
  <2>1. /\ main' = [main EXCEPT ![b] = "stop"] /\ main[b] = "run" /\ UNCHANGED <<auth, logon, dialed>>
        /\ ToGui(b, Status("Stop"))
    BY <1>11 DEF Stop, Status
  <2>2. main'[b] = "stop" /\ \A h \in Guis \ {b} : main'[h] = main[h]
    BY <1>2, <1>3, <2>1
  <2>. QED BY <1>4, <2>1, <2>2 DEF Early
<1>. QED BY <1>6, <1>7, <1>8, <1>9, <1>10, <1>11 DEF Main

\* The steps of the thread that gets the token and accepts the GUI.
LEMMA GreetEffect ==
  ASSUME LoginTypes, NEW b \in Guis, SetupToken(b) \/ AcceptGui(b)
  PROVE  /\ BackFrame(b) /\ UNCHANGED <<main, auth, logon>> /\ Kept({"screenToBack", "backToScreen", "backToInitiator"})
<1>1. /\ UNCHANGED <<main, auth, logon, proc, dialed>>
      /\ UNCHANGED wire \/ wire' = Take(wire, "initiatorToBack", b)
  BY DEF SetupToken, AcceptGui, hostVars
<1>2. Kept(Directions \ {"initiatorToBack"})
  <2>1. CASE UNCHANGED wire
    BY <2>1 DEF Kept
  <2>2. CASE wire' = Take(wire, "initiatorToBack", b)
    BY <2>2, ReadStreams, SomeDirections
  <2>. QED BY <1>1, <2>1, <2>2
<1>. QED BY <1>1, <1>2, SomeDirections DEF BackFrame, Kept

\* The first messages of the GUI: what they set, and how the back answers.
LEMMA ValidateEffect ==
  ASSUME LoginTypes, NEW b \in Guis, Validate(b)
  PROVE  /\ BackFrame(b) /\ UNCHANGED main /\ Kept({"backToInitiator"})
         /\ Bytes("screenToBack", b) # <<>> /\ Bytes("screenToBack", b)' = Tail(Bytes("screenToBack", b))
         /\ (auth[b].valid => auth'[b].valid) /\ (auth[b].shaken => auth'[b].shaken)
         /\ (auth'[b].shaken => auth[b].shaken \/ auth[b].valid)
         /\ \/ Says(b, [type |-> "Reject"])
            \/ Says(b, [type |-> "BackToFrontValidToken"]) /\ auth'[b].valid
         /\ \/ logon'[b] = logon[b]
            \/ auth[b].shaken /\ Head(Bytes("screenToBack", b)).type = "Logon"
<1> DEFINE taken == Take(wire, "screenToBack", b)
           m == First("screenToBack", b)
           n == [type |-> "BackToFrontValidToken"]
           r == [type |-> "Reject"]
<1>1. /\ Streams(wire) /\ "screenToBack" \in Directions /\ "backToScreen" \in Directions
      /\ auth \in [Guis -> [valid : BOOLEAN, shaken : BOOLEAN]] /\ logon \in [Guis -> {"none", "asked", "answered"}]
  BY SomeDirections DEF LoginTypes, BackPart, BackStartTypes
<1>2. /\ ~AtEnd("screenToBack", b) /\ UNCHANGED <<main, proc, dialed>>
      /\ \/ wire' = Put(taken, "backToScreen", b, n) /\ ~auth[b].valid /\ auth' = [auth EXCEPT ![b].valid = TRUE]
         \/ wire' = Put(taken, "backToScreen", b, r) /\ UNCHANGED auth
         \/ wire' = taken /\ UNCHANGED auth
         \/ wire' = taken /\ auth[b].valid /\ auth' = [auth EXCEPT ![b].shaken = TRUE]
      /\ logon' = IF auth[b].shaken /\ m.type = "Logon" THEN [logon EXCEPT ![b] = "asked"] ELSE logon
  BY DEF Validate
<1>3. m = Head(Bytes("screenToBack", b)) /\ Bytes("screenToBack", b) # <<>>
  BY <1>2 DEF First, Bytes, AtEnd
<1>4. n \in FromBackMessages /\ r \in FromBackMessages
  BY DEF FromBackMessages
<1>5. \A h \in Guis \ {b} : auth'[h] = auth[h] /\ logon'[h] = logon[h]
  BY <1>1, <1>2
<1>6. \/ auth'[b] = auth[b]
      \/ auth'[b].valid /\ auth'[b].shaken = auth[b].shaken
      \/ auth'[b].valid = auth[b].valid /\ auth[b].valid /\ auth'[b].shaken
  <2>1. auth[b] \in [valid : BOOLEAN, shaken : BOOLEAN]
    BY <1>1
  <2>2. PICK v \in [valid : BOOLEAN, shaken : BOOLEAN] : v = [auth[b] EXCEPT !.valid = TRUE]
    BY <2>1
  <2>3. PICK s \in [valid : BOOLEAN, shaken : BOOLEAN] : s = [auth[b] EXCEPT !.shaken = TRUE]
    BY <2>1
  <2>4. v.valid /\ v.shaken = auth[b].shaken /\ s.shaken /\ s.valid = auth[b].valid
    BY <2>1, <2>2, <2>3
  <2>5. \/ auth' = auth \/ auth' = [auth EXCEPT ![b] = v]
        \/ auth[b].valid /\ auth' = [auth EXCEPT ![b] = s]
    BY <1>2, <2>2, <2>3
  <2>. QED BY <1>1, <2>4, <2>5
<1>7. auth' = [auth EXCEPT ![b].valid = TRUE] => auth'[b].valid
  BY <1>1
<1>8. logon'[b] = logon[b] \/ (auth[b].shaken /\ Head(Bytes("screenToBack", b)).type = "Logon")
  BY <1>2, <1>3
<1> HIDE DEF m
<1>9. /\ Alters(taken, wire, "screenToBack", b, AfterTake(wire["screenToBack"][b])) /\ Streams(taken)
  BY <1>1, TakeStream
<1>10. \E k \in FromBackMessages : wire' = Put(taken, "backToScreen", b, k) \/ wire' = taken
  BY <1>2, <1>4
<1>11. Kept({"toInitiator", "toScreen", "backToInitiator"})
  <2>1. Kept(Directions \ {"screenToBack", "backToScreen"})
    BY <1>10, ValidateStreams
  <2>. QED BY <2>1, SomeDirections DEF Kept
<1>12. ASSUME NEW k \in FromBackMessages, wire' = Put(taken, "backToScreen", b, k) \/ wire' = taken
       PROVE  /\ Says(b, k) /\ wire'["backToScreen"][b].open = wire["backToScreen"][b].open
              /\ \A h \in Guis \ {b} : wire'["backToScreen"][h] = wire["backToScreen"][h]
              /\ Becomes("screenToBack", b, AfterTake(wire["screenToBack"][b]))
  <2>1. \A h \in Guis : taken["backToScreen"][h] = wire["backToScreen"][h]
    BY <1>1, <1>9 DEF Alters
  <2>2. CASE wire' = taken
    BY <1>1, <1>9, <2>1, <2>2 DEF Says, Bytes, Alters, Becomes
  <2>3. CASE wire' = Put(taken, "backToScreen", b, k)
    <3>1. k \in Messages("backToScreen", b)
      BY DEF Messages
    <3>2. Alters(wire', taken, "backToScreen", b, AfterPut(taken["backToScreen"][b], k))
      BY <1>1, <1>9, <2>3, <3>1, PutStream
    <3>3. Becomes("backToScreen", b, AfterPut(wire["backToScreen"][b], k))
      BY <1>1, <2>1, <3>2 DEF Alters, Becomes
    <3>4. Steady("backToScreen", b)
      BY <1>1, <3>3, PutEffect
    <3>5. /\ wire["backToScreen"][b].open => Bytes("backToScreen", b)' = Append(Bytes("backToScreen", b), k)
          /\ ~wire["backToScreen"][b].open => wire'["backToScreen"][b] = wire["backToScreen"][b]
      BY <1>1, <3>3, PutEffect
    <3>6. Becomes("screenToBack", b, AfterTake(wire["screenToBack"][b]))
      BY <1>1, <1>9, <3>2 DEF Alters, Becomes
    <3>. QED BY <3>4, <3>5, <3>6 DEF Says, Steady, Bytes
  <2>. QED BY <1>12, <2>2, <2>3
<1>13. Becomes("screenToBack", b, AfterTake(wire["screenToBack"][b]))
  BY <1>10, <1>12
<1>14. /\ \A h \in Guis \ {b} : wire'["screenToBack"][h] = wire["screenToBack"][h]
       /\ Bytes("screenToBack", b)' = Tail(Bytes("screenToBack", b))
  BY <1>1, <1>3, <1>13, TakeEffect DEF Steady
<1>15. BackFrame(b)
  BY <1>2, <1>5, <1>10, <1>11, <1>12, <1>14 DEF BackFrame, Kept
<1>16. \/ Says(b, r)
       \/ Says(b, n) /\ auth'[b].valid
  BY <1>2, <1>4, <1>7, <1>12
<1>17. (auth[b].valid => auth'[b].valid) /\ (auth[b].shaken => auth'[b].shaken)
       /\ (auth'[b].shaken => auth[b].shaken \/ auth[b].valid)
  BY <1>6
<1>18. Kept({"backToInitiator"})
  BY <1>11 DEF Kept
<1>. QED BY <1>2, <1>3, <1>8, <1>14, <1>15, <1>16, <1>17, <1>18

\* The server answers the Logon.
LEMMA LoggedOnEffect ==
  ASSUME LoginTypes, NEW b \in Guis, LoggedOn(b)
  PROVE  /\ BackFrame(b) /\ UNCHANGED <<main, auth>> /\ Kept({"screenToBack"})
         /\ Bytes("backToInitiator", b)' = Bytes("backToInitiator", b)
         /\ logon[b] = "asked" /\ logon'[b] = "answered" /\ Says(b, [type |-> "Logon"])
<1> DEFINE m == [type |-> "Logon"]
<1>1. /\ logon' = [logon EXCEPT ![b] = "answered"] /\ logon[b] = "asked" /\ ToGui(b, m)
      /\ UNCHANGED <<main, auth, dialed>>
  BY DEF LoggedOn
<1>2. logon'[b] = "answered" /\ \A h \in Guis \ {b} : logon'[h] = logon[h]
  BY <1>1 DEF LoginTypes, BackPart, BackStartTypes
<1>3. m \in FromBackMessages
  BY DEF FromBackMessages
<1> HIDE DEF m
<1>4. BackFrame(b) /\ Says(b, m) /\ Kept({"screenToBack"}) /\ Bytes("backToInitiator", b)' = Bytes("backToInitiator", b)
  BY <1>1, <1>2, <1>3, ToGuiEffect
<1>. QED BY <1>1, <1>2, <1>4 DEF m

\* The back tells its port.
LEMMA ConnectEffect ==
  ASSUME LoginTypes, NEW b \in Guis, Connect(b)
  PROVE  /\ BackFrame(b) /\ UNCHANGED <<auth, logon, proc>> /\ Kept({"screenToBack", "backToScreen"})
         /\ main[b] = "start" /\ main'[b] = "wait" /\ proc[b] # "none"
         /\ \/ Bytes("backToInitiator", b)' = Bytes("backToInitiator", b)
            \/ \E m \in Messages("backToInitiator", b) :
                 Bytes("backToInitiator", b)' = Append(Bytes("backToInitiator", b), m)
<1> DEFINE m == [type |-> "BackToInitiatorAuth", key |-> ApiKey[b], port |-> b]
<1>1. /\ Streams(wire) /\ "backToInitiator" \in Directions /\ main \in [Guis -> Mains]
      /\ m \in Messages("backToInitiator", b)
  BY SomeDirections DEF LoginTypes, BackPart, BackStartTypes, Mains, Messages
<1>2. /\ main' = [main EXCEPT ![b] = "wait"] /\ main[b] = "start" /\ proc[b] # "none"
      /\ UNCHANGED <<auth, logon, proc, dialed>> /\ wire' = Put(wire, "backToInitiator", b, m)
  BY DEF Connect, Forked
<1>3. main'[b] = "wait" /\ \A h \in Guis \ {b} : main'[h] = main[h]
  BY <1>1, <1>2
<1>4. Kept({"toInitiator", "toScreen", "screenToBack", "backToScreen"})
      /\ Becomes("backToInitiator", b, AfterPut(wire["backToInitiator"][b], m))
  BY <1>2, CallStreams, SomeDirections DEF Kept
<1> HIDE DEF m
<1>5. Steady("backToInitiator", b)
  BY <1>1, <1>4, PutEffect
<1>6. wire["backToInitiator"][b].open => Bytes("backToInitiator", b)' = Append(Bytes("backToInitiator", b), m)
  BY <1>1, <1>4, PutEffect
<1>7. ~wire["backToInitiator"][b].open => wire'["backToInitiator"][b] = wire["backToInitiator"][b]
  BY <1>1, <1>4, PutEffect
<1>8. BackFrame(b)
  BY <1>2, <1>3, <1>4, <1>5 DEF BackFrame, Kept, Steady
<1>. QED BY <1>1, <1>2, <1>3, <1>4, <1>6, <1>7, <1>8 DEF Kept, Bytes

\* Only a back that was forked takes steps.
LEMMA OnlyForked ==
  ASSUME NEW b \in Guis, Main(b) \/ Greeter(b) \/ LoggedOn(b)
  PROVE  proc[b] # "none"
BY DEF Main, Greeter, LoggedOn, Forked, KilledEarly, Connect, FrontendThere, Initialize, Start, Stop, Joined,
       SetupToken, AcceptGui, Validate

\* What a step of a back leaves alone of a GUI.
LEMMA BackView ==
  ASSUME NEW b \in Guis, BackFrame(b), UNCHANGED <<screenVars, initiatorVars>>, NEW h \in Guis, proc[b] # "none",
         h # b \/ ((main'[b] = "start" <=> main[b] = "start")
                   /\ Bytes("backToInitiator", b)' = Bytes("backToInitiator", b))
  PROVE  SameView(h)
<1>1. /\ UNCHANGED <<screen, events, session, tasks, login, backTasks>>
      /\ wire'["toInitiator"][h] = wire["toInitiator"][h] /\ wire'["toScreen"][h] = wire["toScreen"][h]
      /\ h # b => proc'[h] = proc[h] /\ main'[h] = main[h] /\ wire'["backToInitiator"][h] = wire["backToInitiator"][h]
  BY DEF BackFrame, screenVars, initiatorVars, frontVars, backVars, Kept
<1>2. proc'[h] = "none" <=> proc[h] = "none"
  BY <1>1 DEF BackFrame
<1>3. (Named(h)' <=> Named(h)) /\ (AtFork(h)' <=> AtFork(h))
  BY <1>1 DEF Named, AtFork
<1>4. (Linked(h) => Linked(h)') /\ Bytes("toInitiator", h)' = Bytes("toInitiator", h)
      /\ Bytes("toScreen", h)' = Bytes("toScreen", h)
      /\ Bytes("backToInitiator", h)' = Bytes("backToInitiator", h)
      /\ (main'[h] = "start" <=> main[h] = "start")
  BY <1>1 DEF Linked, Bytes
<1>. QED BY <1>1, <1>2, <1>3, <1>4 DEF SameView

\* A back that tells its port is known to have been forked, and its GUI waits.
LEMMA ConnectMoves ==
  ASSUME LoginTypes, NEW b \in Guis, PlaceOf(b), Connect(b), UNCHANGED <<screenVars, initiatorVars>>
  PROVE  Moves(b)
<1>1. /\ BackFrame(b) /\ UNCHANGED <<auth, logon, proc>> /\ main[b] = "start" /\ main'[b] = "wait" /\ proc[b] # "none"
      /\ \/ Bytes("backToInitiator", b)' = Bytes("backToInitiator", b)
         \/ \E m \in Messages("backToInitiator", b) :
              Bytes("backToInitiator", b)' = Append(Bytes("backToInitiator", b), m)
  BY ConnectEffect
<1>2. Launched(b)
  BY <1>1 DEF PlaceOf, AtForm, AskSent, AskPooled, Refused, RefusalRead, Asks, Stranger, Forking, PortSent,
              PortPooled, PortKnown, Told
<1>3. Bytes("backToInitiator", b) = <<>> /\ b \notin Served(backTasks)
  BY <1>2 DEF Launched, Untold
<1>4. /\ UNCHANGED <<screen, events, session, tasks, login, backTasks>>
      /\ Bytes("toInitiator", b)' = Bytes("toInitiator", b) /\ Bytes("toScreen", b)' = Bytes("toScreen", b)
  BY <1>1 DEF BackFrame, screenVars, initiatorVars, frontVars, backVars, Kept, Bytes
<1>5. Named(b)' = Named(b) /\ Answers(b)' = Answers(b)
  BY <1>4 DEF Named, Answers
<1>6. Waits(b)' /\ Told(b)'
  BY <1>1, <1>2, <1>4, <1>5 DEF Launched, Waits, Told, Started
<1>7. CASE Bytes("backToInitiator", b)' = <<>>
  <2>1. screen[b].stage \in {"asked", "named"} /\ \A m \in Answers(b) : m.type = "InitiatorToFrontAuth"
    BY <1>2 DEF Launched, Waits
  <2>2. PortKnown(b)'
    BY <1>3, <1>4, <1>5, <1>6, <1>7, <2>1 DEF PortKnown, Waits
  <2>. QED BY <2>2 DEF Moves, PlaceOf
<1>8. ASSUME NEW m \in Messages("backToInitiator", b), Bytes("backToInitiator", b)' = Append(<<>>, m)
      PROVE  Moves(b)
  <2>1. Single(Append(<<>>, m))
    BY AppendedAlone
  <2>2. Single(Bytes("backToInitiator", b))'
    BY <1>8, <2>1 DEF Single
  <2>3. PortSent(b)'
    BY <1>3, <1>4, <1>6, <2>2 DEF PortSent
  <2>4. ~PortKnown(b)
    BY <1>1 DEF PortKnown, Told
  <2>. QED BY <2>3, <2>4 DEF Moves, PlaceOf
<1>. QED BY <1>1, <1>3, <1>7, <1>8

\* The backs.
LEMMA BackMoves ==
  ASSUME LoginTypes, PortInv, NEW b \in Guis, Main(b) \/ Greeter(b) \/ LoggedOn(b),
         UNCHANGED <<screenVars, initiatorVars>>
  PROVE  PortInv'
<1>1. proc[b] # "none" /\ \A h \in Guis : PlaceOf(h)
  BY OnlyForked DEF PortInv, PlaceInv
<1>2. BackFrame(b)
  BY MainEffect, ConnectEffect, GreetEffect, ValidateEffect, LoggedOnEffect DEF Greeter
<1>3. \/ Connect(b)
      \/ (main'[b] = "start" <=> main[b] = "start") /\ Bytes("backToInitiator", b)' = Bytes("backToInitiator", b)
  <2>1. CASE Main(b)
    BY <2>1, MainEffect
  <2>2. CASE SetupToken(b) \/ AcceptGui(b)
    BY <2>2, GreetEffect DEF Kept, Bytes
  <2>3. CASE Validate(b)
    BY <2>3, ValidateEffect DEF Kept, Bytes
  <2>4. CASE LoggedOn(b)
    BY <2>4, LoggedOnEffect
  <2>. QED BY <2>1, <2>2, <2>3, <2>4 DEF Greeter
<1>4. ASSUME NEW h \in Guis PROVE Moves(h)
  <2>1. CASE h # b \/ ~Connect(b)
    <3>1. SameView(h)
      BY <1>1, <1>2, <1>3, <2>1, BackView
    <3>. QED BY <1>1, <3>1, Stays
  <2>2. CASE h = b /\ Connect(b)
    BY <1>1, <2>2, ConnectMoves
  <2>. QED BY <2>1, <2>2
<1>5. UNCHANGED <<screen, session, connected, tasks, login, backTasks, dialed>> /\ Kept({"toInitiator"})
  BY <1>2 DEF BackFrame, screenVars, initiatorVars, frontVars, backVars, Kept
<1>6. PlaceInv'
  BY <1>4 DEF PlaceInv, Moves
<1>7. QueuesOnce'
  BY <1>5 DEF PortInv, QueuesOnce
<1>8. OwnDial'
  <2>1. \A g \in Guis : screen'[g].back = screen[g].back
    BY <1>5
  <2>. QED BY <1>4, <1>5, <2>1, DialKept DEF PortInv
<1>9. OwnerInv'
  <2>1. \A g \in Guis : (Owner(g)' => Owner(g)) /\ (Named(g)' => Named(g))
    BY <1>5 DEF Owner, Named, Kept
  <2>2. Head(tasks)' = Head(tasks) /\ login' = login /\ connected \subseteq connected'
    BY <1>5
  <2>. QED BY <2>1, <2>2, OwnerKept DEF PortInv
<1>. QED BY <1>6, <1>7, <1>8, <1>9 DEF PortInv

-----------------------------------------------------------------------------
(* What lasts *)

\* What the initiator leaves of the streams, the sessions, the backs and the
\* session that FrontHandler removes.
InitiatorLines ==
  /\ Kept({"screenToBack", "backToScreen"})
  /\ \A h \in Guis : /\ wire'["toInitiator"][h].open = wire["toInitiator"][h].open
                     /\ wire'["toInitiator"][h].ended = wire["toInitiator"][h].ended
                     /\ Bytes("backToInitiator", h) = <<>> => Bytes("backToInitiator", h)' = <<>>
SessionLasts(h) ==
  session[h] # None =>
    /\ session'[h] # None
    /\ \/ session'[h].socket = session[h].socket
       \/ Bytes("backToInitiator", h) # <<>> \/ session'[h].socket \in Guis \ {h}
InitiatorFrame ==
  /\ UNCHANGED dialed /\ InitiatorLines /\ \A h \in Guis : SessionLasts(h)
  /\ \A h \in Guis : proc'[h] \in {proc[h], "running"} \/ (front.at = "stop" /\ front.of = h)
  /\ front'.at # "loop" => \/ front.at # "loop" /\ front'.of = front.of
                           \/ front'.of \in Guis /\ wire["toInitiator"][front'.of].ended

\* The initiator sends nothing.
LEMMA NoLines ==
  ASSUME UNCHANGED wire
  PROVE  InitiatorLines
BY DEF InitiatorLines, Kept, Bytes

\* It reads a GUI or a back.
LEMMA ReadLines ==
  ASSUME LoginTypes, NEW d \in {"toInitiator", "backToInitiator"}, NEW g \in Guis, wire' = Take(wire, d, g)
  PROVE  InitiatorLines
<1>1. Streams(wire) /\ d \in Directions
  BY SomeDirections DEF LoginTypes
<1>2. Kept(Directions \ {d}) /\ Becomes(d, g, AfterTake(wire[d][g]))
  BY <1>1, ReadStreams
<1>3. Steady(d, g) /\ (Bytes(d, g) = <<>> => Bytes(d, g)' = <<>>)
  BY <1>1, <1>2, TakeEffect
<1>4. \A h \in Guis : Bytes(d, h) = <<>> => Bytes(d, h)' = <<>>
  BY <1>3 DEF Steady, Bytes
<1>5. Kept({"screenToBack", "backToScreen"})
  BY <1>2, SomeDirections DEF Kept
<1>6. CASE d = "toInitiator"
  <2>1. Kept({"backToInitiator"})
    BY <1>2, <1>6, SomeDirections DEF Kept
  <2>. QED BY <1>3, <1>5, <1>6, <2>1 DEF InitiatorLines, Steady, Kept, Bytes
<1>7. CASE d = "backToInitiator"
  <2>1. Kept({"toInitiator"})
    BY <1>2, <1>7, SomeDirections DEF Kept
  <2>. QED BY <1>4, <1>5, <1>7, <2>1 DEF InitiatorLines, Kept
<1>. QED BY <1>6, <1>7

\* It writes to a GUI, whose stream may report once more.
LEMMA WriteLines ==
  ASSUME LoginTypes, NEW g \in Guis, Kept({"screenToBack", "backToScreen", "backToInitiator"}),
         Kept({"toInitiator"}) \/ Becomes("toInitiator", g, AfterEdge(wire["toInitiator"][g]))
  PROVE  InitiatorLines
<1>1. Streams(wire) /\ "toInitiator" \in Directions
  BY SomeDirections DEF LoginTypes
<1>2. \A h \in Guis : /\ wire'["toInitiator"][h].open = wire["toInitiator"][h].open
                      /\ wire'["toInitiator"][h].ended = wire["toInitiator"][h].ended
  <2>1. CASE Kept({"toInitiator"})
    BY <2>1 DEF Kept
  <2>2. CASE Becomes("toInitiator", g, AfterEdge(wire["toInitiator"][g]))
    BY <1>1, <2>2, EdgeEffect DEF Steady
  <2>. QED BY <2>1, <2>2
<1>. QED BY <1>2 DEF InitiatorLines, Kept, Bytes

\* send() to a GUI.
LEMMA ToScreenLines ==
  ASSUME LoginTypes, NEW g \in Guis, NEW m \in ToScreenMessages, ToScreen(g, m)
  PROVE  InitiatorLines
<1>1. /\ Kept(Directions \ {"toScreen", "toInitiator"})
      /\ Kept({"toInitiator"}) \/ Becomes("toInitiator", g, AfterEdge(wire["toInitiator"][g]))
  BY ScreenStreams
<1>2. Kept({"screenToBack", "backToScreen", "backToInitiator"})
  BY <1>1, SomeDirections DEF Kept
<1>. QED BY <1>1, <1>2, WriteLines

\* A session that is there is changed, and its back is as it was or another one.
LEMMA OneSession ==
  ASSUME LoginTypes, NEW g \in Guis, NEW s \in Sessions, session' = [session EXCEPT ![g] = s],
         \/ session[g] # None /\ s.socket = session[g].socket
         \/ session[g] = None \/ s.socket \in Guis \ {g} \/ Bytes("backToInitiator", g) # <<>>
  PROVE  \A h \in Guis : SessionLasts(h)
<1>1. session \in [Guis -> Sessions \cup {None}]
  BY DEF LoginTypes, InitiatorPart, InitiatorTypes
<1>2. session'[g] = s /\ s # None /\ \A h \in Guis \ {g} : session'[h] = session[h]
  BY <1>1, SessionsAssumption
<1>. QED BY <1>2 DEF SessionLasts

\* The steps of the thread of FrontHandler, and the pool that removes sessions.
LEMMA FrontFrame ==
  ASSUME LoginTypes, FrontHandler \/ RemoveSession
  PROVE  InitiatorFrame
<1>1. front \in [at : {"loop", "stop", "wait"}, of : Guis \cup {None}]
  BY DEF LoginTypes, InitiatorPart, InitiatorTypes
<1>2. UNCHANGED session => \A h \in Guis : SessionLasts(h)
  BY DEF SessionLasts
<1>3. ASSUME NEW g \in Guis, AcceptFront(g) PROVE InitiatorFrame
  <2>1. session[g] = None /\ session' = [session EXCEPT ![g] = NewSession] /\ UNCHANGED <<front, wire, proc, dialed>>
    BY <1>3 DEF AcceptFront, hostVars
  <2>2. NewSession \in Sessions
    BY DEF NewSession, Sessions
  <2>3. \A h \in Guis : SessionLasts(h)
    BY <2>1, <2>2, OneSession
  <2>. QED BY <2>1, <2>3, NoLines DEF InitiatorFrame
<1>4. ASSUME NEW g \in Guis, FrontMessage(g) PROVE InitiatorFrame
  <2>1. wire' = Take(wire, "toInitiator", g) /\ UNCHANGED <<session, front, proc, dialed>>
    BY <1>4 DEF FrontMessage
  <2>. QED BY <1>2, <2>1, ReadLines DEF InitiatorFrame
<1>5. ASSUME NEW g \in Guis, FrontEnd(g) PROVE InitiatorFrame
  <2>1. /\ wire' = Take(wire, "toInitiator", g) /\ UNCHANGED <<session, proc, dialed>>
        /\ front' = front \/ front' = [at |-> "stop", of |-> g]
        /\ wire["toInitiator"][g].ended
    BY <1>5 DEF FrontEnd, Reported, AtEnd
  <2>2. InitiatorLines
    BY <2>1, ReadLines
  <2>. QED BY <1>2, <2>1, <2>2 DEF InitiatorFrame
<1>6. CASE StopBack
  <2>1. /\ front.at = "stop" /\ UNCHANGED <<session, wire, dialed>>
        /\ UNCHANGED proc \/ proc' = [proc EXCEPT ![front.of] = IF @ = "running" THEN "told" ELSE @]
        /\ front' = [front EXCEPT !.at = "wait"] \/ front' = [at |-> "loop", of |-> None]
    BY <1>6 DEF StopBack
  <2>2. \A h \in Guis : proc'[h] = proc[h] \/ front.of = h
    BY <2>1 DEF LoginTypes, HostPart
  <2>3. front'.at # "loop" => front'.of = front.of
    BY <1>1, <2>1
  <2>. QED BY <1>2, <2>1, <2>2, <2>3, NoLines DEF InitiatorFrame
<1>7. CASE BackReaped
  BY <1>2, <1>7, NoLines DEF BackReaped, hostVars, InitiatorFrame
<1>8. CASE RemoveSession
  BY <1>2, <1>8, NoLines DEF RemoveSession, hostVars, InitiatorFrame
<1>. QED BY <1>3, <1>4, <1>5, <1>6, <1>7, <1>8 DEF FrontHandler

\* The steps of the pool of FrontHandler.
LEMMA FrontPoolFrame ==
  ASSUME LoginTypes, FrontPool
  PROVE  InitiatorFrame
<1>1. /\ tasks # <<>> /\ UNCHANGED <<dialed, front>>
  BY DEF FrontPool, LookUp, MarkConnected, Identify, ForkBack, hostVars, LoginTypes, TurnInv
<1>2. UNCHANGED session => \A h \in Guis : SessionLasts(h)
  BY DEF SessionLasts
<1>3. PICK g \in Guis : g = Head(tasks).of /\ session[g] \in Sessions
  BY <1>1, FirstTask
<1>4. session[g] # None /\ Head(tasks).msg.key = ApiKey[g]
  BY <1>1, <1>3, FirstTask, SessionsAssumption
<1>5. [type |-> "Reject"] \in ToScreenMessages /\ [type |-> "InitiatorToFrontAuth"] \in ToScreenMessages
  BY DEF ToScreenMessages
<1>6. CASE LookUp
  <2>1. UNCHANGED <<session, proc>> /\ (UNCHANGED wire \/ ToScreen(g, [type |-> "Reject"]))
    BY <1>3, <1>6 DEF LookUp
  <2>2. InitiatorLines
    BY <1>5, <2>1, NoLines, ToScreenLines
  <2>. QED BY <1>1, <1>2, <2>1, <2>2 DEF InitiatorFrame
<1>7. CASE MarkConnected
  BY <1>1, <1>2, <1>7, NoLines DEF MarkConnected, hostVars, InitiatorFrame
<1>8. CASE Identify
  <2>1. /\ ToScreen(g, [type |-> "InitiatorToFrontAuth"]) /\ UNCHANGED proc
        /\ \E n : session' = [session EXCEPT ![g].key = ApiKey[g], ![g].name = ServerName[n]]
             /\ n = CHOOSE r \in Rows(Head(tasks).msg.key, Head(tasks).msg.name) : TRUE
    BY <1>3, <1>4, <1>8 DEF Identify
  <2>2. Rows(Head(tasks).msg.key, Head(tasks).msg.name) # {}
    BY <1>8 DEF Identify, LoginTypes, TurnInv
  <2>3. PICK a \in Accounts : session' = [session EXCEPT ![g].key = ApiKey[g], ![g].name = ServerName[a]]
    BY <2>1, <2>2 DEF Rows
  <2>4. PICK s \in Sessions : s = [[session[g] EXCEPT !.key = ApiKey[g]] EXCEPT !.name = ServerName[a]]
    BY <1>3 DEF Sessions
  <2>5. s.socket = session[g].socket
    BY <1>3, <2>4 DEF Sessions
  <2>6. session \in [Guis -> Sessions \cup {None}]
    BY DEF LoginTypes, InitiatorPart, InitiatorTypes
  <2>7. session' = [session EXCEPT ![g] = s]
    BY <2>3, <2>4, <2>6
  <2>8. \A h \in Guis : SessionLasts(h)
    BY <1>4, <2>5, <2>7, OneSession
  <2>9. InitiatorLines
    BY <1>5, <2>1, ToScreenLines
  <2>. QED BY <1>1, <2>1, <2>8, <2>9 DEF InitiatorFrame
<1>9. CASE ForkBack
  <2>1. /\ session' = [session EXCEPT ![g].cmd = TRUE] /\ proc' = [proc EXCEPT ![g] = "running"] /\ UNCHANGED wire
    BY <1>3, <1>9 DEF ForkBack
  <2>2. PICK s \in Sessions : s = [session[g] EXCEPT !.cmd = TRUE]
    BY <1>3 DEF Sessions
  <2>3. s.socket = session[g].socket
    BY <1>3, <2>2 DEF Sessions
  <2>4. session' = [session EXCEPT ![g] = s]
    BY <2>1, <2>2
  <2>5. \A h \in Guis : SessionLasts(h)
    BY <1>4, <2>3, <2>4, OneSession
  <2>6. \A h \in Guis : proc'[h] \in {proc[h], "running"}
    BY <2>1 DEF LoginTypes, HostPart
  <2>. QED BY <1>1, <2>1, <2>5, <2>6, NoLines DEF InitiatorFrame
<1>. QED BY <1>6, <1>7, <1>8, <1>9 DEF FrontPool

\* The steps of BackHandler and of its pool.
LEMMA BackHandlerFrame ==
  ASSUME LoginTypes, IdentifyBack \/ \E b \in Guis : BackMessage(b)
  PROVE  InitiatorFrame
<1>1. session \in [Guis -> Sessions \cup {None}]
  BY DEF LoginTypes, InitiatorPart, InitiatorTypes
<1>2. UNCHANGED session => \A h \in Guis : SessionLasts(h)
  BY DEF SessionLasts
<1>3. ASSUME NEW b \in Guis, BackMessage(b) PROVE InitiatorFrame
  <2>1. /\ ~AtEnd("backToInitiator", b) /\ wire' = Take(wire, "backToInitiator", b) /\ UNCHANGED <<front, proc, dialed>>
        /\ UNCHANGED session \/ \E g \in Guis : g \in ToSet(sessions) /\ session' = [session EXCEPT ![g].socket = b]
    BY <1>3, BackFound DEF frontVars
  <2>2. ASSUME NEW g \in Guis, g \in ToSet(sessions), session' = [session EXCEPT ![g].socket = b]
        PROVE  \A h \in Guis : SessionLasts(h)
    <3>1. session[g] \in Sessions
      BY <1>1, <2>2 DEF LoginTypes, AcceptedInv, Accepted
    <3>2. PICK s \in Sessions : s = [session[g] EXCEPT !.socket = b]
      BY <3>1 DEF Sessions
    <3>3. s.socket = b
      BY <3>1, <3>2 DEF Sessions
    <3>4. session' = [session EXCEPT ![g] = s]
      BY <2>2, <3>2
    <3>5. g = b => Bytes("backToInitiator", g) # <<>>
      BY <2>1 DEF AtEnd, Bytes
    <3>. QED BY <3>3, <3>4, <3>5, OneSession
  <2>3. InitiatorLines
    BY <2>1, ReadLines
  <2>. QED BY <1>2, <2>1, <2>2, <2>3 DEF InitiatorFrame
<1>4. CASE IdentifyBack
  <2>1. Head(backTasks) \in BackTasks /\ Accepted(Head(backTasks).of)
    BY <1>4, BackPoolDone
  <2>2. PICK g \in Guis : g = Head(backTasks).of
    BY <2>1 DEF BackTasks
  <2>3. /\ session' = [session EXCEPT ![g].token = GenerateToken] /\ UNCHANGED <<front, proc, dialed>>
        /\ Kept(Directions \ {"initiatorToBack", "toScreen", "toInitiator"})
        /\ Kept({"toInitiator"}) \/ Becomes("toInitiator", g, AfterEdge(wire["toInitiator"][g]))
    BY <1>4, <2>2, BackPoolDone DEF frontVars
  <2>4. session[g] \in Sessions /\ session[g] # None
    BY <1>1, <2>1, <2>2 DEF Accepted
  <2>5. PICK s \in Sessions : s = [session[g] EXCEPT !.token = GenerateToken]
    BY <2>4 DEF Sessions, GenerateToken
  <2>6. s.socket = session[g].socket
    BY <2>4, <2>5 DEF Sessions
  <2>7. session' = [session EXCEPT ![g] = s]
    BY <2>3, <2>5
  <2>8. \A h \in Guis : SessionLasts(h)
    BY <2>4, <2>6, <2>7, OneSession
  <2>9. Kept({"screenToBack", "backToScreen", "backToInitiator"})
    BY <2>3, SomeDirections DEF Kept
  <2>10. InitiatorLines
    BY <2>3, <2>9, WriteLines
  <2>. QED BY <2>3, <2>8, <2>10 DEF InitiatorFrame
<1>. QED BY <1>3, <1>4

\* What a step of a GUI leaves of the streams, the backs and the other GUIs.
GuiKeeps(g) ==
  /\ UNCHANGED proc /\ Kept({"backToInitiator"})
  /\ \A h \in Guis \ {g} : /\ screen'[h] = screen[h] /\ events'[h] = events[h]
                           /\ wire'["toInitiator"][h] = wire["toInitiator"][h]
LinesKept == \A h \in Guis : wire'["toInitiator"][h].ended = wire["toInitiator"][h].ended

\* And what it says to a back, if to any.
Writes(b, m) ==
  /\ \A h \in Guis \ {b} : Bytes("screenToBack", h)' = Bytes("screenToBack", h)
  /\ b \in Guis => \/ Bytes("screenToBack", b)' = Bytes("screenToBack", b)
                   \/ Bytes("screenToBack", b)' = Append(Bytes("screenToBack", b), m)
WritesNothing == \A h \in Guis : Bytes("screenToBack", h)' = Bytes("screenToBack", h)

\* The GUI writes to a back.
LEMMA WritesTo ==
  ASSUME LoginTypes, NEW b, NEW m \in ToBackMessages, wire' = Put(wire, "screenToBack", b, m)
  PROVE  Kept(Directions \ {"screenToBack"}) /\ Writes(b, m)
<1>1. Streams(wire) /\ "screenToBack" \in Directions
  BY SomeDirections DEF LoginTypes
<1>2. Kept(Directions \ {"screenToBack"}) /\ Becomes("screenToBack", b, AfterPut(wire["screenToBack"][b], m))
  BY ToBackStreams
<1>3. CASE b \in Guis
  <2>1. Steady("screenToBack", b)
    BY <1>1, <1>2, <1>3, PutEffect
  <2>2. wire["screenToBack"][b].open => Bytes("screenToBack", b)' = Append(Bytes("screenToBack", b), m)
    BY <1>1, <1>2, <1>3, PutEffect
  <2>3. ~wire["screenToBack"][b].open => wire'["screenToBack"][b] = wire["screenToBack"][b]
    BY <1>1, <1>2, <1>3, PutEffect
  <2>. QED BY <1>2, <2>1, <2>2, <2>3 DEF Writes, Steady, Bytes
<1>4. CASE b \notin Guis
  BY <1>2, <1>4 DEF Writes, Becomes, Bytes
<1>. QED BY <1>3, <1>4

\* Where the dialog goes, by the signal that is handled.
Wants == [type |-> "Logon"]
Handles(g, e) ==
  \/ /\ screen'[g].stage \in {"asked", "named", "form"} /\ screen'[g].back = screen[g].back
     /\ UNCHANGED dialed /\ WritesNothing
  \/ /\ e.type = "InitiatorToFrontValidToken" /\ screen'[g].stage = "linking" /\ screen'[g].back = e.port
     /\ dialed[e.port] = None /\ dialed' = [dialed EXCEPT ![e.port] = g]
     /\ \E m \in ToBackMessages \ {Wants} : Writes(e.port, m)
  \/ /\ e.type = "BackToFrontValidToken" /\ screen'[g].stage = "trusted" /\ screen'[g].back = screen[g].back
     /\ UNCHANGED dialed /\ \E m \in ToBackMessages \ {Wants} : Writes(screen[g].back, m)
  \/ /\ e = Status("Running") /\ screen'[g].stage = "logon" /\ screen'[g].back = screen[g].back
     /\ UNCHANGED dialed /\ Writes(screen[g].back, Wants)
  \/ /\ e.type = "Status" /\ e # Status("Running") /\ UNCHANGED <<screen, dialed>> /\ WritesNothing
  \/ /\ e.type = "Logon" /\ screen'[g].stage = "in" /\ screen'[g].back = screen[g].back
     /\ UNCHANGED dialed /\ WritesNothing

\* The steps of the interface.
LEMMA InterfaceEffect ==
  ASSUME LoginTypes, NEW g \in Guis, Interface(g)
  PROVE  /\ GuiKeeps(g) /\ LinesKept /\ Kept({"backToScreen"})
         /\ events[g] # <<>> /\ events'[g] = Tail(events[g]) /\ Handles(g, Head(events[g]))
<1>1. /\ screen \in [Guis -> Screens] /\ screen[g] \in Screens /\ Streams(wire) /\ "toInitiator" \in Directions
      /\ events[g] # <<>> => Head(events[g]) \in Signals
  BY ScreenFields, SomeDirections DEF LoginTypes
<1>2. events[g] # <<>> /\ Handled(g) /\ UNCHANGED proc
  BY DEF Interface, SendIdentification, ValidatedIdentification, InvalidIdentification, TokenAuth, TokenValidated,
         BackNotifyStatus, BackNotifyLogon, Slot, hostVars
<1>3. PICK e \in Signals : e = Head(events[g])
  BY <1>1, <1>2
<1>4. /\ events'[g] = Tail(events[g]) /\ \A h \in Guis \ {g} : events'[h] = events[h]
  BY <1>2, HandledTypes
<1>5. ASSUME NEW stage \in Stages, Goes(g, stage)
      PROVE  /\ screen'[g].stage = stage /\ screen'[g].back = screen[g].back
             /\ \A h \in Guis \ {g} : screen'[h] = screen[h]
  <2>1. \A h \in Guis : screen'[h] = IF h = g THEN [screen[g] EXCEPT !.stage = stage] ELSE screen[h]
    BY <1>5, GoesTypes
  <2>. QED BY <1>1, <2>1 DEF Screens
<1>6. {"asked", "named", "form", "linking", "trusted", "logon", "in"} \subseteq Stages
  BY DEF Stages
<1>7. [type |-> "HandShakeAuth"] \in ToBackMessages \ {Wants} /\ Wants \in ToBackMessages
  BY DEF ToBackMessages, Wants
<1>8. ASSUME UNCHANGED wire PROVE LinesKept /\ WritesNothing /\ Kept({"backToInitiator", "backToScreen", "toInitiator"})
  BY <1>8 DEF LinesKept, WritesNothing, Kept, Bytes
<1>9. ASSUME Kept(Directions \ {"screenToBack"}) PROVE LinesKept /\ Kept({"backToInitiator", "backToScreen", "toInitiator"})
  BY <1>9, SomeDirections DEF LinesKept, Kept
<1>10. CASE SendIdentification(g)
  <2>1. Goes(g, "asked") /\ wire' = Put(wire, "toInitiator", g, Identification(g, screen[g].name)) /\ UNCHANGED dialed
    BY <1>10 DEF SendIdentification
  <2>2. screen[g].name \in Names
    BY <1>1 DEF Screens
  <2>3. /\ Kept(Directions \ {"toInitiator"})
        /\ Becomes("toInitiator", g, AfterPut(wire["toInitiator"][g], Identification(g, screen[g].name)))
    BY <2>1, <2>2, AskStreams
  <2>4. Steady("toInitiator", g)
    BY <1>1, <2>3, PutEffect
  <2>5. Kept({"backToInitiator", "backToScreen", "screenToBack"})
    BY <2>3, SomeDirections DEF Kept
  <2>6. LinesKept /\ WritesNothing /\ GuiKeeps(g)
    BY <1>2, <1>4, <1>5, <1>6, <2>1, <2>4, <2>5 DEF LinesKept, WritesNothing, GuiKeeps, Steady, Kept, Bytes
  <2>7. Handles(g, e)
    BY <1>5, <1>6, <2>1, <2>6 DEF Handles
  <2>. QED BY <1>2, <1>3, <1>4, <2>5, <2>6, <2>7 DEF Kept
<1>11. ASSUME NEW stage \in {"asked", "named", "form", "in"}, Goes(g, stage), UNCHANGED <<wire, dialed>>
       PROVE  /\ GuiKeeps(g) /\ LinesKept /\ Kept({"backToScreen"}) /\ WritesNothing
              /\ screen'[g].stage = stage /\ screen'[g].back = screen[g].back
  BY <1>2, <1>4, <1>5, <1>6, <1>8, <1>11 DEF GuiKeeps, Kept
<1>12. CASE ValidatedIdentification(g) \/ InvalidIdentification(g)
  <2>1. UNCHANGED <<wire, dialed>> /\ (Goes(g, "named") \/ Goes(g, "form"))
    BY <1>12 DEF ValidatedIdentification, InvalidIdentification, hostVars
  <2>. QED BY <1>2, <1>3, <1>4, <1>11, <2>1 DEF Handles
<1>13. CASE BackNotifyLogon(g)
  <2>1. UNCHANGED <<wire, dialed>> /\ Goes(g, "in") /\ e.type = "Logon"
    BY <1>3, <1>13 DEF BackNotifyLogon, Slot, hostVars
  <2>. QED BY <1>2, <1>3, <1>4, <1>11, <2>1 DEF Handles
<1>14. CASE TokenValidated(g)
  <2>1. /\ Goes(g, "trusted") /\ UNCHANGED dialed /\ e.type = "BackToFrontValidToken"
        /\ wire' = Put(wire, "screenToBack", screen[g].back, [type |-> "HandShakeAuth"])
    BY <1>3, <1>14 DEF TokenValidated, Slot
  <2>2. Kept(Directions \ {"screenToBack"}) /\ Writes(screen[g].back, [type |-> "HandShakeAuth"])
    BY <1>7, <2>1, WritesTo
  <2>3. GuiKeeps(g) /\ LinesKept /\ Kept({"backToScreen"})
    BY <1>2, <1>4, <1>5, <1>6, <1>9, <2>1, <2>2 DEF GuiKeeps, Kept
  <2>4. Handles(g, e)
    BY <1>5, <1>6, <1>7, <2>1, <2>2 DEF Handles
  <2>. QED BY <1>2, <1>3, <1>4, <2>3, <2>4
<1>15. CASE BackNotifyStatus(g)
  <2>1. e.type = "Status" /\ UNCHANGED dialed
    BY <1>3, <1>15 DEF BackNotifyStatus, Slot
  <2>2. CASE e.status = "Running"
    <3>1. Goes(g, "logon") /\ wire' = Put(wire, "screenToBack", screen[g].back, Wants)
      BY <1>3, <1>15, <2>2 DEF BackNotifyStatus, Wants
    <3>2. Kept(Directions \ {"screenToBack"}) /\ Writes(screen[g].back, Wants)
      BY <1>7, <3>1, WritesTo
    <3>3. GuiKeeps(g) /\ LinesKept /\ Kept({"backToScreen"})
      BY <1>2, <1>4, <1>5, <1>6, <1>9, <3>1, <3>2 DEF GuiKeeps, Kept
    <3>4. e = Status("Running")
      BY <1>3, <2>1, <2>2 DEF Signals, ToScreenMessages, Port, FromBackMessages, Status
    <3>5. Handles(g, e)
      BY <1>5, <1>6, <2>1, <3>1, <3>2, <3>4 DEF Handles
    <3>. QED BY <1>2, <1>3, <1>4, <3>3, <3>5
  <2>3. CASE e.status # "Running"
    <3>1. UNCHANGED <<screen, wire>>
      BY <1>3, <1>15, <2>3 DEF BackNotifyStatus
    <3>2. GuiKeeps(g)
      BY <1>2, <1>4, <3>1 DEF GuiKeeps, Kept
    <3>3. e # Status("Running")
      BY <2>3 DEF Status
    <3>. QED BY <1>2, <1>3, <1>4, <1>8, <2>1, <3>1, <3>2, <3>3 DEF Handles, Kept
  <2>. QED BY <2>2, <2>3
<1>16. CASE TokenAuth(g)
  <2>1. e.token \in Tokens /\ e.port \in Guis /\ e.type = "InitiatorToFrontValidToken"
    BY <1>3, <1>16, SignalFields DEF TokenAuth, Slot
  <2>2. /\ screen' = [screen EXCEPT ![g].stage = "linking", ![g].back = e.port]
        /\ dialed[e.port] = None /\ dialed' = [dialed EXCEPT ![e.port] = g]
        /\ wire' = Put(wire, "screenToBack", e.port, [type |-> "FrontToBackValidToken", token |-> e.token])
    BY <1>3, <1>16 DEF TokenAuth
  <2>3. [type |-> "FrontToBackValidToken", token |-> e.token] \in ToBackMessages \ {Wants}
    BY <2>1 DEF ToBackMessages, Wants
  <2>4. Kept(Directions \ {"screenToBack"}) /\ Writes(e.port, [type |-> "FrontToBackValidToken", token |-> e.token])
    BY <2>2, <2>3, WritesTo
  <2>5. screen'[g].stage = "linking" /\ screen'[g].back = e.port /\ \A h \in Guis \ {g} : screen'[h] = screen[h]
    BY <1>1, <2>1, <2>2 DEF Screens
  <2>6. GuiKeeps(g) /\ LinesKept /\ Kept({"backToScreen"})
    BY <1>2, <1>4, <1>9, <2>4, <2>5 DEF GuiKeeps, Kept
  <2>7. Handles(g, e)
    BY <2>1, <2>2, <2>3, <2>4, <2>5 DEF Handles
  <2>. QED BY <1>2, <1>3, <1>4, <2>6, <2>7
<1>. QED BY <1>10, <1>12, <1>13, <1>14, <1>15, <1>16 DEF Interface

\* The signals that come from the back.
BackSignals == {"BackToFrontValidToken", "Status", "Logon"}

\* A manager passes on, or drops, what is not from the back, or what is.
PassesOther(g) ==
  /\ Kept({"backToScreen"})
  /\ \/ events'[g] = events[g]
     \/ \E m \in Signals : m.type \notin BackSignals /\ events'[g] = Append(events[g], m)
PassesFrom(g, b) ==
  /\ dialed[b] = g /\ Bytes("backToScreen", b) # <<>>
  /\ Bytes("backToScreen", b)' = Tail(Bytes("backToScreen", b))
  /\ \A h \in Guis \ {b} : Bytes("backToScreen", h)' = Bytes("backToScreen", h)
  /\ \A h \in Guis : wire'["backToScreen"][h].open = wire["backToScreen"][h].open
  /\ \/ events'[g] = events[g]
     \/ /\ Head(Bytes("backToScreen", b)).type \in Connected(screen[g].stage)
        /\ events'[g] = Append(events[g], Head(Bytes("backToScreen", b)))

\* The steps of the two managers of a GUI.
LEMMA ManagersEffect ==
  ASSUME LoginTypes, NEW g \in Guis, Managers(g)
  PROVE  /\ GuiKeeps(g) /\ LinesKept /\ UNCHANGED <<screen, dialed>> /\ WritesNothing
         /\ wire'["toInitiator"][g].edge = wire["toInitiator"][g].edge
         /\ screen[g].stage \in Ended => events'[g] = events[g]
         /\ PassesOther(g) \/ \E b \in Guis : PassesFrom(g, b)
<1>1. /\ Streams(wire) /\ "toInitiator" \in Directions /\ "toScreen" \in Directions /\ "backToScreen" \in Directions
      /\ UNCHANGED <<screen, proc, dialed>>
  BY SomeDirections DEF LoginTypes, Managers, InitiatorConnects, InitiatorReceives, BackReceives
<1>2. Connected("gone") = {} /\ Connected("aborted") = {}
  BY DEF Connected
<1>3. ASSUME NEW m \in Signals, Emit(g, m)
      PROVE  /\ \A h \in Guis \ {g} : events'[h] = events[h]
             /\ screen[g].stage \in Ended => events'[g] = events[g]
             /\ \/ m.type \in Connected(screen[g].stage) /\ events'[g] = Append(events[g], m)
                \/ events'[g] = events[g]
  <2>1. /\ \A h \in Guis \ {g} : events'[h] = events[h]
        /\ \/ m.type \in Connected(screen[g].stage) /\ events'[g] = Append(events[g], m)
           \/ events'[g] = events[g]
    BY <1>3, EmitTypes
  <2>. QED BY <1>2, <2>1 DEF Ended
<1>4. CASE InitiatorConnects(g)
  <2> DEFINE m == [type |-> "connectionReady"]
  <2>1. wire' = Open(wire, g) /\ Emit(g, m)
    BY <1>4 DEF InitiatorConnects
  <2>2. m \in Signals /\ m.type \notin BackSignals
    BY DEF Signals, BackSignals
  <2>3. /\ Kept(Directions \ {"toInitiator", "toScreen"})
        /\ Becomes("toInitiator", g, AfterOpen(wire["toInitiator"][g], TRUE))
    BY <2>1, ConnectStreams
  <2>4. /\ \A h \in Guis \ {g} : wire'["toInitiator"][h] = wire["toInitiator"][h]
        /\ \A h \in Guis : /\ wire'["toInitiator"][h].ended = wire["toInitiator"][h].ended
                           /\ wire'["toInitiator"][h].edge = wire["toInitiator"][h].edge
    BY <1>1, <2>3, OpenEffect
  <2>5. Kept({"backToInitiator", "screenToBack", "backToScreen"})
    BY <2>3, SomeDirections DEF Kept
  <2> HIDE DEF m
  <2>6. PassesOther(g) /\ (\A h \in Guis \ {g} : events'[h] = events[h])
        /\ (screen[g].stage \in Ended => events'[g] = events[g])
    BY <1>3, <2>1, <2>2, <2>5 DEF PassesOther, Kept
  <2>. QED BY <1>1, <2>4, <2>5, <2>6 DEF GuiKeeps, LinesKept, WritesNothing, Kept, Bytes
<1>5. CASE InitiatorReceives(g)
  <2> DEFINE m == First("toScreen", g)
  <2>1. wire' = Take(wire, "toScreen", g) /\ Emit(g, m) /\ ~AtEnd("toScreen", g)
    BY <1>5 DEF InitiatorReceives
  <2>2. m \in ToScreenMessages
    BY <1>1, <2>1, FirstFits DEF Messages
  <2>3. m \in Signals /\ m.type \notin BackSignals
    BY <2>2 DEF Signals, BackSignals, ToScreenMessages, Port
  <2>4. Kept({"toInitiator", "backToInitiator", "screenToBack", "backToScreen"})
    <3>1. Kept(Directions \ {"toScreen"})
      BY <1>1, <2>1, ReadStreams
    <3>. QED BY <3>1, SomeDirections DEF Kept
  <2> HIDE DEF m
  <2>5. PassesOther(g) /\ (\A h \in Guis \ {g} : events'[h] = events[h])
        /\ (screen[g].stage \in Ended => events'[g] = events[g])
    BY <1>3, <2>1, <2>3, <2>4 DEF PassesOther, Kept
  <2>. QED BY <1>1, <2>4, <2>5 DEF GuiKeeps, LinesKept, WritesNothing, Kept, Bytes
<1>6. CASE BackReceives(g)
  <2>1. PICK b \in Guis :
          /\ dialed[b] = g /\ ~AtEnd("backToScreen", b) /\ wire' = Take(wire, "backToScreen", b)
          /\ IF First("backToScreen", b).type = "Reject" THEN UNCHANGED <<events, lost>>
                                                         ELSE Emit(g, First("backToScreen", b))
    BY <1>6 DEF BackReceives
  <2> DEFINE m == First("backToScreen", b)
  <2>2. m \in FromBackMessages /\ m \in Signals
    BY <1>1, <2>1, FirstFits DEF Messages, Signals
  <2>3. m = Head(Bytes("backToScreen", b)) /\ Bytes("backToScreen", b) # <<>>
    BY <2>1 DEF First, Bytes, AtEnd
  <2> HIDE DEF m
  <2>4. /\ \A h \in Guis \ {g} : events'[h] = events[h]
        /\ screen[g].stage \in Ended => events'[g] = events[g]
        /\ \/ m.type \in Connected(screen[g].stage) /\ events'[g] = Append(events[g], m)
           \/ events'[g] = events[g]
    <3>1. UNCHANGED events \/ Emit(g, m)
      BY <2>1 DEF m
    <3>. QED BY <1>3, <2>2, <3>1
  <2>5. Kept(Directions \ {"backToScreen"}) /\ Becomes("backToScreen", b, AfterTake(wire["backToScreen"][b]))
    BY <1>1, <2>1, ReadStreams
  <2>6. Kept({"toInitiator", "backToInitiator", "screenToBack"})
    BY <2>5, SomeDirections DEF Kept
  <2>7. Steady("backToScreen", b) /\ Bytes("backToScreen", b)' = Tail(Bytes("backToScreen", b))
    BY <1>1, <2>3, <2>5, TakeEffect
  <2>8. PassesFrom(g, b)
    BY <2>1, <2>3, <2>4, <2>7 DEF PassesFrom, Steady, Bytes
  <2>. QED BY <1>1, <2>4, <2>6, <2>8 DEF GuiKeeps, LinesKept, WritesNothing, Kept, Bytes
<1>. QED BY <1>4, <1>5, <1>6 DEF Managers

\* A click.
LEMMA SubmitEffect ==
  ASSUME LoginTypes, NEW g \in Guis, NEW name \in Typed[g], Submit(g, name)
  PROVE  /\ GuiKeeps(g) /\ LinesKept /\ UNCHANGED <<events, dialed>> /\ WritesNothing /\ Kept({"backToScreen"})
         /\ screen[g].stage = "form" /\ screen'[g].stage \in {"connecting", "asked"}
         /\ screen'[g].back = screen[g].back
<1>1. screen \in [Guis -> Screens] /\ screen[g] \in Screens /\ Streams(wire) /\ "toInitiator" \in Directions
  BY ScreenFields, SomeDirections DEF LoginTypes
<1>2. name \in Names /\ UNCHANGED <<events, proc, dialed>> /\ screen[g].stage = "form"
  BY DEF Names, Submit
<1>3. screen[g].tries < MaxSubmits /\ 1 \in 0..MaxSubmits /\ screen[g].tries + 1 \in 0..MaxSubmits
  BY <1>1, BoundsAssumption DEF Screens, Submit
<1>4. \/ /\ UNCHANGED wire
         /\ screen' = [screen EXCEPT ![g] = [screen[g] EXCEPT !.stage = "connecting", !.tries = 1, !.name = name]]
      \/ /\ wire' = Put(wire, "toInitiator", g, Identification(g, name))
         /\ screen' = [screen EXCEPT ![g] =
                         [screen[g] EXCEPT !.stage = "asked", !.tries = screen[g].tries + 1, !.name = name]]
  BY <1>1 DEF Submit
<1>5. \A n \in 0..MaxSubmits, stage \in Stages :
        /\ [screen[g] EXCEPT !.stage = stage, !.tries = n, !.name = name] \in Screens
        /\ [screen[g] EXCEPT !.stage = stage, !.tries = n, !.name = name].stage = stage
        /\ [screen[g] EXCEPT !.stage = stage, !.tries = n, !.name = name].back = screen[g].back
  BY <1>1, <1>2 DEF Screens
<1>6. PICK s \in Screens :
        screen' = [screen EXCEPT ![g] = s] /\ s.stage \in {"connecting", "asked"} /\ s.back = screen[g].back
  <2>1. "connecting" \in Stages /\ "asked" \in Stages
    BY DEF Stages
  <2>2. ASSUME NEW n \in 0..MaxSubmits, NEW stage \in {"connecting", "asked"},
               screen' = [screen EXCEPT ![g] =
                            [screen[g] EXCEPT !.stage = stage, !.tries = n, !.name = name]]
        PROVE  \E s \in Screens :
                 screen' = [screen EXCEPT ![g] = s] /\ s.stage \in {"connecting", "asked"} /\ s.back = screen[g].back
    <3> DEFINE s == [screen[g] EXCEPT !.stage = stage, !.tries = n, !.name = name]
    <3>1. s \in Screens /\ s.stage = stage /\ s.back = screen[g].back
      BY <1>5, <2>1
    <3>2. screen' = [screen EXCEPT ![g] = s]
      BY <2>2
    <3> HIDE DEF s
    <3>. QED BY <3>1, <3>2
  <2>3. CASE screen' = [screen EXCEPT ![g] = [screen[g] EXCEPT !.stage = "connecting", !.tries = 1, !.name = name]]
    BY <1>3, <2>2, <2>3
  <2>4. CASE screen' = [screen EXCEPT ![g] =
                          [screen[g] EXCEPT !.stage = "asked", !.tries = screen[g].tries + 1, !.name = name]]
    BY <1>3, <2>2, <2>4
  <2>. QED BY <1>4, <2>3, <2>4
<1>7. screen'[g] = s /\ \A h \in Guis \ {g} : screen'[h] = screen[h]
  BY <1>1, <1>6
<1>8. CASE UNCHANGED wire
  BY <1>2, <1>6, <1>7, <1>8 DEF GuiKeeps, LinesKept, WritesNothing, Kept, Bytes
<1>9. CASE wire' = Put(wire, "toInitiator", g, Identification(g, name))
  <2>1. /\ Kept(Directions \ {"toInitiator"})
        /\ Becomes("toInitiator", g, AfterPut(wire["toInitiator"][g], Identification(g, name)))
    BY <1>2, <1>9, AskStreams
  <2>2. Steady("toInitiator", g)
    BY <1>1, <2>1, PutEffect
  <2>3. Kept({"backToInitiator", "backToScreen", "screenToBack"})
    BY <2>1, SomeDirections DEF Kept
  <2>. QED BY <1>2, <1>6, <1>7, <2>2, <2>3 DEF GuiKeeps, LinesKept, WritesNothing, Steady, Kept, Bytes
<1>. QED BY <1>4, <1>8, <1>9

\* A GUI ends.
LEMMA QuitEffect ==
  ASSUME LoginTypes, NEW g \in Guis, Quit(g)
  PROVE  /\ GuiKeeps(g) /\ UNCHANGED dialed /\ WritesNothing /\ events'[g] = <<>>
         /\ wire'["toInitiator"][g].edge
         /\ screen[g].stage \notin Ended /\ screen'[g].stage \in Ended /\ screen'[g].back = screen[g].back
         /\ \A h \in Guis : Bytes("backToScreen", h)' = Bytes("backToScreen", h)
         /\ \A h \in Guis \ {screen[g].back} : wire'["backToScreen"][h].open = wire["backToScreen"][h].open
<1>1. /\ screen[g].back \in Guis \cup {None} /\ screen \in [Guis -> Screens] /\ events \in [Guis -> Seq(Signals)]
      /\ Streams(wire) /\ "toInitiator" \in Directions /\ "screenToBack" \in Directions /\ "backToScreen" \in Directions
      /\ screen[g] \in Screens
  BY ScreenFields, SomeDirections DEF Screens, LoginTypes, ScreenPart
<1>2. /\ events' = [events EXCEPT ![g] = <<>>] /\ UNCHANGED <<proc, dialed>>
      /\ Closes(g, screen[g].back) /\ screen[g].stage \in Ready
  BY DEF Quit, Closes
<1>3. PICK stage \in Ended : Goes(g, stage) /\ stage \in Stages
  BY DEF Quit, Ended, Stages
<1>4. \A h \in Guis : screen'[h] = IF h = g THEN [screen[g] EXCEPT !.stage = stage] ELSE screen[h]
  BY <1>3, GoesTypes
<1>5. screen'[g].stage = stage /\ screen'[g].back = screen[g].back
  BY <1>1, <1>4 DEF Screens
<1>6. /\ Becomes("toInitiator", g, AfterEnd(wire["toInitiator"][g]))
      /\ Becomes("backToScreen", screen[g].back, AfterOpen(wire["backToScreen"][screen[g].back], FALSE))
      /\ Becomes("screenToBack", screen[g].back, AfterEnd(wire["screenToBack"][screen[g].back]))
      /\ Kept({"backToInitiator"})
  BY <1>1, <1>2, QuitStreams DEF Kept
<1>7. wire'["toInitiator"][g].edge /\ \A h \in Guis \ {g} : wire'["toInitiator"][h] = wire["toInitiator"][h]
  BY <1>1, <1>6, EndEffect
<1>8. WritesNothing
  <2>1. CASE screen[g].back \in Guis
    BY <1>1, <1>6, <2>1, EndEffect DEF WritesNothing
  <2>2. CASE screen[g].back \notin Guis
    BY <1>6, <2>2 DEF WritesNothing, Becomes, Bytes
  <2>. QED BY <2>1, <2>2
<1>9. /\ \A h \in Guis : Bytes("backToScreen", h)' = Bytes("backToScreen", h)
      /\ \A h \in Guis \ {screen[g].back} : wire'["backToScreen"][h].open = wire["backToScreen"][h].open
  <2>1. CASE screen[g].back \in Guis
    BY <1>1, <1>6, <2>1, OpenEffect
  <2>2. CASE screen[g].back \notin Guis
    BY <1>6, <2>2 DEF Becomes, Bytes
  <2>. QED BY <2>1, <2>2
<1>10. events'[g] = <<>> /\ \A h \in Guis \ {g} : events'[h] = events[h]
  BY <1>1, <1>2
<1>11. GuiKeeps(g)
  BY <1>2, <1>4, <1>6, <1>7, <1>10 DEF GuiKeeps
<1>12. screen[g].stage \notin Ended
  BY <1>2 DEF Ready
<1>. QED BY <1>2, <1>3, <1>5, <1>7, <1>8, <1>9, <1>10, <1>11, <1>12

-----------------------------------------------------------------------------
(* The first invariant: a login is in its place as long as nothing is astray *)

\* What no step takes back: a GUI that has ended stays so, and is told nothing
\* more; its stream ends with it ...
GuiLasts(g) ==
  /\ screen[g].stage \in Ended => screen'[g].stage = screen[g].stage
  /\ screen'[g].stage \in Ended => events'[g] = <<>>
  /\ wire'["toInitiator"][g].ended => wire["toInitiator"][g].ended \/ screen'[g].stage \in Ended
\* ... its session stays, and its back tells its port once.
BackLasts(g) ==
  /\ SessionLasts(g)
  /\ main[g] # "start" => /\ main'[g] # "start"
                          /\ Bytes("backToInitiator", g) = <<>> => Bytes("backToInitiator", g)' = <<>>
Lasts == \A g \in Guis : GuiLasts(g) /\ BackLasts(g)

\* A GUI that is as it was.
LEMMA SameGui ==
  ASSUME EndInv, NEW g \in Guis, screen'[g] = screen[g], events'[g] = events[g],
         wire'["toInitiator"][g].ended = wire["toInitiator"][g].ended
  PROVE  GuiLasts(g)
BY DEF EndInv, GuiLasts

\* A session and a back that are as they were.
LEMMA SameBack ==
  ASSUME NEW g \in Guis, session'[g] = session[g], main'[g] = main[g],
         Bytes("backToInitiator", g)' = Bytes("backToInitiator", g)
  PROVE  BackLasts(g)
BY DEF BackLasts, SessionLasts

\* The steps of a GUI.
LEMMA ScreenLasts ==
  ASSUME LoginTypes, EndInv, NEW g \in Guis, Interface(g) \/ Managers(g) \/ User(g),
         UNCHANGED <<initiatorVars, backStartVars>>
  PROVE  Lasts
<1>1. GuiKeeps(g)
  BY InterfaceEffect, ManagersEffect, SubmitEffect, QuitEffect DEF User
<1>2. UNCHANGED <<session, main>>
  BY DEF initiatorVars, backStartVars
<1>3. \A h \in Guis : BackLasts(h)
  BY <1>1, <1>2, SameBack DEF GuiKeeps, Kept, Bytes
<1>4. \A h \in Guis \ {g} : GuiLasts(h)
  BY <1>1, SameGui DEF GuiKeeps
<1>5. GuiLasts(g)
  <2>1. CASE Interface(g)
    <3>1. LinesKept /\ events[g] # <<>> /\ Handles(g, Head(events[g]))
      BY <2>1, InterfaceEffect
    <3>2. screen[g].stage \notin Ended
      BY <3>1 DEF EndInv
    <3>3. screen'[g].stage \notin Ended
      BY <3>1, <3>2 DEF Handles, Ended
    <3>. QED BY <3>1, <3>2, <3>3 DEF GuiLasts, LinesKept
  <2>2. CASE Managers(g)
    <3>1. /\ LinesKept /\ screen'[g] = screen[g]
          /\ screen[g].stage \in Ended => events'[g] = events[g]
      BY <2>2, ManagersEffect
    <3>. QED BY <3>1 DEF EndInv, GuiLasts, LinesKept
  <2>3. ASSUME NEW name \in Typed[g], Submit(g, name) PROVE GuiLasts(g)
    <3>1. LinesKept /\ screen[g].stage = "form" /\ screen'[g].stage \in {"connecting", "asked"}
      BY <2>3, SubmitEffect
    <3>. QED BY <3>1 DEF GuiLasts, LinesKept, Ended
  <2>4. CASE Quit(g)
    BY <2>4, QuitEffect DEF GuiLasts
  <2>. QED BY <2>1, <2>2, <2>3, <2>4 DEF User
<1>. QED BY <1>3, <1>4, <1>5 DEF Lasts

\* The steps of the initiator.
LEMMA InitiatorLasts ==
  ASSUME EndInv, InitiatorFrame, UNCHANGED <<screenVars, backStartVars>>
  PROVE  Lasts
<1>1. UNCHANGED <<screen, events, main>>
  BY DEF screenVars, backStartVars
<1>2. \A g \in Guis : GuiLasts(g)
  BY <1>1, SameGui DEF InitiatorFrame, InitiatorLines
<1>3. \A g \in Guis : BackLasts(g)
  BY <1>1 DEF InitiatorFrame, InitiatorLines, BackLasts
<1>. QED BY <1>2, <1>3 DEF Lasts

\* The steps of a back.
LEMMA BackProcessLasts ==
  ASSUME LoginTypes, EndInv, NEW b \in Guis, Main(b) \/ Greeter(b) \/ LoggedOn(b),
         UNCHANGED <<screenVars, initiatorVars>>
  PROVE  Lasts
<1>1. BackFrame(b)
  BY MainEffect, ConnectEffect, GreetEffect, ValidateEffect, LoggedOnEffect DEF Greeter
<1>2. UNCHANGED <<screen, events, session>>
  BY DEF screenVars, initiatorVars
<1>3. \A g \in Guis : GuiLasts(g)
  BY <1>1, <1>2, SameGui DEF BackFrame, Kept
<1>4. \A g \in Guis \ {b} : BackLasts(g)
  BY <1>1, <1>2, SameBack DEF BackFrame, Bytes
<1>5. BackLasts(b)
  <2>1. main[b] # "start" => main'[b] # "start" /\ Bytes("backToInitiator", b)' = Bytes("backToInitiator", b)
    <3>1. CASE Connect(b)
      BY <3>1, ConnectEffect
    <3>2. CASE Main(b) /\ ~Connect(b)
      BY <3>2, MainEffect
    <3>3. CASE SetupToken(b) \/ AcceptGui(b)
      BY <3>3, GreetEffect DEF Kept, Bytes
    <3>4. CASE Validate(b)
      BY <3>4, ValidateEffect DEF Kept, Bytes
    <3>5. CASE LoggedOn(b)
      BY <3>5, LoggedOnEffect
    <3>. QED BY <3>1, <3>2, <3>3, <3>4, <3>5 DEF Greeter
  <2>. QED BY <1>2, <2>1 DEF BackLasts, SessionLasts
<1>. QED BY <1>3, <1>4, <1>5 DEF Lasts

\* So a stream ends with its GUI.
LEMMA EndKept ==
  ASSUME EndInv, Lasts
  PROVE  EndInv'
BY DEF EndInv, Lasts, GuiLasts

\* And what is not good does not become so.
LEMMA GoodBefore ==
  ASSUME Lasts, Good'
  PROVE  Good
<1>1. Patient
  BY DEF Good, Patient, Lasts, GuiLasts, Ended
<1>2. ~Astray
  <2> SUFFICES ASSUME NEW g \in Guis, screen[g].stage = "gone", session[g] # None,
                      session[g].socket \notin {None, g}, main[g] # "start", Bytes("backToInitiator", g) = <<>>
               PROVE  FALSE
    BY DEF Astray, Bytes
  <2>1. GuiLasts(g) /\ BackLasts(g)
    BY DEF Lasts
  <2>2. screen'[g].stage = "gone" /\ main'[g] # "start" /\ Bytes("backToInitiator", g)' = <<>>
    BY <2>1 DEF GuiLasts, BackLasts, Ended
  <2>3. session'[g] # None /\ session'[g].socket \notin {None, g}
    BY <2>1, NoneAssumption DEF BackLasts, SessionLasts
  <2>. QED BY <2>2, <2>3 DEF Good, Astray, Bytes
<1>. QED BY <1>1, <1>2 DEF Good

\* The types, and the places of the logins while nothing is astray.
LoginInv == LoginTypes /\ EndInv /\ (Good => PortInv)

\* No step takes back what lasts.
LEMMA StepLasts ==
  ASSUME LoginTypes, EndInv, [Next]_vars
  PROVE  Lasts
<1>1. ASSUME NEW g \in Guis, InterfaceStep(g) \/ ManagersStep(g) \/ UserStep(g) PROVE Lasts
  BY <1>1, ScreenLasts DEF InterfaceStep, ManagersStep, UserStep
<1>2. CASE FrontHandlerStep \/ RemoveStep
  BY <1>2, FrontFrame, InitiatorLasts DEF FrontHandlerStep, RemoveStep
<1>3. CASE FrontPoolStep
  BY <1>3, FrontPoolFrame, InitiatorLasts DEF FrontPoolStep
<1>4. CASE BackHandlerStep \/ BackPoolStep
  BY <1>4, BackHandlerFrame, InitiatorLasts DEF BackHandlerStep, BackHandler, BackPoolStep
<1>5. ASSUME NEW b \in Guis, MainStep(b) \/ GreeterStep(b) \/ ServerStep(b) PROVE Lasts
  BY <1>5, BackProcessLasts DEF MainStep, GreeterStep, ServerStep
<1>6. CASE UNCHANGED vars
  <2>1. UNCHANGED <<screen, events, wire, session, main>>
    BY <1>6 DEF vars, hostVars, screenVars, initiatorVars, backStartVars
  <2>. QED BY <2>1, SameGui, SameBack DEF Lasts, Bytes
<1>. QED BY <1>1, <1>2, <1>3, <1>4, <1>5, <1>6 DEF Next, Threads

\* A step of any of the programs leaves every login in its place.
LEMMA PortStep ==
  ASSUME LoginTypes, EndInv, PortInv, Good, Good', [Next]_vars
  PROVE  PortInv'
<1>1. Patient /\ Patient'
  BY DEF Good
<1>2. ASSUME NEW g \in Guis, InterfaceStep(g) PROVE PortInv'
  BY <1>2, InterfaceMoves DEF InterfaceStep
<1>3. ASSUME NEW g \in Guis, ManagersStep(g) PROVE PortInv'
  BY <1>3, ManagersMoves DEF ManagersStep
<1>4. ASSUME NEW g \in Guis, UserStep(g) PROVE PortInv'
  BY <1>1, <1>4, SubmitMoves, QuitMoves DEF UserStep, User
<1>5. CASE FrontHandlerStep
  BY <1>1, <1>5, FrontQuiet, MessageMoves, FrontEndMoves DEF FrontHandlerStep, FrontHandler
<1>6. CASE FrontPoolStep
  BY <1>6, LookUpMoves, MarkMoves, IdentifyMoves, ForkMoves DEF FrontPoolStep, FrontPool
<1>7. CASE BackHandlerStep
  BY <1>7, BackMessageMoves DEF BackHandlerStep, BackHandler
<1>8. CASE BackPoolStep
  BY <1>8, IdentifyBackMoves DEF BackPoolStep
<1>9. CASE RemoveStep
  BY <1>9, FrontQuiet DEF RemoveStep
<1>10. ASSUME NEW b \in Guis, MainStep(b) \/ GreeterStep(b) \/ ServerStep(b) PROVE PortInv'
  BY <1>10, BackMoves DEF MainStep, GreeterStep, ServerStep
<1>11. CASE UNCHANGED vars
  <2>1. UNCHANGED <<screenVars, initiatorVars, backStartVars, hostVars>>
    BY <1>11 DEF vars
  <2>2. UNCHANGED <<screen, events, wire, proc, dialed, session, tasks, login, backTasks, connected, main>>
    BY <2>1 DEF hostVars, screenVars, initiatorVars, frontVars, backVars, backStartVars
  <2>3. \A g \in Guis : SameView(g)
    BY <2>2 DEF SameView, Bytes, Linked, Named, AtFork
  <2>4. \A g \in Guis : Moves(g)
    BY <2>3, Stays DEF PortInv, PlaceInv
  <2>5. OwnDial'
    BY <2>2, <2>4, DialKept DEF PortInv
  <2>6. OwnerInv'
    BY <2>2 DEF PortInv, OwnerInv, Owner, Named, Rows
  <2>. QED BY <2>2, <2>4, <2>5, <2>6 DEF PortInv, PlaceInv, QueuesOnce, Moves
<1>. QED BY <1>2, <1>3, <1>4, <1>5, <1>6, <1>7, <1>8, <1>9, <1>10, <1>11 DEF Next, Threads

\* No login has begun.
LEMMA PortInit ==
  ASSUME Init
  PROVE  EndInv /\ PortInv
<1>1. LoginTypes
  BY TypeInit
<1>2. \A d \in Directions, g \in Guis :
        /\ wire[d][g].bytes = <<>> /\ wire[d][g].edge = FALSE /\ wire[d][g].ended = FALSE
  BY DEF Init, HostInit, NewStream
<1>3. \A g \in Guis : /\ screen[g].stage = "form" /\ screen[g].tries = 0 /\ screen[g].back = None /\ events[g] = <<>>
                      /\ session[g] = None /\ proc[g] = "none" /\ dialed[g] = None /\ main[g] = "start"
  BY DEF Init, HostInit, ScreenInit, InitiatorInit, BackStartInit
<1>4. tasks = <<>> /\ backTasks = <<>> /\ login = "none"
  BY DEF Init, InitiatorInit
<1>5. EndInv
  BY <1>2, <1>3, SomeDirections DEF EndInv
<1>6. ToSet(<<>>) = {}
  BY EmptySeq, Contents
<1>7. Served(tasks) = {} /\ Served(backTasks) = {} /\ ToSet(backTasks) = {}
  BY <1>4, <1>6 DEF Served
<1>8. \A g \in Guis : AtForm(g)
  BY <1>2, <1>3, <1>4, <1>7, SomeDirections DEF AtForm, Stranger, Named, Untold, Idle, Bytes
<1>9. PlaceInv
  BY <1>8 DEF PlaceInv, PlaceOf
<1>10. QueuesOnce
  BY <1>4, <1>7 DEF QueuesOnce, Once
<1>11. OwnDial
  BY <1>3, NoneAssumption DEF OwnDial
<1>12. OwnerInv
  BY <1>3, <1>4 DEF OwnerInv, Owner, Named
<1>. QED BY <1>5, <1>9, <1>10, <1>11, <1>12 DEF PortInv

\* The invariant is inductive.
LEMMA LoginStep ==
  LoginInv /\ [Next]_vars => LoginInv'
<1> SUFFICES ASSUME LoginInv, [Next]_vars PROVE LoginInv'
  OBVIOUS
<1>1. LoginTypes /\ EndInv /\ (Good => PortInv)
  BY DEF LoginInv
<1>2. LoginTypes'
  BY <1>1, TypeStep
<1>3. Lasts
  BY <1>1, StepLasts
<1>4. EndInv'
  BY <1>1, <1>3, EndKept
<1>5. ASSUME Good' PROVE PortInv'
  BY <1>1, <1>3, <1>5, GoodBefore, PortStep
<1>6. (Good => PortInv)'
  BY <1>5
<1>. QED BY <1>2, <1>4, <1>6 DEF LoginInv

\* Where no back was given to the session of a GUI that had ended, none is astray.
LEMMA NotAstray ==
  ASSUME Patient, ~Misdirected
  PROVE  Good
BY DEF Good, Astray, Misdirected

\* A GUI dials the back of its own session only, though BackHandler finds the
\* session by the key, and every token is the same.
THEOREM DialsItsOwn == Spec => []OwnBack
<1>1. Init => LoginInv
  BY TypeInit, PortInit DEF LoginInv
<1>2. LoginInv => OwnBack
  <2> SUFFICES ASSUME LoginInv, Patient, ~Misdirected, NEW g \in Guis, NEW b \in Guis, dialed[b] = g
               PROVE  b = g
    BY DEF OwnBack
  <2>1. OwnDial
    BY NotAstray DEF LoginInv, PortInv
  <2>. QED BY <2>1, NoneAssumption DEF OwnDial
<1>. QED BY <1>1, <1>2, LoginStep, PTL DEF Spec

-----------------------------------------------------------------------------
(* What a GUI and its back know of each other *)

\* A message comes at most once in a queue.
OnceIn(q, m) == \A j, k \in DOMAIN q : q[j] = m /\ q[k] = m => j = k

\* It does not come into it, nor once more.
NoMore(q, r, m) == (m \in ToSet(r) => m \in ToSet(q)) /\ (OnceIn(q, m) => OnceIn(r, m))

\* Something is appended.
LEMMA OnceAppended ==
  ASSUME NEW S, NEW q \in Seq(S), NEW x \in S, NEW m
  PROVE  /\ x # m => NoMore(q, Append(q, x), m)
         /\ m \notin ToSet(q) => OnceIn(Append(q, x), m)
<1>1. ToSet(Append(q, x)) = ToSet(q) \cup {x}
  BY Appended
<1>2. /\ Len(q) \in Nat /\ DOMAIN q = 1..Len(q) /\ DOMAIN Append(q, x) = 1..(Len(q) + 1)
      /\ \A k \in 1..Len(q) : Append(q, x)[k] = q[k]
      /\ Append(q, x)[Len(q) + 1] = x
  BY LenProperties, AppendProperties
<1>3. \A k \in DOMAIN Append(q, x) : (k \in DOMAIN q /\ Append(q, x)[k] = q[k]) \/ k = Len(q) + 1
  BY <1>2
<1>4. ASSUME x # m PROVE NoMore(q, Append(q, x), m)
  <2>1. \A k \in DOMAIN Append(q, x) : Append(q, x)[k] = m => k \in DOMAIN q /\ q[k] = m
    BY <1>2, <1>3, <1>4
  <2>2. OnceIn(q, m) => OnceIn(Append(q, x), m)
    BY <2>1 DEF OnceIn
  <2>. QED BY <1>1, <1>4, <2>2 DEF NoMore
<1>5. ASSUME m \notin ToSet(q) PROVE OnceIn(Append(q, x), m)
  <2>1. \A k \in DOMAIN Append(q, x) : Append(q, x)[k] = m => k = Len(q) + 1
    BY <1>3, <1>5 DEF ToSet
  <2>. QED BY <2>1 DEF OnceIn
<1>. QED BY <1>4, <1>5

\* The head is taken.
LEMMA OnceTail ==
  ASSUME NEW S, NEW q \in Seq(S), q # <<>>, NEW m
  PROVE  /\ NoMore(q, Tail(q), m)
         /\ OnceIn(q, m) /\ Head(q) = m => m \notin ToSet(Tail(q))
<1>1. ToSet(Tail(q)) \subseteq ToSet(q)
  BY HeadTaken
<1>2. /\ Len(q) \in Nat /\ DOMAIN q = 1..Len(q) /\ Head(q) = q[1] /\ Len(q) # 0
      /\ Tail(q) \in Seq(S) /\ Len(Tail(q)) = Len(q) - 1
      /\ \A k \in 1..Len(Tail(q)) : Tail(q)[k] = q[k + 1]
  BY LenProperties, HeadTailProperties, EmptySeq
<1>3. DOMAIN Tail(q) = 1..(Len(q) - 1)
  BY <1>2, LenProperties
<1>4. \A k \in DOMAIN Tail(q) : k \in Int /\ k + 1 \in DOMAIN q /\ Tail(q)[k] = q[k + 1]
  BY <1>2, <1>3
<1>5. OnceIn(q, m) => OnceIn(Tail(q), m)
  <2> SUFFICES ASSUME OnceIn(q, m), NEW j \in DOMAIN Tail(q), NEW k \in DOMAIN Tail(q),
                      Tail(q)[j] = m, Tail(q)[k] = m
               PROVE  j = k
    BY DEF OnceIn
  <2>1. j + 1 = k + 1
    BY <1>4 DEF OnceIn
  <2>. QED BY <1>4, <2>1
<1>6. ASSUME OnceIn(q, m), Head(q) = m, m \in ToSet(Tail(q)) PROVE FALSE
  <2>1. PICK k \in DOMAIN Tail(q) : Tail(q)[k] = m
    BY <1>6 DEF ToSet
  <2>2. k + 1 \in DOMAIN q /\ q[k + 1] = m /\ 1 \in DOMAIN q /\ q[1] = m
    BY <1>2, <1>4, <1>6, <2>1
  <2>3. k + 1 = 1
    BY <1>6, <2>2 DEF OnceIn
  <2>. QED BY <1>3, <2>3, <1>2
<1>. QED BY <1>1, <1>5, <1>6 DEF NoMore

\* The session that FrontHandler removes is that of a GUI that has ended, and the
\* back of one that has not is not ended.
LivesInv ==
  /\ front.at # "loop" => front.of \in Guis /\ screen[front.of].stage \in Ended
  /\ \A g \in Guis : screen[g].stage \notin Ended =>
       proc[g] \in {"none", "running"} /\ wire["backToScreen"][g].open

\* The back of each GUI lives as long as it does.
LEMMA LivesStep ==
  ASSUME LoginTypes, EndInv, OwnDial, LivesInv, [Next]_vars
  PROVE  LivesInv'
<1>1. Lasts
  BY StepLasts
<1>2. \A g \in Guis : screen'[g].stage \notin Ended => screen[g].stage \notin Ended
  BY <1>1 DEF Lasts, GuiLasts
<1>3. ASSUME UNCHANGED <<front, proc>>,
             \A g \in Guis : screen'[g].stage \notin Ended =>
               wire'["backToScreen"][g].open = wire["backToScreen"][g].open
      PROVE  LivesInv'
  <2>1. front.at # "loop" => screen'[front.of].stage \in Ended
    BY <1>2 DEF LivesInv
  <2>. QED BY <1>2, <1>3, <2>1 DEF LivesInv
<1>4. ASSUME NEW g \in Guis, InterfaceStep(g) \/ ManagersStep(g) \/ UserStep(g) PROVE LivesInv'
  <2>1. Interface(g) \/ Managers(g) \/ User(g)
    BY <1>4 DEF InterfaceStep, ManagersStep, UserStep
  <2>2. UNCHANGED <<front, proc>>
    <3>1. UNCHANGED <<initiatorVars, backStartVars>> /\ GuiKeeps(g)
      BY <1>4, <2>1, InterfaceEffect, ManagersEffect, SubmitEffect, QuitEffect
         DEF InterfaceStep, ManagersStep, UserStep, User
    <3>. QED BY <3>1 DEF GuiKeeps, initiatorVars, frontVars
  <2>3. \A h \in Guis : screen'[h].stage \notin Ended =>
          wire'["backToScreen"][h].open = wire["backToScreen"][h].open
    <3>1. CASE Interface(g)
      BY <3>1, InterfaceEffect DEF Kept
    <3>2. CASE Managers(g)
      <4>1. PassesOther(g) \/ \E b \in Guis : PassesFrom(g, b)
        BY <3>2, ManagersEffect
      <4>. QED BY <4>1 DEF PassesOther, PassesFrom, Kept
    <3>3. ASSUME NEW name \in Typed[g], Submit(g, name) PROVE Kept({"backToScreen"})
      BY <3>3, SubmitEffect
    <3>4. CASE Quit(g)
      <4>1. /\ screen'[g].stage \in Ended
            /\ \A h \in Guis \ {screen[g].back} : wire'["backToScreen"][h].open = wire["backToScreen"][h].open
        BY <3>4, QuitEffect
      <4>2. screen[g].back \in {None, g}
        BY DEF OwnDial
      <4>. QED BY <4>1, <4>2, NoneAssumption
    <3>. QED BY <2>1, <3>1, <3>2, <3>3, <3>4 DEF User, Kept
  <2>. QED BY <1>3, <2>2, <2>3
<1>5. ASSUME InitiatorFrame, UNCHANGED <<screenVars, backStartVars>> PROVE LivesInv'
  <2>1. UNCHANGED screen /\ InitiatorLines
    BY <1>5 DEF screenVars, InitiatorFrame
  <2>2. front'.at # "loop" => front'.of \in Guis /\ screen'[front'.of].stage \in Ended
    BY <1>5, <2>1 DEF LivesInv, InitiatorFrame, EndInv
  <2>3. ASSUME NEW g \in Guis, screen'[g].stage \notin Ended
        PROVE  proc'[g] \in {"none", "running"} /\ wire'["backToScreen"][g].open
    <3>1. ~(front.at = "stop" /\ front.of = g)
      BY <2>1, <2>3 DEF LivesInv
    <3>2. proc'[g] \in {proc[g], "running"}
      BY <1>5, <3>1 DEF InitiatorFrame
    <3>. QED BY <2>1, <2>3, <3>2 DEF LivesInv, InitiatorLines, Kept
  <2>. QED BY <2>2, <2>3 DEF LivesInv
<1>6. CASE FrontHandlerStep \/ RemoveStep
  BY <1>5, <1>6, FrontFrame DEF FrontHandlerStep, RemoveStep
<1>7. CASE FrontPoolStep
  BY <1>5, <1>7, FrontPoolFrame DEF FrontPoolStep
<1>8. CASE BackHandlerStep \/ BackPoolStep
  BY <1>5, <1>8, BackHandlerFrame DEF BackHandlerStep, BackHandler, BackPoolStep
<1>9. ASSUME NEW b \in Guis, MainStep(b) \/ GreeterStep(b) \/ ServerStep(b) PROVE LivesInv'
  <2>1. BackFrame(b)
    BY <1>9, MainEffect, ConnectEffect, GreetEffect, ValidateEffect, LoggedOnEffect
       DEF MainStep, GreeterStep, ServerStep, Greeter
  <2>2. UNCHANGED <<screen, front>>
    BY <1>9 DEF MainStep, GreeterStep, ServerStep, screenVars, initiatorVars, frontVars
  <2>3. \A g \in Guis : screen[g].stage \notin Ended =>
          proc'[g] \in {"none", "running"} /\ wire'["backToScreen"][g].open
    BY <2>1 DEF BackFrame, LivesInv
  <2>. QED BY <2>2, <2>3 DEF LivesInv
<1>10. CASE UNCHANGED vars
  BY <1>10 DEF vars, hostVars, screenVars, initiatorVars, frontVars, LivesInv
<1>. QED BY <1>4, <1>6, <1>7, <1>8, <1>9, <1>10 DEF Next, Threads

\* The status Running, on its way to the GUI or heard by it, and the Logon it
\* asks for.
Runs == Status("Running")
RunsSaid(g) == Runs \in ToSet(Bytes("backToScreen", g))
RunsHeard(g) == Runs \in ToSet(events[g])
LogonWanted(g) == Wants \in ToSet(Bytes("screenToBack", g))

\* It is said once, after the first steps of main(); so the Logon is asked for once.
LogonOf(g) ==
  /\ OnceIn(Bytes("backToScreen", g), Runs) /\ OnceIn(events[g], Runs) /\ OnceIn(Bytes("screenToBack", g), Wants)
  /\ ~(RunsSaid(g) /\ RunsHeard(g)) /\ ~(RunsSaid(g) /\ LogonWanted(g)) /\ ~(RunsHeard(g) /\ LogonWanted(g))
  /\ RunsSaid(g) \/ RunsHeard(g) \/ LogonWanted(g) => logon[g] = "none" /\ main[g] \notin Early
  /\ logon[g] # "none" => main[g] \notin Early

\* What the back has said, as far as the GUI has not handled it.
Saying(g, type) == \/ \E m \in ToSet(Bytes("backToScreen", g)) : m.type = type
                   \/ \E m \in ToSet(events[g]) : m.type = type
StatusHeard(g) == \E m \in ToSet(events[g]) : m.type = "Status"
BackHeard(g) == \E m \in ToSet(events[g]) : m.type \in BackSignals
Joins == {"linking", "trusted", "logon", "in"}

\* What the GUI has been told is true of its back, and it is told by its own back.
TrustOf(g) ==
  /\ \/ Saying(g, "BackToFrontValidToken") \/ StatusHeard(g)
     \/ screen[g].stage \in {"trusted", "logon", "in"} \/ auth[g].shaken
     => auth[g].valid
  /\ logon[g] # "none" => auth[g].shaken
  /\ Saying(g, "Logon") \/ screen[g].stage = "in" => logon[g] = "answered"
  /\ screen[g].stage \in Joins \/ BackHeard(g) => screen[g].back = g
  /\ screen[g].back = g => dialed[g] = g
SignalOf(g) == LogonOf(g) /\ TrustOf(g)
SignalInv == \A g \in Guis : SignalOf(g)

\* The three queues.
LEMMA ThreeQueues ==
  ASSUME LoginTypes, NEW g \in Guis
  PROVE  /\ Bytes("backToScreen", g) \in Seq(FromBackMessages)
         /\ Bytes("screenToBack", g) \in Seq(ToBackMessages)
         /\ events[g] \in Seq(Signals)
<1>1. "backToScreen" \in Directions /\ "screenToBack" \in Directions
  BY SomeDirections
<1>2. Bytes("backToScreen", g) \in Seq(FromBackMessages)
  BY <1>1 DEF LoginTypes, Streams, Stream, Messages, Bytes
<1>3. Bytes("screenToBack", g) \in Seq(ToBackMessages)
  BY <1>1 DEF LoginTypes, Streams, Stream, Messages, Bytes
<1>. QED BY <1>2, <1>3, ScreenFields

\* Nothing more is asked for.
LEMMA LogonKept ==
  ASSUME NEW g \in Guis, LogonOf(g),
         NoMore(Bytes("backToScreen", g), Bytes("backToScreen", g)', Runs),
         NoMore(events[g], events'[g], Runs),
         NoMore(Bytes("screenToBack", g), Bytes("screenToBack", g)', Wants),
         logon'[g] = "none" <=> logon[g] = "none",
         main'[g] \in Early => main[g] \in Early
  PROVE  LogonOf(g)'
<1>1. /\ OnceIn(Bytes("backToScreen", g), Runs)' /\ OnceIn(events[g], Runs)'
      /\ OnceIn(Bytes("screenToBack", g), Wants)'
  BY DEF LogonOf, NoMore
<1>2. /\ RunsSaid(g)' => RunsSaid(g)
      /\ RunsHeard(g)' => RunsHeard(g)
      /\ LogonWanted(g)' => LogonWanted(g)
  BY DEF NoMore, RunsSaid, RunsHeard, LogonWanted
<1>. QED BY <1>1, <1>2 DEF LogonOf

\* What a step leaves of a GUI and its back.
SameSide(g) ==
  /\ screen'[g].stage = screen[g].stage /\ screen'[g].back = screen[g].back /\ events'[g] = events[g]
  /\ Bytes("backToScreen", g)' = Bytes("backToScreen", g)
  /\ Bytes("screenToBack", g)' = Bytes("screenToBack", g)
  /\ dialed'[g] = dialed[g] /\ auth'[g] = auth[g] /\ logon'[g] = logon[g]
  /\ main'[g] \in Early => main[g] \in Early

\* If that is all, what they know stays true.
LEMMA SameSignals ==
  ASSUME NEW g \in Guis, SignalOf(g), SameSide(g)
  PROVE  SignalOf(g)'
<1>1. LogonOf(g)'
  BY LogonKept DEF SameSide, SignalOf, NoMore
<1>2. /\ \A type : Saying(g, type)' <=> Saying(g, type)
      /\ (StatusHeard(g)' <=> StatusHeard(g)) /\ (BackHeard(g)' <=> BackHeard(g))
  BY DEF SameSide, Saying, StatusHeard, BackHeard
<1>3. TrustOf(g)'
  BY <1>2 DEF SameSide, SignalOf, TrustOf
<1>. QED BY <1>1, <1>3 DEF SignalOf

\* The back says something to the GUI.
LEMMA BackSays ==
  ASSUME LoginTypes, NEW b \in Guis, NEW m \in FromBackMessages, Says(b, m), events'[b] = events[b]
  PROVE  /\ m # Runs => NoMore(Bytes("backToScreen", b), Bytes("backToScreen", b)', Runs)
         /\ ~RunsSaid(b) => OnceIn(Bytes("backToScreen", b), Runs)'
         /\ \A type : Saying(b, type)' => Saying(b, type) \/ m.type = type
         /\ (StatusHeard(b)' <=> StatusHeard(b)) /\ (BackHeard(b)' <=> BackHeard(b))
<1> DEFINE q == Bytes("backToScreen", b)
<1>1. q \in Seq(FromBackMessages)
  BY ThreeQueues
<1>2. CASE q' = q
  <2>1. NoMore(q, q', Runs) /\ (~RunsSaid(b) => OnceIn(q, Runs))
    BY <1>2 DEF NoMore, RunsSaid, ToSet, OnceIn
  <2>2. OnceIn(q, Runs)' <=> OnceIn(q, Runs)
    BY <1>2
  <2>. QED BY <1>2, <2>1, <2>2 DEF Saying, StatusHeard, BackHeard
<1>3. CASE q' = Append(q, m)
  <2>1. ToSet(Append(q, m)) = ToSet(q) \cup {m}
    BY <1>1, Appended
  <2>2. ToSet(q)' = ToSet(q) \cup {m}
    BY <1>3, <2>1
  <2>3. \A type : Saying(b, type)' => Saying(b, type) \/ m.type = type
    BY <2>2 DEF Saying
  <2>4. m # Runs => NoMore(q, Append(q, m), Runs)
    BY <1>1, OnceAppended
  <2>5. Runs \notin ToSet(q) => OnceIn(Append(q, m), Runs)
    BY <1>1, OnceAppended
  <2>6. OnceIn(q, Runs)' <=> OnceIn(Append(q, m), Runs)
    BY <1>3
  <2>. QED BY <1>3, <2>3, <2>4, <2>5, <2>6 DEF RunsSaid, StatusHeard, BackHeard
<1>. QED BY <1>2, <1>3 DEF Says

\* The messages of the back.
LEMMA BackWords ==
  /\ \A s \in {"Initialize", "Running", "Stop"} : Status(s) \in FromBackMessages /\ Status(s).type = "Status"
  /\ \A type \in {"BackToFrontValidToken", "Reject", "Logon"} :
       /\ [type |-> type] \in FromBackMessages /\ [type |-> type].type = type /\ [type |-> type] # Runs
  /\ Status("Initialize") # Runs /\ Status("Stop") # Runs
<1>1. \A s \in {"Initialize", "Running", "Stop"} : Status(s).type = "Status" /\ Status(s).status = s
  BY DEF Status
<1>2. Runs.type = "Status" /\ Runs.status = "Running"
  BY DEF Runs, Status
<1>3. \A s \in {"Initialize", "Running", "Stop"} : Status(s) \in FromBackMessages
  BY DEF Status, FromBackMessages
<1>4. \A type \in {"BackToFrontValidToken", "Reject", "Logon"} :
        [type |-> type] \in FromBackMessages /\ [type |-> type].type = type
  BY DEF FromBackMessages
<1>5. \A type \in {"BackToFrontValidToken", "Reject", "Logon"} : [type |-> type] # Runs
  BY <1>2, <1>4
<1>6. Status("Initialize") # Runs /\ Status("Stop") # Runs
  BY <1>1, <1>2
<1>. QED BY <1>1, <1>3, <1>4, <1>5, <1>6

\* Trust that lasts while the GUI does nothing.
LEMMA TrustKept ==
  ASSUME NEW b \in Guis, TrustOf(b), UNCHANGED <<screen, dialed>>,
         \A type \in {"BackToFrontValidToken", "Logon"} : Saying(b, type)' => Saying(b, type),
         StatusHeard(b)' => StatusHeard(b), BackHeard(b)' => BackHeard(b), auth'[b] = auth[b], logon'[b] = logon[b]
  PROVE  TrustOf(b)'
BY DEF TrustOf

\* main() tells its GUI the statuses.
LEMMA MainSignals ==
  ASSUME LoginTypes, NEW b \in Guis, SignalOf(b), Main(b), ~Connect(b), UNCHANGED <<screen, events>>
  PROVE  SignalOf(b)'
<1>1. /\ BackFrame(b) /\ UNCHANGED <<auth, logon>> /\ Bytes("screenToBack", b)' = Bytes("screenToBack", b)
      /\ (main'[b] \in Early => main[b] \in Early)
  BY MainEffect DEF Kept, Bytes
<1>2. PICK s \in {"Initialize", "Running", "Stop"} :
        Says(b, Status(s)) /\ (s = "Running" => main[b] \in Early /\ main'[b] \notin Early)
  BY MainEffect
<1>3. Status(s) \in FromBackMessages /\ Status(s).type = "Status" /\ (s # "Running" => Status(s) # Runs)
  BY BackWords
<1> HIDE DEF Status
<1>4. /\ s # "Running" => NoMore(Bytes("backToScreen", b), Bytes("backToScreen", b)', Runs)
      /\ ~RunsSaid(b) => OnceIn(Bytes("backToScreen", b), Runs)'
      /\ \A type \in {"BackToFrontValidToken", "Logon"} : Saying(b, type)' => Saying(b, type)
      /\ (StatusHeard(b)' => StatusHeard(b)) /\ (BackHeard(b)' => BackHeard(b))
  BY <1>2, <1>3, BackSays
<1>5. TrustOf(b)'
  BY <1>1, <1>4, TrustKept DEF SignalOf, BackFrame
<1>6. NoMore(events[b], events'[b], Runs)
      /\ NoMore(Bytes("screenToBack", b), Bytes("screenToBack", b)', Wants)
  BY <1>1 DEF NoMore
<1>7. CASE s # "Running"
  <2>1. LogonOf(b)'
    BY <1>1, <1>4, <1>6, <1>7, LogonKept DEF SignalOf
  <2>. QED BY <1>5, <2>1 DEF SignalOf
<1>8. CASE s = "Running"
  <2>1. ~RunsSaid(b) /\ ~RunsHeard(b) /\ ~LogonWanted(b) /\ logon[b] = "none"
    BY <1>2, <1>8 DEF SignalOf, LogonOf
  <2>2. ~RunsHeard(b)' /\ ~LogonWanted(b)' /\ logon'[b] = "none" /\ main'[b] \notin Early
    BY <1>1, <1>2, <1>6, <1>8, <2>1 DEF NoMore, RunsHeard, LogonWanted
  <2>3. /\ OnceIn(Bytes("backToScreen", b), Runs)' /\ OnceIn(events[b], Runs)'
        /\ OnceIn(Bytes("screenToBack", b), Wants)'
    BY <1>4, <1>6, <2>1 DEF SignalOf, LogonOf, NoMore
  <2>4. LogonOf(b)'
    BY <2>2, <2>3 DEF LogonOf
  <2>. QED BY <1>5, <2>4 DEF SignalOf
<1>. QED BY <1>7, <1>8

\* The back tells its port, or gets its token and accepts the GUI.
LEMMA QuietSignals ==
  ASSUME LoginTypes, NEW b \in Guis, SignalOf(b), Connect(b) \/ SetupToken(b) \/ AcceptGui(b),
         UNCHANGED <<screen, events>>
  PROVE  SignalOf(b)'
<1>1. /\ BackFrame(b) /\ UNCHANGED <<auth, logon>> /\ Kept({"screenToBack", "backToScreen"})
      /\ (main'[b] \in Early => main[b] \in Early)
  <2>1. CASE Connect(b)
    BY <2>1, ConnectEffect DEF Early
  <2>2. CASE SetupToken(b) \/ AcceptGui(b)
    BY <2>2, GreetEffect DEF Kept
  <2>. QED BY <2>1, <2>2
<1>2. SameSide(b)
  BY <1>1 DEF SameSide, BackFrame, Kept, Bytes
<1>. QED BY <1>2, SameSignals

\* The back reads the GUI.
LEMMA ValidateSignals ==
  ASSUME LoginTypes, NEW b \in Guis, SignalOf(b), Validate(b), UNCHANGED <<screen, events>>
  PROVE  SignalOf(b)'
<1> DEFINE q == Bytes("screenToBack", b)
<1>1. q \in Seq(ToBackMessages) /\ q # <<>> /\ q' = Tail(q)
  BY ThreeQueues, ValidateEffect
<1>2. UNCHANGED <<screen, dialed>> /\ main'[b] = main[b]
  BY ValidateEffect DEF BackFrame
<1>3. /\ auth[b].valid => auth'[b].valid
      /\ auth[b].shaken => auth'[b].shaken
      /\ auth'[b].shaken => auth[b].shaken \/ auth[b].valid
  BY ValidateEffect
<1>4. logon'[b] = logon[b] \/ (auth[b].shaken /\ Head(q).type = "Logon")
  BY ValidateEffect
<1>5. PICK type \in {"Reject", "BackToFrontValidToken"} :
        Says(b, [type |-> type]) /\ (type = "BackToFrontValidToken" => auth'[b].valid)
  BY ValidateEffect
<1> DEFINE m == [type |-> type]
<1>6. m \in FromBackMessages /\ m.type = type /\ m # Runs
  BY BackWords
<1> HIDE DEF m
<1>7. NoMore(Bytes("backToScreen", b), Bytes("backToScreen", b)', Runs)
  BY <1>5, <1>6, BackSays DEF m
<1>8. /\ Saying(b, "BackToFrontValidToken")' => Saying(b, "BackToFrontValidToken") \/ auth'[b].valid
      /\ Saying(b, "Logon")' => Saying(b, "Logon")
      /\ (StatusHeard(b)' => StatusHeard(b)) /\ (BackHeard(b)' => BackHeard(b))
  BY <1>5, <1>6, BackSays DEF m
<1>9. NoMore(q, Tail(q), Wants) /\ (OnceIn(q, Wants) /\ Head(q) = Wants => Wants \notin ToSet(Tail(q)))
  BY <1>1, OnceTail
<1>10. NoMore(q, q', Wants) /\ NoMore(events[b], events'[b], Runs)
  BY <1>1, <1>9 DEF NoMore
<1>11. CASE logon'[b] = logon[b]
  <2>1. LogonOf(b)'
    BY <1>2, <1>7, <1>10, <1>11, LogonKept DEF SignalOf
  <2>2. TrustOf(b)'
    BY <1>2, <1>3, <1>8, <1>11 DEF SignalOf, TrustOf
  <2>. QED BY <2>1, <2>2 DEF SignalOf
<1>12. CASE auth[b].shaken /\ Head(q).type = "Logon"
  <2>1. Head(q) \in ToBackMessages /\ Head(q) \in ToSet(q)
    BY <1>1, HeadTaken
  <2>2. Head(q) = Wants
    BY <1>12, <2>1 DEF ToBackMessages, Wants
  <2>3. LogonWanted(b)
    BY <2>1, <2>2 DEF LogonWanted
  <2>4. ~RunsSaid(b) /\ ~RunsHeard(b) /\ logon[b] = "none" /\ main[b] \notin Early
    BY <2>3 DEF SignalOf, LogonOf
  <2>5. Wants \notin ToSet(Tail(q))
    BY <1>9, <2>2 DEF SignalOf, LogonOf
  <2>6. ~RunsSaid(b)' /\ ~RunsHeard(b)' /\ ~LogonWanted(b)'
    BY <1>1, <1>7, <1>10, <2>4, <2>5 DEF NoMore, RunsSaid, RunsHeard, LogonWanted
  <2>7. /\ OnceIn(Bytes("backToScreen", b), Runs)' /\ OnceIn(events[b], Runs)'
        /\ OnceIn(Bytes("screenToBack", b), Wants)'
    BY <1>7, <1>10 DEF SignalOf, LogonOf, NoMore
  <2>8. LogonOf(b)'
    BY <1>2, <2>4, <2>6, <2>7 DEF LogonOf
  <2>9. ~Saying(b, "Logon")' /\ screen[b].stage # "in"
    BY <1>8, <2>4 DEF SignalOf, TrustOf
  <2>10. TrustOf(b)'
    BY <1>2, <1>3, <1>8, <1>12, <2>9 DEF SignalOf, TrustOf
  <2>. QED BY <2>8, <2>10 DEF SignalOf
<1>. QED BY <1>4, <1>11, <1>12

\* The server answers the Logon.
LEMMA LoggedOnSignals ==
  ASSUME LoginTypes, NEW b \in Guis, SignalOf(b), LoggedOn(b), UNCHANGED <<screen, events>>
  PROVE  SignalOf(b)'
<1> DEFINE m == [type |-> "Logon"]
<1>1. /\ UNCHANGED <<main, auth, dialed>> /\ Bytes("screenToBack", b)' = Bytes("screenToBack", b)
      /\ logon[b] = "asked" /\ logon'[b] = "answered" /\ Says(b, m)
  BY LoggedOnEffect DEF BackFrame, Kept, Bytes
<1>2. m \in FromBackMessages /\ m.type = "Logon" /\ m # Runs
  BY BackWords
<1> HIDE DEF m
<1>3. NoMore(Bytes("backToScreen", b), Bytes("backToScreen", b)', Runs)
  BY <1>1, <1>2, BackSays
<1>4. /\ Saying(b, "BackToFrontValidToken")' => Saying(b, "BackToFrontValidToken")
      /\ (StatusHeard(b)' => StatusHeard(b)) /\ (BackHeard(b)' => BackHeard(b))
  BY <1>1, <1>2, BackSays
<1>5. NoMore(events[b], events'[b], Runs) /\ NoMore(Bytes("screenToBack", b), Bytes("screenToBack", b)', Wants)
  BY <1>1 DEF NoMore
<1>6. LogonOf(b)'
  BY <1>1, <1>3, <1>5, LogonKept DEF SignalOf
<1>7. TrustOf(b)'
  BY <1>1, <1>4 DEF SignalOf, TrustOf
<1>. QED BY <1>6, <1>7 DEF SignalOf

\* The backs.
LEMMA BackProcessSignals ==
  ASSUME LoginTypes, SignalInv, NEW b \in Guis, Main(b) \/ Greeter(b) \/ LoggedOn(b),
         UNCHANGED <<screenVars, initiatorVars>>
  PROVE  SignalInv'
<1>1. UNCHANGED <<screen, events>> /\ \A h \in Guis : SignalOf(h)
  BY DEF screenVars, SignalInv
<1>2. BackFrame(b)
  BY MainEffect, ConnectEffect, GreetEffect, ValidateEffect, LoggedOnEffect DEF Greeter
<1>3. SignalOf(b)'
  BY <1>1, MainSignals, QuietSignals, ValidateSignals, LoggedOnSignals DEF Greeter
<1>4. \A h \in Guis \ {b} : SameSide(h)
  BY <1>1, <1>2 DEF BackFrame, SameSide, Bytes
<1>5. \A h \in Guis \ {b} : SignalOf(h)'
  BY <1>1, <1>4, SameSignals
<1>. QED BY <1>3, <1>5 DEF SignalInv

\* A GUI writes to its back.
LEMMA WritesOwn ==
  ASSUME LoginTypes, NEW g \in Guis, NEW m \in ToBackMessages, Writes(g, m)
  PROVE  /\ m # Wants => NoMore(Bytes("screenToBack", g), Bytes("screenToBack", g)', Wants)
         /\ ~LogonWanted(g) => OnceIn(Bytes("screenToBack", g), Wants)'
         /\ \A h \in Guis \ {g} : Bytes("screenToBack", h)' = Bytes("screenToBack", h)
<1> DEFINE q == Bytes("screenToBack", g)
<1>1. q \in Seq(ToBackMessages)
  BY ThreeQueues
<1>2. CASE q' = q
  <2>1. NoMore(q, q', Wants) /\ (~LogonWanted(g) => OnceIn(q, Wants))
    BY <1>2 DEF NoMore, LogonWanted, ToSet, OnceIn
  <2>2. OnceIn(q, Wants)' <=> OnceIn(q, Wants)
    BY <1>2
  <2>. QED BY <2>1, <2>2 DEF Writes
<1>3. CASE q' = Append(q, m)
  <2>1. m # Wants => NoMore(q, Append(q, m), Wants)
    BY <1>1, OnceAppended
  <2>2. Wants \notin ToSet(q) => OnceIn(Append(q, m), Wants)
    BY <1>1, OnceAppended
  <2>3. OnceIn(q, Wants)' <=> OnceIn(Append(q, m), Wants)
    BY <1>3
  <2>. QED BY <1>3, <2>1, <2>2, <2>3 DEF LogonWanted, Writes
<1>. QED BY <1>2, <1>3 DEF Writes

\* It writes nothing.
LEMMA WritesNone ==
  ASSUME WritesNothing, NEW g \in Guis
  PROVE  NoMore(Bytes("screenToBack", g), Bytes("screenToBack", g)', Wants)
BY DEF WritesNothing, NoMore

\* A signal is handled.
LEMMA SignalTaken ==
  ASSUME LoginTypes, NEW g \in Guis, events[g] # <<>>, events'[g] = Tail(events[g]),
         Bytes("backToScreen", g)' = Bytes("backToScreen", g)
  PROVE  /\ NoMore(events[g], events'[g], Runs)
         /\ NoMore(Bytes("backToScreen", g), Bytes("backToScreen", g)', Runs)
         /\ OnceIn(events[g], Runs) /\ Head(events[g]) = Runs => ~RunsHeard(g)'
         /\ \A type : Saying(g, type)' => Saying(g, type)
         /\ (StatusHeard(g)' => StatusHeard(g)) /\ (BackHeard(g)' => BackHeard(g))
         /\ Head(events[g]) \in Signals
         /\ \A type : Head(events[g]).type = type => Saying(g, type)
         /\ Head(events[g]).type = "Status" => StatusHeard(g)
         /\ Head(events[g]).type \in BackSignals => BackHeard(g)
<1>1. events[g] \in Seq(Signals)
  BY ThreeQueues
<1>2. /\ ToSet(Tail(events[g])) \subseteq ToSet(events[g]) /\ Head(events[g]) \in ToSet(events[g])
      /\ Head(events[g]) \in Signals
  BY <1>1, HeadTaken
<1>3. /\ NoMore(events[g], Tail(events[g]), Runs)
      /\ OnceIn(events[g], Runs) /\ Head(events[g]) = Runs => Runs \notin ToSet(Tail(events[g]))
  BY <1>1, OnceTail
<1>4. \A type : Head(events[g]).type = type => Saying(g, type)
  BY <1>2 DEF Saying
<1>5. \A type : Saying(g, type)' => Saying(g, type)
  BY <1>2 DEF Saying
<1>6. /\ (StatusHeard(g)' => StatusHeard(g)) /\ (BackHeard(g)' => BackHeard(g))
      /\ Head(events[g]).type = "Status" => StatusHeard(g)
      /\ Head(events[g]).type \in BackSignals => BackHeard(g)
  BY <1>2 DEF StatusHeard, BackHeard
<1>7. NoMore(Bytes("backToScreen", g), Bytes("backToScreen", g)', Runs)
  BY DEF NoMore
<1>. QED BY <1>2, <1>3, <1>4, <1>5, <1>6, <1>7 DEF RunsHeard

\* The steps of the interface: it writes to its own back, and only what it was
\* told lets it go on.
LEMMA InterfaceSignals ==
  ASSUME LoginTypes, OwnDial, OwnDial', SignalInv, NEW g \in Guis, Interface(g), UNCHANGED <<initiatorVars, backStartVars>>
  PROVE  SignalInv'
<1>1. UNCHANGED <<auth, logon, main>> /\ LogonOf(g) /\ TrustOf(g) /\ screen[g].back \in {None, g}
  BY DEF backStartVars, SignalInv, SignalOf, OwnDial
<1>2. /\ GuiKeeps(g) /\ Kept({"backToScreen"}) /\ events[g] # <<>> /\ events'[g] = Tail(events[g])
      /\ Handles(g, Head(events[g]))
  BY InterfaceEffect
<1>3. \A h \in Guis : Bytes("backToScreen", h)' = Bytes("backToScreen", h)
  BY <1>2 DEF Kept, Bytes
<1>4. PICK e \in Signals : e = Head(events[g])
  BY <1>2, <1>3, SignalTaken
<1>5. /\ NoMore(events[g], events'[g], Runs)
      /\ NoMore(Bytes("backToScreen", g), Bytes("backToScreen", g)', Runs)
      /\ e = Runs => ~RunsHeard(g)'
      /\ \A type : Saying(g, type)' => Saying(g, type)
      /\ (StatusHeard(g)' => StatusHeard(g)) /\ (BackHeard(g)' => BackHeard(g))
  BY <1>1, <1>2, <1>3, <1>4, SignalTaken DEF LogonOf
<1>6. /\ \A type : e.type = type => Saying(g, type)
      /\ e.type = "Status" => StatusHeard(g)
      /\ e.type \in BackSignals => screen[g].back = g
  BY <1>1, <1>2, <1>3, <1>4, SignalTaken DEF TrustOf
<1>7. e.type = "InitiatorToFrontValidToken" => e.port \in Guis
  BY SignalFields
<1>8. Runs.type = "Status" /\ Wants \in ToBackMessages /\ Runs \in Signals
  BY BackWords DEF Runs, Wants, ToBackMessages, Signals
<1>9. ASSUME NoMore(Bytes("screenToBack", g), Bytes("screenToBack", g)', Wants) PROVE LogonOf(g)'
  BY <1>1, <1>5, <1>9, LogonKept
<1>10. ASSUME SignalOf(g)', UNCHANGED dialed \/ dialed' = [dialed EXCEPT ![g] = g],
              \A h \in Guis \ {g} : Bytes("screenToBack", h)' = Bytes("screenToBack", h)
       PROVE  SignalInv'
  <2>1. \A h \in Guis \ {g} : dialed'[h] = dialed[h]
    BY <1>10 DEF LoginTypes, HostPart
  <2>2. \A h \in Guis \ {g} : SameSide(h)
    BY <1>1, <1>2, <1>3, <1>10, <2>1 DEF GuiKeeps, SameSide
  <2>. QED BY <1>10, <2>2, SameSignals DEF SignalInv
<1>11. ASSUME WritesNothing, UNCHANGED dialed, screen'[g].back = screen[g].back,
              \/ screen'[g].stage \in {"asked", "named", "form"}
              \/ screen'[g].stage = screen[g].stage
              \/ e.type = "Logon" /\ screen'[g].stage = "in"
       PROVE  SignalInv'
  <2>1. LogonOf(g)'
    BY <1>9, <1>11, WritesNone
  <2>2. TrustOf(g)'
    BY <1>1, <1>5, <1>6, <1>11 DEF TrustOf, Joins, BackSignals
  <2>. QED BY <1>10, <1>11, <2>1, <2>2 DEF SignalOf, WritesNothing
<1>12. ASSUME e.type = "InitiatorToFrontValidToken", screen'[g].stage = "linking", screen'[g].back = e.port,
              dialed' = [dialed EXCEPT ![e.port] = g], NEW m \in ToBackMessages \ {Wants}, Writes(e.port, m)
       PROVE  SignalInv'
  <2>1. e.port = g
    BY <1>7, <1>12, NoneAssumption DEF OwnDial
  <2>2. LogonOf(g)'
    BY <1>9, <1>12, <2>1, WritesOwn
  <2>3. dialed'[g] = g
    BY <1>12, <2>1 DEF LoginTypes, HostPart
  <2>4. TrustOf(g)'
    BY <1>1, <1>5, <1>12, <2>1, <2>3 DEF TrustOf
  <2>. QED BY <1>10, <1>12, <2>1, <2>2, <2>4, WritesOwn DEF SignalOf
<1>13. ASSUME e.type = "BackToFrontValidToken", screen'[g].stage = "trusted", screen'[g].back = screen[g].back,
              UNCHANGED dialed, NEW m \in ToBackMessages \ {Wants}, Writes(screen[g].back, m)
       PROVE  SignalInv'
  <2>1. screen[g].back = g /\ Writes(g, m) /\ Saying(g, "BackToFrontValidToken")
    BY <1>6, <1>13 DEF BackSignals
  <2>2. LogonOf(g)'
    BY <1>9, <1>13, <2>1, WritesOwn
  <2>3. TrustOf(g)'
    BY <1>1, <1>5, <1>13, <2>1 DEF TrustOf
  <2>. QED BY <1>10, <1>13, <2>1, <2>2, <2>3, WritesOwn DEF SignalOf
<1>14. ASSUME e = Runs, screen'[g].stage = "logon", screen'[g].back = screen[g].back, UNCHANGED dialed,
              Writes(screen[g].back, Wants)
       PROVE  SignalInv'
  <2>1. screen[g].back = g /\ Writes(g, Wants) /\ StatusHeard(g)
    BY <1>6, <1>8, <1>14 DEF BackSignals
  <2>2. RunsHeard(g)
    <3>1. Head(events[g]) \in ToSet(events[g])
      BY <1>2, ThreeQueues, HeadTaken
    <3>. QED BY <1>4, <1>14, <3>1 DEF RunsHeard
  <2>3. ~RunsSaid(g) /\ ~LogonWanted(g) /\ logon[g] = "none" /\ main[g] \notin Early
    BY <1>1, <2>2 DEF LogonOf
  <2>4. OnceIn(Bytes("screenToBack", g), Wants)'
    BY <1>8, <2>1, <2>3, WritesOwn
  <2>5. ~RunsSaid(g)' /\ ~RunsHeard(g)'
    BY <1>5, <1>14, <2>3 DEF NoMore, RunsSaid
  <2>6. OnceIn(Bytes("backToScreen", g), Runs)' /\ OnceIn(events[g], Runs)'
    BY <1>1, <1>5 DEF LogonOf, NoMore
  <2>7. LogonOf(g)'
    BY <1>1, <2>3, <2>4, <2>5, <2>6 DEF LogonOf
  <2>8. TrustOf(g)'
    BY <1>1, <1>5, <1>14, <2>1 DEF TrustOf
  <2>. QED BY <1>8, <1>10, <1>14, <2>1, <2>7, <2>8, WritesOwn DEF SignalOf
<1>. QED BY <1>2, <1>4, <1>11, <1>12, <1>13, <1>14 DEF Handles, Runs

\* A signal is emitted, and nothing else happens.
LEMMA SignalEmitted ==
  ASSUME LoginTypes, NEW g \in Guis, NEW m \in Signals, events'[g] = Append(events[g], m)
  PROVE  /\ m # Runs => NoMore(events[g], events'[g], Runs)
         /\ ~RunsHeard(g) => OnceIn(events'[g], Runs)
         /\ ToSet(events'[g]) = ToSet(events[g]) \cup {m}
<1>1. events[g] \in Seq(Signals)
  BY ThreeQueues
<1>. QED BY <1>1, Appended, OnceAppended DEF RunsHeard

\* The steps of the two managers of a GUI.
LEMMA ManagersSignals ==
  ASSUME LoginTypes, OwnDial, SignalInv, NEW g \in Guis, Managers(g), UNCHANGED <<initiatorVars, backStartVars>>
  PROVE  SignalInv'
<1>1. UNCHANGED <<auth, logon, main>> /\ LogonOf(g) /\ TrustOf(g)
  BY DEF backStartVars, SignalInv, SignalOf
<1>2. GuiKeeps(g) /\ UNCHANGED <<screen, dialed>> /\ WritesNothing
  BY ManagersEffect
<1>3. NoMore(Bytes("screenToBack", g), Bytes("screenToBack", g)', Wants)
  BY <1>2, WritesNone
<1>4. ASSUME SignalOf(g)', \A h \in Guis \ {g} : Bytes("backToScreen", h)' = Bytes("backToScreen", h)
      PROVE  SignalInv'
  <2>1. \A h \in Guis \ {g} : SameSide(h)
    BY <1>1, <1>2, <1>4 DEF GuiKeeps, SameSide, WritesNothing
  <2>. QED BY <1>4, <2>1, SameSignals DEF SignalInv
<1>5. Runs.type = "Status" /\ Runs \in Signals
  BY BackWords DEF Runs, Signals
<1>6. CASE PassesOther(g)
  <2>1. \A h \in Guis : Bytes("backToScreen", h)' = Bytes("backToScreen", h)
    BY <1>6 DEF PassesOther, Kept, Bytes
  <2>2. NoMore(events[g], events'[g], Runs)
        /\ \A m \in ToSet(events'[g]) : m.type \in BackSignals => m \in ToSet(events[g])
    <3>1. CASE events'[g] = events[g]
      BY <3>1 DEF NoMore
    <3>2. ASSUME NEW m \in Signals, m.type \notin BackSignals, events'[g] = Append(events[g], m)
          PROVE  NoMore(events[g], events'[g], Runs)
                 /\ \A n \in ToSet(events'[g]) : n.type \in BackSignals => n \in ToSet(events[g])
      <4>1. m # Runs
        BY <1>5, <3>2 DEF BackSignals
      <4>2. NoMore(events[g], events'[g], Runs)
        BY <3>2, <4>1, SignalEmitted
      <4>3. ToSet(events'[g]) = ToSet(events[g]) \cup {m}
        BY <3>2, SignalEmitted
      <4>. QED BY <3>2, <4>2, <4>3
    <3>. QED BY <1>6, <3>1, <3>2 DEF PassesOther
  <2>3. LogonOf(g)'
    BY <1>1, <1>3, <2>1, <2>2, LogonKept DEF NoMore
  <2>4. /\ \A type \in {"BackToFrontValidToken", "Logon"} : Saying(g, type)' => Saying(g, type)
        /\ (StatusHeard(g)' => StatusHeard(g)) /\ (BackHeard(g)' => BackHeard(g))
    BY <2>1, <2>2 DEF Saying, StatusHeard, BackHeard, BackSignals
  <2>5. TrustOf(g)'
    BY <1>1, <1>2, <2>4, TrustKept
  <2>. QED BY <1>4, <2>1, <2>3, <2>5 DEF SignalOf
<1>7. ASSUME NEW b \in Guis, PassesFrom(g, b) PROVE SignalInv'
  <2> DEFINE q == Bytes("backToScreen", g)
  <2>1. b = g
    BY <1>7, NoneAssumption DEF OwnDial, PassesFrom
  <2>2. /\ q # <<>> /\ q' = Tail(q)
        /\ \A h \in Guis \ {g} : Bytes("backToScreen", h)' = Bytes("backToScreen", h)
        /\ \/ events'[g] = events[g]
           \/ Head(q).type \in Connected(screen[g].stage) /\ events'[g] = Append(events[g], Head(q))
    BY <1>7, <2>1 DEF PassesFrom
  <2>3. q \in Seq(FromBackMessages)
    BY ThreeQueues
  <2>4. PICK m \in FromBackMessages : m = Head(q)
    BY <2>2, <2>3, HeadTaken
  <2>5. m \in ToSet(q) /\ ToSet(Tail(q)) \subseteq ToSet(q) /\ m \in Signals
    BY <2>2, <2>3, <2>4, HeadTaken DEF Signals
  <2>6. NoMore(q, Tail(q), Runs) /\ (OnceIn(q, Runs) /\ m = Runs => Runs \notin ToSet(Tail(q)))
    BY <2>2, <2>3, <2>4, OnceTail
  <2>7. NoMore(q, q', Runs) /\ ToSet(q)' \subseteq ToSet(q)
    BY <2>2, <2>5, <2>6
  <2>8. CASE events'[g] = events[g]
    <3>1. LogonOf(g)'
      BY <1>1, <1>3, <2>7, <2>8, LogonKept DEF NoMore
    <3>2. /\ \A type \in {"BackToFrontValidToken", "Logon"} : Saying(g, type)' => Saying(g, type)
          /\ (StatusHeard(g)' => StatusHeard(g)) /\ (BackHeard(g)' => BackHeard(g))
      BY <2>7, <2>8 DEF Saying, StatusHeard, BackHeard
    <3>3. TrustOf(g)'
      BY <1>1, <1>2, <3>2, TrustKept
    <3>. QED BY <1>4, <2>2, <3>1, <3>3 DEF SignalOf
  <2>9. CASE m.type \in Connected(screen[g].stage) /\ events'[g] = Append(events[g], m)
    <3>1. /\ m # Runs => NoMore(events[g], events'[g], Runs)
          /\ ~RunsHeard(g) => OnceIn(events'[g], Runs)
          /\ ToSet(events'[g]) = ToSet(events[g]) \cup {m}
      BY <2>5, <2>9, SignalEmitted
    <3>2. \A type : Saying(g, type)' => Saying(g, type)
      BY <2>5, <2>7, <3>1 DEF Saying
    <3>3. /\ m.type = "Status" => screen[g].stage = "trusted"
          /\ m.type \in BackSignals => screen[g].stage \in Joins
      BY <2>9 DEF Connected, Joins, BackSignals
    <3>4. /\ StatusHeard(g)' => StatusHeard(g) \/ screen[g].stage = "trusted"
          /\ BackHeard(g)' => BackHeard(g) \/ screen[g].stage \in Joins
      BY <3>1, <3>3 DEF StatusHeard, BackHeard
    <3>5. TrustOf(g)'
      BY <1>1, <1>2, <3>2, <3>4 DEF TrustOf
    <3>6. CASE m # Runs
      <4>1. LogonOf(g)'
        BY <1>1, <1>3, <2>7, <3>1, <3>6, LogonKept
      <4>. QED BY <1>4, <2>2, <3>5, <4>1 DEF SignalOf
    <3>7. CASE m = Runs
      <4>1. RunsSaid(g)
        BY <2>5, <3>7 DEF RunsSaid
      <4>2. ~RunsHeard(g) /\ ~LogonWanted(g) /\ logon[g] = "none" /\ main[g] \notin Early
        BY <1>1, <4>1 DEF LogonOf
      <4>3. Runs \notin ToSet(Tail(q))
        BY <1>1, <2>6, <3>7 DEF LogonOf
      <4>4. ~RunsSaid(g)' /\ ~LogonWanted(g)'
        BY <1>3, <2>2, <4>2, <4>3 DEF NoMore, RunsSaid, LogonWanted
      <4>5. OnceIn(q, Runs)' /\ OnceIn(events[g], Runs)' /\ OnceIn(Bytes("screenToBack", g), Wants)'
        BY <1>1, <1>3, <2>7, <3>1, <4>2 DEF LogonOf, NoMore
      <4>6. LogonOf(g)'
        BY <1>1, <4>2, <4>4, <4>5 DEF LogonOf
      <4>. QED BY <1>4, <2>2, <3>5, <4>6 DEF SignalOf
    <3>. QED BY <3>6, <3>7
  <2>. QED BY <2>2, <2>4, <2>8, <2>9
<1>. QED BY <1>6, <1>7, ManagersEffect

\* A click, and the end of a GUI.
LEMMA UserSignals ==
  ASSUME LoginTypes, SignalInv, NEW g \in Guis, User(g), UNCHANGED <<initiatorVars, backStartVars>>
  PROVE  SignalInv'
<1>1. UNCHANGED <<auth, logon, main>> /\ LogonOf(g) /\ TrustOf(g)
  BY DEF backStartVars, SignalInv, SignalOf
<1>2. /\ GuiKeeps(g) /\ UNCHANGED dialed /\ WritesNothing
      /\ \A h \in Guis : Bytes("backToScreen", h)' = Bytes("backToScreen", h)
      /\ screen'[g].stage \in {"connecting", "asked", "gone", "aborted"} /\ screen'[g].back = screen[g].back
      /\ events'[g] \in {events[g], <<>>}
  <2>1. CASE Quit(g)
    BY <2>1, QuitEffect DEF Ended
  <2>2. ASSUME NEW name \in Typed[g], Submit(g, name)
        PROVE  /\ GuiKeeps(g) /\ UNCHANGED <<events, dialed>> /\ WritesNothing /\ Kept({"backToScreen"})
               /\ screen'[g].stage \in {"connecting", "asked"} /\ screen'[g].back = screen[g].back
    BY <2>2, SubmitEffect
  <2>. QED BY <2>1, <2>2 DEF User, Kept, Bytes
<1>3. NoMore(events[g], events'[g], Runs) /\ ToSet(events'[g]) \subseteq ToSet(events[g])
  <2>1. ToSet(<<>>) = {} /\ OnceIn(<<>>, Runs)
    BY EmptySeq, Contents DEF OnceIn
  <2>. QED BY <1>2, <2>1 DEF NoMore
<1>4. /\ NoMore(Bytes("screenToBack", g), Bytes("screenToBack", g)', Wants)
      /\ NoMore(Bytes("backToScreen", g), Bytes("backToScreen", g)', Runs)
  BY <1>2, WritesNone DEF NoMore
<1>5. LogonOf(g)'
  BY <1>1, <1>3, <1>4, LogonKept
<1>6. /\ \A type \in {"BackToFrontValidToken", "Logon"} : Saying(g, type)' => Saying(g, type)
      /\ (StatusHeard(g)' => StatusHeard(g)) /\ (BackHeard(g)' => BackHeard(g))
  BY <1>2, <1>3 DEF Saying, StatusHeard, BackHeard
<1>7. TrustOf(g)'
  BY <1>1, <1>2, <1>6 DEF TrustOf, Joins
<1>8. \A h \in Guis \ {g} : SameSide(h)
  BY <1>1, <1>2 DEF GuiKeeps, SameSide, WritesNothing
<1>. QED BY <1>5, <1>7, <1>8, SameSignals DEF SignalInv, SignalOf

\* What a GUI and its back know of each other is true.
LEMMA SignalStep ==
  ASSUME LoginTypes, OwnDial, OwnDial', SignalInv, [Next]_vars
  PROVE  SignalInv'
<1>1. ASSUME NEW g \in Guis, InterfaceStep(g) PROVE SignalInv'
  BY <1>1, InterfaceSignals DEF InterfaceStep
<1>2. ASSUME NEW g \in Guis, ManagersStep(g) PROVE SignalInv'
  BY <1>2, ManagersSignals DEF ManagersStep
<1>3. ASSUME NEW g \in Guis, UserStep(g) PROVE SignalInv'
  BY <1>3, UserSignals DEF UserStep
<1>4. ASSUME InitiatorFrame, UNCHANGED <<screenVars, backStartVars>> PROVE SignalInv'
  <2>1. \A h \in Guis : SameSide(h)
    BY <1>4 DEF InitiatorFrame, InitiatorLines, Kept, Bytes, SameSide, screenVars, backStartVars
  <2>. QED BY <2>1, SameSignals DEF SignalInv
<1>5. CASE FrontHandlerStep \/ RemoveStep
  BY <1>4, <1>5, FrontFrame DEF FrontHandlerStep, RemoveStep
<1>6. CASE FrontPoolStep
  BY <1>4, <1>6, FrontPoolFrame DEF FrontPoolStep
<1>7. CASE BackHandlerStep \/ BackPoolStep
  BY <1>4, <1>7, BackHandlerFrame DEF BackHandlerStep, BackHandler, BackPoolStep
<1>8. ASSUME NEW b \in Guis, MainStep(b) \/ GreeterStep(b) \/ ServerStep(b) PROVE SignalInv'
  BY <1>8, BackProcessSignals DEF MainStep, GreeterStep, ServerStep
<1>9. CASE UNCHANGED vars
  <2>1. \A h \in Guis : SameSide(h)
    BY <1>9 DEF vars, hostVars, screenVars, backStartVars, SameSide, Bytes
  <2>. QED BY <2>1, SameSignals DEF SignalInv
<1>. QED BY <1>1, <1>2, <1>3, <1>5, <1>6, <1>7, <1>8, <1>9 DEF Next, Threads

\* No login has begun.
LEMMA SignalInit ==
  ASSUME Init
  PROVE  LivesInv /\ SignalInv
<1>1. \A d \in {"backToScreen", "screenToBack"}, g \in Guis : wire[d][g].bytes = <<>> /\ wire[d][g].open
  BY SomeDirections DEF Init, HostInit, NewStream
<1>2. \A g \in Guis : /\ screen[g].stage = "form" /\ screen[g].back = None /\ events[g] = <<>>
                      /\ proc[g] = "none" /\ logon[g] = "none" /\ ~auth[g].shaken
  BY DEF Init, HostInit, ScreenInit, BackStartInit
<1>3. LivesInv
  BY <1>1, <1>2 DEF LivesInv, Init, InitiatorInit
<1>4. ToSet(<<>>) = {} /\ \A m : OnceIn(<<>>, m)
  BY EmptySeq, Contents DEF OnceIn
<1>5. \A g \in Guis : LogonOf(g)
  BY <1>1, <1>2, <1>4 DEF LogonOf, RunsSaid, RunsHeard, LogonWanted, Bytes
<1>6. \A g \in Guis : TrustOf(g)
  BY <1>1, <1>2, <1>4, NoneAssumption DEF TrustOf, Saying, StatusHeard, BackHeard, Joins, Bytes
<1>. QED BY <1>3, <1>5, <1>6 DEF SignalInv, SignalOf

\* The invariant of the whole login.
TrustInv == LoginInv /\ (Good => LivesInv /\ SignalInv)

\* It is inductive.
LEMMA TrustStep ==
  TrustInv /\ [Next]_vars => TrustInv'
<1> SUFFICES ASSUME TrustInv, [Next]_vars PROVE TrustInv'
  OBVIOUS
<1>1. LoginTypes /\ EndInv /\ LoginInv /\ LoginInv'
  BY LoginStep DEF TrustInv, LoginInv
<1>2. ASSUME Good' PROVE LivesInv' /\ SignalInv'
  <2>1. Good
    BY <1>1, <1>2, StepLasts, GoodBefore
  <2>2. OwnDial /\ LivesInv /\ SignalInv
    BY <1>1, <2>1 DEF TrustInv, LoginInv, PortInv
  <2>3. OwnDial'
    BY <1>1, <1>2 DEF LoginInv, PortInv
  <2>. QED BY <1>1, <2>2, <2>3, LivesStep, SignalStep
<1>3. (Good => LivesInv /\ SignalInv)'
  BY <1>2
<1>. QED BY <1>1, <1>3 DEF TrustInv

\* A user the GUI lets in is known to its back, which has validated it and has the
\* server's answer, and to the initiator: no slot handles what another process sent.
THEOREM InIsIn == Spec => []InMeansAll
<1>1. Init => TrustInv
  BY TypeInit, PortInit, SignalInit DEF TrustInv, LoginInv
<1>2. TrustInv => InMeansAll
  <2> SUFFICES ASSUME TrustInv, Patient, ~Misdirected, NEW g \in Guis, screen[g].stage = "in"
               PROVE  /\ auth[g].valid /\ auth[g].shaken /\ logon[g] = "answered" /\ proc[g] = "running"
                      /\ session[g].key = ApiKey[g]
                      /\ up => \E r \in connected : Key[r] = ApiKey[g]
    BY DEF InMeansAll
  <2>1. LoginTypes /\ PortInv /\ LivesInv /\ SignalInv
    BY NotAstray DEF TrustInv, LoginInv
  <2>2. auth[g].valid /\ logon[g] = "answered" /\ auth[g].shaken
    BY <2>1 DEF SignalInv, SignalOf, TrustOf
  <2>3. screen[g].back = g
    BY <2>1 DEF SignalInv, SignalOf, TrustOf, Joins
  <2>4. Named(g) /\ proc[g] # "none"
    BY <2>1, <2>3 DEF PortInv, OwnDial, PortKnown, Told, Started
  <2>5. proc[g] = "running"
    BY <2>1, <2>4 DEF LivesInv, Ended
  <2>6. session[g].key = ApiKey[g]
    BY <2>1, <2>4 DEF LoginTypes, InitiatorPart, Named
  <2>7. \E r \in connected : Key[r] = ApiKey[g]
    BY <2>1, <2>4 DEF PortInv, OwnerInv, Owner
  <2>. QED BY <2>2, <2>5, <2>6, <2>7
<1>. QED BY <1>1, <1>2, TrustStep, PTL DEF Spec

-----------------------------------------------------------------------------
(* Who holds an account *)

\* An account that nobody freed twice is set connected for one GUI.
Owned(r) ==
  /\ (\E g \in Guis : Keeps(g, r)) => r \in connected
  /\ r \in connected /\ ServerName[r] = ClientName[r] => \E g \in Guis : Keeps(g, r)
  /\ \A g, h \in Guis : Keeps(g, r) /\ Keeps(h, r) => g = h
OwnedInv == \A r \in Accounts : ~FreedTwice(r) => Owned(r)

\* A session that is identified has the name of the account whose key it has, and
\* one that is not was not identified when it was closed.
NamesInv == \A g \in Guis :
  /\ Named(g) => \E r \in Accounts : Key[r] = session[g].key /\ session[g].name = ServerName[r]
  /\ closed[g] = "named" => Named(g)

\* While a login is under way, its session is not identified, and before the
\* UPDATE its account is not set connected.
TakingInv ==
  /\ login \in {"found", "marked"} => ~Named(Head(tasks).of)
  /\ login = "found" => Rows(Head(tasks).msg.key, Head(tasks).msg.name) \cap connected = {}
HolderInv == OwnedInv /\ NamesInv /\ TakingInv

\* A session that is as it was, but for its back.
SameName(h) ==
  /\ session'[h] = None <=> session[h] = None
  /\ session[h] # None => session'[h].key = session[h].key /\ session'[h].name = session[h].name

\* The login that is under way is the same.
SameTurn ==
  /\ login' \in {"found", "marked"} => login' = login
  /\ login = "marked" => login' = "marked"
  /\ login \in {"found", "marked"} => Head(tasks)' = Head(tasks)

\* A session that bears an account is identified.
LEMMA BearsNamed ==
  ASSUME NEW g \in Guis, NEW r \in Accounts, Bears(g, r)
  PROVE  Named(g)
BY KeysAssumption DEF Bears, Named

\* The names and the login are as they were, and with them the accounts.
LEMMA HoldersKept ==
  ASSUME HolderInv, UNCHANGED <<connected, closed>>, SameTurn,
         \A h \in Guis : (Named(h)' <=> Named(h)) /\ (Named(h) => SameName(h)),
         login \in {"found", "marked"} => Head(tasks).of \in Guis
  PROVE  HolderInv'
<1>1. \A h \in Guis, r \in Accounts : Bears(h, r)' <=> Bears(h, r)
  BY KeysAssumption DEF Bears, Named, SameName
<1>2. \A h \in Guis, r \in Accounts : Taken(h, r)' <=> Taken(h, r)
  BY DEF Taken, SameTurn, Rows
<1>3. \A h \in Guis, r \in Accounts : Keeps(h, r)' <=> Keeps(h, r)
  BY <1>1, <1>2 DEF Keeps, Holds, LeftBy
<1>4. \A r \in Accounts : FreedTwice(r)' <=> FreedTwice(r)
  BY <1>1 DEF FreedTwice
<1>5. OwnedInv'
  BY <1>3, <1>4 DEF HolderInv, OwnedInv, Owned
<1>6. NamesInv'
  BY DEF HolderInv, NamesInv, Named, SameName
<1>7. TakingInv'
  BY DEF HolderInv, TakingInv, SameTurn, Rows
<1>. QED BY <1>5, <1>6, <1>7 DEF HolderInv

\* A session that is there is changed, but not its name.
LEMMA OneName ==
  ASSUME LoginTypes, NEW g \in Guis, session[g] # None, NEW s \in Sessions, session' = [session EXCEPT ![g] = s],
         s.key = session[g].key, s.name = session[g].name
  PROVE  \A h \in Guis : SameName(h) /\ (Named(h)' <=> Named(h))
<1>1. session \in [Guis -> Sessions \cup {None}]
  BY DEF LoginTypes, InitiatorPart, InitiatorTypes
<1>2. session'[g] = s /\ s # None /\ \A h \in Guis \ {g} : session'[h] = session[h]
  BY <1>1, SessionsAssumption
<1>. QED BY <1>2 DEF SameName, Named

\* Nor is any other.
LEMMA NoName ==
  ASSUME UNCHANGED session
  PROVE  \A h \in Guis : SameName(h) /\ (Named(h)' <=> Named(h))
BY DEF SameName, Named

\* The login under way is that of a GUI.
LEMMA TurnOfGui ==
  ASSUME LoginTypes, login # "none"
  PROVE  tasks # <<>> /\ Head(tasks).of \in Guis
BY FirstTask DEF LoginTypes, TurnInv

\* A step of which the accounts do not know.
LEMMA ElsewhereHolders ==
  ASSUME LoginTypes, HolderInv, UNCHANGED <<connected, closed, session, login, tasks>>
  PROVE  HolderInv'
<1>1. SameTurn
  BY DEF SameTurn
<1>. QED BY <1>1, NoName, TurnOfGui, HoldersKept

\* A GUI is accepted: its session is not identified.
LEMMA AcceptHolders ==
  ASSUME LoginTypes, HolderInv, NEW g \in Guis, AcceptFront(g)
  PROVE  HolderInv'
<1>1. /\ UNCHANGED <<connected, closed, login, tasks>>
      /\ session[g] = None /\ session' = [session EXCEPT ![g] = NewSession]
  BY DEF AcceptFront
<1>2. session \in [Guis -> Sessions \cup {None}]
  BY DEF LoginTypes, InitiatorPart, InitiatorTypes
<1>3. NewSession \in Sessions /\ NewSession.key = None
  BY DEF NewSession, Sessions
<1>4. session'[g].key = None /\ \A h \in Guis \ {g} : session'[h] = session[h]
  BY <1>1, <1>2, <1>3
<1>5. \A h \in Guis : (Named(h)' <=> Named(h)) /\ (Named(h) => SameName(h))
  BY <1>1, <1>4 DEF Named, SameName
<1>6. SameTurn
  BY <1>1 DEF SameTurn
<1>. QED BY <1>1, <1>5, <1>6, TurnOfGui, HoldersKept

\* A message of a GUI goes to the end of the pool.
LEMMA MessageHolders ==
  ASSUME LoginTypes, HolderInv, NEW g \in Guis, FrontMessage(g)
  PROVE  HolderInv'
<1> DEFINE m == First("toInitiator", g)
           t == [of |-> g, msg |-> m]
<1>1. Streams(wire) /\ tasks \in Seq(Tasks) /\ "toInitiator" \in Directions
  BY SomeDirections DEF LoginTypes, InitiatorPart
<1>2. /\ UNCHANGED <<connected, closed, session, login>>
      /\ ~AtEnd("toInitiator", g) /\ tasks' = Append(tasks, t)
  BY DEF FrontMessage
<1>3. t \in Tasks
  <2>1. m \in Ident(g)
    BY <1>1, <1>2, FirstFits DEF Messages
  <2>. QED BY <2>1 DEF Tasks
<1> HIDE DEF t, m
<1>4. SameTurn
  <2>1. Head(Append(tasks, t)) = IF tasks = <<>> THEN t ELSE Head(tasks)
    BY <1>1, <1>3, Appended
  <2>. QED BY <1>2, <2>1 DEF LoginTypes, TurnInv, SameTurn
<1>. QED BY <1>2, <1>4, NoName, TurnOfGui, HoldersKept

\* FrontHandler is told that a GUI has ended.  If its session is identified and
\* was not closed before, the account, which is of no other GUI, is freed under
\* the name that the session was given.
LEMMA FrontEndHolders ==
  ASSUME LoginTypes, HolderInv, NEW g \in Guis, FrontEnd(g), g \in ToSet(sessions)
  PROVE  HolderInv'
<1>1. /\ UNCHANGED <<session, tasks, login>> /\ CloseOf(g)
      /\ connected' = connected \ Rows(session[g].key, session[g].name)
  BY DEF FrontEnd
<1>2. closed \in [Guis -> {"no", "unnamed", "named", "twice"}] /\ session[g] # None
  BY DEF LoginTypes, InitiatorPart, InitiatorTypes, AcceptedInv, Accepted
<1>3. /\ closed'[g] = IF closed[g] # "no" THEN "twice" ELSE IF session[g].key = None THEN "unnamed" ELSE "named"
      /\ \A h \in Guis \ {g} : closed'[h] = closed[h]
  BY <1>1, <1>2 DEF CloseOf
<1>4. \A h \in Guis : (Named(h)' <=> Named(h)) /\ \A r \in Accounts : Bears(h, r)' <=> Bears(h, r)
  BY <1>1 DEF Named, Bears
<1>5. \A h \in Guis, r \in Accounts : Taken(h, r)' <=> Taken(h, r)
  BY <1>1 DEF Taken, Rows
<1>6. \A r \in Rows(session[g].key, session[g].name) : r \in Accounts /\ Bears(g, r)
  BY <1>2 DEF Rows, Bears
<1>7. ASSUME NEW r \in Accounts, ~FreedTwice(r)' PROVE Owned(r)'
  <2>1. ~FreedTwice(r) /\ Owned(r)
    <3>1. \A h \in Guis : closed[h] = "twice" => closed'[h] = "twice"
      BY <1>3
    <3>2. ~FreedTwice(r)
      BY <1>4, <1>7, <3>1 DEF FreedTwice
    <3>. QED BY <3>2 DEF HolderInv, OwnedInv
  <2>2. CASE ~Bears(g, r)
    <3>1. \A h \in Guis : Keeps(h, r)' <=> Keeps(h, r)
      BY <1>3, <1>4, <1>5, <2>2 DEF Keeps, Holds, LeftBy
    <3>2. r \in connected' <=> r \in connected
      BY <1>1, <1>6, <2>2
    <3>. QED BY <2>1, <3>1, <3>2 DEF Owned
  <2>3. CASE Bears(g, r)
    <3>1. Named(g) /\ session[g].key = Key[r]
      BY <2>3, BearsNamed DEF Bears
    <3>2. closed[g] = "no" /\ closed'[g] = "named"
      BY <1>3, <1>4, <1>7, <2>3, <3>1 DEF FreedTwice, Named
    <3>3. Keeps(g, r)
      BY <2>3, <3>2 DEF Keeps, Holds
    <3>4. ~Keeps(g, r)'
      <4>1. ~Taken(g, r)
        BY <3>1 DEF Taken, HolderInv, TakingInv
      <4>. QED BY <1>5, <3>2, <4>1 DEF Keeps, Holds, LeftBy
    <3>5. \A h \in Guis \ {g} : ~Keeps(h, r)'
      <4>1. \A h \in Guis \ {g} : ~Keeps(h, r)
        BY <2>1, <3>3 DEF Owned
      <4>2. \A h \in Guis \ {g} : Keeps(h, r)' <=> Keeps(h, r)
        BY <1>3, <1>4, <1>5 DEF Keeps, Holds, LeftBy
      <4>. QED BY <4>1, <4>2
    <3>6. r \in connected' => ServerName[r] # ClientName[r]
      <4>1. PICK s \in Accounts : Key[s] = session[g].key /\ session[g].name = ServerName[s]
        BY <3>1 DEF HolderInv, NamesInv
      <4>2. s = r
        BY <3>1, <4>1, KeysAssumption
      <4>. QED BY <1>1, <3>1, <4>1, <4>2 DEF Rows
    <3>. QED BY <3>4, <3>5, <3>6 DEF Owned
  <2>. QED BY <2>2, <2>3
<1>8. OwnedInv'
  BY <1>7 DEF OwnedInv
<1>9. NamesInv'
  <2>1. \A h \in Guis : closed'[h] = "named" => closed[h] = "named" \/ (h = g /\ session[g].key # None)
    BY <1>3
  <2>. QED BY <1>1, <1>2, <1>4, <2>1 DEF HolderInv, NamesInv, Named
<1>10. TakingInv'
  BY <1>1 DEF HolderInv, TakingInv, Rows, Named
<1>. QED BY <1>8, <1>9, <1>10 DEF HolderInv

\* The pool of FrontHandler: the SELECT.  An account has one row, so that one
\* which is found is not set connected.
LEMMA LookUpHolders ==
  ASSUME LoginTypes, HolderInv, LookUp
  PROVE  HolderInv'
<1> DEFINE rows == Rows(Head(tasks).msg.key, Head(tasks).msg.name)
<1>1. login = "none" /\ UNCHANGED <<session, connected, closed>>
  BY DEF LookUp
<1>2. CASE login' = "none"
  <2>1. SameTurn
    BY <1>1, <1>2 DEF SameTurn
  <2>. QED BY <1>1, <2>1, NoName, HoldersKept
<1>3. CASE login' # "none"
  <2>1. /\ login' = "found" /\ UNCHANGED tasks /\ session[Head(tasks).of].key = None
        /\ ~(rows \subseteq connected)
    BY <1>3 DEF LookUp, Done
  <2>2. \A h \in Guis, r \in Accounts : (Bears(h, r)' <=> Bears(h, r)) /\ ~Taken(h, r) /\ ~Taken(h, r)'
    BY <1>1, <2>1 DEF Bears, Taken
  <2>3. \A h \in Guis, r \in Accounts : Keeps(h, r)' <=> Keeps(h, r)
    BY <1>1, <2>2 DEF Keeps, Holds, LeftBy
  <2>4. \A r \in Accounts : FreedTwice(r)' <=> FreedTwice(r)
    BY <1>1, <2>2 DEF FreedTwice
  <2>5. OwnedInv'
    BY <1>1, <2>3, <2>4 DEF HolderInv, OwnedInv, Owned
  <2>6. NamesInv'
    BY <1>1 DEF HolderInv, NamesInv, Named
  <2>7. rows \cap connected = {}
    <3>1. \A r, s \in rows : r = s
      BY KeysAssumption DEF Rows
    <3>. QED BY <2>1, <3>1
  <2>8. TakingInv'
    BY <1>1, <2>1, <2>7 DEF TakingInv, Named, Rows
  <2>. QED BY <2>5, <2>6, <2>8 DEF HolderInv
<1>. QED BY <1>2, <1>3

\* The UPDATE: the account, which was set connected for nobody, is taken.
LEMMA MarkHolders ==
  ASSUME LoginTypes, HolderInv, MarkConnected
  PROVE  HolderInv'
<1> DEFINE rows == Rows(Head(tasks).msg.key, Head(tasks).msg.name)
<1>1. /\ login = "found" /\ login' = "marked" /\ UNCHANGED <<session, tasks, closed>>
      /\ connected' = connected \cup rows
  BY DEF MarkConnected
<1>2. PICK g \in Guis : g = Head(tasks).of
  BY <1>1, TurnOfGui
<1>3. rows \cap connected = {} /\ ~Named(g)
  BY <1>1, <1>2 DEF HolderInv, TakingInv
<1>4. \A h \in Guis, r \in Accounts : Bears(h, r)' <=> Bears(h, r)
  BY <1>1 DEF Bears
<1>5. \A h \in Guis, r \in Accounts : ~Taken(h, r) /\ (Taken(h, r)' <=> h = g /\ r \in rows)
  BY <1>1, <1>2 DEF Taken, Rows
<1>6. \A r \in Accounts : FreedTwice(r)' <=> FreedTwice(r)
  BY <1>1, <1>4 DEF FreedTwice
<1>7. \A h \in Guis, r \in Accounts : Keeps(h, r)' <=> Keeps(h, r) \/ (h = g /\ r \in rows)
  BY <1>1, <1>4, <1>5 DEF Keeps, Holds, LeftBy
<1>8. ASSUME NEW r \in Accounts, ~FreedTwice(r)' PROVE Owned(r)'
  <2>1. Owned(r)
    BY <1>6, <1>8 DEF HolderInv, OwnedInv
  <2>2. CASE r \in rows
    <3>1. r \notin connected /\ r \in connected' /\ \A h \in Guis : ~Keeps(h, r)
      BY <1>1, <1>3, <2>1, <2>2 DEF Owned
    <3>2. \A h \in Guis : Keeps(h, r)' <=> h = g
      BY <1>7, <2>2, <3>1
    <3>. QED BY <3>1, <3>2 DEF Owned
  <2>3. CASE r \notin rows
    <3>1. (r \in connected' <=> r \in connected) /\ \A h \in Guis : Keeps(h, r)' <=> Keeps(h, r)
      BY <1>1, <1>7, <2>3
    <3>. QED BY <2>1, <3>1 DEF Owned
  <2>. QED BY <2>2, <2>3
<1>9. OwnedInv'
  BY <1>8 DEF OwnedInv
<1>10. NamesInv'
  BY <1>1 DEF HolderInv, NamesInv, Named
<1>11. TakingInv'
  BY <1>1 DEF HolderInv, TakingInv, Named
<1>. QED BY <1>9, <1>10, <1>11 DEF HolderInv

\* The session is identified, and keeps the account that was taken for it: in use
\* if it is still there, or left if it has been closed meanwhile.
LEMMA IdentifyHolders ==
  ASSUME LoginTypes, HolderInv, Identify
  PROVE  HolderInv'
<1> DEFINE rows == Rows(Head(tasks).msg.key, Head(tasks).msg.name)
<1>1. login = "marked" /\ login' = "named" /\ UNCHANGED <<tasks, connected, closed>>
  BY DEF Identify
<1>2. PICK g \in Guis : g = Head(tasks).of
  BY <1>1, TurnOfGui
<1>3. /\ session[g] \in Sessions /\ session[g] # None /\ Head(tasks).msg.key = ApiKey[g]
      /\ rows # {} /\ ~Named(g)
  BY <1>1, <1>2, TurnOfGui, FirstTask DEF Accepted, LoginTypes, TurnInv, HolderInv, TakingInv
<1>4. PICK a \in rows : session' = [session EXCEPT ![g].key = ApiKey[g], ![g].name = ServerName[a]]
  <2> DEFINE r == CHOOSE r \in rows : TRUE
  <2>1. session' = [session EXCEPT ![g].key = ApiKey[g], ![g].name = ServerName[r]]
    BY <1>2, <1>3 DEF Identify
  <2>2. r \in rows
    BY <1>3
  <2>. QED BY <2>1, <2>2
<1>5. a \in Accounts /\ Key[a] = ApiKey[g] /\ Key[a] # None
  BY <1>3, <1>4, KeysAssumption DEF Rows
<1>6. /\ \A h \in Guis \ {g} : session'[h] = session[h]
      /\ session'[g] # None /\ session'[g].key = ApiKey[g] /\ session'[g].name = ServerName[a]
  <2>1. session \in [Guis -> Sessions \cup {None}]
    BY DEF LoginTypes, InitiatorPart, InitiatorTypes
  <2>2. PICK s \in Sessions : s = [[session[g] EXCEPT !.key = ApiKey[g]] EXCEPT !.name = ServerName[a]]
    BY <1>3, <1>5 DEF Sessions
  <2>3. s.key = ApiKey[g] /\ s.name = ServerName[a] /\ s # None
    BY <1>3, <2>2, SessionsAssumption DEF Sessions
  <2>4. session' = [session EXCEPT ![g] = s]
    BY <1>4, <2>1, <2>2
  <2>. QED BY <2>1, <2>3, <2>4
<1>7. \A h \in Guis \ {g}, r \in Accounts : Bears(h, r)' <=> Bears(h, r)
  BY <1>6 DEF Bears
<1>8. \A r \in Accounts : ~Bears(g, r) /\ (Bears(g, r)' <=> r = a)
  BY <1>3, <1>5, <1>6, BearsNamed, KeysAssumption DEF Bears
<1>9. \A h \in Guis, r \in Accounts : (Taken(h, r) <=> h = g /\ r = a) /\ ~Taken(h, r)'
  <2>1. \A r \in Accounts : r \in rows <=> r = a
    BY <1>3, <1>4, <1>5, KeysAssumption DEF Rows
  <2>. QED BY <1>1, <1>2, <2>1 DEF Taken, Rows
<1>10. closed[g] \in {"no", "unnamed", "twice"}
  BY <1>3 DEF HolderInv, NamesInv, LoginTypes, InitiatorPart, InitiatorTypes
<1>11. ASSUME NEW r \in Accounts, ~FreedTwice(r)' PROVE Owned(r)'
  <2>1. Owned(r)
    <3>1. ~FreedTwice(r)
      BY <1>1, <1>7, <1>8, <1>11 DEF FreedTwice
    <3>. QED BY <3>1 DEF HolderInv, OwnedInv
  <2>2. \A h \in Guis \ {g} : Keeps(h, r)' <=> Keeps(h, r)
    BY <1>1, <1>7, <1>9 DEF Keeps, Holds, LeftBy
  <2>3. Keeps(g, r)' <=> Keeps(g, r)
    <3>1. r = a => closed[g] # "twice"
      BY <1>1, <1>8, <1>11 DEF FreedTwice
    <3>2. Keeps(g, r) <=> r = a
      BY <1>8, <1>9 DEF Keeps, Holds, LeftBy
    <3>3. Keeps(g, r)' <=> r = a
      BY <1>1, <1>8, <1>9, <1>10, <3>1 DEF Keeps, Holds, LeftBy
    <3>. QED BY <3>2, <3>3
  <2>. QED BY <1>1, <2>1, <2>2, <2>3 DEF Owned
<1>12. OwnedInv'
  BY <1>11 DEF OwnedInv
<1>13. NamesInv'
  <2>1. \A h \in Guis \ {g} : Named(h)' <=> Named(h)
    BY <1>6 DEF Named
  <2>2. Named(g)'
    BY <1>5, <1>6 DEF Named
  <2>. QED BY <1>1, <1>5, <1>6, <2>1, <2>2 DEF HolderInv, NamesInv
<1>14. TakingInv'
  BY <1>1 DEF TakingInv
<1>. QED BY <1>12, <1>13, <1>14 DEF HolderInv

\* The back is forked, and the login is over.
LEMMA ForkHolders ==
  ASSUME LoginTypes, HolderInv, ForkBack
  PROVE  HolderInv'
<1>1. login = "named" /\ login' = "none" /\ UNCHANGED <<connected, closed>>
  BY DEF ForkBack, Done
<1>2. PICK g \in Guis : g = Head(tasks).of
  BY <1>1, TurnOfGui
<1>3. session[g] \in Sessions /\ session[g] # None
  BY <1>1, <1>2, TurnOfGui, FirstTask DEF Accepted
<1>4. PICK s \in Sessions : s = [session[g] EXCEPT !.cmd = TRUE]
  BY <1>3 DEF Sessions
<1>5. s.key = session[g].key /\ s.name = session[g].name
  BY <1>3, <1>4 DEF Sessions
<1>6. session' = [session EXCEPT ![g] = s]
  BY <1>2, <1>4 DEF ForkBack
<1>7. \A h \in Guis : SameName(h) /\ (Named(h)' <=> Named(h))
  BY <1>3, <1>5, <1>6, OneName
<1>8. SameTurn
  BY <1>1 DEF SameTurn
<1>. QED BY <1>1, <1>7, <1>8, HoldersKept

\* BackHandler and its pool name no session.
LEMMA BackHandlerHolders ==
  ASSUME LoginTypes, HolderInv, IdentifyBack \/ \E b \in Guis : BackMessage(b)
  PROVE  HolderInv'
<1>1. session \in [Guis -> Sessions \cup {None}]
  BY DEF LoginTypes, InitiatorPart, InitiatorTypes
<1>2. ASSUME NEW b \in Guis, BackMessage(b) PROVE HolderInv'
  <2>1. /\ UNCHANGED <<connected, closed, login, tasks>>
        /\ UNCHANGED session \/ \E g \in Guis : g \in ToSet(sessions) /\ session' = [session EXCEPT ![g].socket = b]
    BY <1>2, BackFound DEF frontVars
  <2>2. ASSUME NEW g \in Guis, g \in ToSet(sessions), session' = [session EXCEPT ![g].socket = b]
        PROVE  \A h \in Guis : SameName(h) /\ (Named(h)' <=> Named(h))
    <3>1. session[g] \in Sessions /\ session[g] # None
      BY <1>1, <2>2 DEF LoginTypes, AcceptedInv, Accepted
    <3>2. PICK s \in Sessions : s = [session[g] EXCEPT !.socket = b]
      BY <3>1 DEF Sessions
    <3>3. s.key = session[g].key /\ s.name = session[g].name
      BY <3>1, <3>2 DEF Sessions
    <3>4. session' = [session EXCEPT ![g] = s]
      BY <2>2, <3>2
    <3>. QED BY <3>1, <3>3, <3>4, OneName
  <2>3. \A h \in Guis : SameName(h) /\ (Named(h)' <=> Named(h))
    BY <2>1, <2>2, NoName
  <2>4. SameTurn
    BY <2>1 DEF SameTurn
  <2>. QED BY <2>1, <2>3, <2>4, TurnOfGui, HoldersKept
<1>3. CASE IdentifyBack
  <2>1. backTasks # <<>> /\ Head(backTasks) \in BackTasks /\ Accepted(Head(backTasks).of)
    BY <1>3, BackPoolDone
  <2>2. PICK g \in Guis : g = Head(backTasks).of
    BY <2>1 DEF BackTasks
  <2>3. /\ session' = [session EXCEPT ![g].token = GenerateToken]
        /\ UNCHANGED <<connected, closed, login, tasks>>
    BY <1>3, <2>2, BackPoolDone DEF frontVars
  <2>4. session[g] \in Sessions /\ session[g] # None
    BY <1>1, <2>1, <2>2 DEF Accepted
  <2>5. PICK s \in Sessions : s = [session[g] EXCEPT !.token = GenerateToken]
    BY <2>4 DEF Sessions, GenerateToken
  <2>6. s.key = session[g].key /\ s.name = session[g].name
    BY <2>4, <2>5 DEF Sessions
  <2>7. session' = [session EXCEPT ![g] = s]
    BY <2>3, <2>5
  <2>8. \A h \in Guis : SameName(h) /\ (Named(h)' <=> Named(h))
    BY <2>4, <2>6, <2>7, OneName
  <2>9. SameTurn
    BY <2>3 DEF SameTurn
  <2>. QED BY <2>3, <2>8, <2>9, TurnOfGui, HoldersKept
<1>. QED BY <1>2, <1>3

\* Who holds an account follows the steps of all the programs.
LEMMA HolderStep ==
  ASSUME LoginTypes, HolderInv, [Next]_vars
  PROVE  HolderInv'
<1>1. ASSUME NEW g \in Guis,
             \/ InterfaceStep(g) \/ ManagersStep(g) \/ UserStep(g)
             \/ MainStep(g) \/ GreeterStep(g) \/ ServerStep(g)
      PROVE  HolderInv'
  <2>1. UNCHANGED initiatorVars
    BY <1>1 DEF InterfaceStep, ManagersStep, UserStep, MainStep, GreeterStep, ServerStep
  <2>. QED BY <2>1, ElsewhereHolders DEF initiatorVars, frontVars
<1>2. CASE FrontHandlerStep \/ RemoveStep
  <2>1. FrontHandler \/ RemoveSession
    BY <1>2 DEF FrontHandlerStep, RemoveStep
  <2>2. CASE RemoveSession \/ StopBack \/ BackReaped
    <3>1. UNCHANGED <<connected, closed, session, login, tasks>>
      BY <2>2 DEF RemoveSession, StopBack, BackReaped
    <3>. QED BY <3>1, ElsewhereHolders
  <2>3. ASSUME NEW g \in Guis, FrontEnd(g) PROVE HolderInv'
    <3>1. CASE g \in ToSet(sessions)
      BY <2>3, <3>1, FrontEndHolders
    <3>2. CASE g \notin ToSet(sessions)
      <4>1. UNCHANGED <<connected, closed, session, login, tasks>>
        BY <2>3, <3>2 DEF FrontEnd
      <4>. QED BY <4>1, ElsewhereHolders
    <3>. QED BY <3>1, <3>2
  <2>. QED BY <2>1, <2>2, <2>3, AcceptHolders, MessageHolders DEF FrontHandler
<1>3. CASE FrontPoolStep
  BY <1>3, LookUpHolders, MarkHolders, IdentifyHolders, ForkHolders DEF FrontPoolStep, FrontPool
<1>4. CASE BackHandlerStep \/ BackPoolStep
  BY <1>4, BackHandlerHolders DEF BackHandlerStep, BackHandler, BackPoolStep
<1>5. CASE UNCHANGED vars
  <2>1. UNCHANGED <<connected, closed, session, login, tasks>>
    BY <1>5 DEF vars, initiatorVars, frontVars
  <2>. QED BY <2>1, ElsewhereHolders
<1>. QED BY <1>1, <1>2, <1>3, <1>4, <1>5 DEF Next, Threads

\* No account is held.
LEMMA HolderInit ==
  ASSUME Init
  PROVE  HolderInv
<1>1. /\ login = "none" /\ connected = {}
      /\ \A g \in Guis : session[g] = None /\ closed[g] = "no"
  BY DEF Init, InitiatorInit
<1>2. \A g \in Guis, r \in Accounts : ~Bears(g, r) /\ ~Taken(g, r)
  BY <1>1 DEF Bears, Taken
<1>3. OwnedInv
  BY <1>1, <1>2 DEF OwnedInv, Owned, Keeps, Holds, LeftBy
<1>. QED BY <1>1, <1>3 DEF HolderInv, NamesInv, TakingInv, Named

\* An account is connected as long as one GUI, and never two, uses it: from the
\* two transactions of login() to close(), and never after it; or it was left so
\* by a GUI that ended before its session was identified.  Any GUI may end at any
\* time, and only an account is exempt one of whose sessions was closed twice.
THEOREM AccountIsHeld == Spec => []AccountHeldOnce
<1> DEFINE Inv == LoginTypes /\ HolderInv
<1>1. Init => Inv
  BY TypeInit, HolderInit
<1>2. Inv /\ [Next]_vars => Inv'
  BY TypeStep, HolderStep
<1>3. Inv => AccountHeldOnce
  BY DEF HolderInv, OwnedInv, Owned, AccountHeldOnce
<1>. QED BY <1>1, <1>2, <1>3, PTL DEF Spec
=============================================================================
