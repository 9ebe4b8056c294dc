---------------------------- MODULE SessionProofs ----------------------------
(***************************************************************************)
(* Proofs about Session, for every set of clients, every pool of TCPOutput *)
(* and every bound.                                                        *)
(***************************************************************************)
EXTENDS Session, TLAPS, FiniteSetTheorems, SequenceTheorems

-----------------------------------------------------------------------------
(* Queues *)

\* What a queue holds once something is appended.
LEMMA Appended ==
  ASSUME NEW S, NEW q \in Seq(S), NEW m \in S
  PROVE  /\ Append(q, m) \in Seq(S) /\ Append(q, m) # <<>>
         /\ Len(Append(q, m)) = Len(q) + 1
         /\ ToSet(Append(q, m)) = ToSet(q) \cup {m}
<1>1. /\ Append(q, m) \in Seq(S) /\ Append(q, m) # <<>>
      /\ Len(Append(q, m)) = Len(q) + 1
      /\ \A k \in 1..Len(q) : Append(q, m)[k] = q[k]
      /\ Append(q, m)[Len(q) + 1] = m
  BY AppendProperties
<1>2. Len(q) \in Nat /\ DOMAIN q = 1..Len(q) /\ DOMAIN Append(q, m) = 1..(Len(q) + 1)
  BY <1>1, LenProperties
<1>3. ToSet(Append(q, m)) \subseteq ToSet(q) \cup {m}
  BY <1>1, <1>2 DEF ToSet
<1>4. ToSet(q) \cup {m} \subseteq ToSet(Append(q, m))
  BY <1>1, <1>2 DEF ToSet
<1>. QED BY <1>1, <1>3, <1>4

\* What a queue holds once its head is taken.
LEMMA HeadTaken ==
  ASSUME NEW S, NEW q \in Seq(S), q # <<>>
  PROVE  /\ Tail(q) \in Seq(S) /\ Head(q) \in S /\ Head(q) = q[1] /\ Len(q) >= 1
         /\ Len(Tail(q)) = Len(q) - 1
         /\ ToSet(q) = {Head(q)} \cup ToSet(Tail(q))
<1>1. /\ Head(q) \in S /\ Tail(q) \in Seq(S) /\ Len(Tail(q)) = Len(q) - 1
      /\ \A k \in 1..Len(Tail(q)) : Tail(q)[k] = q[k + 1]
  BY HeadTailProperties
<1>2. /\ Len(q) \in Nat /\ DOMAIN q = 1..Len(q) /\ DOMAIN Tail(q) = 1..(Len(q) - 1)
      /\ Len(q) >= 1 /\ Head(q) = q[1]
  BY <1>1, LenProperties, EmptySeq
<1>3. ToSet(q) \subseteq {Head(q)} \cup ToSet(Tail(q))
  <2> SUFFICES ASSUME NEW k \in 1..Len(q) PROVE q[k] \in {Head(q)} \cup ToSet(Tail(q))
    BY <1>2 DEF ToSet
  <2>1. CASE k = 1
    BY <1>2, <2>1
  <2>2. CASE k # 1
    <3>1. k - 1 \in 1..Len(Tail(q)) /\ k - 1 + 1 = k
      BY <1>1, <1>2, <2>2
    <3>2. Tail(q)[k - 1] = q[k]
      BY <1>1, <3>1
    <3>. QED BY <1>1, <1>2, <3>1, <3>2 DEF ToSet
  <2>. QED BY <2>1, <2>2
<1>4. {Head(q)} \cup ToSet(Tail(q)) \subseteq ToSet(q)
  BY <1>1, <1>2 DEF ToSet
<1>. QED BY <1>1, <1>2, <1>3, <1>4

\* A queue is empty when it holds nothing.
LEMMA Contents ==
  /\ ToSet(<<>>) = {} /\ Len(<<>>) = 0
  /\ \A S : \A q \in Seq(S) :
       /\ ToSet(q) \subseteq S /\ Len(q) \in Nat /\ DOMAIN q = 1..Len(q)
       /\ q = <<>> <=> Len(q) = 0
       /\ q = <<>> <=> ToSet(q) = {}
<1>1. ToSet(<<>>) = {} /\ Len(<<>>) = 0
  BY DEF ToSet
<1>2. ASSUME NEW S, NEW q \in Seq(S)
      PROVE  /\ ToSet(q) \subseteq S /\ Len(q) \in Nat /\ DOMAIN q = 1..Len(q)
             /\ q = <<>> <=> Len(q) = 0
             /\ q = <<>> <=> ToSet(q) = {}
  <2>1. Len(q) \in Nat /\ DOMAIN q = 1..Len(q) /\ \A k \in 1..Len(q) : q[k] \in S
    BY LenProperties, ElementOfSeq
  <2>2. q = <<>> <=> Len(q) = 0
    BY EmptySeq
  <2>3. ToSet(q) \subseteq S
    BY <2>1 DEF ToSet
  <2>4. ASSUME q # <<>> PROVE ToSet(q) # {}
    <3>1. ToSet(q) = {Head(q)} \cup ToSet(Tail(q))
      BY <2>4, HeadTaken
    <3>. QED BY <3>1
  <2>. QED BY <1>1, <2>1, <2>2, <2>3, <2>4
<1>. QED BY <1>1, <1>2

\* A queue without its last element holds nothing new.
LEMMA FrontTaken ==
  ASSUME NEW S, NEW q \in Seq(S), q # <<>>
  PROVE  /\ Front(q) \in Seq(S) /\ ToSet(Front(q)) \subseteq ToSet(q)
         /\ \A k \in DOMAIN Front(q) : k \in DOMAIN q /\ Front(q)[k] = q[k]
<1> DEFINE n == Len(q) - 1
<1>1. Len(q) \in Nat /\ Len(q) # 0 /\ DOMAIN q = 1..Len(q) /\ \A k \in 1..Len(q) : q[k] \in S
  BY Contents, ElementOfSeq
<1>2. n \in Nat /\ \A k \in 1..n : k \in DOMAIN q /\ 1 + k - 1 = k
  BY <1>1
<1>3. Front(q) = SubSeq(q, 1, n)
  BY DEF Front
<1> HIDE DEF n
<1>4. \A k \in 1..n : q[k] \in S
  BY <1>1, <1>2
<1>5. n - 1 + 1 = n /\ (~(1 <= n) => n = 0) /\ 1 \in Int /\ n \in Int
  BY <1>2
<1>6. /\ SubSeq(q, 1, n) \in Seq(S)
      /\ Len(SubSeq(q, 1, n)) = IF 1 <= n THEN n - 1 + 1 ELSE 0
      /\ \A k \in 1..(n - 1 + 1) : SubSeq(q, 1, n)[k] = q[1 + k - 1]
  BY <1>4, <1>5, SubSeqProperties
<1>7. Front(q) \in Seq(S) /\ Len(Front(q)) = n /\ \A k \in 1..n : Front(q)[k] = q[k]
  BY <1>2, <1>3, <1>5, <1>6
<1>8. DOMAIN Front(q) = 1..n
  BY <1>7, Contents
<1>9. ToSet(Front(q)) \subseteq ToSet(q)
  BY <1>2, <1>7, <1>8 DEF ToSet
<1>. QED BY <1>2, <1>7, <1>8, <1>9

\* A queue that holds nothing twice.
Distinct(q) == \A j, k \in DOMAIN q : q[j] = q[k] => j = k

\* Such a queue without one of its elements.
LEMMA Removed ==
  ASSUME NEW S, NEW q \in Seq(S), Distinct(q), NEW x \in ToSet(q)
  PROVE  /\ RemoveFirst(q, x) \in Seq(S) /\ Distinct(RemoveFirst(q, x))
         /\ ToSet(RemoveFirst(q, x)) = ToSet(q) \ {x}
<1> DEFINE n == Len(q)
<1>1. n \in Nat /\ DOMAIN q = 1..n /\ \A k \in 1..n : q[k] \in S
  BY Contents, ElementOfSeq
<1>2. PICK i \in 1..n : q[i] = x
  BY <1>1 DEF ToSet
<1>3. {k \in 1..n : q[k] = x} = {i}
  BY <1>1, <1>2 DEF Distinct
<1>4. Min({i}) = i
  BY DEF Min
<1>5. RemoveFirst(q, x) = RemoveAt(q, i)
  BY <1>2, <1>3, <1>4 DEF RemoveFirst, SelectInSeq
<1> DEFINE a == SubSeq(q, 1, i - 1)
           b == SubSeq(q, i + 1, n)
           r == a \o b
<1>6. a \in Seq(S) /\ Len(a) = i - 1 /\ \A k \in 1..(i - 1) : a[k] = q[k]
  BY <1>1, <1>2, SubSeqProperties
<1>7. b \in Seq(S) /\ Len(b) = n - i /\ \A k \in 1..(n - i) : b[k] = q[k + i]
  <2> DEFINE m == i + 1
  <2>1. m \in Int /\ n \in Int /\ \A k \in m..n : q[k] \in S
    BY <1>1, <1>2
  <2>2. n - m + 1 = n - i /\ (~(m <= n) => n - i = 0)
    <3>1. i \in Int /\ n \in Int /\ i <= n
      BY <1>1, <1>2
    <3> HIDE DEF n
    <3>2. n - (i + 1) + 1 = n - i /\ (~(i + 1 <= n) => n - i = 0)
      BY <3>1
    <3>. QED BY <3>2
  <2>3. \A k \in 1..(n - i) : m + k - 1 = k + i
    BY <1>1, <1>2
  <2> HIDE DEF m, n
  <2>4. /\ SubSeq(q, m, n) \in Seq(S)
        /\ Len(SubSeq(q, m, n)) = IF m <= n THEN n - m + 1 ELSE 0
        /\ \A k \in 1..(n - m + 1) : SubSeq(q, m, n)[k] = q[m + k - 1]
    BY <2>1, SubSeqProperties
  <2>. QED BY <2>2, <2>3, <2>4 DEF m
<1>8. RemoveAt(q, i) = r
  BY DEF RemoveAt
<1> HIDE DEF a, b, n
<1>9. /\ r \in Seq(S) /\ Len(r) = Len(a) + Len(b)
      /\ \A k \in 1..(Len(a) + Len(b)) : r[k] = IF k <= Len(a) THEN a[k] ELSE b[k - Len(a)]
  BY <1>6, <1>7, ConcatProperties
<1>10. Len(a) + Len(b) = n - 1
  BY <1>1, <1>2, <1>6, <1>7
<1>11. DOMAIN r = 1..(n - 1)
  BY <1>9, <1>10, Contents
<1> DEFINE at(k) == IF k < i THEN k ELSE k + 1
<1>12. ASSUME NEW k \in 1..(n - 1)
       PROVE  r[k] = q[at(k)] /\ at(k) \in 1..n /\ at(k) # i
  <2>1. CASE k < i
    <3>1. k \in 1..(i - 1) /\ k <= i - 1 /\ k \in 1..n /\ k # i
      BY <1>1, <1>2, <2>1
    <3>. QED BY <1>6, <1>9, <1>10, <2>1, <3>1
  <2>2. CASE ~(k < i)
    <3>1. ~(k <= i - 1) /\ k - (i - 1) \in 1..(n - i) /\ k - (i - 1) + i = k + 1
          /\ k + 1 \in 1..n /\ k + 1 # i
      BY <1>1, <1>2, <2>2
    <3>2. r[k] = b[k - (i - 1)]
      BY <1>6, <1>9, <1>10, <3>1
    <3>3. b[k - (i - 1)] = q[k + 1]
      BY <1>7, <3>1
    <3>. QED BY <2>2, <3>1, <3>2, <3>3
  <2>. QED BY <2>1, <2>2
<1> HIDE DEF r
<1>13. Distinct(r)
  <2> SUFFICES ASSUME NEW j \in 1..(n - 1), NEW k \in 1..(n - 1), r[j] = r[k] PROVE j = k
    BY <1>11 DEF Distinct
  <2>1. at(j) = at(k)
    BY <1>1, <1>12 DEF Distinct
  <2>. QED BY <1>1, <1>2, <2>1
<1>14. ToSet(r) \subseteq ToSet(q) \ {x}
  <2> SUFFICES ASSUME NEW k \in 1..(n - 1) PROVE r[k] \in ToSet(q) \ {x}
    BY <1>11 DEF ToSet
  <2>1. at(k) \in 1..n /\ at(k) # i /\ r[k] = q[at(k)]
    BY <1>12
  <2>. QED BY <1>1, <1>2, <2>1 DEF ToSet, Distinct
<1>15. ToSet(q) \ {x} \subseteq ToSet(r)
  <2> SUFFICES ASSUME NEW k \in 1..n, q[k] # x PROVE q[k] \in ToSet(r)
    BY <1>1 DEF ToSet
  <2>1. PICK j \in 1..(n - 1) : at(j) = k
    <3>1. CASE k < i
      <4>1. k \in 1..(n - 1) /\ at(k) = k
        BY <1>1, <1>2, <3>1
      <4>. QED BY <4>1
    <3>2. CASE ~(k < i)
      <4>1. k # i
        BY <1>2
      <4>2. k - 1 \in 1..(n - 1) /\ at(k - 1) = k
        BY <1>1, <1>2, <3>2, <4>1
      <4>. QED BY <4>2
    <3>. QED BY <3>1, <3>2
  <2>2. r[j] = q[k]
    BY <1>12, <2>1
  <2>. QED BY <1>11, <2>2 DEF ToSet
<1>. QED BY <1>5, <1>8, <1>9, <1>13, <1>14, <1>15 DEF r

\* How many elements of a queue are in P.
Count(q, P) == Cardinality({k \in DOMAIN q : q[k] \in P})

\* It is a number, and none if the queue holds none of them.
LEMMA CountIs ==
  ASSUME NEW S, NEW q \in Seq(S), NEW P
  PROVE  /\ Count(q, P) \in Nat /\ IsFiniteSet({k \in DOMAIN q : q[k] \in P})
         /\ Count(q, P) = 0 <=> ToSet(q) \cap P = {}
         /\ Count(<<>>, P) = 0
<1> DEFINE K == {k \in DOMAIN q : q[k] \in P}
<1>1. Len(q) \in Nat /\ DOMAIN q = 1..Len(q)
  BY Contents
<1>2. IsFiniteSet(K)
  <2>1. IsFiniteSet(1..Len(q))
    BY <1>1, FS_Interval
  <2>2. K \subseteq 1..Len(q)
    BY <1>1
  <2>. QED BY <2>1, <2>2, FS_Subset
<1>3. Cardinality(K) \in Nat /\ (Cardinality(K) = 0 <=> K = {})
  BY <1>2, FS_CardinalityType, FS_EmptySet
<1>4. K = {} <=> ToSet(q) \cap P = {}
  BY DEF ToSet
<1>5. Count(<<>>, P) = 0
  <2>1. {k \in DOMAIN <<>> : <<>>[k] \in P} = {}
    OBVIOUS
  <2>. QED BY <2>1, FS_EmptySet DEF Count
<1>. QED BY <1>2, <1>3, <1>4, <1>5 DEF Count

\* One more is appended.
LEMMA CountAppended ==
  ASSUME NEW S, NEW q \in Seq(S), NEW m \in S, NEW P
  PROVE  Count(Append(q, m), P) = Count(q, P) + (IF m \in P THEN 1 ELSE 0)
<1> DEFINE n == Len(q)
           r == Append(q, m)
           K == {k \in DOMAIN q : q[k] \in P}
           L == {k \in DOMAIN r : r[k] \in P}
<1>1. n \in Nat /\ DOMAIN q = 1..n
  BY Contents
<1>2. r \in Seq(S) /\ Len(r) = n + 1 /\ (\A k \in 1..n : r[k] = q[k]) /\ r[n + 1] = m
  BY AppendProperties
<1>3. DOMAIN r = 1..(n + 1)
  BY <1>2, LenProperties
<1>4. IsFiniteSet(K) /\ Cardinality(K) \in Nat
  BY CountIs DEF Count
<1> HIDE DEF n, r
<1>5. Count(q, P) = Cardinality(K) /\ Count(Append(q, m), P) = Cardinality(L)
  BY DEF Count, r
<1>6. m \in P => L = K \cup {n + 1} /\ n + 1 \notin K
  BY <1>1, <1>2, <1>3
<1>7. m \notin P => L = K
  BY <1>1, <1>2, <1>3
<1> HIDE DEF K, L
<1>8. m \in P => Cardinality(L) = Cardinality(K) + 1
  BY <1>4, <1>6, FS_AddElement
<1>. QED BY <1>4, <1>5, <1>7, <1>8

\* One less is left when the head is taken.
LEMMA CountTaken ==
  ASSUME NEW S, NEW q \in Seq(S), q # <<>>, NEW P
  PROVE  Count(q, P) = Count(Tail(q), P) + (IF Head(q) \in P THEN 1 ELSE 0)
<1> DEFINE n == Len(q)
           r == Tail(q)
           K == {k \in DOMAIN q : q[k] \in P}
           L == {k \in DOMAIN r : r[k] \in P}
           M == K \ {1}
           f == [k \in L |-> k + 1]
<1>1. n \in Nat /\ n >= 1 /\ DOMAIN q = 1..n /\ Head(q) = q[1]
  BY Contents, HeadTaken
<1>2. r \in Seq(S) /\ Len(r) = n - 1 /\ \A k \in 1..(n - 1) : r[k] = q[k + 1]
  BY HeadTailProperties
<1>3. DOMAIN r = 1..(n - 1)
  BY <1>2, LenProperties
<1>4. IsFiniteSet(K) /\ Cardinality(K) \in Nat
  BY CountIs DEF Count
<1> HIDE DEF n, r
<1>0. IsFiniteSet(L)
  <2>1. IsFiniteSet(1..(n - 1)) /\ L \subseteq 1..(n - 1)
    BY <1>1, <1>3, FS_Interval
  <2>. QED BY <2>1, FS_Subset
<1>5. \A k \in L : k \in Nat /\ k + 1 \in M
  BY <1>1, <1>2, <1>3
<1>6. \A k \in M : k - 1 \in L /\ k - 1 + 1 = k
  BY <1>1, <1>2, <1>3
<1> HIDE DEF K, L, M
<1>7. f \in Injection(L, M)
  BY <1>5 DEF Injection, IsInjective
<1>8. f \in Surjection(L, M)
  BY <1>5, <1>6 DEF Surjection
<1>9. Cardinality(M) = Cardinality(L)
  BY <1>0, <1>7, <1>8, FS_Bijection DEF Bijection, ExistsBijection
<1>10. Cardinality(M) = IF 1 \in K THEN Cardinality(K) - 1 ELSE Cardinality(K)
  BY <1>4, FS_RemoveElement DEF M
<1>11. 1 \in K <=> Head(q) \in P
  BY <1>1 DEF K
<1>12. Count(q, P) = Cardinality(K) /\ Count(Tail(q), P) = Cardinality(L)
  BY DEF Count, K, L, r
<1>. QED BY <1>4, <1>9, <1>10, <1>11, <1>12

-----------------------------------------------------------------------------
(* Types *)

Conn == [open : BOOLEAN, logged : BOOLEAN, dc : BOOLEAN, seq : Nat, test : BOOLEAN]
Answering == [to : Clients, kind : Answers]
PeerRecord == [state : {"off", "on", "closed"}, seq : Nat, sent : 0..MaxSent, login : BOOLEAN,
               waits : BOOLEAN, asked : BOOLEAN]
Sent == [kind : Answers, num : Nat]

\* A thread of the pool that has something to do has it for a client.
WorkInv == \A w \in Workers :
  worker[w].pc # "idle" => worker[w].to \in Clients /\ worker[w].kind \in Answers
Rest == /\ edge \in [Clients -> BOOLEAN] /\ ready \in Clients \cup {None}
        /\ up \in BOOLEAN /\ doubled \in BOOLEAN /\ filled \in 0..MaxEvents
        /\ strayed \cup gone \subseteq Clients

\* The list holds no client twice, and none that has not connected.
OnceInv == Distinct(store) /\ \A c \in Clients : peer[c].state = "off" => c \notin ToSet(store)

SessionTypes == /\ ConnTypes /\ StoreTypes /\ QueueTypes /\ PeerTypes /\ Rest /\ WorkInv
                /\ OnceInv

\* What is made of the record of a client.
Changed(X, c, open, logged, dc, seq) ==
  /\ X \in [Clients -> Conn]
  /\ \A d \in Clients : d # c => X[d] = conn[d]
  /\ X[c].open = open /\ X[c].logged = logged /\ X[c].dc = dc /\ X[c].seq = seq

\* Each helper changes the record of its client alone.
LEMMA ConnSteps ==
  ASSUME ConnTypes, NEW c \in Clients
  PROVE  LET r == conn[c] IN
         /\ r \in Conn
         /\ Changed(Next1(c), c, r.open, r.logged, r.dc, r.seq + 1)
         /\ \A num \in Nat :
              /\ Changed(LoggedIn(c, num), c, r.open, TRUE, r.dc, num + 1)
              /\ Changed([conn EXCEPT ![c].seq = num + 1], c, r.open, r.logged, r.dc, num + 1)
         /\ Changed(Disconnected(c), c, r.open, FALSE, FALSE, 0)
         /\ Changed([Disconnected(c) EXCEPT ![c].open = FALSE], c, FALSE, FALSE, FALSE, 0)
         /\ Changed([conn EXCEPT ![c].dc = TRUE], c, r.open, r.logged, TRUE, r.seq)
         /\ \A b \in BOOLEAN :
              /\ Changed([conn EXCEPT ![c].open = b], c, b, r.logged, r.dc, r.seq)
              /\ Changed([conn EXCEPT ![c].test = b], c, r.open, r.logged, r.dc, r.seq)
         /\ Changed(conn, c, r.open, r.logged, r.dc, r.seq)
<1> USE DEF ConnTypes, Conn, Changed
<1>1. conn[c] \in Conn
  OBVIOUS
<1>2. Changed(Next1(c), c, conn[c].open, conn[c].logged, conn[c].dc, conn[c].seq + 1)
  BY DEF Next1
<1>3. \A num \in Nat :
        /\ Changed(LoggedIn(c, num), c, conn[c].open, TRUE, conn[c].dc, num + 1)
        /\ Changed([conn EXCEPT ![c].seq = num + 1], c, conn[c].open, conn[c].logged, conn[c].dc, num + 1)
  <2> SUFFICES ASSUME NEW num \in Nat
      PROVE  /\ Changed(LoggedIn(c, num), c, conn[c].open, TRUE, conn[c].dc, num + 1)
             /\ Changed([conn EXCEPT ![c].seq = num + 1], c, conn[c].open, conn[c].logged,
                        conn[c].dc, num + 1)
    OBVIOUS
  <2>1. PICK n \in Nat : n = num + 1
    OBVIOUS
  <2>2. Changed([conn EXCEPT ![c].logged = TRUE, ![c].seq = n], c, conn[c].open, TRUE,
                conn[c].dc, n)
    OBVIOUS
  <2>3. Changed([conn EXCEPT ![c].seq = n], c, conn[c].open, conn[c].logged, conn[c].dc, n)
    OBVIOUS
  <2>4. LoggedIn(c, num) = [conn EXCEPT ![c].logged = TRUE, ![c].seq = n]
    BY <2>1 DEF LoggedIn
  <2> HIDE DEF Changed
  <2>. QED BY <2>1, <2>2, <2>3, <2>4
<1>4. Changed(Disconnected(c), c, conn[c].open, FALSE, FALSE, 0)
  BY DEF Disconnected
<1>5. Changed([Disconnected(c) EXCEPT ![c].open = FALSE], c, FALSE, FALSE, FALSE, 0)
  BY DEF Disconnected
<1>6. Changed([conn EXCEPT ![c].dc = TRUE], c, conn[c].open, conn[c].logged, TRUE, conn[c].seq)
  OBVIOUS
<1>7. \A b \in BOOLEAN :
        /\ Changed([conn EXCEPT ![c].open = b], c, b, conn[c].logged, conn[c].dc, conn[c].seq)
        /\ Changed([conn EXCEPT ![c].test = b], c, conn[c].open, conn[c].logged, conn[c].dc, conn[c].seq)
  OBVIOUS
<1>8. Changed(conn, c, conn[c].open, conn[c].logged, conn[c].dc, conn[c].seq)
  OBVIOUS
<1>. QED BY <1>1, <1>2, <1>3, <1>4, <1>5, <1>6, <1>7, <1>8

\* The queue of a unit.
LEMMA UnitTyped ==
  ASSUME QueueTypes, NEW u \in Units
  PROVE  /\ queue[u] \in Seq(Jobs)
         /\ queue[u] # <<>> => /\ Head(queue[u]) \in Jobs /\ Head(queue[u]).from \in Clients
                               /\ Head(queue[u]).msg \in Message
                               /\ Tail(queue[u]) \in Seq(Jobs)
<1>1. queue[u] \in Seq(Jobs)
  BY DEF QueueTypes
<1>2. ASSUME queue[u] # <<>> PROVE Head(queue[u]) \in Jobs /\ Tail(queue[u]) \in Seq(Jobs)
  BY <1>1, <1>2, HeadTaken
<1>. QED BY <1>1, <1>2 DEF Jobs

\* What is made of the queues.
Queues(X, u, q) == /\ X \in [Units -> Seq(Jobs)] /\ X[u] = q
                   /\ \A v \in Units : v # u => X[v] = queue[v]

\* A unit takes a message, and may hand it on.
LEMMA QueueSteps ==
  ASSUME QueueTypes, NEW u \in Units, queue[u] # <<>>
  PROVE  /\ Pop(u) => Queues(queue', u, Tail(queue[u]))
         /\ \A v \in Units \ {u} :
              Forward(u, v) => /\ queue' \in [Units -> Seq(Jobs)]
                               /\ queue'[u] = Tail(queue[u])
                               /\ queue'[v] = Append(queue[v], Head(queue[u]))
                               /\ \A x \in Units : x # u /\ x # v => queue'[x] = queue[x]
<1>1. /\ queue \in [Units -> Seq(Jobs)] /\ Head(queue[u]) \in Jobs
      /\ Tail(queue[u]) \in Seq(Jobs)
  BY UnitTyped DEF QueueTypes
<1>2. ASSUME NEW v \in Units \ {u}, Forward(u, v)
      PROVE  /\ queue' \in [Units -> Seq(Jobs)]
             /\ queue'[u] = Tail(queue[u])
             /\ queue'[v] = Append(queue[v], Head(queue[u]))
             /\ \A x \in Units : x # u /\ x # v => queue'[x] = queue[x]
  <2>1. Append(queue[v], Head(queue[u])) \in Seq(Jobs)
    BY <1>1, Appended
  <2>2. PICK q \in Seq(Jobs) : q = Append(queue[v], Head(queue[u]))
    BY <2>1
  <2>3. PICK t \in Seq(Jobs) : t = Tail(queue[u])
    BY <1>1
  <2>4. queue' = [queue EXCEPT ![u] = t, ![v] = q]
    BY <1>1, <1>2, <2>2, <2>3 DEF Forward
  <2>. QED BY <1>1, <2>2, <2>3, <2>4
<1>3. Pop(u) => Queues(queue', u, Tail(queue[u]))
  BY <1>1 DEF Pop, Queues
<1>. QED BY <1>2, <1>3

\* An answer joins the output, or leaves it.
LEMMA OutSteps ==
  ASSUME QueueTypes
  PROVE  /\ out \in Seq(Answering)
         /\ out # <<>> => /\ Head(out) \in Answering /\ Head(out).to \in Clients
                          /\ Head(out).kind \in Answers /\ Tail(out) \in Seq(Answering)
         /\ \A c \in Clients, kind \in Answers : Answer(c, kind) => out' \in Seq(Answering)
<1>1. out \in Seq(Answering)
  BY DEF QueueTypes, Answering
<1>2. ASSUME out # <<>> PROVE Head(out) \in Answering /\ Tail(out) \in Seq(Answering)
  BY <1>1, <1>2, HeadTaken
<1>3. ASSUME NEW c \in Clients, NEW kind \in Answers, Answer(c, kind) PROVE out' \in Seq(Answering)
  <2>1. [to |-> c, kind |-> kind] \in Answering
    BY DEF Answering
  <2>. QED BY <1>1, <1>3, <2>1, Appended DEF Answer
<1>. QED BY <1>1, <1>2, <1>3 DEF Answering

\* A client is removed.
LEMMA RemoveSteps ==
  ASSUME SessionTypes, NEW c \in Clients, RemoveClient(c)
  PROVE  /\ Changed(conn', c, conn[c].open, FALSE, FALSE, 0)
         /\ removing' \in Seq(Clients) /\ ToSet(removing') = ToSet(removing) \cup {c}
<1>1. ConnTypes /\ removing \in Seq(Clients)
  BY DEF SessionTypes, StoreTypes
<1>2. conn' = Disconnected(c) /\ removing' = Append(removing, c)
  BY DEF RemoveClient
<1>3. Changed(Disconnected(c), c, conn[c].open, FALSE, FALSE, 0)
  BY <1>1, ConnSteps
<1>. QED BY <1>1, <1>2, <1>3, Appended

\* A changed record has its type.
LEMMA ConnTyped ==
  /\ \A c, open, logged, dc, seq : Changed(conn', c, open, logged, dc, seq) => ConnTypes'
  /\ ConnTypes => \A c \in Clients :
       /\ \A num \in Nat : conn' = LoggedIn(c, num) => ConnTypes'
       /\ conn' = [conn EXCEPT ![c].dc = TRUE] => ConnTypes'
       /\ \A b \in BOOLEAN : conn' = [conn EXCEPT ![c].test = b] => ConnTypes'
<1>1. ASSUME NEW c, NEW open, NEW logged, NEW dc, NEW seq, Changed(conn', c, open, logged, dc, seq)
      PROVE  ConnTypes'
  BY <1>1 DEF Changed, Conn, ConnTypes
<1>2. ASSUME ConnTypes, NEW c \in Clients
      PROVE  /\ \A num \in Nat : conn' = LoggedIn(c, num) => ConnTypes'
             /\ conn' = [conn EXCEPT ![c].dc = TRUE] => ConnTypes'
             /\ \A b \in BOOLEAN : conn' = [conn EXCEPT ![c].test = b] => ConnTypes'
  <2>1. ASSUME NEW num \in Nat, conn' = LoggedIn(c, num) PROVE ConnTypes'
    <3>1. Changed(LoggedIn(c, num), c, conn[c].open, TRUE, conn[c].dc, num + 1)
      BY <1>2, ConnSteps
    <3>. QED BY <1>1, <2>1, <3>1
  <2>2. ASSUME conn' = [conn EXCEPT ![c].dc = TRUE] PROVE ConnTypes'
    <3>1. Changed([conn EXCEPT ![c].dc = TRUE], c, conn[c].open, conn[c].logged, TRUE, conn[c].seq)
      BY <1>2, ConnSteps
    <3>. QED BY <1>1, <2>2, <3>1
  <2>3. ASSUME NEW b \in BOOLEAN, conn' = [conn EXCEPT ![c].test = b] PROVE ConnTypes'
    <3>1. Changed([conn EXCEPT ![c].test = b], c, conn[c].open, conn[c].logged, conn[c].dc,
                  conn[c].seq)
      BY <1>2, ConnSteps
    <3>. QED BY <1>1, <2>3, <3>1
  <2>. QED BY <2>1, <2>2, <2>3
<1>. QED BY <1>1, <1>2

\* The types hold at the start.
LEMMA TypesStart == Init => SessionTypes
<1> SUFFICES ASSUME Init PROVE SessionTypes
  OBVIOUS
<1>1. ConnTypes
  BY DEF Init, ConnTypes
<1>2. StoreTypes
  BY DEF Init, StoreTypes
<1>3. QueueTypes
  BY DEF Init, QueueTypes, Free
<1>4. PeerTypes
  BY BoundsAssumption DEF Init, PeerTypes, Off
<1>5. Rest
  <2>1. 0 \in 0..MaxEvents
    BY BoundsAssumption
  <2>. QED BY <2>1 DEF Init, Rest
<1>6. WorkInv
  BY DEF Init, WorkInv, Free
<1>7. OnceInv
  BY Contents DEF Init, OnceInv, Distinct, ToSet
<1>. QED BY <1>1, <1>2, <1>3, <1>4, <1>5, <1>6, <1>7 DEF SessionTypes

\* An element joins a queue that does not hold it.
LEMMA AppendedOnce ==
  ASSUME NEW S, NEW q \in Seq(S), NEW x \in S, x \notin ToSet(q), Distinct(q)
  PROVE  Distinct(Append(q, x))
<1>1. /\ Len(q) \in Nat /\ DOMAIN q = 1..Len(q) /\ DOMAIN Append(q, x) = 1..(Len(q) + 1)
      /\ \A k \in 1..Len(q) : Append(q, x)[k] = q[k]
      /\ Append(q, x)[Len(q) + 1] = x
  BY AppendProperties, Contents
<1>2. \A k \in 1..Len(q) : q[k] # x
  BY <1>1 DEF ToSet
<1>3. \A k \in 1..(Len(q) + 1) : k \in 1..Len(q) \/ k = Len(q) + 1
  BY <1>1
<1>4. \A j, k \in 1..Len(q) : q[j] = q[k] => j = k
  BY <1>1 DEF Distinct
<1>. QED BY <1>1, <1>2, <1>3, <1>4 DEF Distinct

\* The list stays as it is.
LEMMA OnceKept ==
  ASSUME OnceInv, UNCHANGED store, \A c \in Clients : peer'[c].state = "off" => peer[c].state = "off"
  PROVE  OnceInv'
BY DEF OnceInv, Distinct, ToSet

\* TCPInput keeps the types.
LEMMA TypesInput == SessionTypes /\ Input => SessionTypes'
<1> SUFFICES ASSUME SessionTypes, Input PROVE SessionTypes'
  OBVIOUS
<1>0. ConnTypes /\ StoreTypes /\ QueueTypes /\ PeerTypes /\ Rest /\ WorkInv /\ OnceInv
  BY DEF SessionTypes
<1>r. ready # None => ready \in Clients
  BY <1>0 DEF Rest
<1>1. ASSUME NEW c \in Clients, Accept(c) PROVE SessionTypes'
  <2>1. ConnTypes'
    BY <1>0, <1>1, ConnSteps, ConnTyped DEF Accept
  <2>2. Append(store, c) \in Seq(Clients)
    BY <1>0, Appended DEF StoreTypes
  <2>3. StoreTypes'
    BY <1>0, <1>1, <2>2 DEF StoreTypes, Accept
  <2>4. QueueTypes' /\ WorkInv' /\ Rest'
    BY <1>0, <1>1 DEF QueueTypes, WorkInv, Rest, Accept, historyVars
  <2>5. PeerTypes'
    <3>1. peer' \in [Clients -> PeerRecord]
      BY <1>0, <1>1 DEF PeerTypes, PeerRecord, Accept
    <3>. QED BY <1>0, <1>1, <3>1 DEF PeerTypes, PeerRecord, Accept
  <2>6. OnceInv'
    <3>1. peer[c].state = "off" /\ store' = Append(store, c) /\ store \in Seq(Clients)
          /\ peer' = [peer EXCEPT ![c].state = "on"]
      BY <1>0, <1>1 DEF Accept, StoreTypes
    <3>2. c \notin ToSet(store) /\ Distinct(store)
      BY <1>0, <3>1 DEF OnceInv
    <3>3. Distinct(Append(store, c)) /\ ToSet(Append(store, c)) = ToSet(store) \cup {c}
      BY <3>1, <3>2, AppendedOnce, Appended
    <3>4. \A d \in Clients : peer'[d].state = "off" => d # c /\ peer[d].state = "off"
      BY <1>0, <3>1 DEF PeerTypes
    <3>5. Distinct(store') /\ ToSet(store') = ToSet(store) \cup {c}
      BY <3>1, <3>3
    <3>. QED BY <1>0, <3>4, <3>5 DEF OnceInv
  <2>. QED BY <2>1, <2>3, <2>4, <2>5, <2>6 DEF SessionTypes
<1>2. ASSUME NEW c \in Clients, Pull(c) PROVE SessionTypes'
  <2>1. ConnTypes' /\ StoreTypes' /\ QueueTypes' /\ PeerTypes' /\ WorkInv'
    BY <1>0, <1>2 DEF ConnTypes, StoreTypes, QueueTypes, PeerTypes, WorkInv, Pull, peerVars
  <2>2. Rest'
    <3>1. edge' \in [Clients -> BOOLEAN] /\ UNCHANGED <<filled, strayed, gone, doubled>>
      BY <1>0, <1>2 DEF Rest, Pull, historyVars
    <3>2. Entry(c) \in Clients \cup {None}
      BY <1>0 DEF StoreTypes, Entry
    <3>3. ready' \in Clients \cup {None} /\ up' \in BOOLEAN
      BY <1>0, <1>2, <3>2 DEF Rest, Pull
    <3>. QED BY <1>0, <3>1, <3>3 DEF Rest
  <2>3. OnceInv'
    BY <1>0, <1>2, OnceKept DEF Pull, peerVars
  <2>. QED BY <2>1, <2>2, <2>3 DEF SessionTypes
<1>3. ASSUME ReadUnknown PROVE SessionTypes'
  <2>1. ready \in Clients
    BY <1>r, <1>3 DEF ReadUnknown
  <2>2. ConnTypes'
    BY <1>0, <1>3, <2>1, ConnSteps, ConnTyped DEF ReadUnknown
  <2>3. StoreTypes'
    BY <1>0, <1>3 DEF StoreTypes, ReadUnknown
  <2>4. QueueTypes' /\ PeerTypes' /\ WorkInv' /\ Rest'
    BY <1>0, <1>3 DEF QueueTypes, PeerTypes, WorkInv, Rest, ReadUnknown, historyVars, peerVars
  <2>5. OnceInv'
    BY <1>0, <1>3, OnceKept DEF ReadUnknown, peerVars
  <2>. QED BY <2>2, <2>3, <2>4, <2>5 DEF SessionTypes
<1>4. ASSUME ReadEnd PROVE SessionTypes'
  <2>1. ready \in Clients /\ RemoveClient(ready)
    BY <1>r, <1>4 DEF ReadEnd
  <2>2. ConnTypes' /\ removing' \in Seq(Clients)
    BY <2>1, RemoveSteps, ConnTyped
  <2>3. StoreTypes'
    BY <1>0, <1>4, <2>2 DEF StoreTypes, ReadEnd
  <2>4. QueueTypes' /\ PeerTypes' /\ WorkInv' /\ Rest'
    BY <1>0, <1>4 DEF QueueTypes, PeerTypes, WorkInv, Rest, ReadEnd, historyVars, peerVars
  <2>5. OnceInv'
    BY <1>0, <1>4, OnceKept DEF ReadEnd, peerVars
  <2>. QED BY <2>2, <2>3, <2>4, <2>5 DEF SessionTypes
<1>5. ASSUME ReadData PROVE SessionTypes'
  <2>1. ready \in Clients
    BY <1>r, <1>5 DEF ReadData
  <2>2. ConnTypes'
    BY <1>0, <1>5, <2>1, ConnSteps, ConnTyped DEF ReadData
  <2>3. StoreTypes' /\ WorkInv' /\ Rest'
    BY <1>0, <1>5, <2>1 DEF StoreTypes, WorkInv, Rest, ReadData
  <2>4. PeerTypes'
    <3>1. /\ toServer' = [toServer EXCEPT ![ready] = <<>>] /\ UNCHANGED <<peer, toClient>>
      BY <1>5 DEF ReadData
    <3>0. <<>> \in Seq(Message) /\ toServer \in [Clients -> Seq(Message)]
      BY <1>0 DEF PeerTypes
    <3>2. toServer' \in [Clients -> Seq(Message)]
      BY <3>0, <3>1
    <3>. QED BY <1>0, <3>1, <3>2 DEF PeerTypes
  <2>5. QueueTypes'
    <3>1. CASE UNCHANGED queue /\ Answer(ready, "Reject")
      <4>1. out' \in Seq(Answering)
        BY <1>0, <2>1, <3>1, OutSteps DEF Answers
      <4>. QED BY <1>0, <1>5, <3>1, <4>1 DEF QueueTypes, ReadData, Answering
    <3>2. CASE ~(UNCHANGED queue /\ Answer(ready, "Reject"))
      <4> DEFINE data == toServer[ready]
                 job == [from |-> ready, msg |-> data[1]]
      <4>1. Len(data) = 1 /\ data # <<>> /\ UNCHANGED out
            /\ queue' = [queue EXCEPT !["header"] = Append(@, job)]
        BY <1>5, <3>2 DEF ReadData
      <4>2. data \in Seq(Message)
        BY <1>0, <2>1 DEF PeerTypes
      <4>3. data[1] \in Message
        BY <4>1, <4>2, HeadTaken
      <4>4. job \in Jobs
        BY <2>1, <4>3 DEF Jobs
      <4>5. queue["header"] \in Seq(Jobs)
        BY <1>0 DEF QueueTypes, Units
      <4>6. Append(queue["header"], job) \in Seq(Jobs)
        BY <4>4, <4>5, Appended
      <4> HIDE DEF job, data
      <4>7. queue' \in [Units -> Seq(Jobs)]
        BY <1>0, <4>1, <4>6 DEF QueueTypes
      <4>. QED BY <1>0, <1>5, <4>1, <4>7 DEF QueueTypes, ReadData
    <3>. QED BY <3>1, <3>2
  <2>6. OnceInv'
    BY <1>0, <1>5, OnceKept DEF ReadData
  <2>. QED BY <2>2, <2>3, <2>4, <2>5, <2>6 DEF SessionTypes
<1>. QED BY <1>1, <1>2, <1>3, <1>4, <1>5 DEF Input

\* What a handler leaves: its record, queues and the output change.
LEMMA Handled ==
  ASSUME SessionTypes, ConnTypes', queue' \in [Units -> Seq(Jobs)], out' \in Seq(Answering),
         UNCHANGED <<store, selector, reuses, edge, ready, worker, removing, closing, up, peerVars,
                     historyVars>>
  PROVE  SessionTypes'
<1>1. StoreTypes' /\ PeerTypes' /\ Rest' /\ WorkInv'
  BY DEF SessionTypes, StoreTypes, PeerTypes, Rest, WorkInv, peerVars, historyVars
<1>2. QueueTypes'
  BY DEF SessionTypes, QueueTypes, Answering
<1>3. OnceInv'
  BY OnceKept DEF SessionTypes, peerVars
<1>. QED BY <1>1, <1>2, <1>3 DEF SessionTypes

\* The units keep the types.
LEMMA TypesHandlers == SessionTypes /\ Handlers => SessionTypes'
<1> SUFFICES ASSUME SessionTypes, Handlers PROVE SessionTypes'
  OBVIOUS
<1>0. ConnTypes /\ QueueTypes
  BY DEF SessionTypes
<1>u. {"header", "router", "logon", "logout", "heartbeat", "market"} = Units
  BY DEF Units
<1>a. {"Logon", "Logout", "HeartBeat", "Report", "Reject", "TestRequest"} \subseteq Answers
  BY DEF Answers
<1>c. UNCHANGED conn => ConnTypes'
  BY <1>0 DEF ConnTypes
<1>o. /\ UNCHANGED out => out' \in Seq(Answering)
      /\ \A c \in Clients, kind \in Answers : Answer(c, kind) => out' \in Seq(Answering)
  BY <1>0, OutSteps
<1>q. ASSUME NEW u \in Units, queue[u] # <<>>
      PROVE  /\ Head(queue[u]).from \in Clients
             /\ Pop(u) => queue' \in [Units -> Seq(Jobs)]
             /\ \A v \in Units \ {u} : Forward(u, v) => queue' \in [Units -> Seq(Jobs)]
  BY <1>0, <1>q, UnitTyped, QueueSteps DEF Queues
<1>1. ASSUME ValidateHeader PROVE SessionTypes'
  <2>1. queue["header"] # <<>>
    BY <1>1 DEF ValidateHeader
  <2>2. queue' \in [Units -> Seq(Jobs)] /\ out' \in Seq(Answering)
    BY <1>u, <1>a, <1>o, <1>q, <1>1, <2>1 DEF ValidateHeader
  <2>. QED BY <1>c, <1>1, <2>2, Handled DEF ValidateHeader
<1>2. ASSUME Route PROVE SessionTypes'
  <2> DEFINE c == Head(queue["router"]).from
             kind == Head(queue["router"]).msg.kind
  <2>1. queue["router"] # <<>>
    BY <1>2 DEF Route
  <2>2. kind \in DOMAIN Handler => Handler[kind] \in Units \ {"router"}
    BY DEF Handler, Units
  <2>3. c \in Clients
    BY <1>q, <1>u, <2>1
  <2>4. \/ \E v \in Units \ {"router"} : Forward("router", v) /\ UNCHANGED out
        \/ Pop("router") /\ UNCHANGED out
        \/ Pop("router") /\ Answer(c, "Reject")
    BY <1>2, <2>2 DEF Route
  <2>5. queue' \in [Units -> Seq(Jobs)] /\ out' \in Seq(Answering)
    BY <1>u, <1>a, <1>o, <1>q, <2>1, <2>3, <2>4
  <2>. QED BY <1>c, <1>2, <2>5, Handled DEF Route
<1>3. ASSUME Logon PROVE SessionTypes'
  <2> DEFINE c == Head(queue["logon"]).from
             num == Head(queue["logon"]).msg.num
  <2>1. queue["logon"] # <<>> /\ Pop("logon")
        /\ \/ Answer(c, "Reject") /\ UNCHANGED conn
           \/ Answer(c, "Logon") /\ conn' = LoggedIn(c, num)
    BY <1>3 DEF Logon
  <2>2. c \in Clients /\ num \in Nat
    BY <1>0, <1>u, <2>1, UnitTyped DEF Message
  <2>3. queue' \in [Units -> Seq(Jobs)] /\ out' \in Seq(Answering)
    BY <1>u, <1>a, <1>o, <1>q, <2>1, <2>2
  <2>4. ConnTypes'
    BY <1>0, <1>c, <2>1, <2>2, ConnTyped
  <2>. QED BY <1>3, <2>3, <2>4, Handled DEF Logon
<1>4. ASSUME Logout PROVE SessionTypes'
  <2> DEFINE c == Head(queue["logout"]).from
  <2>1. queue["logout"] # <<>> /\ Pop("logout")
        /\ \/ Answer(c, "Reject") /\ UNCHANGED conn
           \/ Answer(c, "Logout") /\ conn' = [conn EXCEPT ![c].dc = TRUE]
    BY <1>4 DEF Logout
  <2>2. c \in Clients
    BY <1>q, <1>u, <2>1
  <2>3. queue' \in [Units -> Seq(Jobs)] /\ out' \in Seq(Answering)
    BY <1>u, <1>a, <1>o, <1>q, <2>1, <2>2
  <2>4. ConnTypes'
    BY <1>0, <1>c, <2>1, <2>2, ConnTyped
  <2>. QED BY <1>4, <2>3, <2>4, Handled DEF Logout
<1>5. ASSUME HeartBeat PROVE SessionTypes'
  <2> DEFINE c == Head(queue["heartbeat"]).from
  <2>1. queue["heartbeat"] # <<>> /\ Pop("heartbeat")
        /\ (Answer(c, "Reject") \/ Answer(c, "HeartBeat"))
        /\ (UNCHANGED conn \/ conn' = [conn EXCEPT ![c].test = FALSE])
    BY <1>5 DEF HeartBeat
  <2>2. c \in Clients
    BY <1>q, <1>u, <2>1
  <2>3. queue' \in [Units -> Seq(Jobs)] /\ out' \in Seq(Answering)
    BY <1>u, <1>a, <1>o, <1>q, <2>1, <2>2
  <2>4. ConnTypes'
    BY <1>0, <1>c, <2>1, <2>2, ConnTyped
  <2>. QED BY <1>5, <2>3, <2>4, Handled DEF HeartBeat
<1>6. ASSUME MarketAnswers PROVE SessionTypes'
  <2> DEFINE c == Head(queue["market"]).from
  <2>1. queue["market"] # <<>> /\ Pop("market") /\ Answer(c, "Report")
    BY <1>6 DEF MarketAnswers
  <2>2. c \in Clients
    BY <1>q, <1>u, <2>1
  <2>3. queue' \in [Units -> Seq(Jobs)] /\ out' \in Seq(Answering)
    BY <1>u, <1>a, <1>o, <1>q, <2>1, <2>2
  <2>. QED BY <1>c, <1>6, <2>3, Handled DEF MarketAnswers
<1>. QED BY <1>1, <1>2, <1>3, <1>4, <1>5, <1>6 DEF Handlers

\* What a thread of the pool may have in hand.
Work == [pc : {"idle", "count", "send", "check"}, to : Clients \cup {None},
         kind : Answers \cup {"none"}, num : Nat]

\* What is made of the record of a thread.
Worked(X, w, r) == /\ X \in [Workers -> Work] /\ X[w] = r
                   /\ \A v \in Workers : v # w => X[v] = worker[v]

\* The record of a thread moves on, or is given back.
LEMMA WorkSteps ==
  ASSUME SessionTypes, NEW w \in Workers
  PROVE  /\ worker[w] \in Work
         /\ \A pc \in {"idle", "count", "send", "check"} :
              At(w, pc) => /\ Worked(worker', w, [worker[w] EXCEPT !.pc = pc])
                           /\ pc = "idle" \/ worker[w].pc # "idle" => WorkInv'
         /\ worker' = [worker EXCEPT ![w] = Free] => Worked(worker', w, Free) /\ WorkInv'
<1>1. worker \in [Workers -> Work]
  BY DEF SessionTypes, QueueTypes, Work
<1>2. WorkInv
  BY DEF SessionTypes
<1>3. ASSUME NEW pc \in {"idle", "count", "send", "check"}, At(w, pc)
      PROVE  /\ Worked(worker', w, [worker[w] EXCEPT !.pc = pc])
             /\ pc = "idle" \/ worker[w].pc # "idle" => WorkInv'
  <2>1. Worked(worker', w, [worker[w] EXCEPT !.pc = pc])
    BY <1>1, <1>3 DEF At, Worked, Work
  <2>2. pc = "idle" \/ worker[w].pc # "idle" => WorkInv'
    BY <1>1, <1>2, <2>1 DEF Worked, Work, WorkInv
  <2>. QED BY <2>1, <2>2
<1>4. ASSUME worker' = [worker EXCEPT ![w] = Free] PROVE Worked(worker', w, Free) /\ WorkInv'
  <2>1. Free \in Work
    BY DEF Free, Work
  <2>2. Worked(worker', w, Free)
    BY <1>1, <1>4, <2>1 DEF Worked
  <2>3. WorkInv'
    BY <1>2, <2>2 DEF Worked, WorkInv, Free
  <2>. QED BY <2>2, <2>3
<1>. QED BY <1>1, <1>3, <1>4

\* The answer in hand stays the same.
LEMMA WorkedKeeps ==
  ASSUME SessionTypes, NEW w \in Workers, worker[w].pc # "idle",
         \/ Worked(worker', w, Free)
         \/ \E pc \in {"count", "send", "check"} :
              Worked(worker', w, [worker[w] EXCEPT !.pc = pc])
  PROVE  \A v \in Workers : worker'[v].pc # "idle" =>
           worker[v].pc # "idle" /\ worker'[v].to = worker[v].to /\ worker'[v].kind = worker[v].kind
<1>1. worker[w] \in Work
  BY WorkSteps
<1>2. CASE Worked(worker', w, Free)
  BY <1>2 DEF Worked, Free
<1>3. ASSUME NEW pc \in {"count", "send", "check"}, Worked(worker', w, [worker[w] EXCEPT !.pc = pc])
      PROVE  \A v \in Workers : worker'[v].pc # "idle" =>
               worker[v].pc # "idle" /\ worker'[v].to = worker[v].to /\ worker'[v].kind = worker[v].kind
  <2>1. [worker[w] EXCEPT !.pc = pc].to = worker[w].to
        /\ [worker[w] EXCEPT !.pc = pc].kind = worker[w].kind
    BY <1>1 DEF Work
  <2>2. worker'[w].to = worker[w].to /\ worker'[w].kind = worker[w].kind
        /\ \A v \in Workers : v # w => worker'[v] = worker[v]
    BY <1>3, <2>1 DEF Worked
  <2>. QED BY <2>2
<1>. QED BY <1>2, <1>3

\* TCPOutput takes an answer.
LEMMA SendNumberSteps ==
  ASSUME SessionTypes, NEW w \in Workers, SendNumber(w)
  PROVE  LET c == Head(out).to
             seq == IF conn[c].logged THEN conn[c].seq ELSE conn[c].seq + 1
         IN /\ c \in Clients /\ worker[w].pc = "idle" /\ out # <<>> /\ out' = Tail(out)
            /\ out' \in Seq(Answering)
            /\ Changed(conn', c, conn[c].open, conn[c].logged, conn[c].dc, seq)
            /\ Worked(worker', w, [pc |-> "count", to |-> c, kind |-> Head(out).kind, num |-> seq])
            /\ WorkInv'
<1> DEFINE c == Head(out).to
           kind == Head(out).kind
           seq == IF conn[c].logged THEN conn[c].seq ELSE conn[c].seq + 1
           counted == IF conn[c].logged THEN conn ELSE Next1(c)
           r == [pc |-> "count", to |-> c, kind |-> kind, num |-> seq]
<1>0. ConnTypes /\ QueueTypes /\ WorkInv /\ worker \in [Workers -> Work]
  BY DEF SessionTypes, QueueTypes, Work
<1>1. out # <<>> /\ out' = Tail(out) /\ worker[w].pc = "idle" /\ conn' = counted
      /\ worker' = [worker EXCEPT ![w] = [pc |-> "count", to |-> c, kind |-> kind,
                                          num |-> counted[c].seq]]
  BY DEF SendNumber
<1>2. c \in Clients /\ kind \in Answers /\ out' \in Seq(Answering)
  BY <1>0, <1>1, OutSteps
<1> HIDE DEF c, kind
<1>3. Changed(counted, c, conn[c].open, conn[c].logged, conn[c].dc, seq)
  <2>1. CASE conn[c].logged
    <3>1. Changed(conn, c, conn[c].open, conn[c].logged, conn[c].dc, conn[c].seq)
      BY <1>0, <1>2, ConnSteps
    <3>. QED BY <2>1, <3>1
  <2>2. CASE ~conn[c].logged
    <3>1. Changed(Next1(c), c, conn[c].open, conn[c].logged, conn[c].dc, conn[c].seq + 1)
      BY <1>0, <1>2, ConnSteps
    <3>. QED BY <2>2, <3>1
  <2>. QED BY <2>1, <2>2
<1>4. counted[c].seq = seq /\ seq \in Nat
  <2>1. counted[c].seq = seq
    BY <1>3 DEF Changed
  <2>2. conn[c].seq \in Nat
    BY <1>0, <1>2 DEF ConnTypes
  <2>. QED BY <2>1, <2>2
<1> HIDE DEF seq, counted
<1>5. worker' = [worker EXCEPT ![w] = r] /\ r \in Work
  BY <1>1, <1>2, <1>4 DEF Work
<1>6. Worked(worker', w, r)
  BY <1>0, <1>5 DEF Worked
<1>7. WorkInv'
  BY <1>0, <1>2, <1>6 DEF Worked, WorkInv
<1>. QED BY <1>1, <1>2, <1>3, <1>6, <1>7 DEF c, kind, seq

\* It counts it.
LEMMA SendCountSteps ==
  ASSUME SessionTypes, NEW w \in Workers, SendCount(w)
  PROVE  LET c == worker[w].to
             num == worker[w].num
         IN /\ worker[w].pc = "count" /\ c \in Clients
            /\ \E seq \in {conn[c].seq, num} :
                 Changed(conn', c, conn[c].open, conn[c].logged, conn[c].dc, seq + 1)
            /\ strayed' = IF conn[c].seq # num THEN strayed \cup {c} ELSE strayed
            /\ Worked(worker', w, [worker[w] EXCEPT !.pc = "send"]) /\ WorkInv'
<1> DEFINE c == worker[w].to
           num == worker[w].num
<1>0. ConnTypes /\ WorkInv
  BY DEF SessionTypes
<1>1. worker[w].pc = "count" /\ At(w, "send")
      /\ strayed' = IF conn[c].seq # num THEN strayed \cup {c} ELSE strayed
  BY DEF SendCount
<1>2. PICK seq \in {conn[c].seq, num} : conn' = [conn EXCEPT ![c].seq = seq + 1]
  BY DEF SendCount
<1>3. c \in Clients /\ worker[w] \in Work
  BY <1>0, <1>1, WorkSteps DEF WorkInv
<1>4. seq \in Nat
  BY <1>0, <1>2, <1>3 DEF Work, ConnTypes
<1>5. Changed([conn EXCEPT ![c].seq = seq + 1], c, conn[c].open, conn[c].logged, conn[c].dc,
              seq + 1)
  BY <1>0, <1>3, <1>4, ConnSteps
<1>6. Worked(worker', w, [worker[w] EXCEPT !.pc = "send"]) /\ WorkInv'
  BY <1>1, WorkSteps
<1> HIDE DEF c, num
<1>. QED BY <1>1, <1>2, <1>3, <1>5, <1>6 DEF c, num

\* It sends it.
LEMMA SendSteps ==
  ASSUME SessionTypes, NEW w \in Workers, Send(w)
  PROVE  LET c == worker[w].to
             sent == [kind |-> worker[w].kind, num |-> worker[w].num]
         IN /\ worker[w].pc = "send" /\ c \in Clients /\ conn[c].open /\ sent \in Sent
            /\ \/ UNCHANGED <<conn, removing, up>>
               \/ RemoveClient(c) /\ peer[c].state = "closed" /\ UNCHANGED up
               \/ up' = FALSE /\ UNCHANGED <<conn, removing>>
            /\ IF peer[c].state = "closed" THEN toClient' = toClient
               ELSE toClient' = [toClient EXCEPT ![c] = Append(@, sent)]
            /\ toClient' \in [Clients -> Seq(Sent)]
            /\ Worked(worker', w, [worker[w] EXCEPT !.pc = "check"]) /\ WorkInv'
<1> DEFINE c == worker[w].to
           sent == [kind |-> worker[w].kind, num |-> worker[w].num]
<1>0. PeerTypes /\ WorkInv
  BY DEF SessionTypes
<1>1. /\ worker[w].pc = "send" /\ At(w, "check") /\ conn[c].open
      /\ \/ /\ toClient' = IF peer[c].state = "closed" THEN toClient
                           ELSE [toClient EXCEPT ![c] = Append(@, sent)]
            /\ UNCHANGED <<conn, removing, up>>
         \/ /\ peer[c].state = "closed"
            /\ \/ RemoveClient(c) /\ UNCHANGED up
               \/ up' = FALSE /\ UNCHANGED <<conn, removing>>
            /\ UNCHANGED toClient
  BY DEF Send
<1>2. c \in Clients /\ worker[w].kind \in Answers /\ worker[w] \in Work
  BY <1>0, <1>1, WorkSteps DEF WorkInv
<1>3. sent \in Sent
  BY <1>2 DEF Sent, Work
<1>4. Worked(worker', w, [worker[w] EXCEPT !.pc = "check"]) /\ WorkInv'
  BY <1>1, WorkSteps
<1>5. toClient \in [Clients -> Seq(Sent)]
  BY <1>0 DEF PeerTypes, Sent
<1>6. Append(toClient[c], sent) \in Seq(Sent)
  BY <1>2, <1>3, <1>5, Appended
<1> HIDE DEF c, sent
<1>7. IF peer[c].state = "closed" THEN toClient' = toClient
      ELSE toClient' = [toClient EXCEPT ![c] = Append(@, sent)]
  BY <1>1
<1>8. toClient' \in [Clients -> Seq(Sent)]
  BY <1>5, <1>6, <1>7
<1>. QED BY <1>1, <1>2, <1>3, <1>4, <1>7, <1>8 DEF c, sent

\* It finds the socket closed, or is done with it.
LEMMA SendDoneSteps ==
  ASSUME SessionTypes, NEW w \in Workers, SendClosed(w) \/ SendCheck(w)
  PROVE  LET c == worker[w].to
         IN /\ c \in Clients
            /\ \/ /\ SendClosed(w) /\ worker[w].pc = "send" /\ ~conn[c].open
                  /\ Changed(conn', c, FALSE, FALSE, FALSE, 0)
                  /\ removing' \in Seq(Clients) /\ ToSet(removing') = ToSet(removing) \cup {c}
               \/ /\ SendCheck(w) /\ worker[w].pc = "check" /\ conn[c].dc
                  /\ Changed(conn', c, FALSE, FALSE, FALSE, 0)
                  /\ removing' \in Seq(Clients) /\ ToSet(removing') = ToSet(removing) \cup {c}
               \/ /\ SendCheck(w) /\ worker[w].pc = "check" /\ ~conn[c].dc
                  /\ UNCHANGED <<conn, removing>>
            /\ Worked(worker', w, Free) /\ WorkInv'
<1> DEFINE c == worker[w].to
<1>0. ConnTypes /\ WorkInv /\ removing \in Seq(Clients)
  BY DEF SessionTypes, StoreTypes
<1>1. worker[w].pc # "idle" /\ worker' = [worker EXCEPT ![w] = Free]
  BY DEF SendClosed, SendCheck
<1>2. c \in Clients
  BY <1>0, <1>1 DEF WorkInv
<1>3. Worked(worker', w, Free) /\ WorkInv'
  BY <1>1, WorkSteps
<1>4. CASE SendClosed(w)
  <2>1. worker[w].pc = "send" /\ ~conn[c].open /\ RemoveClient(c)
    BY <1>4 DEF SendClosed
  <2> HIDE DEF c
  <2>2. Changed(conn', c, conn[c].open, FALSE, FALSE, 0)
        /\ removing' \in Seq(Clients) /\ ToSet(removing') = ToSet(removing) \cup {c}
    BY <1>2, <2>1, RemoveSteps
  <2>3. conn[c].open = FALSE
    BY <1>0, <1>2, <2>1 DEF ConnTypes
  <2>. QED BY <1>2, <1>3, <1>4, <2>1, <2>2, <2>3 DEF c
<1>5. CASE SendCheck(w) /\ conn[c].dc
  <2>1. worker[w].pc = "check" /\ conn' = [Disconnected(c) EXCEPT ![c].open = FALSE]
        /\ removing' = Append(removing, c)
    BY <1>5 DEF SendCheck
  <2> HIDE DEF c
  <2>2. Changed(conn', c, FALSE, FALSE, FALSE, 0)
    BY <1>0, <1>2, <2>1, ConnSteps
  <2>3. removing' \in Seq(Clients) /\ ToSet(removing') = ToSet(removing) \cup {c}
    BY <1>0, <1>2, <2>1, Appended
  <2>. QED BY <1>2, <1>3, <1>5, <2>1, <2>2, <2>3 DEF c
<1>6. CASE SendCheck(w) /\ ~conn[c].dc
  <2>1. worker[w].pc = "check" /\ UNCHANGED <<conn, removing>>
    BY <1>6 DEF SendCheck
  <2>. QED BY <1>2, <1>3, <1>6, <2>1
<1>. QED BY <1>4, <1>5, <1>6

\* The pool of TCPOutput keeps the types.
LEMMA TypesOutput == \A w \in Workers : SessionTypes /\ Output(w) => SessionTypes'
<1> SUFFICES ASSUME NEW w \in Workers, SessionTypes, Output(w) PROVE SessionTypes'
  OBVIOUS
<1>0. ConnTypes /\ StoreTypes /\ QueueTypes /\ PeerTypes /\ Rest /\ WorkInv /\ OnceInv
  BY DEF SessionTypes
<1>c. UNCHANGED conn => ConnTypes'
  BY <1>0 DEF ConnTypes
<1>q. out' \in Seq(Answering) /\ worker' \in [Workers -> Work] /\ UNCHANGED queue => QueueTypes'
  BY <1>0 DEF QueueTypes, Answering, Work
<1>o. OnceInv'
  BY <1>0, OnceKept DEF Output, SendNumber, SendCount, Send, SendClosed, SendCheck, peerVars
<1>1. ASSUME SendNumber(w) PROVE SessionTypes'
  <2>1. ConnTypes' /\ WorkInv' /\ out' \in Seq(Answering) /\ worker' \in [Workers -> Work]
    BY <1>1, SendNumberSteps, ConnTyped DEF Worked
  <2>2. QueueTypes' /\ StoreTypes' /\ PeerTypes' /\ Rest'
    BY <1>0, <1>q, <1>1, <2>1 DEF SendNumber, StoreTypes, PeerTypes, Rest, peerVars, historyVars
  <2>. QED BY <1>o, <2>1, <2>2 DEF SessionTypes
<1>2. ASSUME SendCount(w) PROVE SessionTypes'
  <2>1. ConnTypes' /\ WorkInv' /\ worker' \in [Workers -> Work]
    <3>1. PICK seq : Changed(conn', worker[w].to, conn[worker[w].to].open, conn[worker[w].to].logged,
                             conn[worker[w].to].dc, seq)
      BY <1>2, SendCountSteps
    <3>2. ConnTypes'
      BY <3>1, ConnTyped
    <3>3. WorkInv' /\ worker' \in [Workers -> Work]
      BY <1>2, SendCountSteps DEF Worked
    <3>. QED BY <3>2, <3>3
  <2>2. UNCHANGED out /\ out' \in Seq(Answering)
    BY <1>0, <1>2, OutSteps DEF SendCount
  <2>3. strayed' \subseteq strayed \cup {worker[w].to} /\ worker[w].to \in Clients
    BY <1>2, SendCountSteps
  <2>4. QueueTypes' /\ StoreTypes' /\ PeerTypes'
    BY <1>0, <1>q, <1>2, <2>1, <2>2 DEF SendCount, StoreTypes, PeerTypes, peerVars
  <2>5. Rest'
    BY <1>0, <1>2, <2>3 DEF SendCount, Rest
  <2>. QED BY <1>o, <2>1, <2>4, <2>5 DEF SessionTypes
<1>3. ASSUME Send(w) PROVE SessionTypes'
  <2> DEFINE c == worker[w].to
  <2>1. /\ WorkInv' /\ worker' \in [Workers -> Work] /\ c \in Clients
        /\ toClient' \in [Clients -> Seq(Sent)] /\ up' \in BOOLEAN
        /\ UNCHANGED <<conn, removing>> \/ RemoveClient(c)
    BY <1>0, <1>3, SendSteps DEF Worked, Rest
  <2>2. UNCHANGED out /\ out' \in Seq(Answering)
    BY <1>0, <1>3, OutSteps DEF Send
  <2>3. ConnTypes' /\ removing' \in Seq(Clients)
    BY <1>0, <1>c, <2>1, RemoveSteps, ConnTyped DEF StoreTypes
  <2>4. QueueTypes'
    BY <1>q, <1>3, <2>1, <2>2 DEF Send
  <2>5. StoreTypes' /\ Rest'
    BY <1>0, <1>3, <2>1, <2>3 DEF Send, StoreTypes, Rest
  <2>6. PeerTypes'
    BY <1>0, <1>3, <2>1 DEF Send, PeerTypes, Sent
  <2>. QED BY <1>o, <2>1, <2>3, <2>4, <2>5, <2>6 DEF SessionTypes
<1>4. ASSUME SendClosed(w) \/ SendCheck(w) PROVE SessionTypes'
  <2>1. /\ WorkInv' /\ worker' \in [Workers -> Work]
    BY <1>4, SendDoneSteps DEF Worked
  <2>2. ConnTypes' /\ removing' \in Seq(Clients)
    BY <1>0, <1>c, <1>4, SendDoneSteps, ConnTyped DEF StoreTypes
  <2>3. UNCHANGED out /\ out' \in Seq(Answering)
    BY <1>0, <1>4, OutSteps DEF SendClosed, SendCheck
  <2>4. UNCHANGED <<store, selector, reuses, edge, ready, queue, out, closing, up, peerVars, historyVars>>
    BY <1>4 DEF SendClosed, SendCheck, historyVars
  <2>5. QueueTypes'
    BY <1>q, <2>1, <2>3, <2>4
  <2>6. StoreTypes' /\ PeerTypes' /\ Rest'
    BY <1>0, <2>2, <2>4 DEF StoreTypes, PeerTypes, Rest, peerVars, historyVars
  <2>. QED BY <1>o, <2>1, <2>2, <2>5, <2>6 DEF SessionTypes
<1>. QED BY <1>1, <1>2, <1>3, <1>4 DEF Output

\* The list loses the client, or another one.
LEMMA EraseSteps ==
  ASSUME SessionTypes, RemoveErase
  PROVE  LET c == Head(removing)
         IN /\ c \in Clients /\ c \in ToSet(removing) /\ closing = None /\ closing' = c
            /\ removing' \in Seq(Clients) /\ ToSet(removing) = {c} \cup ToSet(removing')
            /\ store' \in Seq(Clients) /\ Distinct(store')
            /\ \/ /\ c \in ToSet(store) /\ ToSet(store') = ToSet(store) \ {c}
                  /\ UNCHANGED <<up, doubled>>
               \/ /\ c \notin ToSet(store) /\ doubled' = TRUE
                  /\ ToSet(store') \subseteq ToSet(store)
                  /\ UNCHANGED up \/ up' = FALSE
<1> DEFINE c == Head(removing)
<1>0. store \in Seq(Clients) /\ removing \in Seq(Clients) /\ Distinct(store)
  BY DEF SessionTypes, StoreTypes, OnceInv
<1>1. removing # <<>> /\ closing = None /\ removing' = Tail(removing) /\ closing' = c
  BY DEF RemoveErase
<1>2. c \in Clients /\ removing' \in Seq(Clients) /\ ToSet(removing) = {c} \cup ToSet(removing')
  BY <1>0, <1>1, HeadTaken
<1>3. CASE c \in ToSet(store)
  <2>1. store' = RemoveFirst(store, c) /\ UNCHANGED <<up, doubled>>
    BY <1>3 DEF RemoveErase
  <2> HIDE DEF c
  <2>2. /\ RemoveFirst(store, c) \in Seq(Clients) /\ Distinct(RemoveFirst(store, c))
        /\ ToSet(RemoveFirst(store, c)) = ToSet(store) \ {c}
    BY <1>0, <1>3, Removed
  <2>3. store' \in Seq(Clients) /\ Distinct(store') /\ ToSet(store') = ToSet(store) \ {c}
    BY <2>1, <2>2
  <2>. QED BY <1>1, <1>2, <1>3, <2>1, <2>3 DEF c
<1>4. CASE c \notin ToSet(store)
  <2>1. doubled' = TRUE /\ \/ store # <<>> /\ store' = Front(store) /\ UNCHANGED up
                           \/ up' = FALSE /\ UNCHANGED store
    BY <1>4 DEF RemoveErase
  <2>2. ASSUME store # <<>>
        PROVE  /\ Front(store) \in Seq(Clients) /\ ToSet(Front(store)) \subseteq ToSet(store)
               /\ Distinct(Front(store))
    BY <1>0, <2>2, FrontTaken DEF Distinct
  <2>3. store' \in Seq(Clients) /\ ToSet(store') \subseteq ToSet(store) /\ Distinct(store')
    BY <1>0, <2>1, <2>2
  <2>4. UNCHANGED up \/ up' = FALSE
    BY <2>1
  <2> HIDE DEF c
  <2>5. c \in ToSet(removing)
    BY <1>2
  <2>. QED BY <1>1, <1>2, <1>4, <2>1, <2>3, <2>4, <2>5 DEF c
<1>. QED BY <1>3, <1>4

\* Taking clients out keeps the types.
LEMMA TypesRemoval == SessionTypes /\ Removal => SessionTypes'
<1> SUFFICES ASSUME SessionTypes, Removal PROVE SessionTypes'
  OBVIOUS
<1>0. ConnTypes /\ StoreTypes /\ QueueTypes /\ PeerTypes /\ Rest /\ WorkInv /\ OnceInv
  BY DEF SessionTypes
<1>1. ASSUME RemoveErase PROVE SessionTypes'
  <2> DEFINE c == Head(removing)
  <2>1. /\ c \in Clients /\ closing' = c /\ removing' \in Seq(Clients)
        /\ store' \in Seq(Clients) /\ Distinct(store') /\ ToSet(store') \subseteq ToSet(store)
        /\ up' \in {up, FALSE} /\ doubled' \in {doubled, TRUE}
    BY <1>1, EraseSteps
  <2>2. UNCHANGED <<conn, selector, reuses, edge, ready, queue, out, worker, peerVars, filled,
                    strayed, gone>>
    BY <1>1 DEF RemoveErase
  <2> HIDE DEF c
  <2>3. ConnTypes' /\ QueueTypes' /\ PeerTypes' /\ WorkInv'
    BY <1>0, <2>2 DEF ConnTypes, QueueTypes, PeerTypes, WorkInv, peerVars
  <2>4. StoreTypes' /\ Rest'
    BY <1>0, <2>1, <2>2 DEF StoreTypes, Rest
  <2>5. OnceInv'
    BY <1>0, <2>1, <2>2 DEF OnceInv, peerVars
  <2>. QED BY <2>3, <2>4, <2>5 DEF SessionTypes
<1>2. ASSUME RemoveNotify PROVE SessionTypes'
  <2>1. closing \in Clients /\ conn' = [conn EXCEPT ![closing].open = FALSE]
    BY <1>0, <1>2 DEF RemoveNotify, StoreTypes
  <2>2. Changed([conn EXCEPT ![closing].open = FALSE], closing, FALSE, conn[closing].logged,
                conn[closing].dc, conn[closing].seq)
    BY <1>0, <2>1, ConnSteps
  <2>3. ConnTypes'
    BY <2>1, <2>2, ConnTyped
  <2>4. QueueTypes' /\ PeerTypes' /\ WorkInv' /\ Rest'
    BY <1>0, <1>2 DEF RemoveNotify, QueueTypes, PeerTypes, WorkInv, Rest, peerVars, historyVars
  <2>5. StoreTypes'
    BY <1>0, <1>2 DEF RemoveNotify, StoreTypes
  <2>6. OnceInv'
    BY <1>0, <1>2, OnceKept DEF RemoveNotify, peerVars
  <2>. QED BY <2>3, <2>4, <2>5, <2>6 DEF SessionTypes
<1>. QED BY <1>1, <1>2 DEF Removal

\* The heartbeat and the markets keep the types.
LEMMA TypesTimed ==
  \A c \in Clients : SessionTypes /\ (CheckHeartBeat(c) \/ MarketFills(c)) => SessionTypes'
<1> SUFFICES ASSUME NEW c \in Clients, SessionTypes, CheckHeartBeat(c) \/ MarketFills(c)
    PROVE SessionTypes'
  OBVIOUS
<1>0. ConnTypes /\ StoreTypes /\ QueueTypes /\ PeerTypes /\ Rest /\ WorkInv /\ OnceInv
  BY DEF SessionTypes
<1>a. {"TestRequest", "Report"} \subseteq Answers
  BY DEF Answers
<1>o. /\ UNCHANGED out => out' \in Seq(Answering)
      /\ \A kind \in Answers : Answer(c, kind) => out' \in Seq(Answering)
  BY <1>0, OutSteps
<1>1. ASSUME CheckHeartBeat(c) PROVE SessionTypes'
  <2>1. \/ Answer(c, "TestRequest") /\ conn' = [conn EXCEPT ![c].test = TRUE]
           /\ UNCHANGED <<removing, gone>>
        \/ RemoveClient(c) /\ gone' = gone \cup {c} /\ UNCHANGED out
    BY <1>1 DEF CheckHeartBeat
  <2>2. out' \in Seq(Answering)
    BY <1>a, <1>o, <2>1
  <2>3. ConnTypes' /\ removing' \in Seq(Clients)
    BY <1>0, <2>1, RemoveSteps, ConnTyped DEF StoreTypes
  <2>4. UNCHANGED <<store, selector, reuses, edge, ready, queue, worker, closing, up, peerVars,
                    filled, strayed, doubled>>
    BY <1>1 DEF CheckHeartBeat
  <2>5. QueueTypes' /\ PeerTypes' /\ WorkInv'
    BY <1>0, <2>2, <2>4 DEF QueueTypes, PeerTypes, WorkInv, peerVars, Answering
  <2>6. StoreTypes' /\ Rest'
    BY <1>0, <2>1, <2>3, <2>4 DEF StoreTypes, Rest
  <2>7. OnceInv'
    BY <1>0, <2>4, OnceKept DEF peerVars
  <2>. QED BY <2>3, <2>5, <2>6, <2>7 DEF SessionTypes
<1>2. ASSUME MarketFills(c) PROVE SessionTypes'
  <2>1. Answer(c, "Report") /\ filled < MaxEvents /\ filled' = filled + 1
    BY <1>2 DEF MarketFills
  <2>2. out' \in Seq(Answering)
    BY <1>a, <1>o, <2>1
  <2>3. UNCHANGED <<conn, store, selector, reuses, edge, ready, queue, worker, removing, closing,
                    up, peerVars, strayed, gone, doubled>>
    BY <1>2 DEF MarketFills
  <2>4. filled' \in 0..MaxEvents
    <3>1. filled \in 0..MaxEvents
      BY <1>0 DEF Rest
    <3>. QED BY <2>1, <3>1, BoundsAssumption
  <2>5. ConnTypes' /\ QueueTypes' /\ PeerTypes' /\ WorkInv'
    BY <1>0, <2>2, <2>3 DEF ConnTypes, QueueTypes, PeerTypes, WorkInv, peerVars, Answering
  <2>6. StoreTypes' /\ Rest'
    BY <1>0, <2>3, <2>4 DEF StoreTypes, Rest
  <2>7. OnceInv'
    BY <1>0, <2>3, OnceKept DEF peerVars
  <2>. QED BY <2>5, <2>6, <2>7 DEF SessionTypes
<1>. QED BY <1>1, <1>2

\* The client sends a message.
LEMMA PeerSendSteps ==
  ASSUME SessionTypes, NEW c \in Clients, PeerSend(c)
  PROVE  \E b \in Bodies :
           LET m == [kind |-> b.kind, fault |-> b.fault, num |-> peer[c].seq]
           IN /\ m \in Message
              /\ toServer' = [toServer EXCEPT ![c] = Append(@, m)]
              /\ toServer' \in [Clients -> Seq(Message)]
              /\ peer' \in [Clients -> PeerRecord]
              /\ \A d \in Clients : d # c => peer'[d] = peer[d]
              /\ peer[c].state = "on" /\ peer'[c].state = "on" /\ ~peer[c].waits
              /\ peer'[c].seq = peer[c].seq + 1 /\ peer'[c].login = peer[c].login
              /\ peer'[c].waits = ~peer[c].login
              /\ gone' = IF b.kind = "Logout" THEN gone \cup {c} ELSE gone
<1>0. PeerTypes /\ peer \in [Clients -> PeerRecord]
  BY DEF SessionTypes, PeerTypes, PeerRecord
<1>1. PICK b \in Bodies :
        /\ toServer' = [toServer EXCEPT ![c] =
                          Append(@, [kind |-> b.kind, fault |-> b.fault, num |-> peer[c].seq])]
        /\ peer' = [peer EXCEPT ![c].seq = @ + 1, ![c].sent = @ + 1,
                                ![c].waits = ~peer[c].login,
                                ![c].asked = @ /\ b.kind # "Echo"]
        /\ gone' = IF b.kind = "Logout" THEN gone \cup {c} ELSE gone
  BY DEF PeerSend
<1>2. peer[c].state = "on" /\ peer[c].sent < MaxSent /\ ~peer[c].waits
  BY DEF PeerSend
<1> DEFINE m == [kind |-> b.kind, fault |-> b.fault, num |-> peer[c].seq]
<1>3. peer[c] \in PeerRecord
  BY <1>0
<1>4. peer[c].seq \in Nat /\ peer[c].sent \in 0..MaxSent /\ peer[c].login \in BOOLEAN
  BY <1>3 DEF PeerRecord
<1>5. m \in Message
  <2>1. b \in Body
    BY BodiesAssumption
  <2>2. b.kind \in Kinds /\ b.fault \in {"none", "parse", "header", "body"}
    BY <2>1 DEF Body
  <2>. QED BY <1>4, <2>2 DEF Message
<1>6. toServer \in [Clients -> Seq(Message)] /\ Append(toServer[c], m) \in Seq(Message)
  BY <1>0, <1>5, Appended DEF PeerTypes
<1>7. toServer' = [toServer EXCEPT ![c] = Append(@, m)]
  BY <1>1
<1> HIDE DEF m
<1>8. toServer' \in [Clients -> Seq(Message)]
  BY <1>6, <1>7
<1>9. PICK seq \in Nat : seq = peer[c].seq + 1
  BY <1>4
<1>10. PICK sent \in 0..MaxSent : sent = peer[c].sent + 1
  <2>1. peer[c].sent + 1 \in 0..MaxSent
    BY <1>2, <1>4, BoundsAssumption
  <2>. QED BY <2>1
<1>11. PICK waits \in BOOLEAN : waits = ~peer[c].login
  OBVIOUS
<1>12. PICK asked \in BOOLEAN : asked = (peer[c].asked /\ b.kind # "Echo")
  OBVIOUS
<1>13. peer' = [peer EXCEPT ![c].seq = seq, ![c].sent = sent, ![c].waits = waits, ![c].asked = asked]
  BY <1>0, <1>1, <1>9, <1>10, <1>11, <1>12
<1> DEFINE r == [peer[c] EXCEPT !.seq = seq, !.sent = sent, !.waits = waits, !.asked = asked]
<1>14. peer' = [peer EXCEPT ![c] = r]
  BY <1>0, <1>13
<1>15. /\ r \in PeerRecord /\ r.state = peer[c].state /\ r.seq = seq /\ r.login = peer[c].login
       /\ r.waits = waits
  BY <1>3 DEF PeerRecord
<1> HIDE DEF r
<1>16. /\ peer' \in [Clients -> PeerRecord] /\ peer'[c] = r
       /\ \A d \in Clients : d # c => peer'[d] = peer[d]
  BY <1>0, <1>14, <1>15
<1>17. peer'[c].waits = ~peer[c].login
  BY <1>11, <1>15, <1>16
<1>18. peer'[c].seq = peer[c].seq + 1
  BY <1>9, <1>15, <1>16
<1>19. /\ m \in Message
       /\ toServer' = [toServer EXCEPT ![c] = Append(@, m)]
       /\ toServer' \in [Clients -> Seq(Message)]
       /\ peer' \in [Clients -> PeerRecord]
       /\ \A d \in Clients : d # c => peer'[d] = peer[d]
       /\ peer[c].state = "on" /\ peer'[c].state = "on" /\ ~peer[c].waits
       /\ peer'[c].seq = peer[c].seq + 1 /\ peer'[c].login = peer[c].login
       /\ peer'[c].waits = ~peer[c].login
       /\ gone' = IF b.kind = "Logout" THEN gone \cup {c} ELSE gone
  BY <1>1, <1>2, <1>5, <1>7, <1>8, <1>15, <1>16, <1>17, <1>18
<1>. QED BY <1>19 DEF m

\* The client takes an answer.
LEMMA PeerReceiveSteps ==
  ASSUME SessionTypes, NEW c \in Clients, PeerReceive(c)
  PROVE  LET m == Head(toClient[c])
         IN /\ toClient[c] # <<>> /\ toClient' = [toClient EXCEPT ![c] = Tail(@)]
            /\ toClient' \in [Clients -> Seq(Sent)]
            /\ peer' \in [Clients -> PeerRecord]
            /\ \A d \in Clients : d # c => peer'[d] = peer[d]
            /\ peer[c].state = "on" /\ peer'[c].state = "on" /\ peer'[c].seq = peer[c].seq + 1
            /\ peer'[c].login = (peer[c].login \/ m.kind = "Logon") /\ peer'[c].waits = FALSE
<1> DEFINE m == Head(toClient[c])
<1>0. PeerTypes /\ peer \in [Clients -> PeerRecord] /\ toClient \in [Clients -> Seq(Sent)]
  BY DEF SessionTypes, PeerTypes, PeerRecord, Sent
<1>1. /\ peer[c].state = "on" /\ toClient[c] # <<>>
      /\ toClient' = [toClient EXCEPT ![c] = Tail(@)]
      /\ peer' = [peer EXCEPT ![c].seq = @ + 1, ![c].waits = FALSE,
                              ![c].login = @ \/ m.kind = "Logon",
                              ![c].asked = @ \/ m.kind = "TestRequest"]
  BY DEF PeerReceive
<1>2. Tail(toClient[c]) \in Seq(Sent)
  BY <1>0, <1>1, HeadTaken
<1>3. toClient' \in [Clients -> Seq(Sent)]
  BY <1>0, <1>1, <1>2
<1>4. peer[c] \in PeerRecord
  BY <1>0
<1>5. PICK seq \in Nat : seq = peer[c].seq + 1
  BY <1>4 DEF PeerRecord
<1>6. PICK login \in BOOLEAN : login = (peer[c].login \/ m.kind = "Logon")
  OBVIOUS
<1>7. PICK asked \in BOOLEAN : asked = (peer[c].asked \/ m.kind = "TestRequest")
  OBVIOUS
<1> HIDE DEF m
<1> DEFINE r == [peer[c] EXCEPT !.seq = seq, !.waits = FALSE, !.login = login, !.asked = asked]
<1>8. peer' = [peer EXCEPT ![c] = r]
  BY <1>0, <1>1, <1>5, <1>6, <1>7
<1>9. /\ r \in PeerRecord /\ r.state = peer[c].state /\ r.seq = seq /\ r.login = login
      /\ r.waits = FALSE
  BY <1>4 DEF PeerRecord
<1> HIDE DEF r
<1>10. /\ peer' \in [Clients -> PeerRecord] /\ peer'[c] = r
       /\ \A d \in Clients : d # c => peer'[d] = peer[d]
  BY <1>0, <1>8, <1>9
<1>11. peer'[c].login = (peer[c].login \/ m.kind = "Logon")
  BY <1>6, <1>9, <1>10
<1>12. peer'[c].seq = peer[c].seq + 1
  BY <1>5, <1>9, <1>10
<1>. QED BY <1>1, <1>3, <1>9, <1>10, <1>11, <1>12 DEF m

\* The client closes its socket.
LEMMA PeerCloseSteps ==
  ASSUME SessionTypes, NEW c \in Clients, PeerClose(c)
  PROVE  /\ toClient' = [toClient EXCEPT ![c] = <<>>] /\ toClient' \in [Clients -> Seq(Sent)]
         /\ peer' \in [Clients -> PeerRecord]
         /\ \A d \in Clients : d # c => peer'[d] = peer[d]
         /\ peer[c].state = "on" /\ peer'[c].state = "closed" /\ gone' = gone \cup {c}
<1>0. peer \in [Clients -> PeerRecord] /\ toClient \in [Clients -> Seq(Sent)]
  BY DEF SessionTypes, PeerTypes, PeerRecord, Sent
<1> DEFINE r == [Off EXCEPT !.state = "closed"]
<1>1. peer[c].state = "on" /\ toClient' = [toClient EXCEPT ![c] = <<>>] /\ gone' = gone \cup {c}
      /\ peer' = [peer EXCEPT ![c] = r]
  BY DEF PeerClose
<1>2. r \in PeerRecord /\ r.state = "closed"
  <2>1. 0 \in 0..MaxSent
    BY BoundsAssumption
  <2>. QED BY <2>1 DEF PeerRecord, Off
<1>3. <<>> \in Seq(Sent)
  OBVIOUS
<1> HIDE DEF r
<1>4. toClient' \in [Clients -> Seq(Sent)]
  BY <1>0, <1>1, <1>3
<1>. QED BY <1>0, <1>1, <1>2, <1>4

\* The clients' ends keep the types.
LEMMA TypesPeer == \A c \in Clients : SessionTypes /\ Peer(c) => SessionTypes'
<1> SUFFICES ASSUME NEW c \in Clients, SessionTypes, Peer(c) PROVE SessionTypes'
  OBVIOUS
<1>0. ConnTypes /\ StoreTypes /\ QueueTypes /\ PeerTypes /\ Rest /\ WorkInv /\ OnceInv
  BY DEF SessionTypes
<1>1. UNCHANGED <<conn, store, selector, reuses, ready, queue, out, worker, removing, closing, up,
                  filled, strayed, doubled>>
  BY DEF Peer, PeerSend, PeerReceive, PeerClose, serverVars, historyVars
<1>2. ConnTypes' /\ StoreTypes' /\ QueueTypes' /\ WorkInv'
  BY <1>0, <1>1 DEF ConnTypes, StoreTypes, QueueTypes, WorkInv
<1>3. edge' \in [Clients -> BOOLEAN]
  BY <1>0 DEF Peer, PeerSend, PeerReceive, PeerClose, serverVars, Rest
<1>4. gone' \subseteq gone \cup {c}
  BY PeerSendSteps, PeerCloseSteps DEF Peer, PeerReceive, historyVars
<1>5. Rest'
  BY <1>0, <1>1, <1>3, <1>4 DEF Rest
<1>6. /\ peer' \in [Clients -> PeerRecord]
      /\ \A d \in Clients : d # c => peer'[d] = peer[d]
      /\ peer[c].state = "on" /\ peer'[c].state # "off"
  BY PeerSendSteps, PeerReceiveSteps, PeerCloseSteps DEF Peer
<1>7. PeerTypes'
  <2>1. toServer' \in [Clients -> Seq(Message)]
    BY <1>0, PeerSendSteps DEF Peer, PeerReceive, PeerClose, PeerTypes
  <2>2. toClient' \in [Clients -> Seq(Sent)]
    BY <1>0, PeerReceiveSteps, PeerCloseSteps DEF Peer, PeerSend, PeerTypes, Sent
  <2>. QED BY <1>6, <2>1, <2>2 DEF PeerTypes, PeerRecord, Sent
<1>8. OnceInv'
  BY <1>0, <1>1, <1>6, OnceKept
<1>. QED BY <1>2, <1>5, <1>7, <1>8 DEF SessionTypes

\* Every step keeps the types.
LEMMA TypesStep == SessionTypes /\ [Next]_vars => SessionTypes'
<1>1. ASSUME SessionTypes, UNCHANGED vars PROVE SessionTypes'
  <2>1. ConnTypes' /\ StoreTypes' /\ QueueTypes' /\ PeerTypes'
    BY <1>1 DEF SessionTypes, vars, serverVars, peerVars, historyVars, ConnTypes, StoreTypes,
                QueueTypes, PeerTypes
  <2>2. Rest' /\ WorkInv' /\ OnceInv'
    BY <1>1, OnceKept DEF SessionTypes, vars, serverVars, peerVars, historyVars, Rest, WorkInv
  <2>. QED BY <2>1, <2>2 DEF SessionTypes
<1>. QED BY <1>1, TypesInput, TypesHandlers, TypesOutput, TypesRemoval, TypesTimed, TypesPeer
         DEF Next

\* The types include those Session states.
LEMMA TypesSuffice == SessionTypes => TypeOK
BY DEF SessionTypes, TypeOK, Rest

\* Whatever is answered, sent or removed, in whatever order, every record, queue
\* and counter keeps its type, and no counter falls below zero.
THEOREM TypeCorrect == Spec => []TypeOK
<1>. QED BY TypesStart, TypesStep, TypesSuffice, PTL DEF Spec

-----------------------------------------------------------------------------
(* What the steps do to a client *)

\* What the queues hold.
LEMMA QueueHolds ==
  ASSUME QueueTypes, NEW u \in Units, queue[u] # <<>>
  PROVE  LET job == Head(queue[u]) IN
         /\ job \in ToSet(queue[u])
         /\ Pop(u) => \A x \in Units : ToSet(queue'[x]) \subseteq ToSet(queue[x])
         /\ \A v \in Units \ {u} :
              Forward(u, v) => \A x \in Units : ToSet(queue'[x]) \subseteq
                                 ToSet(queue[x]) \cup (IF x = v THEN {job} ELSE {})
<1> DEFINE job == Head(queue[u])
<1>1. \A x \in Units : queue[x] \in Seq(Jobs)
  BY UnitTyped
<1>2. job \in Jobs /\ ToSet(queue[u]) = {job} \cup ToSet(Tail(queue[u]))
  BY <1>1, HeadTaken
<1>3. ASSUME Pop(u) PROVE \A x \in Units : ToSet(queue'[x]) \subseteq ToSet(queue[x])
  BY <1>2, <1>3, QueueSteps DEF Queues
<1>4. ASSUME NEW v \in Units \ {u}, Forward(u, v), NEW x \in Units
      PROVE  ToSet(queue'[x]) \subseteq ToSet(queue[x]) \cup (IF x = v THEN {job} ELSE {})
  <2>1. /\ queue'[u] = Tail(queue[u]) /\ queue'[v] = Append(queue[v], job)
        /\ x # u /\ x # v => queue'[x] = queue[x]
    BY <1>4, QueueSteps
  <2>2. ToSet(Append(queue[v], job)) = ToSet(queue[v]) \cup {job}
    BY <1>1, <1>2, Appended
  <2> HIDE DEF job
  <2>. QED BY <1>2, <2>1, <2>2
<1> HIDE DEF job
<1>. QED BY <1>2, <1>3, <1>4 DEF job

\* What the output holds.
LEMMA OutHolds ==
  ASSUME QueueTypes
  PROVE  /\ out # <<>> => /\ Head(out) \in ToSet(out)
                          /\ out' = Tail(out) => ToSet(out') \subseteq ToSet(out)
         /\ \A c \in Clients, kind \in Answers :
              Answer(c, kind) => ToSet(out') = ToSet(out) \cup {[to |-> c, kind |-> kind]}
<1>1. out \in Seq(Answering)
  BY OutSteps
<1>2. ASSUME out # <<>>
      PROVE Head(out) \in ToSet(out) /\ (out' = Tail(out) => ToSet(out') \subseteq ToSet(out))
  BY <1>1, <1>2, HeadTaken
<1>3. ASSUME NEW c \in Clients, NEW kind \in Answers, Answer(c, kind)
      PROVE  ToSet(out') = ToSet(out) \cup {[to |-> c, kind |-> kind]}
  <2>1. [to |-> c, kind |-> kind] \in Answering
    BY DEF Answering
  <2>. QED BY <1>1, <1>3, <2>1, Appended DEF Answer
<1>. QED BY <1>2, <1>3

\* A unit hands a message on, drops it, answers it, or lets its client in.
HandsOn(u, v) == /\ Forward(u, v) /\ UNCHANGED <<conn, out>>
                 /\ v = "logout" => Head(queue[u]).msg.kind = "Logout"
Drops(u) == Pop(u) /\ conn[Head(queue[u]).from].logged /\ UNCHANGED <<conn, out>>
Replies(u, kind, dc) ==
  LET c == Head(queue[u]).from
  IN /\ Pop(u) /\ Answer(c, kind) /\ kind # "Logon"
     /\ Changed(conn', c, conn[c].open, conn[c].logged, dc, conn[c].seq)
     /\ dc # conn[c].dc => u = "logout"
LetsIn(u) ==
  LET c == Head(queue[u]).from
  IN /\ Pop(u) /\ Answer(c, "Logon") /\ ~conn[c].logged
     /\ Changed(conn', c, conn[c].open, TRUE, conn[c].dc, Head(queue[u]).msg.num + 1)

\* Each unit does one of these, and touches nothing else.
LEMMA HandlersMoves ==
  ASSUME SessionTypes, Handlers
  PROVE  /\ \E u \in Units :
              /\ queue[u] # <<>> /\ Head(queue[u]) \in ToSet(queue[u]) /\ Head(queue[u]).from \in Clients
              /\ Head(queue[u]).msg.num \in Nat
              /\ \/ \E v \in Units \ {u} : HandsOn(u, v)
                 \/ Drops(u)
                 \/ \E kind \in Answers, dc \in BOOLEAN : Replies(u, kind, dc)
                 \/ LetsIn(u)
         /\ UNCHANGED <<store, selector, reuses, edge, ready, worker, removing, closing, up, peerVars,
                        historyVars>>
         /\ up
<1>0. ConnTypes /\ QueueTypes
  BY DEF SessionTypes
<1>1. UNCHANGED <<store, selector, reuses, edge, ready, worker, removing, closing, up, peerVars,
                  historyVars>> /\ up
  BY DEF Handlers, ValidateHeader, Route, Logon, Logout, HeartBeat, MarketAnswers
<1>2. ASSUME NEW u \in Units, queue[u] # <<>>,
             \/ \E v \in Units \ {u} : HandsOn(u, v)
             \/ Drops(u)
             \/ \E kind \in Answers, dc \in BOOLEAN : Replies(u, kind, dc)
             \/ LetsIn(u)
      PROVE  \E v \in Units :
              /\ queue[v] # <<>> /\ Head(queue[v]) \in ToSet(queue[v]) /\ Head(queue[v]).from \in Clients
              /\ Head(queue[v]).msg.num \in Nat
              /\ \/ \E x \in Units \ {v} : HandsOn(v, x)
                 \/ Drops(v)
                 \/ \E kind \in Answers, dc \in BOOLEAN : Replies(v, kind, dc)
                 \/ LetsIn(v)
  <2>1. Head(queue[u]) \in ToSet(queue[u])
    BY <1>0, <1>2, QueueHolds
  <2>2. Head(queue[u]).from \in Clients /\ Head(queue[u]).msg.num \in Nat
    BY <1>0, <1>2, UnitTyped DEF Message
  <2>. QED BY <1>2, <2>1, <2>2
<1>3. ASSUME NEW u \in Units, queue[u] # <<>>, Pop(u), NEW kind \in Answers \ {"Logon"},
             Answer(Head(queue[u]).from, kind), UNCHANGED conn
      PROVE  \E k \in Answers, dc \in BOOLEAN : Replies(u, k, dc)
  <2> DEFINE c == Head(queue[u]).from
  <2>1. c \in Clients
    BY <1>0, <1>3, UnitTyped
  <2>2. Changed(conn, c, conn[c].open, conn[c].logged, conn[c].dc, conn[c].seq) /\ conn[c].dc \in BOOLEAN
    BY <1>0, <2>1, ConnSteps DEF ConnTypes
  <2>3. Replies(u, kind, conn[c].dc)
    BY <1>3, <2>2 DEF Replies
  <2>. QED BY <2>2, <2>3
<1>a. {"Logout", "HeartBeat", "Report", "Reject"} \subseteq Answers \ {"Logon"}
  BY DEF Answers
<1>u. {"header", "router", "logon", "logout", "heartbeat", "market"} = Units
  BY DEF Units
<1>c. ASSUME NEW u \in Units, queue[u] # <<>> PROVE Head(queue[u]).from \in Clients
  BY <1>0, <1>c, UnitTyped
<1>4. ASSUME ValidateHeader
      PROVE  /\ queue["header"] # <<>>
             /\ \/ HandsOn("header", "router")
                \/ \E kind \in Answers, dc \in BOOLEAN : Replies("header", kind, dc)
  <2>1. queue["header"] # <<>> /\ UNCHANGED conn
        /\ \/ Pop("header") /\ Answer(Head(queue["header"]).from, "Reject")
           \/ Forward("header", "router") /\ UNCHANGED out
    BY <1>4 DEF ValidateHeader
  <2>. QED BY <1>3, <1>a, <1>u, <2>1 DEF HandsOn
<1>5. ASSUME Route
      PROVE  /\ queue["router"] # <<>>
             /\ \/ \E v \in Units \ {"router"} : HandsOn("router", v)
                \/ Drops("router")
                \/ \E kind \in Answers, dc \in BOOLEAN : Replies("router", kind, dc)
  <2> DEFINE job == Head(queue["router"])
             kind == job.msg.kind
             open == kind = "Logon" \/ conn[job.from].logged
  <2>1. queue["router"] # <<>> /\ UNCHANGED conn
        /\ \/ /\ open /\ kind \in DOMAIN Handler
              /\ Forward("router", Handler[kind]) /\ UNCHANGED out
           \/ open /\ kind = "Reject" /\ Pop("router") /\ UNCHANGED out
           \/ Pop("router") /\ Answer(job.from, "Reject")
    BY <1>5 DEF Route
  <2>2. kind \in DOMAIN Handler => /\ Handler[kind] \in Units \ {"router"}
                                   /\ Handler[kind] = "logout" => kind = "Logout"
    BY DEF Handler, Units
  <2>. QED BY <1>3, <1>a, <1>u, <2>1, <2>2 DEF HandsOn, Drops
<1>6. ASSUME Logon
      PROVE  /\ queue["logon"] # <<>>
             /\ \/ \E kind \in Answers, dc \in BOOLEAN : Replies("logon", kind, dc)
                \/ LetsIn("logon")
  <2> DEFINE job == Head(queue["logon"])
             c == job.from
  <2>1. queue["logon"] # <<>> /\ Pop("logon")
        /\ \/ Answer(c, "Reject") /\ UNCHANGED conn
           \/ ~conn[c].logged /\ Answer(c, "Logon") /\ conn' = LoggedIn(c, job.msg.num)
    BY <1>6 DEF Logon
  <2>2. c \in Clients /\ job.msg.num \in Nat
    BY <1>0, <1>u, <2>1, UnitTyped DEF Message
  <2>3. Changed(LoggedIn(c, job.msg.num), c, conn[c].open, TRUE, conn[c].dc, job.msg.num + 1)
    BY <1>0, <2>2, ConnSteps
  <2>. QED BY <1>3, <1>a, <1>u, <2>1, <2>3 DEF LetsIn
<1>7. ASSUME Logout
      PROVE  queue["logout"] # <<>> /\ \E kind \in Answers, dc \in BOOLEAN : Replies("logout", kind, dc)
  <2> DEFINE c == Head(queue["logout"]).from
  <2>1. queue["logout"] # <<>> /\ Pop("logout")
        /\ \/ Answer(c, "Reject") /\ UNCHANGED conn
           \/ Answer(c, "Logout") /\ conn' = [conn EXCEPT ![c].dc = TRUE]
    BY <1>7 DEF Logout
  <2>2. c \in Clients
    BY <1>c, <1>u, <2>1
  <2>3. Changed([conn EXCEPT ![c].dc = TRUE], c, conn[c].open, conn[c].logged, TRUE, conn[c].seq)
    BY <1>0, <2>2, ConnSteps
  <2>4. ASSUME Answer(c, "Logout"), conn' = [conn EXCEPT ![c].dc = TRUE]
        PROVE  Replies("logout", "Logout", TRUE)
    BY <2>1, <2>3, <2>4 DEF Replies
  <2>. QED BY <1>3, <1>a, <1>u, <2>1, <2>4
<1>8. ASSUME HeartBeat
      PROVE  queue["heartbeat"] # <<>>
             /\ \E kind \in Answers, dc \in BOOLEAN : Replies("heartbeat", kind, dc)
  <2> DEFINE c == Head(queue["heartbeat"]).from
  <2>1. queue["heartbeat"] # <<>> /\ Pop("heartbeat")
        /\ (Answer(c, "Reject") \/ Answer(c, "HeartBeat"))
        /\ (UNCHANGED conn \/ conn' = [conn EXCEPT ![c].test = FALSE])
    BY <1>8 DEF HeartBeat
  <2>2. c \in Clients /\ conn[c].dc \in BOOLEAN
    BY <1>0, <1>c, <1>u, <2>1 DEF ConnTypes
  <2>3. Changed(conn', c, conn[c].open, conn[c].logged, conn[c].dc, conn[c].seq)
    BY <1>0, <2>1, <2>2, ConnSteps
  <2>4. \/ Replies("heartbeat", "Reject", conn[c].dc)
        \/ Replies("heartbeat", "HeartBeat", conn[c].dc)
    BY <2>1, <2>3 DEF Replies
  <2>. QED BY <1>a, <2>1, <2>2, <2>4
<1>9. ASSUME MarketAnswers
      PROVE  queue["market"] # <<>>
             /\ \E kind \in Answers, dc \in BOOLEAN : Replies("market", kind, dc)
  <2>1. queue["market"] # <<>> /\ Pop("market") /\ Answer(Head(queue["market"]).from, "Report")
        /\ UNCHANGED conn
    BY <1>9 DEF MarketAnswers
  <2>. QED BY <1>3, <1>a, <1>u, <2>1
<1>. QED
  <2>1. "header" \in Units /\ "router" \in Units /\ "logon" \in Units /\ "logout" \in Units
        /\ "heartbeat" \in Units /\ "market" \in Units /\ "router" # "header"
    BY DEF Units
  <2>. QED BY <1>1, <1>2, <1>4, <1>5, <1>6, <1>7, <1>8, <1>9, <2>1 DEF Handlers

\* No unit opens or closes a socket; only Logout asks for a disconnection.
LEMMA HandlersChange ==
  ASSUME SessionTypes, Handlers
  PROVE  \E u \in Units :
           LET c == Head(queue[u]).from
           IN /\ Head(queue[u]) \in ToSet(queue[u]) /\ c \in Clients
              /\ UNCHANGED conn \/ \E logged, dc, seq :
                   /\ Changed(conn', c, conn[c].open, logged, dc, seq)
                   /\ dc # conn[c].dc => u = "logout"
<1>1. PICK u \in Units :
        /\ Head(queue[u]) \in ToSet(queue[u]) /\ Head(queue[u]).from \in Clients
        /\ \/ \E v \in Units \ {u} : HandsOn(u, v)
           \/ Drops(u)
           \/ \E kind \in Answers, dc \in BOOLEAN : Replies(u, kind, dc)
           \/ LetsIn(u)
  BY HandlersMoves
<1> DEFINE c == Head(queue[u]).from
<1>2. UNCHANGED conn \/ \E logged, dc, seq :
        /\ Changed(conn', c, conn[c].open, logged, dc, seq)
        /\ dc # conn[c].dc => u = "logout"
  <2>1. CASE (\E v \in Units \ {u} : HandsOn(u, v)) \/ Drops(u)
    BY <2>1 DEF HandsOn, Drops
  <2>2. ASSUME NEW kind \in Answers, NEW dc \in BOOLEAN, Replies(u, kind, dc)
        PROVE  \E logged, d, seq : /\ Changed(conn', c, conn[c].open, logged, d, seq)
                                   /\ d # conn[c].dc => u = "logout"
    BY <2>2 DEF Replies
  <2>3. CASE LetsIn(u)
    BY <2>3 DEF LetsIn
  <2>. QED BY <1>1, <2>1, <2>2, <2>3
<1> HIDE DEF c
<1>3. c \in Clients
  BY <1>1 DEF c
<1>. QED BY <1>1, <1>2, <1>3 DEF c

\* TCPInput counts what it read, and hands on the message, or refuses it.
LEMMA ReadDataMoves ==
  ASSUME SessionTypes, ReadData
  PROVE  LET c == ready
             seq == IF conn[c].logged THEN conn[c].seq + 1 ELSE conn[c].seq
         IN /\ c \in Clients /\ toServer[c] # <<>> /\ conn[c].open
            /\ Changed(conn', c, conn[c].open, conn[c].logged, conn[c].dc, seq)
            /\ toServer' = [toServer EXCEPT ![c] = <<>>]
            /\ strayed' = IF Len(toServer[c]) > 1 THEN strayed \cup {c} ELSE strayed
            /\ \/ UNCHANGED queue /\ Answer(c, "Reject")
               \/ \E m \in Message :
                    LET job == [from |-> c, msg |-> m]
                    IN /\ toServer[c] = <<m>> /\ m \in ToSet(toServer[c]) /\ UNCHANGED out
                       /\ job \in Jobs
                       /\ queue'["header"] = Append(queue["header"], job)
                       /\ \A u \in Units : u # "header" => queue'[u] = queue[u]
                       /\ \A u \in Units : ToSet(queue'[u]) \subseteq ToSet(queue[u]) \cup {job}
            /\ UNCHANGED <<store, selector, reuses, edge, worker, removing, closing, up, peer,
                           toClient, filled, gone, doubled>>
            /\ ready' = None
<1> DEFINE data == toServer[ready]
           seq == IF conn[ready].logged THEN conn[ready].seq + 1 ELSE conn[ready].seq
           job(m) == [from |-> ready, msg |-> m]
<1>0. ConnTypes /\ PeerTypes /\ QueueTypes /\ Rest
  BY DEF SessionTypes
<1>1. /\ ready # None /\ data # <<>> /\ conn[ready].open /\ toServer' = [toServer EXCEPT ![ready] = <<>>]
      /\ conn' = IF conn[ready].logged THEN Next1(ready) ELSE conn
      /\ strayed' = IF Len(data) > 1 THEN strayed \cup {ready} ELSE strayed
      /\ UNCHANGED <<store, selector, reuses, edge, worker, removing, closing, up, peer,
                     toClient, filled, gone, doubled>>
      /\ ready' = None
      /\ \/ UNCHANGED queue /\ Answer(ready, "Reject")
         \/ /\ Len(data) = 1 /\ UNCHANGED out
            /\ queue' = [queue EXCEPT !["header"] = Append(@, job(data[1]))]
  BY DEF ReadData
<1>2. ready \in Clients /\ data \in Seq(Message)
  BY <1>0, <1>1 DEF Rest, PeerTypes
<1>3. Changed(conn', ready, conn[ready].open, conn[ready].logged, conn[ready].dc, seq)
  <2>1. Changed(Next1(ready), ready, conn[ready].open, conn[ready].logged, conn[ready].dc,
                conn[ready].seq + 1)
    BY <1>0, <1>2, ConnSteps
  <2>2. Changed(conn, ready, conn[ready].open, conn[ready].logged, conn[ready].dc, conn[ready].seq)
    BY <1>0, <1>2, ConnSteps
  <2>. QED BY <1>1, <2>1, <2>2
<1>4. ASSUME Len(data) = 1, UNCHANGED out, NEW m, m = data[1],
             queue' = [queue EXCEPT !["header"] = Append(@, job(m))]
      PROVE  /\ m \in Message /\ data = <<m>> /\ m \in ToSet(data) /\ job(m) \in Jobs
             /\ queue'["header"] = Append(queue["header"], job(m))
             /\ \A u \in Units : u # "header" => queue'[u] = queue[u]
             /\ \A u \in Units : ToSet(queue'[u]) \subseteq ToSet(queue[u]) \cup {job(m)}
  <2>1. m \in Message /\ m \in ToSet(data)
    BY <1>1, <1>2, <1>4, HeadTaken
  <2>2. data = <<m>>
    <3>1. <<m>> \in Seq(Message) /\ Len(<<m>>) = 1 /\ \A k \in 1..1 : <<m>>[k] = data[k]
      BY <1>4, <2>1
    <3> HIDE DEF data
    <3>. QED BY <1>2, <1>4, <3>1, SeqEqual
  <2>3. job(m) \in Jobs
    BY <1>2, <2>1 DEF Jobs
  <2>4. queue \in [Units -> Seq(Jobs)] /\ "header" \in Units
    BY <1>0 DEF QueueTypes, Units
  <2> HIDE DEF job, data
  <2>5. ToSet(Append(queue["header"], job(m))) = ToSet(queue["header"]) \cup {job(m)}
    BY <2>3, <2>4, Appended
  <2>6. /\ queue'["header"] = Append(queue["header"], job(m))
        /\ \A u \in Units : u # "header" => queue'[u] = queue[u]
    BY <1>4, <2>4
  <2>7. \A u \in Units : ToSet(queue'[u]) \subseteq ToSet(queue[u]) \cup {job(m)}
    BY <2>5, <2>6
  <2>. QED BY <2>1, <2>2, <2>3, <2>6, <2>7
<1>5. \/ UNCHANGED queue /\ Answer(ready, "Reject")
      \/ \E m \in Message :
           /\ data = <<m>> /\ m \in ToSet(data) /\ UNCHANGED out /\ job(m) \in Jobs
           /\ queue'["header"] = Append(queue["header"], job(m))
           /\ \A u \in Units : u # "header" => queue'[u] = queue[u]
           /\ \A u \in Units : ToSet(queue'[u]) \subseteq ToSet(queue[u]) \cup {job(m)}
  <2>1. PICK m : m = data[1]
    OBVIOUS
  <2> HIDE DEF job, data
  <2>. QED BY <1>1, <1>4, <2>1
<1>. QED BY <1>1, <1>2, <1>3, <1>5

\* No unit opens or closes a socket.
LEMMA HandlersOpen ==
  ASSUME SessionTypes, Handlers
  PROVE  \A d \in Clients : conn'[d].open = conn[d].open
<1>1. PICK c \in Clients : UNCHANGED conn \/ \E logged, dc, seq :
                              Changed(conn', c, conn[c].open, logged, dc, seq)
  BY HandlersChange
<1>2. ASSUME NEW logged, NEW dc, NEW seq, Changed(conn', c, conn[c].open, logged, dc, seq)
      PROVE  \A d \in Clients : conn'[d].open = conn[d].open
  BY <1>2 DEF Changed
<1>. QED BY <1>1, <1>2

-----------------------------------------------------------------------------
(* Clients that have connected *)

Blank == [open |-> FALSE, logged |-> FALSE, dc |-> FALSE, seq |-> 0, test |-> FALSE]
Known == {c \in Clients : peer[c].state # "off"}

\* Nothing is for, or from, a client that has not connected.
HeldInv == /\ \A u \in Units : \A j \in ToSet(queue[u]) : j.from \in Known
           /\ \A a \in ToSet(out) : a.to \in Known
           /\ \A w \in Workers : worker[w].pc # "idle" => worker[w].to \in Known
ListedInv == /\ ToSet(removing) \cup selector \subseteq Known
             /\ {closing, ready} \subseteq Known \cup {None}
BlankInv == \A c \in Clients \ Known : /\ conn[c] = Blank /\ peer[c] = Off
                                       /\ toServer[c] = <<>> /\ toClient[c] = <<>>
KnownInv == HeldInv /\ ListedInv /\ BlankInv

\* At the start nobody has connected.
LEMMA KnownStart == Init => KnownInv
<1> SUFFICES ASSUME Init PROVE KnownInv
  OBVIOUS
<1>1. HeldInv
  BY Contents DEF Init, HeldInv, Free
<1>2. ListedInv
  BY Contents DEF Init, ListedInv
<1>3. BlankInv
  BY DEF Init, BlankInv, Blank
<1>. QED BY <1>1, <1>2, <1>3 DEF KnownInv

\* What is held stays so while the queues and the pool do.
LEMMA KnownFrame ==
  /\ HeldInv /\ UNCHANGED <<queue, out, worker>> /\ Known \subseteq Known' => HeldInv'
  /\ /\ ListedInv /\ UNCHANGED <<removing, selector, closing, ready>> /\ Known \subseteq Known'
     => ListedInv'
  /\ /\ BlankInv /\ UNCHANGED <<peer, toServer, toClient>>
     /\ \A c \in Clients \ Known : conn'[c] = conn[c]
     => BlankInv'
  /\ UNCHANGED peer => Known' = Known
<1>1. HeldInv /\ UNCHANGED <<queue, out, worker>> /\ Known \subseteq Known' => HeldInv'
  BY DEF HeldInv, ToSet
<1>2. /\ ListedInv /\ UNCHANGED <<removing, selector, closing, ready>> /\ Known \subseteq Known'
      => ListedInv'
  BY DEF ListedInv, ToSet
<1>3. UNCHANGED peer => Known' = Known
  BY DEF Known
<1>4. /\ BlankInv /\ UNCHANGED <<peer, toServer, toClient>>
      /\ \A c \in Clients \ Known : conn'[c] = conn[c]
      => BlankInv'
  BY <1>3 DEF BlankInv, Blank, Off
<1>. QED BY <1>1, <1>2, <1>3, <1>4

\* TCPInput deals with clients that have connected.
LEMMA KnownInput == SessionTypes /\ KnownInv /\ Input => KnownInv'
<1> SUFFICES ASSUME SessionTypes, KnownInv, Input PROVE KnownInv'
  OBVIOUS
<1>0. ConnTypes /\ QueueTypes /\ PeerTypes /\ Rest /\ HeldInv /\ ListedInv /\ BlankInv
      /\ removing \in Seq(Clients) /\ selector \subseteq Clients
  BY DEF SessionTypes, StoreTypes, KnownInv
<1>r. ready # None => ready \in Known /\ ready \in Clients
  BY <1>0 DEF Rest, ListedInv
<1>1. ASSUME NEW c \in Clients, Accept(c) PROVE KnownInv'
  <2>1. /\ conn' = [conn EXCEPT ![c].open = TRUE] /\ peer' = [peer EXCEPT ![c].state = "on"]
        /\ selector' \subseteq selector \cup {c}
        /\ UNCHANGED <<queue, out, worker, removing, closing, ready, toServer, toClient>>
    BY <1>1 DEF Accept
  <2>2. Known' = Known \cup {c}
    BY <1>0, <2>1 DEF Known, PeerTypes
  <2>3. HeldInv'
    BY <1>0, <2>1, <2>2, KnownFrame
  <2>4. ListedInv'
    BY <1>0, <2>1, <2>2 DEF ListedInv
  <2>5. BlankInv'
    BY <1>0, <2>1, <2>2 DEF BlankInv, ConnTypes, PeerTypes
  <2>. QED BY <2>3, <2>4, <2>5 DEF KnownInv
<1>2. ASSUME NEW c \in Clients, Pull(c) PROVE KnownInv'
  <2>1. UNCHANGED <<conn, peer, toServer, toClient, queue, out, worker, removing, selector, closing>>
    BY <1>2 DEF Pull, peerVars
  <2>3. ready' = ready \/ ready' \in selector
    BY <1>2 DEF Pull
  <2>4. Known' = Known
    BY <2>1, KnownFrame
  <2>2. ListedInv'
    BY <1>0, <2>1, <2>3, <2>4 DEF ListedInv
  <2>. QED BY <1>0, <2>1, <2>2, KnownFrame DEF KnownInv
<1>3. ASSUME ReadUnknown PROVE KnownInv'
  <2>1. /\ conn' = [conn EXCEPT ![ready].open = FALSE] /\ ready # None /\ ready' = None
        /\ selector' \subseteq selector
        /\ UNCHANGED <<peer, toServer, toClient, queue, out, worker, removing, closing>>
    BY <1>3 DEF ReadUnknown, peerVars
  <2>2. \A c \in Clients \ Known : conn'[c] = conn[c]
    BY <1>0, <1>r, <2>1 DEF ConnTypes
  <2>3. ListedInv'
    BY <1>0, <2>1, KnownFrame DEF ListedInv
  <2>. QED BY <1>0, <2>1, <2>2, <2>3, KnownFrame DEF KnownInv
<1>4. ASSUME ReadEnd PROVE KnownInv'
  <2>1. /\ RemoveClient(ready) /\ ready # None /\ ready' = None
        /\ UNCHANGED <<peer, toServer, toClient, queue, out, worker, selector, closing>>
    BY <1>4 DEF ReadEnd, peerVars
  <2>2. /\ \A c \in Clients \ Known : conn'[c] = conn[c]
        /\ ToSet(removing') = ToSet(removing) \cup {ready}
    BY <1>0, <1>r, <2>1, RemoveSteps DEF Changed
  <2>3. ListedInv'
    BY <1>0, <1>r, <2>1, <2>2, KnownFrame DEF ListedInv
  <2>. QED BY <1>0, <2>1, <2>2, <2>3, KnownFrame DEF KnownInv
<1>5. ASSUME ReadData PROVE KnownInv'
  <2>1. /\ ready \in Known /\ ready \in Clients /\ ready' = None
        /\ toServer' = [toServer EXCEPT ![ready] = <<>>]
        /\ UNCHANGED <<peer, toClient, worker, removing, selector, closing>>
    BY <1>r, <1>5, ReadDataMoves DEF ReadData
  <2>2. \A c \in Clients \ Known : conn'[c] = conn[c]
    BY <1>5, <2>1, ReadDataMoves DEF Changed
  <2>3. \A c \in Clients \ Known : toServer'[c] = toServer[c]
    BY <1>0, <2>1 DEF PeerTypes
  <2>4. Known' = Known
    BY <2>1, KnownFrame
  <2>5. BlankInv'
    BY <1>0, <2>1, <2>2, <2>3, <2>4 DEF BlankInv, Blank, Off
  <2>6. ListedInv'
    BY <1>0, <2>1, <2>4 DEF ListedInv
  <2>7. /\ \A u \in Units : \A j \in ToSet(queue'[u]) : j \in ToSet(queue[u]) \/ j.from = ready
        /\ \A a \in ToSet(out') : a \in ToSet(out) \/ a.to = ready
    <3>1. CASE UNCHANGED queue /\ Answer(ready, "Reject")
      <4>1. ToSet(out') = ToSet(out) \cup {[to |-> ready, kind |-> "Reject"]}
        BY <1>0, <2>1, <3>1, OutHolds DEF Answers
      <4>. QED BY <3>1, <4>1
    <3>2. CASE ~(UNCHANGED queue /\ Answer(ready, "Reject"))
      <4>1. UNCHANGED out /\ \E m \in Message : \A u \in Units :
              ToSet(queue'[u]) \subseteq ToSet(queue[u]) \cup {[from |-> ready, msg |-> m]}
        BY <1>5, <3>2, ReadDataMoves
      <4>. QED BY <4>1
    <3>. QED BY <3>1, <3>2
  <2>8. HeldInv'
    BY <1>0, <2>1, <2>4, <2>7 DEF HeldInv
  <2>. QED BY <2>5, <2>6, <2>8 DEF KnownInv
<1>. QED BY <1>1, <1>2, <1>3, <1>4, <1>5 DEF Input

\* So do the units.
LEMMA KnownHandlers == SessionTypes /\ KnownInv /\ Handlers => KnownInv'
<1> SUFFICES ASSUME SessionTypes, KnownInv, Handlers PROVE KnownInv'
  OBVIOUS
<1>0. ConnTypes /\ QueueTypes /\ HeldInv /\ ListedInv /\ BlankInv
  BY DEF SessionTypes, KnownInv
<1>1. /\ UNCHANGED <<selector, ready, worker, removing, closing, peer, toServer, toClient>>
      /\ \E u \in Units :
              /\ queue[u] # <<>> /\ Head(queue[u]) \in ToSet(queue[u]) /\ Head(queue[u]).from \in Clients
              /\ Head(queue[u]).msg.num \in Nat
              /\ \/ \E v \in Units \ {u} : HandsOn(u, v)
                 \/ Drops(u)
                 \/ \E kind \in Answers, dc \in BOOLEAN : Replies(u, kind, dc)
                 \/ LetsIn(u)
  BY HandlersMoves DEF peerVars
<1>2. PICK u \in Units :
              /\ queue[u] # <<>> /\ Head(queue[u]) \in ToSet(queue[u]) /\ Head(queue[u]).from \in Clients
              /\ \/ \E v \in Units \ {u} : HandsOn(u, v)
                 \/ Drops(u)
                 \/ \E kind \in Answers, dc \in BOOLEAN : Replies(u, kind, dc)
                 \/ LetsIn(u)
  BY <1>1
<1>3. PICK c \in Known : c = Head(queue[u]).from
  BY <1>0, <1>2 DEF HeldInv
<1>4. c \in Clients
  BY DEF Known
<1>5. Known' = Known
  BY <1>1, KnownFrame
<1>6. CASE \E v \in Units \ {u} : HandsOn(u, v)
  <2>1. PICK v \in Units \ {u} : Forward(u, v) /\ UNCHANGED <<conn, out>>
    BY <1>6 DEF HandsOn
  <2>2. \A x \in Units : ToSet(queue'[x]) \subseteq ToSet(queue[x]) \cup {Head(queue[u])}
    BY <1>0, <1>2, <2>1, QueueHolds
  <2>3. HeldInv'
    BY <1>0, <1>1, <1>3, <1>5, <2>1, <2>2 DEF HeldInv
  <2>. QED BY <1>0, <1>1, <1>5, <2>1, <2>3, KnownFrame DEF KnownInv
<1>7. CASE Drops(u)
  <2>1. Pop(u) /\ UNCHANGED <<conn, out>>
    BY <1>7 DEF Drops
  <2>2. \A x \in Units : ToSet(queue'[x]) \subseteq ToSet(queue[x])
    BY <1>0, <1>2, <2>1, QueueHolds
  <2>3. HeldInv'
    BY <1>0, <1>1, <1>5, <2>1, <2>2 DEF HeldInv
  <2>. QED BY <1>0, <1>1, <1>5, <2>1, <2>3, KnownFrame DEF KnownInv
<1>8. CASE (\E kind \in Answers, dc \in BOOLEAN : Replies(u, kind, dc)) \/ LetsIn(u)
  <2>1. PICK kind \in Answers : Pop(u) /\ Answer(c, kind)
    BY <1>3, <1>8 DEF Replies, LetsIn, Answers
  <2>2. \A d \in Clients \ Known : conn'[d] = conn[d]
    BY <1>3, <1>8 DEF Replies, LetsIn, Changed
  <2>3. \A x \in Units : ToSet(queue'[x]) \subseteq ToSet(queue[x])
    BY <1>0, <1>2, <2>1, QueueHolds
  <2>4. ToSet(out') = ToSet(out) \cup {[to |-> c, kind |-> kind]}
    BY <1>0, <1>4, <2>1, OutHolds
  <2>5. HeldInv'
    <3>1. \A x \in Units : \A j \in ToSet(queue'[x]) : j.from \in Known'
      BY <1>0, <1>5, <2>3 DEF HeldInv
    <3>2. \A a \in ToSet(out') : a.to \in Known'
      BY <1>0, <1>5, <2>4 DEF HeldInv
    <3>3. \A w \in Workers : worker'[w].pc # "idle" => worker'[w].to \in Known'
      BY <1>0, <1>1, <1>5 DEF HeldInv
    <3>. QED BY <3>1, <3>2, <3>3 DEF HeldInv
  <2>. QED BY <1>0, <1>1, <1>5, <2>2, <2>5, KnownFrame DEF KnownInv
<1>. QED BY <1>2, <1>6, <1>7, <1>8

\* So does the pool of TCPOutput.
LEMMA KnownOutput == \A w \in Workers : SessionTypes /\ KnownInv /\ Output(w) => KnownInv'
<1> SUFFICES ASSUME NEW w \in Workers, SessionTypes, KnownInv, Output(w) PROVE KnownInv'
  OBVIOUS
<1>0. ConnTypes /\ QueueTypes /\ PeerTypes /\ HeldInv /\ ListedInv /\ BlankInv
      /\ removing \in Seq(Clients) /\ worker \in [Workers -> Work]
  BY DEF SessionTypes, StoreTypes, KnownInv, QueueTypes, Work
<1>1. UNCHANGED <<peer, toServer, queue, selector, closing, ready>>
  BY DEF Output, SendNumber, SendCount, Send, SendClosed, SendCheck, peerVars
<1>2. Known' = Known
  BY <1>1, KnownFrame
<1>3. ASSUME SendNumber(w) PROVE KnownInv'
  <2>1. PICK c \in Known : /\ c = Head(out).to
                           /\ \A d \in Clients : d # c => conn'[d] = conn[d]
                           /\ ToSet(out') \subseteq ToSet(out)
                           /\ \A v \in Workers : worker'[v].pc # "idle" =>
                                worker'[v].to = c \/ (worker[v].pc # "idle" /\ worker'[v].to = worker[v].to)
    <3>1. Head(out).to \in Known
      BY <1>0, <1>3, OutHolds, SendNumberSteps DEF HeldInv
    <3>2. ToSet(out') \subseteq ToSet(out)
      BY <1>0, <1>3, OutHolds, SendNumberSteps
    <3>3. \A d \in Clients : d # Head(out).to => conn'[d] = conn[d]
      BY <1>3, SendNumberSteps DEF Changed
    <3>4. \A v \in Workers : worker'[v].pc # "idle" =>
            worker'[v].to = Head(out).to \/ (worker[v].pc # "idle" /\ worker'[v].to = worker[v].to)
      BY <1>3, SendNumberSteps DEF Worked
    <3>. QED BY <3>1, <3>2, <3>3, <3>4
  <2>2. UNCHANGED <<removing, toClient>>
    BY <1>3 DEF SendNumber, peerVars
  <2>3. HeldInv'
    BY <1>0, <1>1, <1>2, <2>1 DEF HeldInv
  <2>. QED BY <1>0, <1>1, <1>2, <2>1, <2>2, <2>3, KnownFrame DEF KnownInv
<1>4. ASSUME ~SendNumber(w) PROVE KnownInv'
  <2>1. PICK c \in Known : /\ c = worker[w].to /\ c \in Clients
                           /\ \A d \in Clients : d # c => conn'[d] = conn[d]
                           /\ ToSet(removing') \subseteq ToSet(removing) \cup {c}
                           /\ UNCHANGED out
                           /\ \A v \in Workers : worker'[v].pc # "idle" =>
                                worker[v].pc # "idle" /\ worker'[v].to = worker[v].to
                           /\ \A d \in Clients : d # c => toClient'[d] = toClient[d]
    <3>0. PICK c : c = worker[w].to
      OBVIOUS
    <3>1. worker[w].pc # "idle" /\ UNCHANGED out
      BY <1>4 DEF Output, SendCount, Send, SendClosed, SendCheck
    <3>2. c \in Known /\ c \in Clients
      BY <1>0, <3>0, <3>1 DEF HeldInv, Known
    <3>3. CASE SendCount(w)
      <4>1. \A d \in Clients : d # c => conn'[d] = conn[d]
        BY <3>0, <3>3, SendCountSteps DEF Changed
      <4>2. \A v \in Workers : worker'[v].pc # "idle" =>
              worker[v].pc # "idle" /\ worker'[v].to = worker[v].to
        BY <3>1, <3>3, SendCountSteps, WorkedKeeps
      <4>3. UNCHANGED <<removing, toClient>>
        BY <3>3 DEF SendCount, peerVars
      <4>. QED BY <3>0, <3>1, <3>2, <4>1, <4>2, <4>3
    <3>4. CASE Send(w)
      <4>1. UNCHANGED <<conn, removing>> \/ RemoveClient(c)
        BY <3>0, <3>4, SendSteps
      <4>2. /\ \A d \in Clients : d # c => conn'[d] = conn[d]
            /\ ToSet(removing') \subseteq ToSet(removing) \cup {c}
        BY <3>2, <4>1, RemoveSteps DEF Changed
      <4>3. \A v \in Workers : worker'[v].pc # "idle" =>
              worker[v].pc # "idle" /\ worker'[v].to = worker[v].to
        BY <3>1, <3>4, SendSteps, WorkedKeeps
      <4>4. \A d \in Clients : d # c => toClient'[d] = toClient[d]
        BY <1>0, <3>0, <3>4, SendSteps DEF PeerTypes
      <4>. QED BY <3>0, <3>1, <3>2, <4>2, <4>3, <4>4
    <3>5. CASE SendClosed(w) \/ SendCheck(w)
      <4>1. /\ \A d \in Clients : d # c => conn'[d] = conn[d]
            /\ ToSet(removing') \subseteq ToSet(removing) \cup {c}
        BY <3>0, <3>2, <3>5, SendDoneSteps DEF Changed
      <4>2. \A v \in Workers : worker'[v].pc # "idle" =>
              worker[v].pc # "idle" /\ worker'[v].to = worker[v].to
        BY <3>1, <3>5, SendDoneSteps, WorkedKeeps
      <4>3. UNCHANGED toClient
        BY <3>5 DEF SendClosed, SendCheck, peerVars
      <4>. QED BY <3>0, <3>1, <3>2, <4>1, <4>2, <4>3
    <3>. QED BY <1>4, <3>3, <3>4, <3>5 DEF Output
  <2>2. HeldInv'
    BY <1>0, <1>1, <1>2, <2>1 DEF HeldInv
  <2>3. ListedInv'
    BY <1>0, <1>1, <1>2, <2>1 DEF ListedInv
  <2>4. BlankInv'
    BY <1>0, <1>1, <1>2, <2>1 DEF BlankInv, Blank, Off
  <2>. QED BY <2>2, <2>3, <2>4 DEF KnownInv
<1>. QED BY <1>3, <1>4

\* So do the other steps.
LEMMA KnownOthers ==
  ASSUME SessionTypes, KnownInv,
         \/ Removal
         \/ \E c \in Clients : CheckHeartBeat(c) \/ MarketFills(c) \/ Peer(c)
  PROVE  KnownInv'
<1>0. ConnTypes /\ StoreTypes /\ QueueTypes /\ PeerTypes /\ OnceInv /\ HeldInv /\ ListedInv /\ BlankInv
      /\ removing \in Seq(Clients)
  BY DEF SessionTypes, StoreTypes, KnownInv
<1>1. ASSUME RemoveErase PROVE KnownInv'
  <2>1. /\ closing' \in ToSet(removing) /\ ToSet(removing') \subseteq ToSet(removing)
    BY <1>1, EraseSteps
  <2>2. UNCHANGED <<conn, peer, toServer, toClient, selector, ready, queue, out, worker>>
    BY <1>1 DEF RemoveErase, peerVars
  <2>3. ListedInv'
    BY <1>0, <2>1, <2>2, KnownFrame DEF ListedInv
  <2>. QED BY <1>0, <2>2, <2>3, KnownFrame DEF KnownInv
<1>2. ASSUME RemoveNotify PROVE KnownInv'
  <2>1. /\ closing # None /\ closing \in Known /\ conn' = [conn EXCEPT ![closing].open = FALSE]
        /\ selector' \subseteq selector /\ closing' = None
        /\ UNCHANGED <<peer, toServer, toClient, removing, ready, queue, out, worker>>
    BY <1>0, <1>2 DEF RemoveNotify, peerVars, ListedInv
  <2>2. \A c \in Clients \ Known : conn'[c] = conn[c]
    BY <1>0, <2>1 DEF ConnTypes
  <2>3. ListedInv'
    BY <1>0, <2>1, KnownFrame DEF ListedInv
  <2>. QED BY <1>0, <2>1, <2>2, <2>3, KnownFrame DEF KnownInv
<1>3. ASSUME NEW c \in Clients, CheckHeartBeat(c) \/ MarketFills(c) PROVE KnownInv'
  <2>1. c \in Known /\ UNCHANGED <<selector, ready, queue, worker, closing, peer, toServer, toClient>>
    BY <1>0, <1>3 DEF CheckHeartBeat, MarketFills, peerVars, OnceInv, Known
  <2>2. /\ \A d \in Clients \ Known : conn'[d] = conn[d]
        /\ ToSet(removing') \subseteq ToSet(removing) \cup {c}
    <3>1. \/ conn' = [conn EXCEPT ![c].test = TRUE] /\ UNCHANGED removing
          \/ UNCHANGED <<conn, removing>>
          \/ RemoveClient(c)
      BY <1>3 DEF CheckHeartBeat, MarketFills
    <3>2. CASE conn' = [conn EXCEPT ![c].test = TRUE] /\ UNCHANGED removing
      BY <1>0, <2>1, <3>2 DEF ConnTypes
    <3>3. CASE UNCHANGED <<conn, removing>>
      BY <3>3
    <3>4. CASE RemoveClient(c)
      BY <2>1, <3>4, RemoveSteps DEF Changed
    <3>. QED BY <3>1, <3>2, <3>3, <3>4
  <2>3. \A a \in ToSet(out') : a \in ToSet(out) \/ a.to = c
    <3>1. UNCHANGED out \/ Answer(c, "TestRequest") \/ Answer(c, "Report")
      BY <1>3 DEF CheckHeartBeat, MarketFills
    <3>. QED BY <1>0, <3>1, OutHolds DEF Answers
  <2>4. Known' = Known
    BY <2>1, KnownFrame
  <2>5. HeldInv'
    BY <1>0, <2>1, <2>3, <2>4 DEF HeldInv
  <2>6. ListedInv'
    BY <1>0, <2>1, <2>2, <2>4 DEF ListedInv
  <2>7. BlankInv'
    BY <1>0, <2>1, <2>2, <2>4, KnownFrame
  <2>. QED BY <2>5, <2>6, <2>7 DEF KnownInv
<1>4. ASSUME NEW c \in Clients, Peer(c) PROVE KnownInv'
  <2>1. /\ UNCHANGED <<conn, selector, ready, queue, out, worker, removing, closing>>
        /\ c \in Known /\ Known' = Known
        /\ \A d \in Clients : d # c => peer'[d] = peer[d]
    <3>1. UNCHANGED <<conn, selector, ready, queue, out, worker, removing, closing>>
      BY <1>4 DEF Peer, PeerSend, PeerReceive, PeerClose, serverVars
    <3>2. /\ peer[c].state = "on" /\ peer'[c].state # "off"
          /\ \A d \in Clients : d # c => peer'[d] = peer[d]
      BY <1>4, PeerSendSteps, PeerReceiveSteps, PeerCloseSteps DEF Peer
    <3>. QED BY <3>1, <3>2 DEF Known
  <2>2. \A d \in Clients : d # c => toServer'[d] = toServer[d] /\ toClient'[d] = toClient[d]
    <3>1. UNCHANGED toServer \/ \E m : toServer' = [toServer EXCEPT ![c] = m]
      BY <1>4 DEF Peer, PeerSend, PeerReceive, PeerClose
    <3>2. UNCHANGED toClient \/ \E m : toClient' = [toClient EXCEPT ![c] = m]
      BY <1>4 DEF Peer, PeerSend, PeerReceive, PeerClose
    <3>. QED BY <1>0, <3>1, <3>2 DEF PeerTypes
  <2>3. BlankInv'
    BY <1>0, <2>1, <2>2 DEF BlankInv, Blank, Off
  <2>. QED BY <1>0, <2>1, <2>3, KnownFrame DEF KnownInv
<1>. QED BY <1>1, <1>2, <1>3, <1>4 DEF Removal

\* Every step does.
LEMMA KnownStep == SessionTypes /\ KnownInv /\ [Next]_vars => KnownInv'
<1>1. ASSUME KnownInv, UNCHANGED vars PROVE KnownInv'
  BY <1>1, KnownFrame DEF vars, serverVars, peerVars, KnownInv
<1>. QED BY <1>1, KnownInput, KnownHandlers, KnownOutput, KnownOthers DEF Next

\* Only Accept opens a socket, lists a client in the selector or makes it known.
LEMMA OpenSteps ==
  ASSUME SessionTypes, KnownInv, [Next]_vars, ~\E c \in Clients : Accept(c)
  PROVE  /\ UNCHANGED reuses /\ Known \subseteq Known' /\ selector' \subseteq selector
         /\ \A d \in Clients : conn'[d].open => conn[d].open
<1>0. ConnTypes /\ StoreTypes /\ PeerTypes /\ Rest /\ WorkInv /\ OnceInv
  BY DEF SessionTypes
<1>1. UNCHANGED reuses /\ selector' \subseteq selector
  <2>1. ASSUME Handlers PROVE UNCHANGED reuses /\ selector' \subseteq selector
    BY <2>1, HandlersMoves
  <2>2. ASSUME ~Handlers PROVE UNCHANGED reuses /\ selector' \subseteq selector
    BY <2>2 DEF Next, vars, serverVars, Input, Pull, ReadUnknown, ReadEnd, ReadData, Removal,
                RemoveErase, RemoveNotify, Output, SendNumber, SendCount, Send, SendClosed,
                SendCheck, CheckHeartBeat, MarketFills, Peer, PeerSend, PeerReceive, PeerClose
  <2>. QED BY <2>1, <2>2
<1>2. ASSUME UNCHANGED conn \/ \E c \in Clients : RemoveClient(c)
      PROVE  \A d \in Clients : conn'[d].open => conn[d].open
  BY <1>2, RemoveSteps DEF Changed
<1>3. ASSUME Handlers
      PROVE  Known \subseteq Known' /\ \A d \in Clients : conn'[d].open => conn[d].open
  <2>1. UNCHANGED peer
    BY <1>3, HandlersMoves DEF peerVars
  <2>. QED BY <1>3, <2>1, HandlersOpen DEF Known
<1>4. ASSUME Input PROVE Known \subseteq Known' /\ \A d \in Clients : conn'[d].open => conn[d].open
  <2>1. UNCHANGED peer
    BY <1>4 DEF Input, Pull, ReadUnknown, ReadEnd, ReadData, peerVars
  <2>2. ASSUME ReadUnknown PROVE \A d \in Clients : conn'[d].open => conn[d].open
    BY <1>0, <2>2 DEF ReadUnknown, ConnTypes, Rest
  <2>3. ASSUME ReadData PROVE \A d \in Clients : conn'[d].open => conn[d].open
    BY <2>3, ReadDataMoves DEF Changed
  <2>4. ASSUME ReadEnd PROVE \E c \in Clients : RemoveClient(c)
    BY <1>0, <2>4 DEF ReadEnd, Rest
  <2>5. ASSUME NEW c \in Clients, Pull(c) PROVE UNCHANGED conn
    BY <2>5 DEF Pull
  <2>6. \A d \in Clients : conn'[d].open => conn[d].open
    BY <1>2, <1>4, <2>2, <2>3, <2>4, <2>5 DEF Input
  <2>. QED BY <2>1, <2>6 DEF Known
<1>5. ASSUME NEW w \in Workers, Output(w)
      PROVE  Known \subseteq Known' /\ \A d \in Clients : conn'[d].open => conn[d].open
  <2>1. UNCHANGED peer
    BY <1>5 DEF Output, SendNumber, SendCount, Send, SendClosed, SendCheck, peerVars
  <2>2. ASSUME SendNumber(w) \/ SendCount(w) PROVE \A d \in Clients : conn'[d].open => conn[d].open
    BY <2>2, SendNumberSteps, SendCountSteps DEF Changed
  <2>3. ASSUME Send(w) PROVE UNCHANGED conn \/ \E c \in Clients : RemoveClient(c)
    BY <2>3, SendSteps
  <2>4. ASSUME SendClosed(w) \/ SendCheck(w)
        PROVE  \A d \in Clients : conn'[d].open => conn[d].open
    BY <2>4, SendDoneSteps DEF Changed
  <2>5. \A d \in Clients : conn'[d].open => conn[d].open
    BY <1>2, <1>5, <2>2, <2>3, <2>4 DEF Output
  <2>. QED BY <2>1, <2>5 DEF Known
<1>6. ASSUME Removal
      PROVE  Known \subseteq Known' /\ \A d \in Clients : conn'[d].open => conn[d].open
  <2>1. UNCHANGED peer
    BY <1>6 DEF Removal, RemoveErase, RemoveNotify, peerVars
  <2>2. ASSUME RemoveNotify PROVE \A d \in Clients : conn'[d].open => conn[d].open
    <3>1. closing \in Clients /\ conn' = [conn EXCEPT ![closing].open = FALSE]
      BY <1>0, <2>2 DEF RemoveNotify, StoreTypes
    <3>. QED BY <1>0, <3>1 DEF ConnTypes
  <2>3. \A d \in Clients : conn'[d].open => conn[d].open
    BY <1>6, <2>2 DEF Removal, RemoveErase
  <2>. QED BY <2>1, <2>3 DEF Known
<1>7. ASSUME NEW c \in Clients, CheckHeartBeat(c) \/ MarketFills(c)
      PROVE  Known \subseteq Known' /\ \A d \in Clients : conn'[d].open => conn[d].open
  <2>1. UNCHANGED peer
    BY <1>7 DEF CheckHeartBeat, MarketFills, peerVars
  <2>2. \/ conn' = [conn EXCEPT ![c].test = TRUE] \/ UNCHANGED conn \/ RemoveClient(c)
    BY <1>7 DEF CheckHeartBeat, MarketFills
  <2>3. ASSUME conn' = [conn EXCEPT ![c].test = TRUE]
        PROVE  \A d \in Clients : conn'[d].open => conn[d].open
    BY <1>0, <2>3 DEF ConnTypes
  <2>4. \A d \in Clients : conn'[d].open => conn[d].open
    BY <1>2, <2>2, <2>3
  <2>. QED BY <2>1, <2>4 DEF Known
<1>8. ASSUME NEW c \in Clients, Peer(c)
      PROVE  Known \subseteq Known' /\ \A d \in Clients : conn'[d].open => conn[d].open
  <2>1. UNCHANGED conn
    BY <1>8 DEF Peer, PeerSend, PeerReceive, PeerClose, serverVars
  <2>2. /\ peer[c].state = "on" /\ peer'[c].state # "off"
        /\ \A d \in Clients : d # c => peer'[d] = peer[d]
    BY <1>8, PeerSendSteps, PeerReceiveSteps, PeerCloseSteps DEF Peer
  <2>. QED BY <2>1, <2>2 DEF Known
<1>9. ASSUME UNCHANGED vars
      PROVE  Known \subseteq Known' /\ \A d \in Clients : conn'[d].open => conn[d].open
  BY <1>9 DEF vars, serverVars, peerVars, Known
<1>. QED BY <1>1, <1>3, <1>4, <1>5, <1>6, <1>7, <1>8, <1>9 DEF Next

\* A connection on a descriptor still listed is known, and the one it is listed
\* under is known and closed.
ReuseInv == \A c \in Clients : reuses[c] # None =>
              {c, reuses[c]} \subseteq Known /\ ~conn[reuses[c]].open

\* Every step keeps it so.
LEMMA ReuseStep == SessionTypes /\ KnownInv /\ ReuseInv /\ [Next]_vars => ReuseInv'
<1> SUFFICES ASSUME SessionTypes, KnownInv, ReuseInv, [Next]_vars PROVE ReuseInv'
  OBVIOUS
<1>0. ConnTypes /\ StoreTypes /\ PeerTypes /\ ListedInv /\ Known \subseteq Clients
  BY DEF SessionTypes, KnownInv, Known
<1>1. ASSUME NEW c \in Clients, Accept(c) PROVE ReuseInv'
  <2>1. /\ conn' = [conn EXCEPT ![c].open = TRUE] /\ peer' = [peer EXCEPT ![c].state = "on"]
        /\ peer[c].state = "off"
    BY <1>1 DEF Accept
  <2>2. Known' = Known \cup {c} /\ c \notin Known
    BY <1>0, <2>1 DEF Known, PeerTypes
  <2>3. \A d \in Known : conn'[d] = conn[d]
    BY <1>0, <2>1, <2>2 DEF ConnTypes
  <2>4. CASE UNCHANGED reuses
    BY <2>2, <2>3, <2>4 DEF ReuseInv
  <2>5. ASSUME NEW d \in Clients, Leftover(d), reuses' = [reuses EXCEPT ![c] = d] PROVE ReuseInv'
    <3>1. d \in Known /\ ~conn[d].open
      BY <1>0, <2>5 DEF Leftover, ListedInv
    <3>2. reuses'[c] = d /\ \A x \in Clients : x # c => reuses'[x] = reuses[x]
      BY <1>0, <2>5 DEF StoreTypes
    <3>. QED BY <2>2, <2>3, <3>1, <3>2 DEF ReuseInv
  <2>. QED BY <1>1, <2>4, <2>5 DEF Accept
<1>2. CASE ~\E c \in Clients : Accept(c)
  <2>1. UNCHANGED reuses /\ Known \subseteq Known'
        /\ \A d \in Clients : conn'[d].open => conn[d].open
    BY <1>2, OpenSteps
  <2>. QED BY <1>0, <2>1 DEF ReuseInv
<1>. QED BY <1>1, <1>2

\* At the start no descriptor was used twice.
LEMMA ReuseStart == Init => ReuseInv
BY DEF Init, ReuseInv

-----------------------------------------------------------------------------
(* The list, the selector and the sockets *)

Pending(c) == c \in ToSet(removing) \/ closing = c

\* A client in the list is open, or about to leave it; an open one is in the
\* selector, unless its descriptor was listed already; and only the client about
\* to be closed is out of one of them alone.
Listed(c) ==
  /\ c \in ToSet(store) => Pending(c) \/ conn[c].open
  /\ c \in ToSet(store) /\ conn[c].open => c \in selector \/ reuses[c] # None
  /\ c \in selector => reuses[c] = None
  /\ c \notin ToSet(store) /\ (conn[c].open \/ c \in selector) => closing = c
ListInv == /\ closing # None => closing \notin ToSet(store)
           /\ ~doubled => \A c \in Clients : Listed(c)

\* At the start every list is empty.
LEMMA ListStart == Init => ListInv
BY Contents DEF Init, ListInv, Listed

\* A step that leaves the list and the selector, and closes only sockets of
\* clients it has removed.
LEMMA ListFrame ==
  ASSUME ListInv, UNCHANGED <<store, selector, reuses, closing, doubled>>,
         ToSet(removing) \subseteq ToSet(removing'),
         \A c \in Clients : \/ conn'[c].open = conn[c].open
                            \/ ~conn'[c].open /\ c \in ToSet(removing')
  PROVE  ListInv'
BY DEF ListInv, Listed, Pending

\* What TCPInput accepts is listed, and what it drops is not.
LEMMA ListInput == SessionTypes /\ KnownInv /\ ReuseInv /\ ListInv /\ Input => ListInv'
<1> SUFFICES ASSUME SessionTypes, KnownInv, ReuseInv, ListInv, Input PROVE ListInv'
  OBVIOUS
<1>0. ConnTypes /\ StoreTypes /\ Rest /\ OnceInv /\ ListedInv
  BY DEF SessionTypes, KnownInv
<1>1. ASSUME NEW c \in Clients, Accept(c) PROVE ListInv'
  <2>1. /\ conn' = [conn EXCEPT ![c].open = TRUE] /\ store' = Append(store, c)
        /\ peer[c].state = "off" /\ UNCHANGED <<removing, closing, doubled>>
        /\ \/ selector' = selector \cup {c} /\ UNCHANGED reuses
           \/ \E d \in Clients : UNCHANGED selector /\ reuses' = [reuses EXCEPT ![c] = d]
    BY <1>1 DEF Accept, historyVars
  <2>2. ToSet(store') = ToSet(store) \cup {c}
    BY <1>0, <2>1, Appended DEF StoreTypes
  <2>3. closing # c
    BY <1>0, <2>1, ClientsAssumption DEF ListedInv, Known
  <2>4. conn'[c].open = TRUE /\ \A d \in Clients : d # c => conn'[d] = conn[d]
    BY <1>0, <2>1 DEF ConnTypes
  <2>5. /\ \A d \in Clients : d # c => /\ reuses'[d] = reuses[d]
                                       /\ d \in selector' <=> d \in selector
        /\ \/ c \in selector' /\ reuses'[c] = None
           \/ c \notin selector' /\ reuses'[c] # None
    <3>1. c \notin Known /\ c \notin selector /\ reuses[c] = None
      BY <1>0, <2>1 DEF ListedInv, Known, ReuseInv
    <3>. QED BY <1>0, <2>1, <3>1, ClientsAssumption DEF StoreTypes
  <2>6. ASSUME ~doubled, NEW d \in Clients PROVE Listed(d)'
    <3>1. Listed(d)
      BY <2>6 DEF ListInv
    <3>2. CASE d = c
      <4>1. d \in ToSet(store') /\ conn'[d].open /\ (d \in selector' => reuses'[d] = None)
            /\ (d \in selector' \/ reuses'[d] # None)
        BY <2>2, <2>4, <2>5, <3>2
      <4>. QED BY <4>1 DEF Listed
    <3>3. CASE d # c
      <4>1. /\ d \in ToSet(store') <=> d \in ToSet(store)
            /\ conn'[d] = conn[d] /\ reuses'[d] = reuses[d]
            /\ d \in selector' <=> d \in selector
        BY <2>2, <2>4, <2>5, <3>3
      <4>2. Pending(d)' <=> Pending(d)
        BY <2>1 DEF Pending
      <4>. QED BY <2>1, <3>1, <4>1, <4>2 DEF Listed
    <3>. QED BY <3>2, <3>3
  <2>7. closing' # None => closing' \notin ToSet(store')
    BY <2>1, <2>2, <2>3 DEF ListInv
  <2>. QED BY <2>1, <2>6, <2>7 DEF ListInv
<1>2. ASSUME NEW c \in Clients, Pull(c) PROVE ListInv'
  BY <1>2, ListFrame DEF Pull, historyVars
<1>3. ASSUME ReadUnknown PROVE ListInv'
  <2>1. /\ ready \in Clients /\ ready \notin ToSet(store)
        /\ conn' = [conn EXCEPT ![ready].open = FALSE]
        /\ selector' = selector \ SameFD(ready)
        /\ UNCHANGED <<store, reuses, removing, closing, doubled>>
    BY <1>0, <1>3 DEF ReadUnknown, historyVars, Rest
  <2>2. conn'[ready].open = FALSE /\ \A d \in Clients : d # ready => conn'[d] = conn[d]
    BY <1>0, <2>1 DEF ConnTypes
  <2>3. /\ ready \notin selector'
        /\ \A d \in selector \ selector' : d = ready \/ ~conn[d].open
    BY <2>1 DEF SameFD
  <2>4. ASSUME ~doubled, NEW c \in Clients PROVE Listed(c)'
    <3>1. Listed(c)
      BY <2>4 DEF ListInv
    <3>. QED BY <2>1, <2>2, <2>3, <3>1 DEF Listed, Pending
  <2>. QED BY <2>1, <2>4 DEF ListInv
<1>4. ASSUME ReadEnd PROVE ListInv'
  <2>1. ready \in Clients /\ RemoveClient(ready) /\ UNCHANGED <<store, selector, reuses, closing, doubled>>
    BY <1>0, <1>4 DEF ReadEnd, historyVars, Rest
  <2>2. /\ \A d \in Clients : conn'[d].open = conn[d].open
        /\ ToSet(removing) \subseteq ToSet(removing')
    BY <2>1, RemoveSteps DEF Changed
  <2>. QED BY <2>1, <2>2, ListFrame
<1>5. ASSUME ReadData PROVE ListInv'
  <2>1. UNCHANGED <<store, selector, reuses, removing, closing, doubled>>
    BY <1>5 DEF ReadData
  <2>2. \A d \in Clients : conn'[d].open = conn[d].open
    BY <1>5, ReadDataMoves DEF Changed
  <2>. QED BY <2>1, <2>2, ListFrame
<1>. QED BY <1>1, <1>2, <1>3, <1>4, <1>5 DEF Input

\* The pool only asks for removals.
LEMMA ListOutput == \A w \in Workers : SessionTypes /\ ListInv /\ Output(w) => ListInv'
<1> SUFFICES ASSUME NEW w \in Workers, SessionTypes, ListInv, Output(w) PROVE ListInv'
  OBVIOUS
<1>1. UNCHANGED <<store, selector, reuses, closing, doubled>>
  BY DEF Output, SendNumber, SendCount, Send, SendClosed, SendCheck, historyVars
<1>2. ASSUME SendNumber(w) \/ SendCount(w) PROVE ListInv'
  <2>1. UNCHANGED removing
    BY <1>2 DEF SendNumber, SendCount
  <2>2. \A d \in Clients : conn'[d].open = conn[d].open
    BY <1>2, SendNumberSteps, SendCountSteps DEF Changed
  <2>. QED BY <1>1, <2>1, <2>2, ListFrame
<1>3. ASSUME Send(w) PROVE ListInv'
  <2>1. worker[w].to \in Clients /\ (UNCHANGED <<conn, removing>> \/ RemoveClient(worker[w].to))
    BY <1>3, SendSteps
  <2>2. /\ \A d \in Clients : conn'[d].open = conn[d].open
        /\ ToSet(removing) \subseteq ToSet(removing')
    BY <2>1, RemoveSteps DEF Changed
  <2>. QED BY <1>1, <2>2, ListFrame
<1>4. ASSUME SendClosed(w) \/ SendCheck(w) PROVE ListInv'
  <2>1. /\ ToSet(removing) \subseteq ToSet(removing')
        /\ \A d \in Clients : \/ conn'[d].open = conn[d].open
                              \/ ~conn'[d].open /\ d \in ToSet(removing')
    BY <1>4, SendDoneSteps DEF Changed
  <2>. QED BY <1>1, <2>1, ListFrame
<1>. QED BY <1>2, <1>3, <1>4 DEF Output

\* Nor do the others touch the lists, but to take a client out of all of them.
LEMMA ListOthers ==
  ASSUME SessionTypes, ListInv,
         \/ Handlers \/ Removal
         \/ \E c \in Clients : CheckHeartBeat(c) \/ MarketFills(c) \/ Peer(c)
  PROVE  ListInv'
<1>0. ConnTypes /\ StoreTypes
  BY DEF SessionTypes
<1>1. ASSUME Handlers PROVE ListInv'
  <2>1. UNCHANGED <<store, selector, reuses, closing, doubled, removing>>
    BY <1>1, HandlersMoves DEF historyVars
  <2>2. \A d \in Clients : conn'[d].open = conn[d].open
    BY <1>1, HandlersOpen
  <2>. QED BY <2>1, <2>2, ListFrame
<1>2. ASSUME RemoveErase PROVE ListInv'
  <2> DEFINE c == Head(removing)
  <2>1. /\ c \in Clients /\ closing = None /\ closing' = c /\ ToSet(removing) = {c} \cup ToSet(removing')
        /\ \/ ToSet(store') = ToSet(store) \ {c} /\ UNCHANGED doubled
           \/ c \notin ToSet(store) /\ doubled' = TRUE /\ ToSet(store') \subseteq ToSet(store)
    BY <1>2, EraseSteps
  <2>2. UNCHANGED <<conn, selector, reuses>>
    BY <1>2 DEF RemoveErase
  <2> HIDE DEF c
  <2>. QED BY <2>1, <2>2, ClientsAssumption DEF ListInv, Listed, Pending
<1>3. ASSUME RemoveNotify PROVE ListInv'
  <2>1. /\ closing \in Clients /\ conn' = [conn EXCEPT ![closing].open = FALSE]
        /\ selector' = {c \in selector : conn'[c].open} /\ closing' = None
        /\ UNCHANGED <<store, reuses, removing, doubled>>
    BY <1>0, <1>3 DEF RemoveNotify, historyVars, StoreTypes
  <2>2. conn'[closing].open = FALSE /\ \A d \in Clients : d # closing => conn'[d] = conn[d]
    BY <1>0, <2>1 DEF ConnTypes
  <2>3. closing \notin ToSet(store)
    BY <2>1, ClientsAssumption DEF ListInv
  <2>4. ASSUME ~doubled, NEW c \in Clients PROVE Listed(c)'
    <3>1. Listed(c)
      BY <2>4 DEF ListInv
    <3>. QED BY <2>1, <2>2, <2>3, <3>1, ClientsAssumption DEF Listed, Pending
  <2>. QED BY <2>1, <2>4 DEF ListInv
<1>4. ASSUME NEW c \in Clients, CheckHeartBeat(c) \/ MarketFills(c) \/ Peer(c) PROVE ListInv'
  <2>1. UNCHANGED <<store, selector, reuses, closing, doubled>>
        /\ \/ conn' = [conn EXCEPT ![c].test = TRUE] /\ UNCHANGED removing
           \/ UNCHANGED <<conn, removing>>
           \/ RemoveClient(c)
    BY <1>4 DEF CheckHeartBeat, MarketFills, Peer, PeerSend, PeerReceive, PeerClose, serverVars,
                historyVars
  <2>2. /\ \A d \in Clients : conn'[d].open = conn[d].open
        /\ ToSet(removing) \subseteq ToSet(removing')
    <3>1. CASE conn' = [conn EXCEPT ![c].test = TRUE] /\ UNCHANGED removing
      BY <1>0, <3>1 DEF ConnTypes
    <3>2. CASE UNCHANGED <<conn, removing>>
      BY <3>2
    <3>3. CASE RemoveClient(c)
      BY <3>3, RemoveSteps DEF Changed
    <3>. QED BY <2>1, <3>1, <3>2, <3>3
  <2>. QED BY <2>1, <2>2, ListFrame
<1>. QED BY <1>1, <1>2, <1>3, <1>4 DEF Removal

\* Every step keeps the lists together.
LEMMA ListStep == SessionTypes /\ KnownInv /\ ReuseInv /\ ListInv /\ [Next]_vars => ListInv'
<1>1. ASSUME ListInv, UNCHANGED vars PROVE ListInv'
  BY <1>1, ListFrame DEF vars, serverVars, historyVars
<1>. QED BY <1>1, ListInput, ListOutput, ListOthers DEF Next

\* The lists agree once nobody is about to leave.
LEMMA ListSuffices == SessionTypes /\ ListInv => StoreIsSelector
<1> SUFFICES ASSUME SessionTypes, ListInv, ~doubled, removing = <<>>, closing = None
    PROVE  /\ ToSet(store) = {c \in Clients : conn[c].open}
           /\ selector = {c \in ToSet(store) : reuses[c] = None}
  BY DEF StoreIsSelector
<1>1. ToSet(store) \subseteq Clients /\ selector \subseteq Clients /\ ToSet(removing) = {}
  BY Contents DEF SessionTypes, StoreTypes
<1>2. \A c \in Clients : Listed(c) /\ ~Pending(c) /\ closing # c
  BY <1>1, ClientsAssumption DEF ListInv, Pending
<1>. QED BY <1>1, <1>2 DEF Listed

\* Between two removals the list and the open sockets are the same connections,
\* and the selector has all of them but those on a descriptor that was listed
\* already, however many clients come and go at once, unless one of them was
\* removed twice.
THEOREM ListsAgree == Spec => []StoreIsSelector
<1> DEFINE I == SessionTypes /\ KnownInv /\ ReuseInv /\ ListInv
<1>1. Init => I
  BY TypesStart, KnownStart, ReuseStart, ListStart
<1>2. I /\ [Next]_vars => I'
  BY TypesStep, KnownStep, ReuseStep, ListStep
<1>3. I => StoreIsSelector
  BY ListSuffices
<1>. QED BY <1>1, <1>2, <1>3, PTL DEF Spec

-----------------------------------------------------------------------------
(* Who is removed *)

\* Only clients that are gone have sent a Logout, and only those reach Logout.
LogoutInv ==
  /\ \A j \in ToSet(queue["logout"]) : j.msg.kind = "Logout"
  /\ \A u \in Units : \A j \in ToSet(queue[u]) : j.msg.kind = "Logout" => j.from \in gone
  /\ \A c \in Clients : \A m \in ToSet(toServer[c]) : m.kind = "Logout" => c \in gone

\* Nothing ends the session of the others.
Alive(c) ==
  /\ peer[c].state # "closed"
  /\ ~doubled /\ ready = c => toServer[c] # <<>>
  /\ ~doubled /\ peer[c].state = "on" =>
       c \in ToSet(store) /\ ~Pending(c) /\ ~conn[c].dc /\ conn[c].open
AliveInv == \A c \in Clients \ gone : Alive(c)

\* At the start no session is open.
LEMMA KeptStart == Init => LogoutInv /\ AliveInv
<1> SUFFICES ASSUME Init PROVE LogoutInv /\ AliveInv
  OBVIOUS
<1>1. LogoutInv
  BY Contents DEF Init, LogoutInv, Units
<1>2. AliveInv
  <2>1. ASSUME NEW c \in Clients PROVE Alive(c)
    <3>1. ready # c /\ peer[c].state = "off"
      BY ClientsAssumption DEF Init, Off
    <3>. QED BY <3>1 DEF Alive
  <2>. QED BY <2>1 DEF AliveInv
<1>. QED BY <1>1, <1>2

\* No Logout joins the messages but that of a client that is gone.
LEMMA LogoutFrame ==
  ASSUME LogoutInv, PeerTypes, gone \subseteq gone',
         \A u \in Units : \A j \in ToSet(queue'[u]) :
           j \in ToSet(queue[u]) \/ /\ j.msg.kind = "Logout" => j.from \in gone'
                                    /\ u = "logout" => j.msg.kind = "Logout",
         \A c \in Clients : \A m \in ToSet(toServer'[c]) :
           m \in ToSet(toServer[c]) \/ (m.kind = "Logout" => c \in gone')
  PROVE  LogoutInv'
BY DEF LogoutInv, Units

\* A Logout on its way stays one of a client that is gone.
LEMMA LogoutStep == SessionTypes /\ LogoutInv /\ [Next]_vars => LogoutInv'
<1> SUFFICES ASSUME SessionTypes, LogoutInv, [Next]_vars PROVE LogoutInv'
  OBVIOUS
<1>0. PeerTypes /\ QueueTypes
  BY DEF SessionTypes
<1>1. CASE UNCHANGED <<queue, toServer>> /\ gone \subseteq gone'
  BY <1>0, <1>1, LogoutFrame
<1>2. CASE ReadData
  <2>1. gone' = gone /\ ready \in Clients /\ toServer' = [toServer EXCEPT ![ready] = <<>>]
        /\ \/ UNCHANGED queue
           \/ \E m \in Message :
                /\ m \in ToSet(toServer[ready])
                /\ queue'["header"] = Append(queue["header"], [from |-> ready, msg |-> m])
                /\ \A u \in Units : u # "header" => queue'[u] = queue[u]
                /\ \A u \in Units : ToSet(queue'[u]) \subseteq
                                      ToSet(queue[u]) \cup {[from |-> ready, msg |-> m]}
    BY <1>2, ReadDataMoves
  <2>2. \A c \in Clients : \A m \in ToSet(toServer'[c]) : m \in ToSet(toServer[c])
    BY <1>0, <2>1, Contents DEF PeerTypes
  <2>3. \A m \in ToSet(toServer[ready]) : m.kind = "Logout" => ready \in gone'
    BY <2>1 DEF LogoutInv
  <2>4. \A u \in Units : \A j \in ToSet(queue'[u]) :
          j \in ToSet(queue[u]) \/ /\ j.msg.kind = "Logout" => j.from \in gone'
                                   /\ u = "logout" => j.msg.kind = "Logout"
    <3>1. CASE UNCHANGED queue
      BY <3>1
    <3>2. ASSUME NEW m \in Message, m \in ToSet(toServer[ready]),
                 \A u \in Units : u # "header" => queue'[u] = queue[u],
                 \A u \in Units : ToSet(queue'[u]) \subseteq
                                     ToSet(queue[u]) \cup {[from |-> ready, msg |-> m]},
                 NEW u \in Units, NEW j \in ToSet(queue'[u])
          PROVE  j \in ToSet(queue[u]) \/ /\ j.msg.kind = "Logout" => j.from \in gone'
                                          /\ u = "logout" => j.msg.kind = "Logout"
      <4>1. CASE u = "header"
        <5>1. j \in ToSet(queue[u]) \/ (j.from = ready /\ j.msg = m)
          BY <3>2
        <5>. QED BY <2>3, <3>2, <4>1, <5>1
      <4>2. CASE u # "header"
        BY <3>2, <4>2
      <4>. QED BY <4>1, <4>2
    <3>. QED BY <2>1, <3>1, <3>2
  <2>. QED BY <1>0, <2>1, <2>2, <2>4, LogoutFrame
<1>3. CASE Handlers
  <2>1. gone' = gone /\ toServer' = toServer
    BY <1>3, HandlersMoves DEF historyVars, peerVars
  <2>2. PICK u \in Units :
          /\ queue[u] # <<>> /\ Head(queue[u]) \in ToSet(queue[u])
          /\ \/ \E v \in Units \ {u} : HandsOn(u, v)
             \/ Drops(u)
             \/ \E kind \in Answers, dc \in BOOLEAN : Replies(u, kind, dc)
             \/ LetsIn(u)
    BY <1>3, HandlersMoves
  <2>3. CASE \E v \in Units \ {u} : HandsOn(u, v)
    <3>1. PICK v \in Units \ {u} : /\ Forward(u, v)
                                   /\ v = "logout" => Head(queue[u]).msg.kind = "Logout"
      BY <2>3 DEF HandsOn
    <3>2. \A x \in Units : ToSet(queue'[x]) \subseteq
                             ToSet(queue[x]) \cup (IF x = v THEN {Head(queue[u])} ELSE {})
      BY <1>0, <2>2, <3>1, QueueHolds
    <3>3. Head(queue[u]).msg.kind = "Logout" => Head(queue[u]).from \in gone'
      BY <2>1, <2>2 DEF LogoutInv
    <3>4. \A x \in Units : \A j \in ToSet(queue'[x]) :
            j \in ToSet(queue[x]) \/ /\ j.msg.kind = "Logout" => j.from \in gone'
                                     /\ x = "logout" => j.msg.kind = "Logout"
      BY <3>1, <3>2, <3>3
    <3>. QED BY <1>0, <2>1, <3>4, LogoutFrame
  <2>4. CASE ~\E v \in Units \ {u} : HandsOn(u, v)
    <3>1. Pop(u)
      BY <2>2, <2>4 DEF Drops, Replies, LetsIn
    <3>2. \A x \in Units : ToSet(queue'[x]) \subseteq ToSet(queue[x])
      BY <1>0, <2>2, <3>1, QueueHolds
    <3>. QED BY <1>0, <2>1, <3>2, LogoutFrame
  <2>. QED BY <2>3, <2>4
<1>4. ASSUME NEW c \in Clients, PeerSend(c) PROVE LogoutInv'
  <2>1. UNCHANGED queue
    BY <1>4 DEF PeerSend
  <2>2. PICK b \in Bodies :
          LET m == [kind |-> b.kind, fault |-> b.fault, num |-> peer[c].seq]
          IN /\ m \in Message /\ toServer' = [toServer EXCEPT ![c] = Append(@, m)]
             /\ gone' = IF b.kind = "Logout" THEN gone \cup {c} ELSE gone
    BY <1>4, PeerSendSteps
  <2> DEFINE m == [kind |-> b.kind, fault |-> b.fault, num |-> peer[c].seq]
  <2>3. toServer \in [Clients -> Seq(Message)] /\ m \in Message /\ m.kind = b.kind
        /\ toServer' = [toServer EXCEPT ![c] = Append(@, m)]
    BY <1>0, <2>2 DEF PeerTypes
  <2> HIDE DEF m
  <2>4. ToSet(Append(toServer[c], m)) = ToSet(toServer[c]) \cup {m}
    BY <2>3, Appended
  <2>5. \A d \in Clients : \A x \in ToSet(toServer'[d]) : x \in ToSet(toServer[d]) \/ (d = c /\ x = m)
    BY <2>3, <2>4
  <2>6. gone \subseteq gone' /\ (m.kind = "Logout" => c \in gone')
    BY <2>2, <2>3
  <2>7. \A d \in Clients : \A x \in ToSet(toServer'[d]) :
          x \in ToSet(toServer[d]) \/ (x.kind = "Logout" => d \in gone')
    BY <2>5, <2>6
  <2>8. \A u \in Units : \A j \in ToSet(queue'[u]) : j \in ToSet(queue[u])
    BY <2>1
  <2>. QED BY <1>0, <2>6, <2>7, <2>8, LogoutFrame
<1>5. CASE ~(ReadData \/ Handlers \/ \E c \in Clients : PeerSend(c))
  <2>1. UNCHANGED <<queue, toServer>>
    BY <1>5 DEF Next, vars, serverVars, peerVars, Input, Accept, Pull, ReadUnknown, ReadEnd, Removal,
                RemoveErase, RemoveNotify, Output, SendNumber, SendCount, Send, SendClosed, SendCheck,
                CheckHeartBeat, MarketFills, Peer, PeerReceive, PeerClose
  <2>2. gone \subseteq gone'
    BY <1>5 DEF Next, vars, historyVars, Input, Accept, Pull, ReadUnknown, ReadEnd, Removal,
                RemoveErase, RemoveNotify, Output, SendNumber, SendCount, Send, SendClosed, SendCheck,
                CheckHeartBeat, MarketFills, Peer, PeerReceive, PeerClose
  <2>. QED BY <1>1, <2>1, <2>2
<1>. QED BY <1>2, <1>3, <1>4, <1>5

\* A step that deals with one client alone.
LEMMA AliveFrame ==
  ASSUME AliveInv, NEW c, gone \subseteq gone', doubled => doubled',
         \A d \in Clients \ {c} :
           /\ peer'[d].state = peer[d].state /\ conn'[d].dc = conn[d].dc /\ conn'[d].open = conn[d].open
           /\ toServer'[d] = toServer[d]
           /\ ~doubled' /\ d \in ToSet(store) => d \in ToSet(store')
           /\ d \in ToSet(removing') => d \in ToSet(removing)
           /\ closing' = d => closing = d
           /\ ready' = d => ready = d,
         c \in gone' \/ Alive(c)'
  PROVE  AliveInv'
<1> SUFFICES ASSUME NEW d \in Clients \ gone' PROVE Alive(d)'
  BY DEF AliveInv
<1>1. CASE d = c
  BY <1>1
<1>2. CASE d # c
  <2>1. Alive(d) /\ d \in Clients \ {c}
    BY <1>2 DEF AliveInv
  <2>. QED BY <2>1 DEF Alive, Pending
<1>. QED BY <1>1, <1>2

\* A client the server may close is gone, or one was removed twice.
LEMMA AliveFacts ==
  ASSUME PeerTypes, AliveInv, NEW c \in Known
  PROVE  c \in gone \/ (/\ peer[c].state = "on"
                        /\ ~doubled /\ ready = c => toServer[c] # <<>>
                        /\ ~doubled => c \in ToSet(store) /\ ~Pending(c) /\ ~conn[c].dc /\ conn[c].open)
<1>1. CASE c \notin gone
  <2>1. Alive(c) /\ c \in Clients /\ peer[c].state # "off"
    BY <1>1 DEF AliveInv, Known
  <2>2. peer[c].state \in {"off", "on", "closed"}
    BY <2>1 DEF PeerTypes
  <2>. QED BY <2>1, <2>2 DEF Alive
<1>. QED BY <1>1

\* TCPInput gives up only clients that are gone.
LEMMA AliveInput == SessionTypes /\ KnownInv /\ ReuseInv /\ AliveInv /\ Input => AliveInv'
<1> SUFFICES ASSUME SessionTypes, KnownInv, ReuseInv, AliveInv, Input PROVE AliveInv'
  OBVIOUS
<1>0. ConnTypes /\ StoreTypes /\ PeerTypes /\ Rest /\ OnceInv /\ ListedInv /\ BlankInv
  BY DEF SessionTypes, KnownInv
<1>r. ready # None => ready \in Clients /\ ready \in Known
  BY <1>0 DEF Rest, ListedInv
<1>1. ASSUME NEW c \in Clients, Accept(c) PROVE AliveInv'
  <2>1. /\ conn' = [conn EXCEPT ![c].open = TRUE] /\ peer' = [peer EXCEPT ![c].state = "on"]
        /\ store' = Append(store, c) /\ peer[c].state = "off" /\ ready = None
        /\ UNCHANGED <<ready, removing, closing, toServer, gone, doubled>>
    BY <1>1 DEF Accept, historyVars
  <2>2. c \notin Known
    BY <2>1 DEF Known
  <2>3. closing # c /\ c \notin ToSet(removing)
    BY <1>0, <2>2, ClientsAssumption DEF ListedInv
  <2>4. conn[c] = Blank
    BY <1>0, <2>2 DEF BlankInv
  <2>5. ToSet(store') = ToSet(store) \cup {c}
    BY <1>0, <2>1, Appended DEF StoreTypes
  <2>6. /\ conn'[c].open = TRUE /\ conn'[c].dc = FALSE /\ peer'[c].state = "on"
        /\ \A d \in Clients \ {c} : conn'[d] = conn[d] /\ peer'[d] = peer[d]
    BY <1>0, <2>1, <2>4 DEF ConnTypes, PeerTypes, Blank
  <2>7. Alive(c)'
    BY <2>1, <2>3, <2>5, <2>6, ClientsAssumption DEF Alive, Pending
  <2>. QED BY <2>1, <2>5, <2>6, <2>7, AliveFrame
<1>2. ASSUME NEW c \in Clients, Pull(c) PROVE AliveInv'
  <2>1. /\ toServer[c] # <<>> \/ peer[c].state = "closed"
        /\ ready' = ready \/ (ready' = Entry(c) /\ ready' \in selector)
        /\ UNCHANGED <<conn, store, removing, closing, peer, toServer, gone, doubled>>
    BY <1>2 DEF Pull, historyVars, peerVars
  <2>2. CASE ready' = ready \/ ready' = c
    <3>1. c \in gone' \/ Alive(c)'
      BY <2>1, <2>2 DEF AliveInv, Alive, Pending
    <3>. QED BY <2>1, <2>2, <3>1, AliveFrame
  <2>3. CASE ~(ready' = ready \/ ready' = c)
    <3>1. PICK d \in Known : d = ready' /\ ~conn[d].open
      BY <1>0, <2>1, <2>3 DEF Entry, ReuseInv
    <3>2. d \in gone \/ (doubled /\ peer[d].state = "on")
      BY <1>0, <3>1, AliveFacts
    <3>3. d \in gone' \/ Alive(d)'
      BY <2>1, <3>2 DEF Alive
    <3>. QED BY <2>1, <3>1, <3>3, AliveFrame
  <2>. QED BY <2>2, <2>3
<1>3. ASSUME ReadUnknown PROVE AliveInv'
  <2>1. /\ ready # None /\ ready \notin ToSet(store) /\ conn' = [conn EXCEPT ![ready].open = FALSE]
        /\ ready' = None
        /\ UNCHANGED <<store, removing, closing, peer, toServer, gone, doubled>>
    BY <1>3 DEF ReadUnknown, historyVars, peerVars
  <2>2. PICK c \in Known : c = ready
    BY <1>r, <2>1
  <2>3. c \in gone \/ (doubled /\ peer[c].state = "on")
    BY <1>0, <2>1, <2>2, AliveFacts
  <2>4. \A d \in Clients \ {c} : conn'[d] = conn[d]
    BY <1>0, <2>1, <2>2 DEF ConnTypes
  <2>5. c \in gone' \/ Alive(c)'
    BY <1>r, <2>1, <2>2, <2>3, ClientsAssumption DEF Alive
  <2>6. \A d \in Clients : ready' # d
    BY <2>1, ClientsAssumption
  <2>. QED BY <2>1, <2>4, <2>5, <2>6, AliveFrame
<1>4. ASSUME ReadEnd PROVE AliveInv'
  <2>1. /\ ready # None /\ RemoveClient(ready) /\ (~conn[ready].open \/ toServer[ready] = <<>>)
        /\ ready' = None
        /\ UNCHANGED <<store, closing, peer, toServer, gone, doubled>>
    BY <1>4 DEF ReadEnd, historyVars, peerVars
  <2>2. PICK c \in Known : c = ready /\ c \in Clients
    BY <1>r, <2>1
  <2>3. c \in gone \/ (doubled /\ peer[c].state = "on")
    BY <1>0, <2>1, <2>2, AliveFacts
  <2>4. /\ \A d \in Clients \ {c} : conn'[d] = conn[d]
        /\ ToSet(removing') = ToSet(removing) \cup {c}
    BY <2>1, <2>2, RemoveSteps DEF Changed
  <2>5. \A d \in Clients : ready' # d
    BY <2>1, ClientsAssumption
  <2>6. c \in gone' \/ Alive(c)'
    BY <2>1, <2>2, <2>3, <2>5 DEF Alive
  <2>. QED BY <2>1, <2>4, <2>5, <2>6, AliveFrame
<1>5. ASSUME ReadData PROVE AliveInv'
  <2>1. PICK c \in Clients : c = ready
    BY <1>5, ReadDataMoves
  <2>2. /\ ready' = None /\ toServer' = [toServer EXCEPT ![c] = <<>>]
        /\ UNCHANGED <<store, removing, closing, peer, gone, doubled>>
    BY <1>5, <2>1, ReadDataMoves
  <2>3. /\ \A d \in Clients \ {c} : conn'[d] = conn[d]
        /\ conn'[c].open = conn[c].open /\ conn'[c].dc = conn[c].dc
    BY <1>5, <2>1, ReadDataMoves DEF Changed
  <2>4. \A d \in Clients \ {c} : toServer'[d] = toServer[d]
    BY <1>0, <2>2 DEF PeerTypes
  <2>5. \A d \in Clients : ready' # d
    BY <2>2, ClientsAssumption
  <2>6. c \in gone' \/ Alive(c)'
    BY <2>2, <2>3, <2>5 DEF AliveInv, Alive, Pending
  <2>. QED BY <2>2, <2>3, <2>4, <2>5, <2>6, AliveFrame
<1>. QED BY <1>1, <1>2, <1>3, <1>4, <1>5 DEF Input

\* So does the pool.
LEMMA AliveOutput == \A w \in Workers : SessionTypes /\ KnownInv /\ AliveInv /\ Output(w) => AliveInv'
<1> SUFFICES ASSUME NEW w \in Workers, SessionTypes, KnownInv, AliveInv, Output(w) PROVE AliveInv'
  OBVIOUS
<1>0. PeerTypes /\ HeldInv
  BY DEF SessionTypes, KnownInv
<1>1. UNCHANGED <<store, closing, ready, peer, toServer, gone, doubled>>
  BY DEF Output, SendNumber, SendCount, Send, SendClosed, SendCheck, historyVars, peerVars
<1>2. ASSUME SendNumber(w) \/ SendCount(w) PROVE AliveInv'
  <2>1. PICK c \in Clients : \E seq : Changed(conn', c, conn[c].open, conn[c].logged, conn[c].dc, seq)
    BY <1>2, SendNumberSteps, SendCountSteps
  <2>2. \A d \in Clients : conn'[d].open = conn[d].open /\ conn'[d].dc = conn[d].dc
    BY <2>1 DEF Changed
  <2>3. UNCHANGED removing
    BY <1>2 DEF SendNumber, SendCount
  <2>4. c \in gone' \/ Alive(c)'
    BY <1>1, <2>2, <2>3 DEF AliveInv, Alive, Pending
  <2>. QED BY <1>1, <2>2, <2>3, <2>4, AliveFrame
<1>3. ASSUME ~(SendNumber(w) \/ SendCount(w)) PROVE AliveInv'
  <2>1. PICK c \in Known : c = worker[w].to
    BY <1>0, <1>3 DEF Output, Send, SendClosed, SendCheck, HeldInv
  <2>2. c \in Clients
    BY <2>1 DEF Known
  <2>3. CASE UNCHANGED <<conn, removing>>
    <3>1. c \in gone' \/ Alive(c)'
      BY <1>1, <2>2, <2>3 DEF AliveInv, Alive, Pending
    <3>. QED BY <1>1, <2>3, <3>1, AliveFrame
  <2>4. CASE ~UNCHANGED <<conn, removing>>
    <3>1. /\ \A d \in Clients \ {c} : conn'[d] = conn[d]
          /\ ToSet(removing') = ToSet(removing) \cup {c}
          /\ peer[c].state = "closed" \/ ~conn[c].open \/ conn[c].dc
      <4>1. CASE Send(w)
        <5>1. RemoveClient(c) /\ peer[c].state = "closed"
          BY <2>1, <2>4, <4>1, SendSteps
        <5>. QED BY <2>2, <5>1, RemoveSteps DEF Changed
      <4>2. CASE SendClosed(w) \/ SendCheck(w)
        BY <2>1, <2>4, <4>2, SendDoneSteps DEF Changed
      <4>. QED BY <1>3, <4>1, <4>2 DEF Output
    <3>2. c \in gone \/ (doubled /\ peer[c].state = "on")
      BY <1>0, <2>1, <3>1, AliveFacts
    <3>3. c \in gone' \/ Alive(c)'
      BY <1>1, <3>2 DEF Alive
    <3>. QED BY <1>1, <3>1, <3>3, AliveFrame
  <2>. QED BY <2>3, <2>4
<1>. QED BY <1>2, <1>3

\* So do the others.
LEMMA AliveOthers ==
  ASSUME SessionTypes, KnownInv, LogoutInv, AliveInv,
         \/ Handlers \/ Removal
         \/ \E c \in Clients : CheckHeartBeat(c) \/ MarketFills(c) \/ Peer(c)
  PROVE  AliveInv'
<1>0. ConnTypes /\ StoreTypes /\ PeerTypes /\ HeldInv /\ ListedInv
  BY DEF SessionTypes, KnownInv
<1>1. ASSUME Handlers PROVE AliveInv'
  <2>1. UNCHANGED <<store, removing, closing, ready, peer, toServer, gone, doubled>>
    BY <1>1, HandlersMoves DEF historyVars, peerVars
  <2>2. PICK u \in Units :
          /\ Head(queue[u]) \in ToSet(queue[u]) /\ Head(queue[u]).from \in Clients
          /\ UNCHANGED conn \/ \E logged, dc, seq :
               /\ Changed(conn', Head(queue[u]).from, conn[Head(queue[u]).from].open, logged, dc, seq)
               /\ dc # conn[Head(queue[u]).from].dc => u = "logout"
    BY <1>1, HandlersChange
  <2>3. PICK c \in Clients : c = Head(queue[u]).from
    BY <2>2
  <2>4. /\ \A d \in Clients \ {c} : conn'[d] = conn[d]
        /\ conn'[c].open = conn[c].open
        /\ conn'[c].dc # conn[c].dc => u = "logout"
    BY <2>2, <2>3 DEF Changed
  <2>5. u = "logout" => c \in gone
    BY <2>2, <2>3 DEF LogoutInv
  <2>6. c \in gone' \/ Alive(c)'
    BY <2>1, <2>4, <2>5 DEF AliveInv, Alive, Pending
  <2>. QED BY <2>1, <2>4, <2>6, AliveFrame
<1>2. ASSUME RemoveErase PROVE AliveInv'
  <2>1. PICK c \in Clients :
          /\ c \in ToSet(removing) /\ closing' = c /\ ToSet(removing) = {c} \cup ToSet(removing')
          /\ \/ ToSet(store') = ToSet(store) \ {c} /\ UNCHANGED doubled
             \/ doubled' = TRUE
    BY <1>2, EraseSteps
  <2>2. UNCHANGED <<conn, ready, peer, toServer, gone>>
    BY <1>2 DEF RemoveErase, peerVars
  <2>3. c \in Known
    BY <1>0, <2>1 DEF ListedInv
  <2>4. c \in gone \/ (doubled /\ peer[c].state = "on")
    BY <1>0, <2>1, <2>3, AliveFacts DEF Pending
  <2>5. c \in gone' \/ Alive(c)'
    BY <2>1, <2>2, <2>4 DEF Alive
  <2>. QED BY <2>1, <2>2, <2>5, AliveFrame
<1>3. ASSUME RemoveNotify PROVE AliveInv'
  <2>1. /\ closing \in Clients /\ conn' = [conn EXCEPT ![closing].open = FALSE] /\ closing' = None
        /\ UNCHANGED <<store, removing, ready, peer, toServer, gone, doubled>>
    BY <1>0, <1>3 DEF RemoveNotify, historyVars, peerVars, StoreTypes
  <2>2. PICK c \in Clients : c = closing
    BY <2>1
  <2>3. c \in Known
    BY <1>0, <2>2, ClientsAssumption DEF ListedInv
  <2>4. c \in gone \/ (doubled /\ peer[c].state = "on")
    BY <1>0, <2>2, <2>3, AliveFacts DEF Pending
  <2>5. c \in gone' \/ Alive(c)'
    BY <2>1, <2>4 DEF Alive
  <2>6. \A d \in Clients \ {c} : conn'[d] = conn[d]
    BY <1>0, <2>1, <2>2 DEF ConnTypes
  <2>. QED BY <2>1, <2>2, <2>5, <2>6, ClientsAssumption, AliveFrame
<1>4. ASSUME NEW c \in Clients, CheckHeartBeat(c) \/ MarketFills(c) PROVE AliveInv'
  <2>1. /\ UNCHANGED <<store, closing, ready, peer, toServer, doubled>>
        /\ \/ conn' = [conn EXCEPT ![c].test = TRUE] /\ UNCHANGED <<removing, gone>>
           \/ UNCHANGED <<conn, removing, gone>>
           \/ RemoveClient(c) /\ gone' = gone \cup {c}
    BY <1>4 DEF CheckHeartBeat, MarketFills, peerVars
  <2>2. CASE conn' = [conn EXCEPT ![c].test = TRUE] /\ UNCHANGED <<removing, gone>>
    <3>1. \A d \in Clients : conn'[d].open = conn[d].open /\ conn'[d].dc = conn[d].dc
      BY <1>0, <2>2 DEF ConnTypes
    <3>2. c \in gone' \/ Alive(c)'
      BY <2>1, <2>2, <3>1 DEF AliveInv, Alive, Pending
    <3>. QED BY <2>1, <2>2, <3>1, <3>2, AliveFrame
  <2>3. CASE UNCHANGED <<conn, removing, gone>>
    <3>1. c \in gone' \/ Alive(c)'
      BY <2>1, <2>3 DEF AliveInv, Alive, Pending
    <3>. QED BY <2>1, <2>3, <3>1, AliveFrame
  <2>4. CASE RemoveClient(c) /\ gone' = gone \cup {c}
    <3>1. /\ \A d \in Clients \ {c} : conn'[d] = conn[d]
          /\ ToSet(removing') = ToSet(removing) \cup {c}
      BY <2>4, RemoveSteps DEF Changed
    <3>. QED BY <2>1, <2>4, <3>1, AliveFrame
  <2>. QED BY <2>1, <2>2, <2>3, <2>4
<1>5. ASSUME NEW c \in Clients, Peer(c) PROVE AliveInv'
  <2>1. UNCHANGED <<conn, store, removing, closing, ready, doubled>>
    BY <1>5 DEF Peer, PeerSend, PeerReceive, PeerClose, serverVars, historyVars
  <2>2. /\ gone \subseteq gone' /\ \A d \in Clients \ {c} : peer'[d] = peer[d]
        /\ \/ PeerClose(c) /\ c \in gone'
           \/ PeerReceive(c) /\ UNCHANGED toServer /\ peer'[c].state = peer[c].state
           \/ PeerSend(c) /\ toServer' = [toServer EXCEPT ![c] = toServer'[c]]
              /\ peer'[c].state = peer[c].state /\ toServer'[c] # <<>>
    <3>1. CASE PeerClose(c)
      BY <3>1, PeerCloseSteps
    <3>2. CASE PeerReceive(c)
      <4>1. UNCHANGED <<toServer, gone>>
        BY <3>2 DEF PeerReceive, historyVars
      <4>. QED BY <3>2, <4>1, PeerReceiveSteps
    <3>3. CASE PeerSend(c)
      <4>1. PICK m \in Message :
              /\ toServer' = [toServer EXCEPT ![c] = Append(@, m)]
              /\ peer[c].state = "on" /\ peer'[c].state = "on" /\ gone \subseteq gone'
              /\ \A d \in Clients : d # c => peer'[d] = peer[d]
        BY <3>3, PeerSendSteps
      <4>2. toServer \in [Clients -> Seq(Message)]
        BY <1>0 DEF PeerTypes
      <4>3. Append(toServer[c], m) # <<>>
        BY <4>2, Appended
      <4>4. toServer'[c] = Append(toServer[c], m)
        BY <4>1, <4>2
      <4>. QED BY <3>3, <4>1, <4>3, <4>4
    <3>. QED BY <1>5, <3>1, <3>2, <3>3 DEF Peer
  <2>3. \A d \in Clients \ {c} : toServer'[d] = toServer[d]
    BY <1>0, <2>2 DEF PeerTypes, PeerClose
  <2>4. c \in gone' \/ Alive(c)'
    BY <2>1, <2>2 DEF AliveInv, Alive, Pending
  <2>. QED BY <2>1, <2>2, <2>3, <2>4, AliveFrame
<1>. QED BY <1>1, <1>2, <1>3, <1>4, <1>5 DEF Removal

\* Every step keeps the sessions alive.
LEMMA AliveStep ==
  SessionTypes /\ KnownInv /\ ReuseInv /\ LogoutInv /\ AliveInv /\ [Next]_vars => AliveInv'
<1>1. ASSUME AliveInv, UNCHANGED vars PROVE AliveInv'
  BY <1>1 DEF vars, serverVars, peerVars, historyVars, AliveInv, Alive, Pending
<1>. QED BY <1>1, AliveInput, AliveOutput, AliveOthers DEF Next

\* Whatever the other clients do, a session stays open until its own client logs
\* out, closes its socket or fails the heartbeat, unless a client was removed
\* twice.
THEOREM SessionsKept == Spec => []SessionKept
<1> DEFINE I == SessionTypes /\ KnownInv /\ ReuseInv /\ LogoutInv /\ AliveInv
<1>1. Init => I
  BY TypesStart, KnownStart, ReuseStart, KeptStart
<1>2. I /\ [Next]_vars => I'
  BY TypesStep, KnownStep, ReuseStep, LogoutStep, AliveStep
<1>3. I => SessionKept
  BY DEF AliveInv, Alive, SessionKept
<1>. QED BY <1>1, <1>2, <1>3, PTL DEF Spec

-----------------------------------------------------------------------------
(* How much is on its way *)

\* Messages of a client nobody has handled, and answers nobody has taken.
Of(c) == {j \in Jobs : j.from = c}
To(c) == {a \in Answering : a.to = c}
InUnits(f) == f["header"] + f["router"] + f["logon"] + f["logout"] + f["heartbeat"] + f["market"]
Held(c) == [u \in Units |-> Count(queue[u], Of(c))]
Unhandled(c) == InUnits(Held(c))
Owed(c) == Count(out, To(c))
Waiting(c) == Unhandled(c) + Owed(c)

\* Threads of the pool that have an answer for the client in hand.
Stage(pc, c) == {w \in Workers : worker[w].pc = pc /\ worker[w].to = c}
Counting(c) == Cardinality(Stage("count", c))
Sending(c) == Cardinality(Stage("send", c))

One(b) == IF b THEN 1 ELSE 0

\* The sum moves with the one unit that does.
LEMMA UnitMoves ==
  ASSUME NEW f \in [Units -> Nat], NEW g \in [Units -> Nat], NEW u \in Units,
         \A v \in Units : v # u => g[v] = f[v]
  PROVE  InUnits(f) \in Nat /\ InUnits(g) - InUnits(f) = g[u] - f[u]
<1>1. /\ f["header"] \in Nat /\ f["router"] \in Nat /\ f["logon"] \in Nat
      /\ f["logout"] \in Nat /\ f["heartbeat"] \in Nat /\ f["market"] \in Nat
  BY DEF Units
<1>2. /\ g["header"] \in Nat /\ g["router"] \in Nat /\ g["logon"] \in Nat
      /\ g["logout"] \in Nat /\ g["heartbeat"] \in Nat /\ g["market"] \in Nat
  BY DEF Units
<1>3. InUnits(f) \in Nat
  BY <1>1 DEF InUnits
<1>4. \/ u = "header" \/ u = "router" \/ u = "logon" \/ u = "logout" \/ u = "heartbeat"
      \/ u = "market"
  BY DEF Units
<1>5. /\ u # "header" => g["header"] = f["header"]
      /\ u # "router" => g["router"] = f["router"]
      /\ u # "logon" => g["logon"] = f["logon"]
      /\ u # "logout" => g["logout"] = f["logout"]
      /\ u # "heartbeat" => g["heartbeat"] = f["heartbeat"]
      /\ u # "market" => g["market"] = f["market"]
  BY DEF Units
<1>6. InUnits(g) - InUnits(f) = g[u] - f[u]
  BY <1>1, <1>2, <1>4, <1>5 DEF InUnits
<1>. QED BY <1>3, <1>6

\* There is nothing in the units when each is empty, and conversely.
LEMMA UnitsEmpty ==
  ASSUME NEW f \in [Units -> Nat]
  PROVE  InUnits(f) \in Nat /\ (InUnits(f) = 0 <=> \A u \in Units : f[u] = 0)
<1>1. /\ f["header"] \in Nat /\ f["router"] \in Nat /\ f["logon"] \in Nat
      /\ f["logout"] \in Nat /\ f["heartbeat"] \in Nat /\ f["market"] \in Nat
  BY DEF Units
<1>2. /\ InUnits(f) \in Nat
      /\ InUnits(f) = 0 <=> /\ f["header"] = 0 /\ f["router"] = 0 /\ f["logon"] = 0
                            /\ f["logout"] = 0 /\ f["heartbeat"] = 0 /\ f["market"] = 0
  <2>1. PICK a \in Nat : a = f["header"]
    BY <1>1
  <2>2. PICK b \in Nat : b = f["router"]
    BY <1>1
  <2>3. PICK c \in Nat : c = f["logon"]
    BY <1>1
  <2>4. PICK d \in Nat : d = f["logout"]
    BY <1>1
  <2>5. PICK e \in Nat : e = f["heartbeat"]
    BY <1>1
  <2>6. PICK h \in Nat : h = f["market"]
    BY <1>1
  <2>7. InUnits(f) = a + b + c + d + e + h
    BY <2>1, <2>2, <2>3, <2>4, <2>5, <2>6 DEF InUnits
  <2>8. a + b + c + d + e + h \in Nat
        /\ (a + b + c + d + e + h = 0 <=> a = 0 /\ b = 0 /\ c = 0 /\ d = 0 /\ e = 0 /\ h = 0)
    OBVIOUS
  <2>. QED BY <2>1, <2>2, <2>3, <2>4, <2>5, <2>6, <2>7, <2>8
<1>3. (\A u \in Units : f[u] = 0) <=> /\ f["header"] = 0 /\ f["router"] = 0 /\ f["logon"] = 0
                                      /\ f["logout"] = 0 /\ f["heartbeat"] = 0 /\ f["market"] = 0
  BY DEF Units
<1>. QED BY <1>2, <1>3

\* What is measured is a number, and zero when there is nothing.
LEMMA Measured ==
  ASSUME QueueTypes, NEW c \in Clients
  PROVE  /\ Held(c) \in [Units -> Nat] /\ Unhandled(c) \in Nat /\ Owed(c) \in Nat
         /\ Unhandled(c) = 0 <=> \A u \in Units : \A j \in ToSet(queue[u]) : j.from # c
         /\ Owed(c) = 0 <=> \A a \in ToSet(out) : a.to # c
<1>1. ASSUME NEW u \in Units
      PROVE  /\ Count(queue[u], Of(c)) \in Nat
             /\ Count(queue[u], Of(c)) = 0 <=> \A j \in ToSet(queue[u]) : j.from # c
  <2>1. queue[u] \in Seq(Jobs) /\ ToSet(queue[u]) \subseteq Jobs
    BY UnitTyped, Contents
  <2>2. /\ Count(queue[u], Of(c)) \in Nat
        /\ Count(queue[u], Of(c)) = 0 <=> ToSet(queue[u]) \cap Of(c) = {}
    BY <2>1, CountIs
  <2>. QED BY <2>1, <2>2 DEF Of
<1>2. Held(c) \in [Units -> Nat]
  BY <1>1 DEF Held
<1>3. Unhandled(c) \in Nat
      /\ (Unhandled(c) = 0 <=> \A u \in Units : \A j \in ToSet(queue[u]) : j.from # c)
  <2>1. Unhandled(c) \in Nat /\ (Unhandled(c) = 0 <=> \A u \in Units : Held(c)[u] = 0)
    BY <1>2, UnitsEmpty DEF Unhandled
  <2>2. \A u \in Units : Held(c)[u] = Count(queue[u], Of(c))
    BY DEF Held
  <2>. QED BY <1>1, <2>1, <2>2
<1>4. out \in Seq(Answering) /\ ToSet(out) \subseteq Answering
  BY OutSteps, Contents
<1>5. Owed(c) \in Nat /\ (Owed(c) = 0 <=> ToSet(out) \cap To(c) = {})
  BY <1>4, CountIs DEF Owed
<1>. QED BY <1>2, <1>3, <1>4, <1>5 DEF To

\* A queue of a unit grows at its end, or loses its head.
LEMMA HeldSteps ==
  ASSUME QueueTypes, QueueTypes', NEW c \in Clients, NEW u \in Units,
         \A v \in Units : v # u => queue'[v] = queue[v]
  PROVE  /\ \A job \in Jobs : queue'[u] = Append(queue[u], job) =>
              Unhandled(c)' = Unhandled(c) + One(job.from = c)
         /\ queue[u] # <<>> /\ queue'[u] = Tail(queue[u]) =>
              Unhandled(c) = Unhandled(c)' + One(Head(queue[u]).from = c)
<1>1. Held(c) \in [Units -> Nat] /\ Unhandled(c) \in Nat
  BY Measured
<1>2. Held(c)' \in [Units -> Nat] /\ Unhandled(c)' \in Nat
  <2>1. \A v \in Units : queue'[v] \in Seq(Jobs)
    BY DEF QueueTypes
  <2>2. \A v \in Units : Count(queue'[v], Of(c)) \in Nat
    BY <2>1, CountIs
  <2>3. Held(c)' \in [Units -> Nat]
    BY <2>2 DEF Held, Of
  <2>. QED BY <2>3, UnitsEmpty DEF Unhandled
<1>3. \A v \in Units : v # u => Held(c)'[v] = Held(c)[v]
  BY DEF Held, Of
<1>4. Unhandled(c)' - Unhandled(c) = Held(c)'[u] - Held(c)[u]
  BY <1>1, <1>2, <1>3, UnitMoves DEF Unhandled
<1>5. Held(c)[u] = Count(queue[u], Of(c)) /\ Held(c)'[u] = Count(queue'[u], Of(c))
      /\ Held(c)[u] \in Nat /\ Held(c)'[u] \in Nat
  BY <1>1, <1>2 DEF Held, Of
<1>6. queue[u] \in Seq(Jobs)
  BY UnitTyped
<1>7. ASSUME NEW job \in Jobs, queue'[u] = Append(queue[u], job)
      PROVE  Unhandled(c)' = Unhandled(c) + One(job.from = c)
  <2>1. Count(queue'[u], Of(c)) = Count(queue[u], Of(c)) + (IF job \in Of(c) THEN 1 ELSE 0)
    BY <1>6, <1>7, CountAppended
  <2>2. job \in Of(c) <=> job.from = c
    BY DEF Of
  <2>. QED BY <1>1, <1>2, <1>4, <1>5, <2>1, <2>2 DEF One
<1>8. ASSUME queue[u] # <<>>, queue'[u] = Tail(queue[u])
      PROVE  Unhandled(c) = Unhandled(c)' + One(Head(queue[u]).from = c)
  <2>1. Count(queue[u], Of(c)) = Count(queue'[u], Of(c))
                                   + (IF Head(queue[u]) \in Of(c) THEN 1 ELSE 0)
    BY <1>6, <1>8, CountTaken
  <2>2. Head(queue[u]) \in Of(c) <=> Head(queue[u]).from = c
    BY <1>8, UnitTyped DEF Of
  <2>. QED BY <1>1, <1>2, <1>4, <1>5, <2>1, <2>2 DEF One
<1>. QED BY <1>7, <1>8

\* How the measures move.
LEMMA OwedSteps ==
  ASSUME QueueTypes, NEW d \in Clients
  PROVE  /\ \A c \in Clients, kind \in Answers :
              Answer(c, kind) => Owed(d)' = Owed(d) + One(d = c)
         /\ out # <<>> /\ out' = Tail(out) => Owed(d) = Owed(d)' + One(d = Head(out).to)
         /\ UNCHANGED out => Owed(d)' = Owed(d)
<1>1. out \in Seq(Answering)
  BY OutSteps
<1>2. ASSUME NEW c \in Clients, NEW kind \in Answers, Answer(c, kind)
      PROVE  Owed(d)' = Owed(d) + One(d = c)
  <2> DEFINE a == [to |-> c, kind |-> kind]
  <2>1. a \in Answering /\ (a \in To(d) <=> d = c)
    BY DEF Answering, To
  <2>2. out' = Append(out, a)
    BY <1>2 DEF Answer
  <2> HIDE DEF a
  <2>3. Count(Append(out, a), To(d)) = Count(out, To(d)) + (IF a \in To(d) THEN 1 ELSE 0)
    BY <1>1, <2>1, CountAppended
  <2>4. Owed(d)' = Count(out', To(d)) /\ Owed(d) = Count(out, To(d))
    BY DEF Owed, To, Answering
  <2>. QED BY <2>1, <2>2, <2>3, <2>4 DEF One
<1>3. ASSUME out # <<>>, out' = Tail(out) PROVE Owed(d) = Owed(d)' + One(d = Head(out).to)
  <2>1. Head(out) \in To(d) <=> d = Head(out).to
    BY <1>3, OutSteps DEF To
  <2>2. Count(out, To(d)) = Count(Tail(out), To(d)) + (IF Head(out) \in To(d) THEN 1 ELSE 0)
    BY <1>1, <1>3, CountTaken
  <2>3. Owed(d)' = Count(out', To(d)) /\ Owed(d) = Count(out, To(d))
    BY DEF Owed, To, Answering
  <2>. QED BY <1>3, <2>1, <2>2, <2>3 DEF One
<1>4. UNCHANGED out => Owed(d)' = Owed(d)
  BY DEF Owed, To, Answering
<1>. QED BY <1>2, <1>3, <1>4

\* What is unhandled moves with the queues of the units.
LEMMA UnhandledSteps ==
  ASSUME QueueTypes, QueueTypes', NEW d \in Clients
  PROVE  /\ UNCHANGED queue => Unhandled(d)' = Unhandled(d)
         /\ \A u \in Units : queue[u] # <<>> =>
              /\ Pop(u) => Unhandled(d) = Unhandled(d)' + One(Head(queue[u]).from = d)
              /\ \A v \in Units \ {u} : Forward(u, v) => Unhandled(d)' = Unhandled(d)
<1>1. UNCHANGED queue => Unhandled(d)' = Unhandled(d)
  BY DEF Unhandled, Held, Of
<1>2. ASSUME NEW u \in Units, queue[u] # <<>>, Pop(u)
      PROVE  Unhandled(d) = Unhandled(d)' + One(Head(queue[u]).from = d)
  BY <1>2, QueueSteps, HeldSteps DEF Queues
<1>3. ASSUME NEW u \in Units, queue[u] # <<>>, NEW v \in Units \ {u}, Forward(u, v)
      PROVE  Unhandled(d)' = Unhandled(d)
  <2> DEFINE job == Head(queue[u])
             n == IF job \in Of(d) THEN 1 ELSE 0
             f == Held(d)
             h == [x \in Units |-> Count(queue'[x], Of(d))]
             g == [x \in Units |-> IF x = u THEN h[u] ELSE f[x]]
  <2>1. /\ queue'[u] = Tail(queue[u]) /\ queue'[v] = Append(queue[v], job)
        /\ \A x \in Units : x # u /\ x # v => queue'[x] = queue[x]
    BY <1>3, QueueSteps
  <2>2. queue[u] \in Seq(Jobs) /\ queue[v] \in Seq(Jobs) /\ job \in Jobs
    BY <1>3, UnitTyped
  <2>3. Count(queue[u], Of(d)) = Count(queue'[u], Of(d)) + n
    BY <1>3, <2>1, <2>2, CountTaken
  <2>4. Count(queue'[v], Of(d)) = Count(queue[v], Of(d)) + n
    BY <2>1, <2>2, CountAppended
  <2>5. f \in [Units -> Nat] /\ \A x \in Units : f[x] = Count(queue[x], Of(d))
    BY Measured DEF Held
  <2>6. h \in [Units -> Nat]
    <3>1. \A x \in Units : queue'[x] \in Seq(Jobs)
      BY DEF QueueTypes
    <3>2. \A x \in Units : Count(queue'[x], Of(d)) \in Nat
      BY <3>1, CountIs
    <3>. QED BY <3>2
  <2>7. Unhandled(d) = InUnits(f) /\ Unhandled(d)' = InUnits(h)
    BY DEF Unhandled, Held, Of
  <2>8. /\ h[u] = Count(queue'[u], Of(d)) /\ h[v] = Count(queue'[v], Of(d))
        /\ \A x \in Units : x # u /\ x # v => h[x] = f[x]
    BY <2>1, <2>5
  <2> HIDE DEF f, h, n, job
  <2>9. /\ g \in [Units -> Nat] /\ g[u] = h[u] /\ g[v] = f[v]
        /\ \A x \in Units : x # u => g[x] = f[x]
        /\ \A x \in Units : x # v => h[x] = g[x]
    BY <2>5, <2>6, <2>8
  <2> HIDE DEF g
  <2>10. InUnits(f) \in Nat /\ InUnits(g) - InUnits(f) = g[u] - f[u]
    BY <2>5, <2>9, UnitMoves
  <2>11. InUnits(g) \in Nat /\ InUnits(h) - InUnits(g) = h[v] - g[v]
    BY <2>6, <2>9, UnitMoves
  <2>12. InUnits(h) \in Nat
    BY <2>6, UnitsEmpty
  <2>13. n \in Nat /\ f[u] \in Nat /\ h[u] \in Nat /\ f[v] \in Nat /\ h[v] \in Nat
         /\ f[u] = h[u] + n /\ h[v] = f[v] + n
    BY <2>3, <2>4, <2>5, <2>6, <2>8 DEF n
  <2>14. InUnits(h) = InUnits(f)
    BY <2>9, <2>10, <2>11, <2>12, <2>13
  <2>. QED BY <2>7, <2>14
<1>. QED BY <1>1, <1>2, <1>3

\* The pool: one thread changes its record.
LEMMA StageSteps ==
  ASSUME NEW w \in Workers, NEW r, Worked(worker', w, r), NEW pc, NEW d
  PROVE  /\ Cardinality(Stage(pc, d)) \in Nat /\ Cardinality(Stage(pc, d)') \in Nat
         /\ Cardinality(Stage(pc, d)') + One(worker[w].pc = pc /\ worker[w].to = d)
              = Cardinality(Stage(pc, d)) + One(r.pc = pc /\ r.to = d)
<1> DEFINE A == Stage(pc, d) \ {w}
           was == worker[w].pc = pc /\ worker[w].to = d
           is == r.pc = pc /\ r.to = d
<1>1. /\ Stage(pc, d) = IF was THEN A \cup {w} ELSE A
      /\ Stage(pc, d)' = IF is THEN A \cup {w} ELSE A
  BY DEF Stage, Worked
<1>2. IsFiniteSet(A) /\ w \notin A
  <2>1. A \subseteq Workers
    BY DEF Stage
  <2>. QED BY <2>1, WorkersAssumption, FS_Subset
<1> HIDE DEF A, was, is
<1>3. Cardinality(A) \in Nat /\ Cardinality(A \cup {w}) = Cardinality(A) + 1
  BY <1>2, FS_CardinalityType, FS_AddElement
<1>4. Cardinality(Stage(pc, d)) = Cardinality(A) + One(was)
  BY <1>1, <1>3 DEF One
<1>5. Cardinality(Stage(pc, d)') = Cardinality(A) + One(is)
  BY <1>1, <1>3 DEF One
<1>6. One(was) \in Nat /\ One(is) \in Nat
  BY DEF One
<1>7. Cardinality(Stage(pc, d)') + One(was) = Cardinality(Stage(pc, d)) + One(is)
  BY <1>3, <1>4, <1>5, <1>6
<1>. QED BY <1>3, <1>4, <1>5, <1>6, <1>7 DEF was, is

\* Nobody has anything of a client in hand when there is no such thread.
LEMMA StageIs ==
  ASSUME NEW pc, NEW d
  PROVE  /\ Cardinality(Stage(pc, d)) \in Nat
         /\ Cardinality(Stage(pc, d)) = 0 <=> \A w \in Workers : worker[w].pc = pc => worker[w].to # d
         /\ UNCHANGED worker => Cardinality(Stage(pc, d)') = Cardinality(Stage(pc, d))
<1>1. IsFiniteSet(Stage(pc, d))
  <2>1. Stage(pc, d) \subseteq Workers
    BY DEF Stage
  <2>. QED BY <2>1, WorkersAssumption, FS_Subset
<1>2. Cardinality(Stage(pc, d)) \in Nat /\ (Cardinality(Stage(pc, d)) = 0 <=> Stage(pc, d) = {})
  BY <1>1, FS_CardinalityType, FS_EmptySet
<1>3. UNCHANGED worker => Stage(pc, d)' = Stage(pc, d)
  BY DEF Stage
<1>. QED BY <1>2, <1>3 DEF Stage

-----------------------------------------------------------------------------
(* The two counters *)

\* Both ends have the connection, and nobody has given it up.
Sound(c) == conn[c].open /\ peer[c].state = "on" /\ ~Pending(c)

\* The server's counter is ahead by what it has not read, and before the Logon by
\* what it has not answered; the client's by what it has not received.
Balanced(c) ==
  conn[c].seq + Len(toServer[c]) + (IF conn[c].logged THEN 0 ELSE Waiting(c))
    = peer[c].seq + Len(toClient[c]) + Sending(c)

\* Before the Logon one message is on its way at most: the client waits for its
\* answer.
Load(c) == Len(toServer[c]) + Waiting(c) + Counting(c) + Sending(c) + Len(toClient[c])
Turn(c) == Load(c) <= One(peer[c].waits)

\* That message carries the number before the client's.
Numbered(c) ==
  /\ \A m \in ToSet(toServer[c]) : m.num + 1 = peer[c].seq
  /\ \A u \in Units : \A j \in ToSet(queue[u]) : j.from = c => j.msg.num + 1 = peer[c].seq

\* Nor has a Logon been accepted.
NoLogon(c) ==
  /\ ~peer[c].login
  /\ \A a \in ToSet(out) : a.to = c => a.kind # "Logon"
  /\ \A w \in Workers : worker[w].pc # "idle" /\ worker[w].to = c => worker[w].kind # "Logon"
  /\ \A m \in ToSet(toClient[c]) : m.kind # "Logon"

Steady(c) == /\ c \notin strayed => Balanced(c)
             /\ ~conn[c].logged => Turn(c) /\ Numbered(c) /\ NoLogon(c)
CountInv == \A c \in Clients : Sound(c) => Steady(c)

\* All of these are numbers.
Numbers == \A c \in Clients :
  /\ conn[c].seq \in Nat /\ peer[c].seq \in Nat
  /\ Len(toServer[c]) \in Nat /\ Len(toClient[c]) \in Nat
  /\ Unhandled(c) \in Nat /\ Owed(c) \in Nat /\ Counting(c) \in Nat /\ Sending(c) \in Nat

\* The types say so.
LEMMA NumbersTyped == SessionTypes => Numbers
<1> SUFFICES ASSUME SessionTypes, NEW c \in Clients
    PROVE  /\ conn[c].seq \in Nat /\ peer[c].seq \in Nat
           /\ Len(toServer[c]) \in Nat /\ Len(toClient[c]) \in Nat
           /\ Unhandled(c) \in Nat /\ Owed(c) \in Nat /\ Counting(c) \in Nat /\ Sending(c) \in Nat
  BY DEF Numbers
<1>1. conn[c].seq \in Nat /\ peer[c].seq \in Nat
  BY DEF SessionTypes, ConnTypes, PeerTypes
<1>2. toServer[c] \in Seq(Message) /\ toClient[c] \in Seq(Sent)
  BY DEF SessionTypes, PeerTypes, Sent
<1>3. Len(toServer[c]) \in Nat /\ Len(toClient[c]) \in Nat
  BY <1>2, Contents
<1>4. Unhandled(c) \in Nat /\ Owed(c) \in Nat
  BY Measured DEF SessionTypes
<1>5. Counting(c) \in Nat /\ Sending(c) \in Nat
  BY StageIs DEF Counting, Sending
<1>. QED BY <1>1, <1>3, <1>4, <1>5

\* They are numbers after a step, too.
LEMMA NumbersNext == SessionTypes /\ [Next]_vars => Numbers'
<1>1. SessionTypes' => Numbers'
  BY NumbersTyped, PTL
<1>. QED BY <1>1, TypesStep

\* And the queues keep their types.
LEMMA QueueNext == SessionTypes /\ [Next]_vars => QueueTypes'
BY TypesStep DEF SessionTypes

\* Nothing arrives for a unit but what the client had sent; no Logon answer joins
\* the others.
NoNewMessage(d) ==
  /\ ToSet(toServer'[d]) \subseteq ToSet(toServer[d])
  /\ \A u \in Units : \A j \in ToSet(queue'[u]) : j.from = d =>
       (\E v \in Units : j \in ToSet(queue[v])) \/ j.msg \in ToSet(toServer[d])
NoNewLogon(d) ==
  /\ \A a \in ToSet(out') : a.to = d => a \in ToSet(out) \/ a.kind # "Logon"
  /\ \A w \in Workers : worker'[w].pc # "idle" /\ worker'[w].to = d =>
       \/ \E v \in Workers : /\ worker[v].pc # "idle" /\ worker[v].to = d
                             /\ worker[v].kind = worker'[w].kind
       \/ \E a \in ToSet(out) : a.to = d /\ a.kind = worker'[w].kind
  /\ \A m \in ToSet(toClient'[d]) :
       \/ m \in ToSet(toClient[d])
       \/ \E v \in Workers : worker[v].pc # "idle" /\ worker[v].to = d /\ worker[v].kind = m.kind

\* Then the messages on their way keep their numbers.
LEMMA NumberedKept ==
  ASSUME NEW d, Numbered(d), NoNewMessage(d), peer'[d].seq = peer[d].seq
  PROVE  Numbered(d)'
BY DEF Numbered, NoNewMessage

\* And there is still no accepted Logon.
LEMMA NoLogonKept ==
  ASSUME NEW d, NoLogon(d), NoNewLogon(d), peer'[d].login = peer[d].login
  PROVE  NoLogon(d)'
BY DEF NoLogon, NoNewLogon

\* Nothing new.
LEMMA NothingNew ==
  ASSUME NEW d
  PROVE  /\ UNCHANGED <<toServer, queue>> => NoNewMessage(d)
         /\ UNCHANGED <<out, worker, toClient>> => NoNewLogon(d)
BY DEF NoNewMessage, NoNewLogon

\* What a step leaves as it is.
StillCounted(d) ==
  /\ Waiting(d)' = Waiting(d) /\ Counting(d)' = Counting(d) /\ Sending(d)' = Sending(d)
  /\ toServer'[d] = toServer[d] /\ toClient'[d] = toClient[d]
StillEnds(d) ==
  /\ conn'[d].seq = conn[d].seq /\ conn'[d].logged = conn[d].logged
  /\ peer'[d].seq = peer[d].seq /\ peer'[d].login = peer[d].login /\ peer'[d].waits = peer[d].waits

\* A client the step does not touch.
LEMMA SteadyKept ==
  ASSUME NEW d, Steady(d), StillCounted(d), StillEnds(d), d \in strayed => d \in strayed',
         NoNewMessage(d), NoNewLogon(d)
  PROVE  Steady(d)'
<1>1. d \notin strayed' => Balanced(d)'
  BY DEF Steady, StillCounted, StillEnds, Balanced
<1>2. ASSUME ~conn'[d].logged PROVE Turn(d)' /\ Numbered(d)' /\ NoLogon(d)'
  <2>1. Turn(d) /\ Numbered(d) /\ NoLogon(d)
    BY <1>2 DEF Steady, StillEnds
  <2>2. Turn(d)'
    BY <2>1 DEF StillCounted, StillEnds, Turn, Load, One
  <2>. QED BY <2>1, <2>2, NumberedKept, NoLogonKept DEF StillEnds
<1>. QED BY <1>1, <1>2 DEF Steady

\* The queues, the pool and the bytes stay as they are.
LEMMA CountedFrame ==
  ASSUME SessionTypes, NEW d \in Clients, UNCHANGED <<queue, out, worker, toServer, toClient>>
  PROVE  StillCounted(d) /\ NoNewMessage(d) /\ NoNewLogon(d)
<1>1. Unhandled(d)' = Unhandled(d)
  BY DEF Unhandled, Held, Of
<1>2. Owed(d)' = Owed(d)
  BY DEF Owed, To, Answering
<1>3. Counting(d)' = Counting(d) /\ Sending(d)' = Sending(d)
  BY StageIs DEF Counting, Sending
<1>. QED BY <1>1, <1>2, <1>3, NothingNew DEF StillCounted, Waiting

\* At the start nobody is connected.
LEMMA CountStart == Init => CountInv
BY DEF Init, CountInv, Sound

\* A step that moves nothing, and gives up or closes whom it touches.
LEMMA CountFrame ==
  ASSUME SessionTypes, CountInv, UNCHANGED <<queue, out, worker, toServer, toClient, strayed>>,
         \A d \in Clients : Sound(d)' => Sound(d) /\ StillEnds(d)
  PROVE  CountInv'
<1> SUFFICES ASSUME NEW d \in Clients, Sound(d)' PROVE Steady(d)'
  BY DEF CountInv
<1>1. Steady(d) /\ StillEnds(d)
  BY DEF CountInv
<1>. QED BY <1>1, CountedFrame, SteadyKept

\* TCPInput reads a message.
LEMMA CountRead == SessionTypes /\ CountInv /\ ReadData /\ Numbers' /\ QueueTypes' => CountInv'
<1> SUFFICES ASSUME SessionTypes, CountInv, ReadData, Numbers', QueueTypes', NEW d \in Clients, Sound(d)'
    PROVE  Steady(d)'
  BY DEF CountInv
<1>0. PeerTypes /\ QueueTypes /\ Numbers
  BY NumbersTyped DEF SessionTypes
<1>1. PICK c \in Clients : c = ready
  BY ReadDataMoves
<1>2. /\ toServer[c] # <<>> /\ toServer' = [toServer EXCEPT ![c] = <<>>]
      /\ strayed' = IF Len(toServer[c]) > 1 THEN strayed \cup {c} ELSE strayed
      /\ UNCHANGED <<store, selector, reuses, edge, worker, removing, closing, up, peer, toClient, filled,
                     gone, doubled>>
  BY <1>1, ReadDataMoves
<1>3. /\ \A x \in Clients : x # c => conn'[x] = conn[x]
      /\ conn'[c].open = conn[c].open /\ conn'[c].logged = conn[c].logged
      /\ conn'[c].seq = IF conn[c].logged THEN conn[c].seq + 1 ELSE conn[c].seq
  BY <1>1, ReadDataMoves DEF Changed
<1>4. Sound(d) /\ Steady(d)
  <2>1. Sound(d)
    BY <1>2, <1>3 DEF Sound, Pending
  <2>. QED BY <2>1 DEF CountInv
<1>5. /\ toServer'[c] = <<>> /\ \A x \in Clients : x # c => toServer'[x] = toServer[x]
      /\ toServer[c] \in Seq(Message)
  BY <1>0, <1>2 DEF PeerTypes
<1>6. Len(toServer[c]) \in Nat /\ Len(toServer[c]) # 0 /\ Len(toServer'[c]) = 0 /\ ToSet(toServer'[c]) = {}
  BY <1>2, <1>5, Contents
<1>7. /\ \/ Unhandled(d)' = Unhandled(d) /\ Owed(d)' = Owed(d) + One(d = c)
         \/ Unhandled(d)' = Unhandled(d) + One(d = c) /\ Owed(d)' = Owed(d)
      /\ NoNewMessage(d) /\ NoNewLogon(d)
  <2>1. CASE UNCHANGED queue /\ Answer(c, "Reject")
    <3>1. "Reject" \in Answers /\ ToSet(out') = ToSet(out) \cup {[to |-> c, kind |-> "Reject"]}
      BY <1>0, <2>1, OutHolds DEF Answers
    <3>2. Unhandled(d)' = Unhandled(d) /\ Owed(d)' = Owed(d) + One(d = c)
      BY <1>0, <2>1, <3>1, UnhandledSteps, OwedSteps
    <3>3. NoNewMessage(d)
      BY <1>5, <1>6, <2>1 DEF NoNewMessage
    <3>4. NoNewLogon(d)
      BY <1>2, <3>1 DEF NoNewLogon
    <3>. QED BY <3>2, <3>3, <3>4
  <2>2. CASE ~(UNCHANGED queue /\ Answer(c, "Reject"))
    <3>1. PICK m \in Message :
            /\ m \in ToSet(toServer[c]) /\ UNCHANGED out /\ [from |-> c, msg |-> m] \in Jobs
            /\ queue'["header"] = Append(queue["header"], [from |-> c, msg |-> m])
            /\ \A u \in Units : u # "header" => queue'[u] = queue[u]
            /\ \A u \in Units : ToSet(queue'[u]) \subseteq ToSet(queue[u]) \cup {[from |-> c, msg |-> m]}
      BY <1>1, <2>2, ReadDataMoves
    <3> DEFINE job == [from |-> c, msg |-> m]
    <3>2. job \in Jobs /\ job.from = c /\ job.msg = m /\ "header" \in Units
      BY <3>1 DEF Units
    <3>3. Unhandled(d)' = Unhandled(d) + One(job.from = d)
      BY <1>0, <3>1, <3>2, HeldSteps
    <3>4. Owed(d)' = Owed(d)
      BY <1>0, <3>1, OwedSteps
    <3>5. NoNewMessage(d)
      BY <1>5, <1>6, <3>1 DEF NoNewMessage
    <3>6. NoNewLogon(d)
      BY <1>2, <3>1, NothingNew
    <3>7. One(job.from = d) = One(d = c)
      BY <3>2 DEF One
    <3>. QED BY <3>3, <3>4, <3>5, <3>6, <3>7
  <2>. QED BY <2>1, <2>2
<1>8. Counting(d)' = Counting(d) /\ Sending(d)' = Sending(d)
  BY <1>2, StageIs DEF Counting, Sending
<1>9. CASE d # c
  <2>1. StillCounted(d)
    BY <1>0, <1>2, <1>5, <1>7, <1>8, <1>9 DEF StillCounted, Waiting, One, Numbers
  <2>2. StillEnds(d)
    BY <1>2, <1>3, <1>9 DEF StillEnds
  <2>. QED BY <1>2, <1>4, <1>7, <2>1, <2>2, SteadyKept
<1>10. CASE d = c
  <2>1. Waiting(d)' = Waiting(d) + 1 /\ Waiting(d) \in Nat
    BY <1>0, <1>7, <1>10 DEF Waiting, One, Numbers
  <2>2. PICK q \in Nat, p \in Nat, s \in Nat, n \in Nat, k \in Nat, t \in Nat, x \in Nat :
          /\ q = conn[d].seq /\ p = peer[d].seq /\ s = Len(toServer[d]) /\ n = Waiting(d)
          /\ k = Counting(d) /\ t = Len(toClient[d]) /\ x = Sending(d)
    BY <1>0, <2>1 DEF Numbers
  <2>a. s # 0 /\ Len(toServer'[d]) = 0 /\ Waiting(d)' = n + 1 /\ peer'[d] = peer[d]
        /\ Counting(d)' = k /\ Sending(d)' = x /\ Len(toClient'[d]) = t
        /\ conn'[d].logged = conn[d].logged
        /\ conn'[d].seq = IF conn[d].logged THEN q + 1 ELSE q
    BY <1>2, <1>3, <1>6, <1>8, <1>10, <2>1, <2>2
  <2>3. ASSUME d \notin strayed' PROVE Balanced(d)'
    <3>1. ~(s > 1) /\ d \notin strayed
      BY <1>2, <1>10, <2>2, <2>3
    <3>2. s = 1
      BY <2>a, <3>1
    <3>3. q + s + (IF conn[d].logged THEN 0 ELSE n) = p + t + x
      BY <1>4, <2>2, <3>1 DEF Steady, Balanced
    <3>4. (IF conn[d].logged THEN q + 1 ELSE q) + 0 + (IF conn[d].logged THEN 0 ELSE n + 1) = p + t + x
      BY <3>2, <3>3
    <3>. QED BY <2>2, <2>a, <3>4 DEF Balanced
  <2>4. ASSUME ~conn'[d].logged PROVE Turn(d)' /\ Numbered(d)' /\ NoLogon(d)'
    <3>1. Turn(d) /\ Numbered(d) /\ NoLogon(d)
      BY <1>4, <2>4, <2>a DEF Steady
    <3>2. s + n + k + x + t <= One(peer[d].waits)
      BY <2>2, <3>1 DEF Turn, Load
    <3>3. Load(d)' = 0 + (n + 1) + k + x + t
      BY <2>a DEF Load
    <3>4. 0 + (n + 1) + k + x + t <= One(peer[d].waits)
      BY <2>a, <3>2 DEF One
    <3>5. Turn(d)'
      BY <2>a, <3>3, <3>4 DEF Turn, One
    <3>. QED BY <1>7, <2>a, <3>1, <3>5, NumberedKept, NoLogonKept
  <2>. QED BY <2>3, <2>4 DEF Steady
<1>. QED BY <1>9, <1>10

\* The units handle a message.
LEMMA CountHandlers ==
  SessionTypes /\ CountInv /\ Handlers /\ Numbers' /\ QueueTypes' => CountInv'
<1> SUFFICES ASSUME SessionTypes, CountInv, Handlers, Numbers', QueueTypes', NEW d \in Clients, Sound(d)'
    PROVE  Steady(d)'
  BY DEF CountInv
<1>0. ConnTypes /\ QueueTypes /\ Numbers
  BY NumbersTyped DEF SessionTypes
<1>1. UNCHANGED <<worker, removing, closing, peer, toServer, toClient, strayed>>
  BY HandlersMoves DEF peerVars, historyVars
<1>2. PICK u \in Units :
        /\ queue[u] # <<>> /\ Head(queue[u]) \in ToSet(queue[u]) /\ Head(queue[u]).from \in Clients
        /\ Head(queue[u]).msg.num \in Nat
        /\ \/ \E v \in Units \ {u} : HandsOn(u, v)
           \/ Drops(u)
           \/ \E kind \in Answers, dc \in BOOLEAN : Replies(u, kind, dc)
           \/ LetsIn(u)
  BY HandlersMoves
<1>3. PICK c \in Clients : c = Head(queue[u]).from
  BY <1>2
<1>4. Counting(d)' = Counting(d) /\ Sending(d)' = Sending(d)
  BY <1>1, StageIs DEF Counting, Sending
<1>5. \A x \in Clients : conn'[x].open = conn[x].open
  BY HandlersOpen
<1>6. Sound(d) /\ Steady(d)
  <2>1. Sound(d)
    BY <1>1, <1>5 DEF Sound, Pending
  <2>. QED BY <2>1 DEF CountInv
<1>n. ASSUME Pop(u) PROVE NoNewMessage(d)
  <2>1. \A x \in Units : ToSet(queue'[x]) \subseteq ToSet(queue[x])
    BY <1>0, <1>2, <1>n, QueueHolds
  <2>. QED BY <1>1, <2>1 DEF NoNewMessage
<1>7. CASE \E v \in Units \ {u} : HandsOn(u, v)
  <2>1. PICK v \in Units \ {u} : Forward(u, v) /\ UNCHANGED <<conn, out>>
    BY <1>7 DEF HandsOn
  <2>2. Waiting(d)' = Waiting(d)
    <3>1. Unhandled(d)' = Unhandled(d)
      BY <1>0, <1>2, <2>1, UnhandledSteps
    <3>2. Owed(d)' = Owed(d)
      BY <1>0, <2>1, OwedSteps
    <3>. QED BY <3>1, <3>2 DEF Waiting
  <2>3. NoNewMessage(d)
    <3>1. \A x \in Units : ToSet(queue'[x]) \subseteq ToSet(queue[x]) \cup {Head(queue[u])}
      BY <1>0, <1>2, <2>1, QueueHolds
    <3>. QED BY <1>1, <1>2, <3>1 DEF NoNewMessage
  <2>4. NoNewLogon(d)
    BY <1>1, <2>1, NothingNew
  <2>. QED BY <1>1, <1>4, <1>6, <2>1, <2>2, <2>3, <2>4, SteadyKept DEF StillCounted, StillEnds
<1>8. CASE Drops(u)
  <2>1. Pop(u) /\ conn[c].logged /\ UNCHANGED <<conn, out>>
    BY <1>3, <1>8 DEF Drops
  <2>2. CASE d = c
    <3>1. d \notin strayed' => Balanced(d)'
      BY <1>1, <1>4, <1>6, <2>1, <2>2 DEF Steady, Balanced
    <3>. QED BY <2>1, <2>2, <3>1 DEF Steady
  <2>3. CASE d # c
    <3>1. Unhandled(d)' = Unhandled(d) /\ Owed(d)' = Owed(d)
      BY <1>0, <1>2, <1>3, <2>1, <2>3, UnhandledSteps, OwedSteps DEF One, Numbers
    <3>2. NoNewMessage(d) /\ NoNewLogon(d)
      BY <1>1, <1>n, <2>1, NothingNew
    <3>. QED BY <1>1, <1>4, <1>6, <2>1, <3>1, <3>2, SteadyKept DEF StillCounted, StillEnds, Waiting
  <2>. QED BY <2>2, <2>3
<1>9. ASSUME NEW kind \in Answers, NEW dc \in BOOLEAN, Replies(u, kind, dc) PROVE Steady(d)'
  <2>1. /\ Pop(u) /\ Answer(c, kind) /\ kind # "Logon"
        /\ \A x \in Clients : conn'[x].seq = conn[x].seq /\ conn'[x].logged = conn[x].logged
    BY <1>3, <1>9 DEF Replies, Changed
  <2>2. Waiting(d)' = Waiting(d)
    <3>1. Unhandled(d) = Unhandled(d)' + One(c = d) /\ Owed(d)' = Owed(d) + One(d = c)
      BY <1>0, <1>2, <1>3, <2>1, UnhandledSteps, OwedSteps
    <3>. QED BY <1>0, <3>1 DEF Waiting, One, Numbers
  <2>3. NoNewLogon(d)
    <3>1. ToSet(out') = ToSet(out) \cup {[to |-> c, kind |-> kind]}
      BY <1>0, <2>1, OutHolds
    <3>. QED BY <1>1, <2>1, <3>1 DEF NoNewLogon
  <2>4. StillCounted(d) /\ StillEnds(d)
    BY <1>1, <1>4, <2>1, <2>2 DEF StillCounted, StillEnds
  <2>. QED BY <1>1, <1>6, <1>n, <2>1, <2>3, <2>4, SteadyKept
<1>10. CASE LetsIn(u)
  <2>1. /\ Pop(u) /\ Answer(c, "Logon") /\ ~conn[c].logged
        /\ \A x \in Clients : x # c => conn'[x] = conn[x]
        /\ conn'[c].logged = TRUE /\ conn'[c].seq = Head(queue[u]).msg.num + 1
    BY <1>3, <1>10 DEF LetsIn, Changed
  <2>2. Unhandled(d) = Unhandled(d)' + One(c = d) /\ Owed(d)' = Owed(d) + One(d = c)
    BY <1>0, <1>2, <1>3, <2>1, UnhandledSteps, OwedSteps DEF Answers
  <2>3. CASE d # c
    <3>1. StillCounted(d) /\ StillEnds(d)
      BY <1>0, <1>1, <1>4, <2>1, <2>2, <2>3 DEF StillCounted, StillEnds, Waiting, One, Numbers
    <3>2. ToSet(out') = ToSet(out) \cup {[to |-> c, kind |-> "Logon"]}
      BY <1>0, <2>1, OutHolds DEF Answers
    <3>3. NoNewLogon(d)
      BY <1>1, <2>3, <3>2 DEF NoNewLogon
    <3>. QED BY <1>1, <1>6, <1>n, <2>1, <3>1, <3>3, SteadyKept
  <2>4. CASE d = c
    <3>1. Turn(d) /\ Numbered(d)
      BY <1>6, <2>1, <2>4 DEF Steady
    <3>2. conn'[d].seq = peer[d].seq
      BY <1>2, <1>3, <2>1, <2>4, <3>1 DEF Numbered
    <3>3. PICK p \in Nat, s \in Nat, a \in Nat, b \in Nat, k \in Nat, t \in Nat, x \in Nat :
            /\ p = peer[d].seq /\ s = Len(toServer[d]) /\ a = Unhandled(d) /\ b = Owed(d)
            /\ k = Counting(d) /\ t = Len(toClient[d]) /\ x = Sending(d)
      BY <1>0 DEF Numbers
    <3>4. a > 0
      BY <1>0, <2>2, <2>4, <3>3 DEF One, Numbers
    <3>5. s + (a + b) + k + x + t <= 1
      <4>1. Load(d) = s + (a + b) + k + x + t
        BY <3>3 DEF Load, Waiting
      <4>2. Load(d) <= One(peer[d].waits) /\ (One(peer[d].waits) = 0 \/ One(peer[d].waits) = 1)
        BY <3>1 DEF Turn, One
      <4> HIDE DEF Load, One
      <4>3. PICK l \in Nat : l = s + (a + b) + k + x + t
        OBVIOUS
      <4>. QED BY <4>1, <4>2, <4>3
    <3>6. s = 0 /\ t = 0 /\ x = 0
      BY <3>4, <3>5
    <3>7. Len(toServer'[d]) = 0 /\ Len(toClient'[d]) = 0 /\ Sending(d)' = 0 /\ peer'[d].seq = p
      BY <1>1, <1>4, <3>3, <3>6
    <3>8. Balanced(d)'
      BY <2>1, <2>4, <3>2, <3>3, <3>7 DEF Balanced
    <3>. QED BY <2>1, <2>4, <3>8 DEF Steady
  <2>. QED BY <2>3, <2>4
<1>. QED BY <1>2, <1>7, <1>8, <1>9, <1>10

\* A client taken out, or given up, is not sound any more.
LEMMA CountRemoval == SessionTypes /\ CountInv /\ Removal => CountInv'
<1> SUFFICES ASSUME SessionTypes, CountInv, Removal PROVE CountInv'
  OBVIOUS
<1>1. UNCHANGED <<queue, out, worker, peer, toServer, toClient, strayed>>
  BY DEF Removal, RemoveErase, RemoveNotify, peerVars, historyVars
<1>2. ASSUME RemoveErase PROVE CountInv'
  <2>1. /\ ToSet(removing) \subseteq {closing'} \cup ToSet(removing') /\ closing = None
        /\ UNCHANGED conn
    BY <1>2, EraseSteps DEF RemoveErase
  <2>2. \A d \in Clients : Sound(d)' => Sound(d) /\ StillEnds(d)
    BY <1>1, <2>1, ClientsAssumption DEF Sound, Pending, StillEnds
  <2>. QED BY <1>1, <2>2, CountFrame
<1>3. ASSUME RemoveNotify PROVE CountInv'
  <2>1. PICK c \in Clients : c = closing
    BY <1>3 DEF RemoveNotify, SessionTypes, StoreTypes
  <2>2. /\ conn' = [conn EXCEPT ![c].open = FALSE] /\ closing = c /\ UNCHANGED removing
    BY <1>3, <2>1 DEF RemoveNotify
  <2>3. conn'[c].open = FALSE /\ \A d \in Clients : d # c => conn'[d] = conn[d]
    BY <2>2 DEF SessionTypes, ConnTypes
  <2>4. \A d \in Clients : Sound(d)' => Sound(d) /\ StillEnds(d)
    BY <1>1, <2>2, <2>3 DEF Sound, Pending, StillEnds
  <2>. QED BY <1>1, <2>4, CountFrame
<1>. QED BY <1>2, <1>3 DEF Removal

\* Nor is one whose removal is asked for.
LEMMA CountRemoved ==
  ASSUME SessionTypes, CountInv, NEW c \in Clients, RemoveClient(c),
         UNCHANGED <<queue, out, worker, peer, toServer, toClient, strayed, closing>>
  PROVE  CountInv'
<1>1. /\ \A d \in Clients : d # c => conn'[d] = conn[d]
      /\ ToSet(removing') = ToSet(removing) \cup {c}
  BY RemoveSteps DEF Changed
<1>2. \A d \in Clients : Sound(d)' => Sound(d) /\ StillEnds(d)
  BY <1>1 DEF Sound, Pending, StillEnds
<1>. QED BY <1>2, CountFrame

\* Nothing is on its way for a client that connects.
LEMMA CountAccept ==
  \A c \in Clients : SessionTypes /\ KnownInv /\ CountInv /\ Accept(c) => CountInv'
<1> SUFFICES ASSUME NEW c \in Clients, SessionTypes, KnownInv, CountInv, Accept(c),
                    NEW d \in Clients, Sound(d)'
    PROVE  Steady(d)'
  BY DEF CountInv
<1>1. /\ UNCHANGED <<queue, out, worker, toServer, toClient, strayed, removing, closing>>
      /\ conn' = [conn EXCEPT ![c].open = TRUE] /\ peer' = [peer EXCEPT ![c].state = "on"]
      /\ peer[c].state = "off"
  BY DEF Accept, historyVars
<1>2. conn \in [Clients -> Conn] /\ peer \in [Clients -> PeerRecord]
  BY DEF SessionTypes, ConnTypes, Conn, PeerTypes, PeerRecord
<1>3. StillCounted(d) /\ NoNewMessage(d) /\ NoNewLogon(d)
  BY <1>1, CountedFrame
<1>4. StillEnds(d)
  BY <1>1, <1>2 DEF StillEnds, Conn, PeerRecord
<1>5. Steady(d)
  <2>1. CASE d = c
    <3>1. c \notin Known /\ HeldInv /\ BlankInv
      BY <1>1 DEF Known, KnownInv
    <3>2. conn[c] = Blank /\ peer[c] = Off /\ toServer[c] = <<>> /\ toClient[c] = <<>>
      BY <3>1 DEF BlankInv
    <3>3. \A u \in Units : \A j \in ToSet(queue[u]) : j.from # c
      BY <3>1 DEF HeldInv
    <3>4. \A a \in ToSet(out) : a.to # c
      BY <3>1 DEF HeldInv
    <3>5. \A w \in Workers : worker[w].pc # "idle" => worker[w].to # c
      BY <3>1 DEF HeldInv
    <3>6. Unhandled(c) = 0 /\ Owed(c) = 0
      BY <3>3, <3>4, Measured DEF SessionTypes
    <3>7. Counting(c) = 0 /\ Sending(c) = 0
      BY <3>5, StageIs DEF Counting, Sending
    <3>8. /\ conn[c].seq = 0 /\ peer[c].seq = 0 /\ ~peer[c].login /\ ~peer[c].waits
          /\ Len(toServer[c]) = 0 /\ Len(toClient[c]) = 0
          /\ ToSet(toServer[c]) = {} /\ ToSet(toClient[c]) = {}
      BY <3>2, Contents DEF Blank, Off
    <3>9. Balanced(c) /\ Turn(c)
      BY <3>6, <3>7, <3>8 DEF Balanced, Turn, Load, Waiting, One
    <3>10. Numbered(c) /\ NoLogon(c)
      BY <3>3, <3>4, <3>5, <3>8 DEF Numbered, NoLogon
    <3>. QED BY <2>1, <3>9, <3>10 DEF Steady
  <2>2. CASE d # c
    <3>1. Sound(d)
      BY <1>1, <1>2, <2>2 DEF Sound, Pending
    <3>. QED BY <3>1 DEF CountInv
  <2>. QED BY <2>1, <2>2
<1>. QED BY <1>1, <1>3, <1>4, <1>5, SteadyKept

\* TCPInput keeps the account.
LEMMA CountInput ==
  SessionTypes /\ KnownInv /\ CountInv /\ Input /\ Numbers' /\ QueueTypes' => CountInv'
<1> SUFFICES ASSUME SessionTypes, KnownInv, CountInv, Input, Numbers', QueueTypes' PROVE CountInv'
  OBVIOUS
<1>1. ASSUME NEW c \in Clients, Pull(c) PROVE CountInv'
  <2>1. UNCHANGED <<conn, queue, out, worker, removing, closing, peer, toServer, toClient, strayed>>
    BY <1>1 DEF Pull, peerVars, historyVars
  <2>2. \A d \in Clients : Sound(d)' => Sound(d) /\ StillEnds(d)
    BY <2>1 DEF Sound, Pending, StillEnds
  <2>. QED BY <2>1, <2>2, CountFrame
<1>2. ASSUME ReadUnknown PROVE CountInv'
  <2>1. PICK c \in Clients : c = ready
    BY <1>2 DEF ReadUnknown, SessionTypes, Rest
  <2>2. /\ UNCHANGED <<queue, out, worker, removing, closing, peer, toServer, toClient, strayed>>
        /\ conn' = [conn EXCEPT ![c].open = FALSE]
    BY <1>2, <2>1 DEF ReadUnknown, peerVars, historyVars
  <2>3. conn'[c].open = FALSE /\ \A d \in Clients : d # c => conn'[d] = conn[d]
    BY <2>2 DEF SessionTypes, ConnTypes
  <2>4. \A d \in Clients : Sound(d)' => Sound(d) /\ StillEnds(d)
    BY <2>2, <2>3 DEF Sound, Pending, StillEnds
  <2>. QED BY <2>2, <2>4, CountFrame
<1>3. ASSUME ReadEnd PROVE CountInv'
  <2>1. PICK c \in Clients : c = ready
    BY <1>3 DEF ReadEnd, SessionTypes, Rest
  <2>2. /\ UNCHANGED <<queue, out, worker, closing, peer, toServer, toClient, strayed>>
        /\ RemoveClient(c)
    BY <1>3, <2>1 DEF ReadEnd, peerVars, historyVars
  <2>. QED BY <2>2, CountRemoved
<1>. QED BY <1>1, <1>2, <1>3, CountAccept, CountRead DEF Input

\* An answer moves from the queue to a thread, and is counted if its client is not
\* logged in.
LEMMA CountNumber ==
  ASSUME SessionTypes, CountInv, NEW w \in Workers, SendNumber(w), Numbers', QueueTypes'
  PROVE  CountInv'
<1> SUFFICES ASSUME NEW d \in Clients, Sound(d)' PROVE Steady(d)'
  BY DEF CountInv
<1>0. QueueTypes /\ Numbers
  BY NumbersTyped DEF SessionTypes
<1>1. PICK c \in Clients : c = Head(out).to
  BY SendNumberSteps
<1>2. /\ UNCHANGED <<queue, removing, closing, peer, toServer, toClient, strayed>>
      /\ worker[w].pc = "idle" /\ out # <<>> /\ out' = Tail(out)
      /\ \A x \in Clients : x # c => conn'[x] = conn[x]
      /\ conn'[c].open = conn[c].open /\ conn'[c].logged = conn[c].logged
      /\ conn'[c].seq = IF conn[c].logged THEN conn[c].seq ELSE conn[c].seq + 1
    BY <1>1, SendNumberSteps DEF SendNumber, peerVars, historyVars, Changed
<1>3. PICK r : /\ Worked(worker', w, r) /\ r.pc = "count" /\ r.to = c /\ r.kind = Head(out).kind
  BY <1>1, SendNumberSteps
<1>4. Steady(d)
  <2>1. Sound(d)
    BY <1>2 DEF Sound, Pending
  <2>. QED BY <2>1 DEF CountInv
<1>5. Unhandled(d)' = Unhandled(d) /\ Owed(d) = Owed(d)' + One(d = c)
  BY <1>0, <1>1, <1>2, UnhandledSteps, OwedSteps
<1>6. Counting(d)' = Counting(d) + One(d = c) /\ Sending(d)' = Sending(d)
  <2>1. Counting(d)' + One(FALSE) = Counting(d) + One(d = c)
    BY <1>2, <1>3, StageSteps DEF Counting, One
  <2>2. Sending(d)' + One(FALSE) = Sending(d) + One(FALSE)
    BY <1>2, <1>3, StageSteps DEF Sending, One
  <2>. QED BY <1>0, <2>1, <2>2 DEF One, Numbers
<1>7. NoNewMessage(d)
  BY <1>2, NothingNew
<1>8. NoNewLogon(d)
  <2>1. Head(out) \in ToSet(out) /\ ToSet(out') \subseteq ToSet(out)
    BY <1>0, <1>2, OutHolds
  <2>2. \A v \in Workers : v # w => worker'[v] = worker[v]
    BY <1>3 DEF Worked
  <2>3. worker'[w].to = c /\ worker'[w].kind = Head(out).kind
    BY <1>3 DEF Worked
  <2>. QED BY <1>1, <1>2, <2>1, <2>2, <2>3 DEF NoNewLogon
<1>9. CASE d # c
  <2>1. StillCounted(d) /\ StillEnds(d)
    BY <1>0, <1>2, <1>5, <1>6, <1>9 DEF StillCounted, StillEnds, Waiting, One, Numbers
  <2>. QED BY <1>2, <1>4, <1>7, <1>8, <2>1, SteadyKept
<1>10. CASE d = c
  <2>1. Waiting(d) = Waiting(d)' + 1 /\ Waiting(d)' \in Nat
    BY <1>0, <1>5, <1>10 DEF Waiting, One, Numbers
  <2>2. PICK q \in Nat, p \in Nat, s \in Nat, n \in Nat, k \in Nat, t \in Nat, x \in Nat :
          /\ q = conn[d].seq /\ p = peer[d].seq /\ s = Len(toServer[d]) /\ n = Waiting(d)'
          /\ k = Counting(d) /\ t = Len(toClient[d]) /\ x = Sending(d)
    BY <1>0, <2>1 DEF Numbers
  <2>3. /\ Waiting(d) = n + 1 /\ Counting(d)' = k + 1 /\ Sending(d)' = x
        /\ peer'[d] = peer[d] /\ toServer'[d] = toServer[d] /\ toClient'[d] = toClient[d]
        /\ conn'[d].logged = conn[d].logged
        /\ conn'[d].seq = IF conn[d].logged THEN q ELSE q + 1
    BY <1>2, <1>6, <1>10, <2>1, <2>2 DEF One
  <2>4. ASSUME d \notin strayed' PROVE Balanced(d)'
    <3>1. q + s + (IF conn[d].logged THEN 0 ELSE n + 1) = p + t + x
      BY <1>2, <1>4, <2>2, <2>3, <2>4 DEF Steady, Balanced
    <3>2. (IF conn[d].logged THEN q ELSE q + 1) + s + (IF conn[d].logged THEN 0 ELSE n) = p + t + x
      BY <3>1
    <3>. QED BY <2>2, <2>3, <3>2 DEF Balanced
  <2>5. ASSUME ~conn'[d].logged PROVE Turn(d)' /\ Numbered(d)' /\ NoLogon(d)'
    <3>1. Turn(d) /\ Numbered(d) /\ NoLogon(d)
      BY <1>4, <2>3, <2>5 DEF Steady
    <3>2. s + (n + 1) + k + x + t <= One(peer[d].waits)
      BY <2>2, <2>3, <3>1 DEF Turn, Load
    <3>3. Load(d)' = s + n + (k + 1) + x + t
      BY <2>2, <2>3 DEF Load
    <3>4. s + n + (k + 1) + x + t = s + (n + 1) + k + x + t
      OBVIOUS
    <3>5. Turn(d)'
      BY <2>3, <3>2, <3>3, <3>4 DEF Turn, One
    <3>. QED BY <1>2, <1>7, <1>8, <3>1, <3>5, NumberedKept, NoLogonKept
  <2>. QED BY <2>4, <2>5 DEF Steady
<1>. QED BY <1>9, <1>10

\* A thread counts the answer it has in hand, unless another counted in between.
LEMMA CountCount ==
  ASSUME SessionTypes, CountInv, NEW w \in Workers, SendCount(w), Numbers', QueueTypes'
  PROVE  CountInv'
<1> SUFFICES ASSUME NEW d \in Clients, Sound(d)' PROVE Steady(d)'
  BY DEF CountInv
<1>0. QueueTypes /\ Numbers
  BY NumbersTyped DEF SessionTypes
<1>1. PICK c \in Clients : c = worker[w].to
  BY SendCountSteps
<1>2. /\ UNCHANGED <<queue, out, removing, closing, peer, toServer, toClient>>
      /\ worker[w].pc = "count"
      /\ strayed' = IF conn[c].seq # worker[w].num THEN strayed \cup {c} ELSE strayed
      /\ Worked(worker', w, [worker[w] EXCEPT !.pc = "send"])
  BY <1>1, SendCountSteps DEF SendCount, peerVars
<1>3. PICK seq \in {conn[c].seq, worker[w].num} :
        /\ \A x \in Clients : x # c => conn'[x] = conn[x]
        /\ conn'[c].open = conn[c].open /\ conn'[c].logged = conn[c].logged
        /\ conn'[c].seq = seq + 1
  BY <1>1, SendCountSteps DEF Changed
<1>4. Steady(d)
  <2>1. Sound(d)
    BY <1>2, <1>3 DEF Sound, Pending
  <2>. QED BY <2>1 DEF CountInv
<1>5. Unhandled(d)' = Unhandled(d) /\ Owed(d)' = Owed(d)
  BY <1>0, <1>2, UnhandledSteps, OwedSteps
<1>6. Counting(d)' + One(d = c) = Counting(d) /\ Sending(d)' = Sending(d) + One(d = c)
  <2>1. PICK r : r = [worker[w] EXCEPT !.pc = "send"]
    OBVIOUS
  <2>2. Worked(worker', w, r) /\ r.pc = "send" /\ r.to = c
    BY <1>1, <1>2, <2>1, WorkSteps DEF Work
  <2>3. Counting(d)' + One(d = c) = Counting(d) + One(FALSE)
    BY <1>1, <1>2, <2>2, StageSteps DEF Counting, One
  <2>4. Sending(d)' + One(FALSE) = Sending(d) + One(d = c)
    BY <1>2, <2>2, StageSteps DEF Sending, One
  <2>. QED BY <1>0, <2>3, <2>4 DEF One, Numbers
<1>7. NoNewMessage(d)
  BY <1>2, NothingNew
<1>8. NoNewLogon(d)
  <2>1. \A v \in Workers : worker'[v].pc # "idle" =>
          worker[v].pc # "idle" /\ worker'[v].to = worker[v].to /\ worker'[v].kind = worker[v].kind
    BY <1>2, WorkedKeeps
  <2>. QED BY <1>2, <2>1 DEF NoNewLogon
<1>9. CASE d # c
  <2>1. StillCounted(d) /\ StillEnds(d)
    BY <1>0, <1>2, <1>3, <1>5, <1>6, <1>9 DEF StillCounted, StillEnds, Waiting, One, Numbers
  <2>. QED BY <1>2, <1>4, <1>7, <1>8, <2>1, SteadyKept
<1>10. CASE d = c
  <2>1. Waiting(d) = Waiting(d)' /\ Waiting(d)' \in Nat
    BY <1>0, <1>5 DEF Waiting, Numbers
  <2>2. PICK q \in Nat, p \in Nat, s \in Nat, n \in Nat, k \in Nat, t \in Nat, x \in Nat :
          /\ q = conn[d].seq /\ p = peer[d].seq /\ s = Len(toServer[d]) /\ n = Waiting(d)
          /\ k = Counting(d)' /\ t = Len(toClient[d]) /\ x = Sending(d)
    BY <1>0, <2>1 DEF Numbers
  <2>3. /\ Waiting(d)' = n /\ Counting(d) = k + 1 /\ Sending(d)' = x + 1
        /\ peer'[d] = peer[d] /\ toServer'[d] = toServer[d] /\ toClient'[d] = toClient[d]
        /\ conn'[d].logged = conn[d].logged
    BY <1>2, <1>3, <1>6, <1>10, <2>1, <2>2 DEF One
  <2>4. ASSUME d \notin strayed' PROVE Balanced(d)'
    <3>1. conn[c].seq = worker[w].num /\ d \notin strayed
      BY <1>2, <1>10, <2>4
    <3>2. conn'[d].seq = q + 1
      BY <1>3, <1>10, <2>2, <3>1
    <3>3. q + s + (IF conn[d].logged THEN 0 ELSE n) = p + t + x
      BY <1>4, <2>2, <3>1 DEF Steady, Balanced
    <3>4. q + 1 + s + (IF conn[d].logged THEN 0 ELSE n) = p + t + (x + 1)
      BY <3>3
    <3>. QED BY <2>2, <2>3, <3>2, <3>4 DEF Balanced
  <2>5. ASSUME ~conn'[d].logged PROVE Turn(d)' /\ Numbered(d)' /\ NoLogon(d)'
    <3>1. Turn(d) /\ Numbered(d) /\ NoLogon(d)
      BY <1>4, <2>3, <2>5 DEF Steady
    <3>2. s + n + (k + 1) + x + t <= One(peer[d].waits)
      BY <2>2, <2>3, <3>1 DEF Turn, Load
    <3>3. Load(d)' = s + n + k + (x + 1) + t
      BY <2>2, <2>3 DEF Load
    <3>4. s + n + k + (x + 1) + t = s + n + (k + 1) + x + t
      OBVIOUS
    <3>5. Turn(d)'
      BY <2>3, <3>2, <3>3, <3>4 DEF Turn, One
    <3>. QED BY <1>2, <1>7, <1>8, <3>1, <3>5, NumberedKept, NoLogonKept
  <2>. QED BY <2>4, <2>5 DEF Steady
<1>. QED BY <1>9, <1>10

\* A thread sends the answer it has counted.
LEMMA CountSend ==
  ASSUME SessionTypes, CountInv, NEW w \in Workers, Send(w), Numbers', QueueTypes'
  PROVE  CountInv'
<1> SUFFICES ASSUME NEW d \in Clients, Sound(d)' PROVE Steady(d)'
  BY DEF CountInv
<1>0. QueueTypes /\ Numbers /\ toClient \in [Clients -> Seq(Sent)]
  BY NumbersTyped DEF SessionTypes, PeerTypes, Sent
<1>1. PICK c \in Clients, sent \in Sent :
        c = worker[w].to /\ sent = [kind |-> worker[w].kind, num |-> worker[w].num]
  BY SendSteps
<1>2. /\ UNCHANGED <<queue, out, closing, peer, toServer, strayed>>
      /\ worker[w].pc = "send" /\ Worked(worker', w, [worker[w] EXCEPT !.pc = "check"])
      /\ \/ UNCHANGED <<conn, removing>>
         \/ RemoveClient(c) /\ peer[c].state = "closed"
      /\ IF peer[c].state = "closed" THEN toClient' = toClient
         ELSE toClient' = [toClient EXCEPT ![c] = Append(@, sent)]
  BY <1>1, SendSteps DEF Send
<1>3. ASSUME RemoveClient(c)
      PROVE  /\ ToSet(removing') = ToSet(removing) \cup {c}
             /\ \A x \in Clients : x # c => conn'[x] = conn[x]
  BY <1>3, RemoveSteps DEF Changed
<1>4. Sound(d) /\ Steady(d) /\ conn'[d] = conn[d] /\ (d = c => peer[c].state # "closed")
  <2>1. Sound(d) /\ conn'[d] = conn[d] /\ (d = c => peer[c].state # "closed")
    BY <1>2, <1>3 DEF Sound, Pending
  <2>. QED BY <2>1 DEF CountInv
<1>5. Unhandled(d)' = Unhandled(d) /\ Owed(d)' = Owed(d)
  BY <1>0, <1>2, UnhandledSteps, OwedSteps
<1>6. Counting(d)' = Counting(d) /\ Sending(d)' + One(d = c) = Sending(d)
  <2>1. PICK r : r = [worker[w] EXCEPT !.pc = "check"]
    OBVIOUS
  <2>2. Worked(worker', w, r) /\ r.pc = "check" /\ r.to = c
    BY <1>1, <1>2, <2>1, WorkSteps DEF Work
  <2>3. Counting(d)' + One(FALSE) = Counting(d) + One(FALSE)
    BY <1>2, <2>2, StageSteps DEF Counting, One
  <2>4. Sending(d)' + One(d = c) = Sending(d) + One(FALSE)
    BY <1>1, <1>2, <2>2, StageSteps DEF Sending, One
  <2>. QED BY <1>0, <2>3, <2>4 DEF One, Numbers
<1>7. NoNewMessage(d)
  BY <1>2, NothingNew
<1>8. /\ d # c => toClient'[d] = toClient[d]
      /\ d = c => Len(toClient'[d]) = Len(toClient[d]) + 1
      /\ ToSet(toClient'[d]) \subseteq ToSet(toClient[d]) \cup (IF d = c THEN {sent} ELSE {})
  <2>1. CASE d = c
    <3>1. toClient'[d] = Append(toClient[d], sent) /\ toClient[d] \in Seq(Sent)
      BY <1>0, <1>2, <1>4, <2>1
    <3>. QED BY <2>1, <3>1, Appended
  <2>2. CASE d # c
    BY <1>0, <1>2, <2>2
  <2>. QED BY <2>1, <2>2
<1>9. NoNewLogon(d)
  <2>1. \A v \in Workers : worker'[v].pc # "idle" =>
          worker[v].pc # "idle" /\ worker'[v].to = worker[v].to /\ worker'[v].kind = worker[v].kind
    BY <1>2, WorkedKeeps
  <2>2. \A m \in ToSet(toClient'[d]) :
          m \in ToSet(toClient[d]) \/ (d = c /\ m.kind = worker[w].kind)
    BY <1>1, <1>8
  <2>. QED BY <1>1, <1>2, <2>1, <2>2 DEF NoNewLogon
<1>10. CASE d # c
  <2>1. StillCounted(d) /\ StillEnds(d)
    BY <1>0, <1>2, <1>4, <1>5, <1>6, <1>8, <1>10 DEF StillCounted, StillEnds, Waiting, One, Numbers
  <2>. QED BY <1>2, <1>4, <1>7, <1>9, <2>1, SteadyKept
<1>11. CASE d = c
  <2>1. Waiting(d) = Waiting(d)' /\ Waiting(d)' \in Nat
    BY <1>0, <1>5 DEF Waiting, Numbers
  <2>2. PICK q \in Nat, p \in Nat, s \in Nat, n \in Nat, k \in Nat, t \in Nat, x \in Nat :
          /\ q = conn[d].seq /\ p = peer[d].seq /\ s = Len(toServer[d]) /\ n = Waiting(d)
          /\ k = Counting(d) /\ t = Len(toClient[d]) /\ x = Sending(d)'
    BY <1>0, <2>1 DEF Numbers
  <2>3. /\ Waiting(d)' = n /\ Counting(d)' = k /\ Sending(d) = x + 1
        /\ peer'[d] = peer[d] /\ toServer'[d] = toServer[d] /\ Len(toClient'[d]) = t + 1
        /\ conn'[d] = conn[d]
    BY <1>2, <1>4, <1>6, <1>8, <1>11, <2>1, <2>2 DEF One
  <2>4. ASSUME d \notin strayed' PROVE Balanced(d)'
    <3>1. q + s + (IF conn[d].logged THEN 0 ELSE n) = p + t + (x + 1)
      BY <1>2, <1>4, <2>2, <2>3, <2>4 DEF Steady, Balanced
    <3>2. q + s + (IF conn[d].logged THEN 0 ELSE n) = p + (t + 1) + x
      BY <3>1
    <3>. QED BY <2>2, <2>3, <3>2 DEF Balanced
  <2>5. ASSUME ~conn'[d].logged PROVE Turn(d)' /\ Numbered(d)' /\ NoLogon(d)'
    <3>1. Turn(d) /\ Numbered(d) /\ NoLogon(d)
      BY <1>4, <2>3, <2>5 DEF Steady
    <3>2. s + n + k + (x + 1) + t <= One(peer[d].waits)
      BY <2>2, <2>3, <3>1 DEF Turn, Load
    <3>3. Load(d)' = s + n + k + x + (t + 1)
      BY <2>2, <2>3 DEF Load
    <3>4. s + n + k + x + (t + 1) = s + n + k + (x + 1) + t
      OBVIOUS
    <3>5. Turn(d)'
      BY <2>3, <3>2, <3>3, <3>4 DEF Turn, One
    <3>. QED BY <1>2, <1>7, <1>9, <3>1, <3>5, NumberedKept, NoLogonKept
  <2>. QED BY <2>4, <2>5 DEF Steady
<1>. QED BY <1>10, <1>11

\* A thread is done with an answer; whom it closes is not sound any more.
LEMMA CountDone ==
  ASSUME SessionTypes, CountInv, NEW w \in Workers, SendClosed(w) \/ SendCheck(w), Numbers'
  PROVE  CountInv'
<1> SUFFICES ASSUME NEW d \in Clients, Sound(d)' PROVE Steady(d)'
  BY DEF CountInv
<1>0. QueueTypes /\ QueueTypes'
  <2>1. UNCHANGED <<queue, out>>
    BY DEF SendClosed, SendCheck
  <2>2. worker' \in [Workers -> Work]
    BY SendDoneSteps DEF Worked
  <2>. QED BY <2>1, <2>2 DEF SessionTypes, QueueTypes, Work
<1>n. Numbers
  BY NumbersTyped
<1>1. PICK c \in Clients : c = worker[w].to
  BY SendDoneSteps
<1>2. /\ UNCHANGED <<queue, out, closing, peer, toServer, toClient, strayed>>
  BY DEF SendClosed, SendCheck, peerVars, historyVars
<1>3. /\ \/ /\ worker[w].pc = "send" \/ worker[w].pc = "check"
            /\ Changed(conn', c, FALSE, FALSE, FALSE, 0)
            /\ ToSet(removing') = ToSet(removing) \cup {c}
         \/ worker[w].pc = "check" /\ UNCHANGED <<conn, removing>>
      /\ Worked(worker', w, Free)
  BY <1>1, SendDoneSteps
<1>4. /\ Sound(d) /\ conn'[d] = conn[d]
      /\ worker[w].pc = "check" \/ (worker[w].pc = "send" /\ d # c)
  BY <1>2, <1>3 DEF Sound, Pending, Changed
<1>5. Unhandled(d)' = Unhandled(d) /\ Owed(d)' = Owed(d)
  BY <1>0, <1>2, UnhandledSteps, OwedSteps
<1>6. Counting(d)' = Counting(d) /\ Sending(d)' = Sending(d)
  <2>1. PICK r : r = Free /\ r.pc = "idle" /\ Worked(worker', w, r)
    BY <1>3 DEF Free
  <2>2. Counting(d)' + One(FALSE) = Counting(d) + One(FALSE)
    BY <1>4, <2>1, StageSteps DEF Counting, One
  <2>3. Sending(d)' + One(FALSE) = Sending(d) + One(FALSE)
    BY <1>1, <1>4, <2>1, StageSteps DEF Sending, One
  <2>. QED BY <1>n, <2>2, <2>3 DEF One, Numbers
<1>7. StillCounted(d) /\ StillEnds(d)
  BY <1>2, <1>4, <1>5, <1>6 DEF StillCounted, StillEnds, Waiting
<1>8. NoNewMessage(d)
  BY <1>2, NothingNew
<1>9. NoNewLogon(d)
  <2>1. \A v \in Workers : worker'[v].pc # "idle" =>
          worker[v].pc # "idle" /\ worker'[v].to = worker[v].to /\ worker'[v].kind = worker[v].kind
    BY <1>3, WorkedKeeps
  <2>. QED BY <1>2, <2>1 DEF NoNewLogon
<1>10. Steady(d)
  BY <1>4 DEF CountInv
<1>. QED BY <1>2, <1>7, <1>8, <1>9, <1>10, SteadyKept

\* A client that is logged in is sent what it has not asked for.
LEMMA CountAsked ==
  ASSUME SessionTypes, CountInv, Numbers', QueueTypes', NEW c \in Clients,
         NEW kind \in Answers, Answer(c, kind), conn[c].logged,
         \A x \in Clients : /\ conn'[x].open = conn[x].open /\ conn'[x].logged = conn[x].logged
                            /\ conn'[x].seq = conn[x].seq,
         UNCHANGED <<queue, worker, removing, closing, peer, toServer, toClient, strayed>>
  PROVE  CountInv'
<1> SUFFICES ASSUME NEW d \in Clients, Sound(d)' PROVE Steady(d)'
  BY DEF CountInv
<1>0. QueueTypes /\ Numbers
  BY NumbersTyped DEF SessionTypes
<1>1. Steady(d) /\ StillEnds(d)
  <2>1. Sound(d)
    BY DEF Sound, Pending
  <2>. QED BY <2>1 DEF CountInv, StillEnds
<1>2. Unhandled(d)' = Unhandled(d) /\ Owed(d)' = Owed(d) + One(d = c)
  BY <1>0, UnhandledSteps, OwedSteps
<1>3. Counting(d)' = Counting(d) /\ Sending(d)' = Sending(d)
  BY StageIs DEF Counting, Sending
<1>4. CASE d = c
  <2>1. d \notin strayed' => Balanced(d)'
    BY <1>1, <1>3, <1>4 DEF Steady, StillEnds, Balanced
  <2>. QED BY <1>4, <2>1 DEF Steady
<1>5. CASE d # c
  <2>1. StillCounted(d)
    BY <1>0, <1>2, <1>3, <1>5 DEF StillCounted, Waiting, One, Numbers
  <2>2. ToSet(out') = ToSet(out) \cup {[to |-> c, kind |-> kind]}
    BY <1>0, OutHolds
  <2>3. NoNewLogon(d) /\ NoNewMessage(d)
    BY <1>5, <2>2, NothingNew DEF NoNewLogon
  <2>. QED BY <1>1, <2>1, <2>3, SteadyKept
<1>. QED BY <1>4, <1>5

\* The heartbeat and the markets keep the account.
LEMMA CountTimed ==
  ASSUME SessionTypes, CountInv, NEW c \in Clients, CheckHeartBeat(c) \/ MarketFills(c),
         Numbers', QueueTypes'
  PROVE  CountInv'
<1>1. UNCHANGED <<queue, worker, closing, peer, toServer, toClient, strayed>> /\ conn[c].logged
  BY DEF CheckHeartBeat, MarketFills, peerVars
<1>2. \/ RemoveClient(c) /\ UNCHANGED out
      \/ /\ Answer(c, "TestRequest") \/ Answer(c, "Report")
         /\ conn' = [conn EXCEPT ![c].test = TRUE] \/ UNCHANGED conn
         /\ UNCHANGED removing
  BY DEF CheckHeartBeat, MarketFills
<1>3. ASSUME NEW kind \in Answers, Answer(c, kind), UNCHANGED removing,
             conn' = [conn EXCEPT ![c].test = TRUE] \/ UNCHANGED conn
      PROVE  CountInv'
  <2>1. conn \in [Clients -> Conn]
    BY DEF SessionTypes, ConnTypes, Conn
  <2>2. \A x \in Clients : /\ conn'[x].open = conn[x].open /\ conn'[x].logged = conn[x].logged
                           /\ conn'[x].seq = conn[x].seq
    BY <1>3, <2>1 DEF Conn
  <2>. QED BY <1>1, <1>3, <2>2, CountAsked
<1>4. {"TestRequest", "Report"} \subseteq Answers
  BY DEF Answers
<1>. QED BY <1>1, <1>2, <1>3, <1>4, CountRemoved

\* A client that is not logged in sends when nothing of its own is on its way.
LEMMA CountPeerSend ==
  ASSUME SessionTypes, CountInv, NEW c \in Clients, PeerSend(c), Numbers'
  PROVE  CountInv'
<1> SUFFICES ASSUME NEW d \in Clients, Sound(d)' PROVE Steady(d)'
  BY DEF CountInv
<1>0. QueueTypes /\ Numbers /\ toServer \in [Clients -> Seq(Message)]
  BY NumbersTyped DEF SessionTypes, PeerTypes
<1>1. UNCHANGED <<conn, queue, out, worker, removing, closing, toClient, strayed>>
  BY DEF PeerSend
<1>2. PICK m \in Message :
        /\ m.num = peer[c].seq /\ toServer' = [toServer EXCEPT ![c] = Append(@, m)]
        /\ \A x \in Clients : x # c => peer'[x] = peer[x]
        /\ peer[c].state = "on" /\ ~peer[c].waits
        /\ peer'[c].seq = peer[c].seq + 1 /\ peer'[c].login = peer[c].login
        /\ peer'[c].waits = ~peer[c].login
  <2>1. PICK b \in Bodies :
          LET m == [kind |-> b.kind, fault |-> b.fault, num |-> peer[c].seq]
          IN /\ m \in Message
             /\ toServer' = [toServer EXCEPT ![c] = Append(@, m)]
             /\ \A x \in Clients : x # c => peer'[x] = peer[x]
             /\ peer[c].state = "on" /\ ~peer[c].waits
             /\ peer'[c].seq = peer[c].seq + 1 /\ peer'[c].login = peer[c].login
             /\ peer'[c].waits = ~peer[c].login
    BY PeerSendSteps
  <2>2. [kind |-> b.kind, fault |-> b.fault, num |-> peer[c].seq].num = peer[c].seq
    OBVIOUS
  <2>. QED BY <2>1, <2>2
<1>3. Sound(d) /\ Steady(d)
  <2>1. Sound(d)
    BY <1>1, <1>2 DEF Sound, Pending
  <2>. QED BY <2>1 DEF CountInv
<1>4. /\ Unhandled(d)' = Unhandled(d) /\ Owed(d)' = Owed(d)
      /\ Counting(d)' = Counting(d) /\ Sending(d)' = Sending(d)
  <2>1. Unhandled(d)' = Unhandled(d) /\ Owed(d)' = Owed(d)
    BY <1>1 DEF Unhandled, Held, Of, Owed, To, Answering
  <2>. QED BY <1>1, <2>1, StageIs DEF Counting, Sending
<1>5. NoNewLogon(d)
  BY <1>1, NothingNew
<1>6. CASE d # c
  <2>1. toServer'[d] = toServer[d] /\ peer'[d] = peer[d]
    BY <1>0, <1>2, <1>6
  <2>2. StillCounted(d) /\ StillEnds(d)
    BY <1>1, <1>4, <2>1 DEF StillCounted, StillEnds, Waiting
  <2>3. NoNewMessage(d)
    BY <1>1, <2>1 DEF NoNewMessage
  <2>. QED BY <1>1, <1>3, <1>5, <2>2, <2>3, SteadyKept
<1>7. CASE d = c
  <2>1. /\ toServer'[d] = Append(toServer[d], m) /\ Len(toServer'[d]) = Len(toServer[d]) + 1
        /\ ToSet(toServer'[d]) = ToSet(toServer[d]) \cup {m}
    BY <1>0, <1>2, <1>7, Appended
  <2>2. Unhandled(d) \in Nat /\ Waiting(d)' = Waiting(d) /\ Waiting(d) \in Nat
    BY <1>0, <1>4 DEF Waiting, Numbers
  <2>3. PICK q \in Nat, p \in Nat, s \in Nat, n \in Nat, k \in Nat, t \in Nat, x \in Nat :
          /\ q = conn[d].seq /\ p = peer[d].seq /\ s = Len(toServer[d]) /\ n = Waiting(d)
          /\ k = Counting(d) /\ t = Len(toClient[d]) /\ x = Sending(d)
    BY <1>0, <2>2 DEF Numbers
  <2>4. /\ Waiting(d)' = n /\ Counting(d)' = k /\ Sending(d)' = x /\ Len(toServer'[d]) = s + 1
        /\ peer'[d].seq = p + 1 /\ peer'[d].login = peer[d].login
        /\ peer'[d].waits = ~peer[d].login /\ ~peer[d].waits
        /\ toClient'[d] = toClient[d] /\ conn'[d] = conn[d]
    BY <1>1, <1>2, <1>4, <1>7, <2>1, <2>2, <2>3
  <2>5. ASSUME d \notin strayed' PROVE Balanced(d)'
    <3>1. q + s + (IF conn[d].logged THEN 0 ELSE n) = p + t + x
      BY <1>1, <1>3, <2>3, <2>5 DEF Steady, Balanced
    <3>2. q + (s + 1) + (IF conn[d].logged THEN 0 ELSE n) = p + 1 + t + x
      BY <3>1
    <3>. QED BY <2>3, <2>4, <3>2 DEF Balanced
  <2>6. ASSUME ~conn'[d].logged PROVE Turn(d)' /\ Numbered(d)' /\ NoLogon(d)'
    <3>1. Turn(d) /\ Numbered(d) /\ NoLogon(d)
      BY <1>3, <2>4, <2>6 DEF Steady
    <3>2. s + n + k + x + t <= 0
      BY <2>3, <2>4, <3>1 DEF Turn, Load, One
    <3>3. s = 0 /\ n = 0 /\ k = 0 /\ x = 0 /\ t = 0
      BY <3>2
    <3>4. Load(d)' = 1 /\ peer'[d].waits
      <4>1. Load(d)' = s + 1 + n + k + x + t
        BY <2>3, <2>4 DEF Load
      <4>2. ~peer[d].login
        BY <3>1 DEF NoLogon
      <4>3. s + 1 + n + k + x + t = 1
        BY <3>3
      <4>4. Load(d)' = 1
        BY <4>1, <4>3
      <4>5. peer'[d].waits
        BY <2>4, <4>2
      <4>. QED BY <4>4, <4>5
    <3>5. Turn(d)'
      BY <3>4 DEF Turn, One
    <3>6. Numbered(d)'
      <4>1. toServer[d] = <<>> /\ ToSet(toServer[d]) = {}
        BY <1>0, <2>3, <3>3, Contents
      <4>2. m.num + 1 = peer'[d].seq
        BY <1>2, <1>7
      <4>3. \A u \in Units : \A j \in ToSet(queue[u]) : j.from # d
        <5>1. Unhandled(d) = 0
          <6>1. Unhandled(d) + Owed(d) = 0
            BY <2>3, <3>3 DEF Waiting
          <6>2. Unhandled(d) \in Nat /\ Owed(d) \in Nat
            BY <1>0 DEF Numbers
          <6>. QED BY <6>1, <6>2
        <5>. QED BY <1>0, <5>1, Measured
      <4>. QED BY <1>1, <2>1, <4>1, <4>2, <4>3 DEF Numbered
    <3>. QED BY <1>5, <2>4, <3>1, <3>5, <3>6, NoLogonKept
  <2>. QED BY <2>5, <2>6 DEF Steady
<1>. QED BY <1>6, <1>7

\* A client takes an answer, and waits for none.
LEMMA CountPeerReceive ==
  ASSUME SessionTypes, CountInv, NEW c \in Clients, PeerReceive(c), Numbers'
  PROVE  CountInv'
<1> SUFFICES ASSUME NEW d \in Clients, Sound(d)' PROVE Steady(d)'
  BY DEF CountInv
<1>0. QueueTypes /\ Numbers /\ toClient \in [Clients -> Seq(Sent)] /\ toServer \in [Clients -> Seq(Message)]
  BY NumbersTyped DEF SessionTypes, PeerTypes, Sent
<1>1. UNCHANGED <<conn, queue, out, worker, removing, closing, toServer, strayed>>
  BY DEF PeerReceive, serverVars, historyVars
<1>2. /\ toClient[c] # <<>> /\ toClient' = [toClient EXCEPT ![c] = Tail(@)]
      /\ \A x \in Clients : x # c => peer'[x] = peer[x]
      /\ peer[c].state = "on" /\ peer'[c].seq = peer[c].seq + 1 /\ peer'[c].waits = FALSE
      /\ peer'[c].login = (peer[c].login \/ Head(toClient[c]).kind = "Logon")
  BY PeerReceiveSteps
<1>3. Sound(d) /\ Steady(d)
  <2>1. Sound(d)
    BY <1>1, <1>2 DEF Sound, Pending
  <2>. QED BY <2>1 DEF CountInv
<1>4. /\ Unhandled(d)' = Unhandled(d) /\ Owed(d)' = Owed(d)
      /\ Counting(d)' = Counting(d) /\ Sending(d)' = Sending(d)
  <2>1. Unhandled(d)' = Unhandled(d) /\ Owed(d)' = Owed(d)
    BY <1>1 DEF Unhandled, Held, Of, Owed, To, Answering
  <2>. QED BY <1>1, <2>1, StageIs DEF Counting, Sending
<1>5. NoNewMessage(d)
  BY <1>1, NothingNew
<1>6. CASE d # c
  <2>1. toClient'[d] = toClient[d] /\ peer'[d] = peer[d]
    BY <1>0, <1>2, <1>6
  <2>2. StillCounted(d) /\ StillEnds(d)
    BY <1>1, <1>4, <2>1 DEF StillCounted, StillEnds, Waiting
  <2>3. NoNewLogon(d)
    BY <1>1, <2>1 DEF NoNewLogon
  <2>. QED BY <1>1, <1>3, <1>5, <2>2, <2>3, SteadyKept
<1>7. CASE d = c
  <2>1. /\ toClient'[d] = Tail(toClient[d]) /\ Len(toClient[d]) = Len(toClient'[d]) + 1
        /\ ToSet(toClient[d]) = {Head(toClient[d])} \cup ToSet(toClient'[d])
    <3>1. toClient'[d] = Tail(toClient[d]) /\ toClient[d] \in Seq(Sent)
      BY <1>0, <1>2, <1>7
    <3>2. /\ Len(toClient'[d]) = Len(toClient[d]) - 1 /\ Len(toClient[d]) \in Nat
          /\ ToSet(toClient[d]) = {Head(toClient[d])} \cup ToSet(toClient'[d])
      BY <1>0, <1>2, <1>7, <3>1, HeadTaken DEF Numbers
    <3>. QED BY <3>1, <3>2
  <2>2. Unhandled(d) \in Nat /\ Waiting(d)' = Waiting(d) /\ Waiting(d) \in Nat
    BY <1>0, <1>4 DEF Waiting, Numbers
  <2>3. PICK q \in Nat, p \in Nat, s \in Nat, n \in Nat, k \in Nat, t \in Nat, x \in Nat :
          /\ q = conn[d].seq /\ p = peer[d].seq /\ s = Len(toServer[d]) /\ n = Waiting(d)
          /\ k = Counting(d) /\ t = Len(toClient'[d]) /\ x = Sending(d)
    BY <1>0, <2>2 DEF Numbers
  <2>4. /\ Waiting(d)' = n /\ Counting(d)' = k /\ Sending(d)' = x /\ Len(toClient[d]) = t + 1
        /\ peer'[d].seq = p + 1 /\ peer'[d].waits = FALSE
        /\ toServer'[d] = toServer[d] /\ conn'[d] = conn[d]
    BY <1>1, <1>2, <1>4, <1>7, <2>1, <2>2, <2>3
  <2>5. ASSUME d \notin strayed' PROVE Balanced(d)'
    <3>1. q + s + (IF conn[d].logged THEN 0 ELSE n) = p + (t + 1) + x
      BY <1>1, <1>3, <2>3, <2>4, <2>5 DEF Steady, Balanced
    <3>2. q + s + (IF conn[d].logged THEN 0 ELSE n) = p + 1 + t + x
      BY <3>1
    <3>. QED BY <2>3, <2>4, <3>2 DEF Balanced
  <2>6. ASSUME ~conn'[d].logged PROVE Turn(d)' /\ Numbered(d)' /\ NoLogon(d)'
    <3>1. Turn(d) /\ Numbered(d) /\ NoLogon(d)
      BY <1>3, <2>4, <2>6 DEF Steady
    <3>2. s + n + k + x + (t + 1) <= 1
      BY <2>3, <2>4, <3>1 DEF Turn, Load, One
    <3>3. s = 0 /\ n = 0 /\ k = 0 /\ x = 0 /\ t = 0
      BY <3>2
    <3>4. Load(d)' = 0
      BY <2>3, <2>4, <3>3 DEF Load
    <3>5. Turn(d)'
      BY <3>4 DEF Turn, One
    <3>6. Numbered(d)'
      <4>1. ToSet(toServer'[d]) = {}
        BY <1>0, <2>3, <2>4, <3>3, Contents
      <4>2. \A u \in Units : \A j \in ToSet(queue[u]) : j.from # d
        <5>1. Unhandled(d) = 0
          <6>1. Unhandled(d) + Owed(d) = 0
            BY <2>3, <3>3 DEF Waiting
          <6>2. Unhandled(d) \in Nat /\ Owed(d) \in Nat
            BY <1>0 DEF Numbers
          <6>. QED BY <6>1, <6>2
        <5>. QED BY <1>0, <5>1, Measured
      <4>. QED BY <1>1, <4>1, <4>2 DEF Numbered
    <3>7. NoLogon(d)'
      <4>1. \A m \in ToSet(toClient[d]) : m.kind # "Logon"
        BY <3>1 DEF NoLogon
      <4>2. ~peer'[d].login
        BY <1>2, <1>7, <2>1, <3>1, <4>1 DEF NoLogon
      <4>3. \A m \in ToSet(toClient'[d]) : m.kind # "Logon"
        BY <2>1, <4>1
      <4>. QED BY <1>1, <3>1, <4>2, <4>3 DEF NoLogon
    <3>. QED BY <3>5, <3>6, <3>7
  <2>. QED BY <2>5, <2>6 DEF Steady
<1>. QED BY <1>6, <1>7

\* A client that has closed its socket is not sound any more.
LEMMA CountPeerClose ==
  ASSUME SessionTypes, CountInv, NEW c \in Clients, PeerClose(c)
  PROVE  CountInv'
<1> SUFFICES ASSUME NEW d \in Clients, Sound(d)' PROVE Steady(d)'
  BY DEF CountInv
<1>1. UNCHANGED <<conn, queue, out, worker, removing, closing, toServer, strayed>>
  BY DEF PeerClose
<1>2. /\ toClient' = [toClient EXCEPT ![c] = <<>>] /\ peer'[c].state = "closed"
      /\ \A x \in Clients : x # c => peer'[x] = peer[x]
  BY PeerCloseSteps
<1>3. d # c /\ Sound(d) /\ peer'[d] = peer[d]
  BY <1>1, <1>2 DEF Sound, Pending
<1>4. toClient'[d] = toClient[d]
  BY <1>2, <1>3 DEF SessionTypes, PeerTypes
<1>5. Unhandled(d)' = Unhandled(d) /\ Owed(d)' = Owed(d)
  BY <1>1 DEF Unhandled, Held, Of, Owed, To, Answering
<1>6. StillCounted(d) /\ StillEnds(d)
  BY <1>1, <1>3, <1>4, <1>5, StageIs DEF Counting, Sending, StillCounted, StillEnds, Waiting
<1>7. NoNewMessage(d) /\ NoNewLogon(d)
  BY <1>1, <1>4, NothingNew DEF NoNewLogon
<1>. QED BY <1>1, <1>3, <1>6, <1>7, SteadyKept DEF CountInv

\* Every step keeps the account.
LEMMA CountStep == SessionTypes /\ KnownInv /\ CountInv /\ [Next]_vars => CountInv'
<1> SUFFICES ASSUME SessionTypes, KnownInv, CountInv, [Next]_vars PROVE CountInv'
  OBVIOUS
<1>0. Numbers' /\ QueueTypes'
  BY NumbersNext, QueueNext
<1>1. CASE Input
  BY <1>0, <1>1, CountInput
<1>2. CASE Handlers
  BY <1>0, <1>2, CountHandlers
<1>3. CASE Removal
  BY <1>3, CountRemoval
<1>4. ASSUME NEW w \in Workers, Output(w) PROVE CountInv'
  BY <1>0, <1>4, CountNumber, CountCount, CountSend, CountDone DEF Output
<1>5. ASSUME NEW c \in Clients, CheckHeartBeat(c) \/ MarketFills(c) PROVE CountInv'
  BY <1>0, <1>5, CountTimed
<1>6. ASSUME NEW c \in Clients, Peer(c) PROVE CountInv'
  BY <1>0, <1>6, CountPeerSend, CountPeerReceive, CountPeerClose DEF Peer
<1>7. CASE UNCHANGED vars
  <2>1. UNCHANGED <<conn, queue, out, worker, removing, closing, peer, toServer, toClient, strayed>>
    BY <1>7 DEF vars, serverVars, peerVars, historyVars
  <2>2. \A d \in Clients : Sound(d)' => Sound(d) /\ StillEnds(d)
    BY <2>1 DEF Sound, Pending, StillEnds
  <2>. QED BY <2>1, <2>2, CountFrame
<1>. QED BY <1>1, <1>2, <1>3, <1>4, <1>5, <1>6, <1>7 DEF Next

\* When nothing is on its way the two counters are all there is.
LEMMA CountSuffices == SessionTypes /\ CountInv => CountersAgree
<1> SUFFICES ASSUME SessionTypes, CountInv, NEW c \in Clients \ strayed,
                    conn[c].open, peer[c].state = "on", Quiet(c)
    PROVE  conn[c].seq = peer[c].seq
  BY DEF CountersAgree
<1>0. QueueTypes /\ c \in Clients /\ c \notin strayed
  BY DEF SessionTypes
<1>1. toServer[c] = <<>> /\ toClient[c] = <<>> /\ c \notin ToSet(removing) /\ closing # c
  BY DEF Quiet
<1>2. Steady(c)
  BY <1>1 DEF CountInv, Sound, Pending
<1>3. \A u \in Units : \A j \in ToSet(queue[u]) : j.from # c
  BY DEF Quiet, ToSet
<1>4. \A a \in ToSet(out) : a.to # c
  BY DEF Quiet, ToSet
<1>5. Unhandled(c) = 0 /\ Owed(c) = 0
  BY <1>0, <1>3, <1>4, Measured
<1>6. Sending(c) = 0
  BY StageIs DEF Quiet, Sending
<1>7. Len(toServer[c]) = 0 /\ Len(toClient[c]) = 0
  BY <1>1, Contents
<1>8. conn[c].seq \in Nat /\ peer[c].seq \in Nat
  BY NumbersTyped DEF Numbers
<1>9. Balanced(c)
  BY <1>0, <1>2 DEF Steady
<1>. QED BY <1>5, <1>6, <1>7, <1>8, <1>9 DEF Balanced, Waiting

\* Whatever is answered, refused or reported unasked, before and after the Logon,
\* and however many threads send, the two ends have counted the same messages
\* once nothing is on its way: only two threads at once, or one read of two
\* messages, make them differ.
THEOREM CountersInStep == Spec => []CountersAgree
<1>. QED BY TypesStart, TypesStep, KnownStart, KnownStep, CountStart, CountStep, CountSuffices, PTL
         DEF Spec

=============================================================================
