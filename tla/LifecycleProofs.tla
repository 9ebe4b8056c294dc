--------------------------- MODULE LifecycleProofs ---------------------------
(***************************************************************************)
(* Proofs about Lifecycle, for every set of messages and every bound.      *)
(***************************************************************************)
EXTENDS Lifecycle, TLAPS, SequenceTheorems

-----------------------------------------------------------------------------
(* The threads, and what Core ends *)

\* The threads that Core ends, and which of its duties each of them is.
Own == {"input", "header", "router", "mrouter", "logon", "logout", "heartbeat", "market",
        "output", "heartbeatPool", "logoutPool", "logonPool", "outputPool", "eventPool"}
Siblings == {"neworder", "cancel", "event"}

TurnOf(t) ==
  CASE t = "input" -> 1 [] t = "header" -> 2 [] t = "router" -> 3 [] t = "mrouter" -> 4
    [] t = "logon" -> 5 [] t = "logout" -> 6 [] t = "heartbeat" -> 7 [] t = "market" -> 8
    [] t = "output" -> 9 [] t = "heartbeatPool" -> 10 [] t = "logoutPool" -> 11
    [] t = "logonPool" -> 12 [] t = "outputPool" -> 13 [] t = "cancel" -> 14
    [] t = "neworder" -> 15 [] t = "event" -> 16 [] t = "eventPool" -> 17
ChildOf(t) == CASE t = "neworder" -> 1 [] t = "cancel" -> 2 [] t = "event" -> 3

\* What Core ends is a list of seventeen names.
LEMMA DutiesAre ==
  /\ Len(Units) = 9 /\ Len(Duties) = 17 /\ DOMAIN Duties = 1..17
  /\ Duties[1] = "input" /\ Duties[2] = "header" /\ Duties[3] = "router"
  /\ Duties[4] = "mrouter" /\ Duties[5] = "logon" /\ Duties[6] = "logout"
  /\ Duties[7] = "heartbeat" /\ Duties[8] = "market" /\ Duties[9] = "output"
  /\ Duties[10] = "heartbeatPool" /\ Duties[11] = "logoutPool" /\ Duties[12] = "logonPool"
  /\ Duties[13] = "outputPool" /\ Duties[14] = "cancel" /\ Duties[15] = "neworder"
  /\ Duties[16] = "event" /\ Duties[17] = "eventPool"
<1> DEFINE Names == Own \cup Siblings
<1>1. /\ Units \in Seq(Names) /\ Leftovers \in Seq(Names)
      /\ Len(Units) = 9 /\ Len(Leftovers) = 8
  BY DEF Units, Leftovers, Own, Siblings
<1>2. /\ Len(Duties) = 17 /\ Duties \in Seq(Names)
      /\ \A i \in 1..17 : Duties[i] = IF i <= 9 THEN Units[i] ELSE Leftovers[i - 9]
  <2> HIDE DEF Names
  <2>1. /\ Units \o Leftovers \in Seq(Names)
        /\ Len(Units \o Leftovers) = Len(Units) + Len(Leftovers)
        /\ \A i \in 1..(Len(Units) + Len(Leftovers)) :
             (Units \o Leftovers)[i] = IF i <= Len(Units) THEN Units[i] ELSE Leftovers[i - Len(Units)]
    BY <1>1, ConcatProperties
  <2>2. Duties = Units \o Leftovers
    BY DEF Duties
  <2> HIDE DEF Duties, Units, Leftovers
  <2>3. Len(Units) + Len(Leftovers) = 17 /\ Len(Units) = 9
    BY <1>1
  <2>. QED BY <2>1, <2>2, <2>3
<1> HIDE DEF Names
<1> HIDE DEF Duties
<1>3. /\ Duties[1] = Units[1] /\ Duties[2] = Units[2] /\ Duties[3] = Units[3]
      /\ Duties[4] = Units[4] /\ Duties[5] = Units[5] /\ Duties[6] = Units[6]
      /\ Duties[7] = Units[7] /\ Duties[8] = Units[8] /\ Duties[9] = Units[9]
      /\ Duties[10] = Leftovers[1] /\ Duties[11] = Leftovers[2] /\ Duties[12] = Leftovers[3]
      /\ Duties[13] = Leftovers[4] /\ Duties[14] = Leftovers[5] /\ Duties[15] = Leftovers[6]
      /\ Duties[16] = Leftovers[7] /\ Duties[17] = Leftovers[8]
  BY <1>2
<1>4. /\ Units[1] = "input" /\ Units[2] = "header" /\ Units[3] = "router"
      /\ Units[4] = "mrouter" /\ Units[5] = "logon" /\ Units[6] = "logout"
      /\ Units[7] = "heartbeat" /\ Units[8] = "market" /\ Units[9] = "output"
  BY DEF Units
<1>5. /\ Leftovers[1] = "heartbeatPool" /\ Leftovers[2] = "logoutPool"
      /\ Leftovers[3] = "logonPool" /\ Leftovers[4] = "outputPool" /\ Leftovers[5] = "cancel"
      /\ Leftovers[6] = "neworder" /\ Leftovers[7] = "event" /\ Leftovers[8] = "eventPool"
  BY DEF Leftovers
<1>. QED BY <1>1, <1>2, <1>3, <1>4, <1>5

\* The turns of the threads are those of the list of duties.
LEMMA TurnsAre ==
  /\ \A t \in Own \cup Siblings : TurnOf(t) \in 1..17 /\ Duties[TurnOf(t)] = t
  /\ \A i \in 1..17 : Duties[i] \in Own \cup Siblings /\ TurnOf(Duties[i]) = i
<1>1. \A t \in Own \cup Siblings : TurnOf(t) \in 1..17 /\ Duties[TurnOf(t)] = t
  BY DutiesAre DEF Own, Siblings, TurnOf
<1>2. ASSUME NEW i \in 1..17 PROVE Duties[i] \in Own \cup Siblings /\ TurnOf(Duties[i]) = i
  <2>1. \/ i = 1 \/ i = 2 \/ i = 3 \/ i = 4 \/ i = 5 \/ i = 6 \/ i = 7 \/ i = 8 \/ i = 9
        \/ i = 10 \/ i = 11 \/ i = 12 \/ i = 13 \/ i = 14 \/ i = 15 \/ i = 16 \/ i = 17
    OBVIOUS
  <2>. QED BY <2>1, DutiesAre DEF Own, Siblings, TurnOf
<1>. QED BY <1>1, <1>2

\* The children of the market are a list of three.
LEMMA ChildrenAre ==
  /\ Len(Children) = 3 /\ DOMAIN Children = 1..3 /\ ToSet(Children) = Siblings
  /\ \A t \in Siblings : ChildOf(t) \in 1..3 /\ Children[ChildOf(t)] = t
  /\ \A i \in 1..3 : Children[i] \in Siblings /\ ChildOf(Children[i]) = i
<1>1. /\ Len(Children) = 3 /\ DOMAIN Children = 1..3
      /\ Children[1] = "neworder" /\ Children[2] = "cancel" /\ Children[3] = "event"
  BY DEF Children
<1>2. \A i \in 1..3 : i = 1 \/ i = 2 \/ i = 3
  OBVIOUS
<1> HIDE DEF Children
<1>3. ToSet(Children) = Siblings
  BY <1>1, <1>2 DEF ToSet, Siblings
<1>. QED BY <1>1, <1>2, <1>3 DEF Siblings, ChildOf

\* All threads by name.
LEMMA ThreadsAre ==
  Threads = Own \cup Siblings \cup {"neworderWorker", "cancelWorker", "watch", "removePool"}
<1>1. ToSet(Duties) = Own \cup Siblings
  BY DutiesAre, TurnsAre DEF ToSet
<1>. QED BY <1>1, ChildrenAre DEF Threads, Workers, MarketWorkers, Pools, Own

-----------------------------------------------------------------------------
(* Handing messages on *)

\* What Put gives to each thread.
LEMMA PutIs ==
  ASSUME NEW q \in [Threads -> Seq(Messages)], NEW G \in SUBSET Threads,
         NEW given \in [G -> Messages]
  PROVE  /\ Put(q, given) \in [Threads -> Seq(Messages)]
         /\ \A u \in G : Put(q, given)[u] = Append(q[u], given[u])
         /\ \A u \in Threads \ G : Put(q, given)[u] = q[u]
<1>1. DOMAIN given = G /\ DOMAIN q = Threads
  OBVIOUS
<1>2. Put(q, given) = [u \in Threads |-> IF u \in G THEN Append(q[u], given[u]) ELSE q[u]]
  BY <1>1 DEF Put
<1>3. \A u \in G : u \in Threads /\ q[u] \in Seq(Messages) /\ given[u] \in Messages
  OBVIOUS
<1>4. \A u \in G : Append(q[u], given[u]) \in Seq(Messages)
  BY <1>3, AppendProperties
<1>. QED BY <1>2, <1>3, <1>4

-----------------------------------------------------------------------------
(* The line of the requests *)

Rising(s) == \A i, j \in DOMAIN s : i < j => s[i] < s[j]

\* Four queues of numbers, the first ahead of the others, in the order of
\* arrival; n is the last number that was given.
Ordered(f, n) ==
  /\ \A p \in 0..3 : Rising(f[p]) /\ \A i \in DOMAIN f[p] : f[p][i] \in 1..n
  /\ \A p, q \in 0..3 : p < q => \A i \in DOMAIN f[p], j \in DOMAIN f[q] : f[p][i] < f[q][j]

\* Every number of t is one of s.
From(t, s) == \A i \in DOMAIN t : \E j \in DOMAIN s : t[i] = s[j]

\* A line is in order still when some have left it.
LEMMA LineThinned ==
  ASSUME NEW f, NEW g, NEW n \in Nat, NEW m \in Nat, n <= m, Ordered(f, n),
         \A p \in 0..3 : Rising(g[p]) /\ From(g[p], f[p])
  PROVE  Ordered(g, m)
<1>1. \A p \in 0..3 : \A i \in DOMAIN g[p] : g[p][i] \in 1..m
  BY DEF Ordered, From
<1>2. ASSUME NEW p \in 0..3, NEW q \in 0..3, p < q, NEW i \in DOMAIN g[p], NEW j \in DOMAIN g[q]
      PROVE  g[p][i] < g[q][j]
  <2>1. PICK k \in DOMAIN f[p] : g[p][i] = f[p][k]
    BY DEF From
  <2>2. PICK l \in DOMAIN f[q] : g[q][j] = f[q][l]
    BY DEF From
  <2>. QED BY <1>2, <2>1, <2>2 DEF Ordered
<1>. QED BY <1>1, <1>2 DEF Ordered

\* The first of a queue is ahead of those behind it.
LEMMA TailThins ==
  ASSUME NEW s \in Seq(Nat), s # <<>>, Rising(s)
  PROVE  /\ Tail(s) \in Seq(Nat) /\ Rising(Tail(s)) /\ From(Tail(s), s)
         /\ Head(s) = s[1] /\ 1 \in DOMAIN s
         /\ \A i \in DOMAIN Tail(s) : Head(s) < Tail(s)[i]
<1>1. /\ Tail(s) \in Seq(Nat) /\ Len(Tail(s)) = Len(s) - 1 /\ Head(s) = s[1]
      /\ \A i \in 1..Len(Tail(s)) : Tail(s)[i] = s[i + 1]
  BY HeadTailProperties
<1>2. Len(s) \in Nat /\ Len(s) >= 1 /\ DOMAIN s = 1..Len(s)
  BY EmptySeq
<1>3. DOMAIN Tail(s) = 1..(Len(s) - 1) /\ \A i \in 1..(Len(s) - 1) : i + 1 \in DOMAIN s
  BY <1>1, <1>2
<1>4. Rising(Tail(s))
  BY <1>1, <1>2, <1>3 DEF Rising
<1>5. From(Tail(s), s)
  BY <1>1, <1>2, <1>3 DEF From
<1>6. \A i \in DOMAIN Tail(s) : Head(s) < Tail(s)[i]
  BY <1>1, <1>2, <1>3 DEF Rising
<1>. QED BY <1>1, <1>2, <1>4, <1>5, <1>6

\* A number that is greater than all others may be appended.
LEMMA AppendRises ==
  ASSUME NEW s \in Seq(Nat), NEW x \in Nat, Rising(s), \A i \in DOMAIN s : s[i] < x
  PROVE  /\ Append(s, x) \in Seq(Nat) /\ Rising(Append(s, x))
         /\ \A i \in DOMAIN Append(s, x) : \/ i \in DOMAIN s /\ Append(s, x)[i] = s[i]
                                           \/ Append(s, x)[i] = x
<1>1. /\ Append(s, x) \in Seq(Nat) /\ Len(Append(s, x)) = Len(s) + 1 /\ Len(s) \in Nat
      /\ \A i \in 1..Len(s) : Append(s, x)[i] = s[i]
      /\ Append(s, x)[Len(s) + 1] = x
  BY AppendProperties
<1>2. DOMAIN Append(s, x) = 1..(Len(s) + 1) /\ DOMAIN s = 1..Len(s)
  BY <1>1
<1>3. \A i \in 1..(Len(s) + 1) : i \in 1..Len(s) \/ i = Len(s) + 1
  BY <1>1
<1>4. ASSUME NEW i \in 1..(Len(s) + 1), NEW j \in 1..(Len(s) + 1), i < j
      PROVE  Append(s, x)[i] < Append(s, x)[j]
  <2>1. i \in 1..Len(s)
    BY <1>1, <1>4
  <2>. QED BY <1>1, <1>2, <1>3, <1>4, <2>1 DEF Rising
<1>. QED BY <1>1, <1>2, <1>3, <1>4 DEF Rising

\* A line is in order still when the first of one queue joins the next one.
LEMMA LineMoved ==
  ASSUME NEW f, NEW g, NEW n \in Nat, NEW p \in 1..3, Ordered(f, n),
         \A q \in 0..3 : f[q] \in Seq(Nat), f[p] # <<>>,
         g[p] = Tail(f[p]), g[p - 1] = Append(f[p - 1], Head(f[p])),
         \A q \in 0..3 : q # p /\ q # p - 1 => g[q] = f[q]
  PROVE  Ordered(g, n)
<1> DEFINE x == Head(f[p])
<1>1. p \in 0..3 /\ p - 1 \in 0..3 /\ p - 1 < p /\ p - 1 # p
  OBVIOUS
<1>2. /\ Rising(g[p]) /\ From(g[p], f[p]) /\ x = f[p][1] /\ 1 \in DOMAIN f[p]
      /\ \A i \in DOMAIN g[p] : x < g[p][i]
  BY <1>1, TailThins DEF Ordered
<1>3. x \in 1..n /\ x \in Nat
  BY <1>1, <1>2 DEF Ordered
<1>4. \A i \in DOMAIN f[p - 1] : f[p - 1][i] < x
  BY <1>1, <1>2 DEF Ordered
<1>5. /\ Rising(g[p - 1])
      /\ \A i \in DOMAIN g[p - 1] : \/ i \in DOMAIN f[p - 1] /\ g[p - 1][i] = f[p - 1][i]
                                    \/ g[p - 1][i] = x
  <2> HIDE DEF x
  <2>1. f[p - 1] \in Seq(Nat) /\ Rising(f[p - 1]) /\ g[p - 1] = Append(f[p - 1], x)
    BY <1>1 DEF Ordered, x
  <2>. QED BY <1>3, <1>4, <2>1, AppendRises
<1> HIDE DEF x
<1>6. ASSUME NEW q \in 0..3 PROVE Rising(g[q]) /\ \A i \in DOMAIN g[q] : g[q][i] \in 1..n
  <2>1. CASE q = p
    BY <1>1, <1>2, <2>1 DEF Ordered, From
  <2>2. CASE q = p - 1
    BY <1>1, <1>3, <1>5, <2>2 DEF Ordered
  <2>3. CASE q # p /\ q # p - 1
    BY <2>3 DEF Ordered
  <2>. QED BY <2>1, <2>2, <2>3
<1>7. ASSUME NEW q \in 0..3, NEW r \in 0..3, q < r, NEW i \in DOMAIN g[q], NEW j \in DOMAIN g[r]
      PROVE  g[q][i] < g[r][j]
  <2>1. \/ \E k \in DOMAIN f[q] : g[q][i] = f[q][k]
        \/ q = p - 1 /\ g[q][i] = x
    <3>1. CASE q = p
      BY <1>2, <3>1 DEF From
    <3>2. CASE q = p - 1
      BY <1>5, <3>2
    <3>3. CASE q # p /\ q # p - 1
      BY <3>3
    <3>. QED BY <3>1, <3>2, <3>3
  <2>2. \/ \E k \in DOMAIN f[r] : g[r][j] = f[r][k]
        \/ r = p - 1 /\ g[r][j] = x
    <3>1. CASE r = p
      BY <1>2, <3>1 DEF From
    <3>2. CASE r = p - 1
      BY <1>5, <3>2
    <3>3. CASE r # p /\ r # p - 1
      BY <3>3
    <3>. QED BY <3>1, <3>2, <3>3
  <2>3. CASE q = p - 1 /\ g[q][i] = x
    <3>1. CASE r = p
      BY <1>2, <2>3, <3>1
    <3>2. CASE r # p
      <4>1. p < r /\ \E k \in DOMAIN f[r] : g[r][j] = f[r][k]
        BY <1>1, <1>7, <2>2, <2>3, <3>2
      <4>. QED BY <1>1, <1>2, <2>3, <4>1 DEF Ordered
    <3>. QED BY <3>1, <3>2
  <2>4. CASE r = p - 1 /\ g[r][j] = x
    <3>1. q < p /\ q # p - 1
      BY <1>7, <2>4
    <3>2. \E k \in DOMAIN f[q] : g[q][i] = f[q][k]
      BY <2>1, <3>1
    <3>. QED BY <1>1, <1>2, <2>4, <3>1, <3>2 DEF Ordered
  <2>5. CASE /\ \E k \in DOMAIN f[q] : g[q][i] = f[q][k]
             /\ \E k \in DOMAIN f[r] : g[r][j] = f[r][k]
    BY <1>7, <2>5 DEF Ordered
  <2>. QED BY <2>1, <2>2, <2>3, <2>4, <2>5
<1>. QED BY <1>6, <1>7 DEF Ordered

\* A line is in order still when a new number joins the last queue.
LEMMA LineJoined ==
  ASSUME NEW f, NEW g, NEW n \in Nat, Ordered(f, n), f[3] \in Seq(Nat),
         g[3] = Append(f[3], n + 1), \A q \in 0..2 : g[q] = f[q]
  PROVE  Ordered(g, n + 1)
<1>1. \A q \in 0..3 : q \in 0..2 \/ q = 3
  OBVIOUS
<1>2. \A q \in 0..3 : \A i \in DOMAIN f[q] : f[q][i] \in 1..n /\ f[q][i] \in 1..(n + 1) /\ f[q][i] < n + 1
  BY DEF Ordered
<1>3. /\ Rising(g[3])
      /\ \A i \in DOMAIN g[3] : \/ i \in DOMAIN f[3] /\ g[3][i] = f[3][i]
                                \/ g[3][i] = n + 1
  BY <1>2, AppendRises DEF Ordered
<1>4. ASSUME NEW q \in 0..3 PROVE Rising(g[q]) /\ \A i \in DOMAIN g[q] : g[q][i] \in 1..(n + 1)
  <2>1. CASE q = 3
    <3>1. n + 1 \in 1..(n + 1)
      OBVIOUS
    <3>. QED BY <1>2, <1>3, <2>1, <3>1
  <2>2. CASE q # 3
    BY <1>1, <1>2, <2>2 DEF Ordered
  <2>. QED BY <2>1, <2>2
<1>5. ASSUME NEW q \in 0..3, NEW r \in 0..3, q < r, NEW i \in DOMAIN g[q], NEW j \in DOMAIN g[r]
      PROVE  g[q][i] < g[r][j]
  <2>1. q \in 0..2 /\ g[q] = f[q]
    BY <1>5
  <2>2. CASE r = 3
    BY <1>2, <1>3, <1>5, <2>1, <2>2 DEF Ordered
  <2>3. CASE r # 3
    BY <1>1, <1>5, <2>1, <2>3 DEF Ordered
  <2>. QED BY <2>2, <2>3
<1>. QED BY <1>4, <1>5 DEF Ordered

\* finish() takes one ticket out of a queue in which no ticket is there twice.
LEMMA RemoveThins ==
  ASSUME NEW s \in Seq(Nat), NEW x, Rising(s)
  PROVE  /\ RemoveFirst(s, x) \in Seq(Nat) /\ Rising(RemoveFirst(s, x))
         /\ From(RemoveFirst(s, x), s)
<1>1. CASE ~ \E i \in 1..Len(s) : s[i] = x
  BY <1>1 DEF RemoveFirst, From
<1>2. CASE \E i \in 1..Len(s) : s[i] = x
  <2>1. PICK i \in 1..Len(s) : s[i] = x
    BY <1>2
  <2>2. {k \in 1..Len(s) : s[k] = x} = {i}
    <3>1. ASSUME NEW k \in 1..Len(s), s[k] = x PROVE k = i
      <4>1. ~(k < i) /\ ~(i < k)
        BY <2>1, <3>1 DEF Rising
      <4>. QED BY <4>1
    <3>. QED BY <2>1, <3>1
  <2>3. Min({i}) = i
    BY DEF Min
  <2>4. RemoveFirst(s, x) = RemoveAt(s, i)
    BY <1>2, <2>2, <2>3 DEF RemoveFirst, SelectInSeq
  <2> DEFINE n == Len(s)
             a == SubSeq(s, 1, i - 1)
             b == SubSeq(s, i + 1, n)
  <2>5. n \in Nat /\ i \in 1..n /\ DOMAIN s = 1..n /\ \A k \in 1..n : s[k] \in Nat
    OBVIOUS
  <2>6. a \in Seq(Nat) /\ Len(a) = i - 1 /\ \A k \in 1..(i - 1) : a[k] = s[k]
    BY <2>5, SubSeqProperties
  <2>7. b \in Seq(Nat) /\ Len(b) = n - i /\ \A k \in 1..(n - i) : b[k] = s[k + i]
    <3> DEFINE m == i + 1
    <3>1. m \in Int /\ n \in Int /\ \A k \in m..n : s[k] \in Nat
      BY <2>5
    <3>3. n - m + 1 = n - i /\ (~(m <= n) => n - i = 0)
      <4>1. i \in Int /\ n \in Int /\ i <= n
        BY <2>5
      <4> HIDE DEF n
      <4>2. n - (i + 1) + 1 = n - i /\ (~(i + 1 <= n) => n - i = 0)
        BY <4>1
      <4>. QED BY <4>2
    <3>4. \A k \in 1..(n - i) : m + k - 1 = k + i
      BY <2>5
    <3> HIDE DEF m, n
    <3>2. /\ SubSeq(s, m, n) \in Seq(Nat)
          /\ Len(SubSeq(s, m, n)) = IF m <= n THEN n - m + 1 ELSE 0
          /\ \A k \in 1..(n - m + 1) : SubSeq(s, m, n)[k] = s[m + k - 1]
      BY <3>1, SubSeqProperties
    <3>. QED BY <3>2, <3>3, <3>4 DEF m
  <2> HIDE DEF a, b, n
  <2>8. /\ a \o b \in Seq(Nat) /\ Len(a \o b) = n - 1
        /\ \A k \in 1..(n - 1) : (a \o b)[k] = IF k <= i - 1 THEN a[k] ELSE b[k - (i - 1)]
    <3>1. /\ a \o b \in Seq(Nat) /\ Len(a \o b) = Len(a) + Len(b)
          /\ \A k \in 1..(Len(a) + Len(b)) : (a \o b)[k] = IF k <= Len(a) THEN a[k] ELSE b[k - Len(a)]
      BY <2>6, <2>7, ConcatProperties
    <3>2. Len(a) + Len(b) = n - 1
      BY <2>5, <2>6, <2>7
    <3>. QED BY <2>6, <3>1, <3>2
  <2>9. ASSUME NEW k \in 1..(n - 1) PROVE (a \o b)[k] = IF k < i THEN s[k] ELSE s[k + 1]
    <3>1. CASE k < i
      BY <2>5, <2>6, <2>8, <3>1
    <3>2. CASE ~(k < i)
      <4>1. ~(k <= i - 1) /\ k - (i - 1) \in 1..(n - i) /\ (k - (i - 1)) + i = k + 1
        BY <2>5, <3>2
      <4>. QED BY <2>7, <2>8, <3>2, <4>1
    <3>. QED BY <3>1, <3>2
  <2>10. RemoveAt(s, i) = a \o b
    BY DEF RemoveAt, a, b, n
  <2>11. DOMAIN (a \o b) = 1..(n - 1)
    BY <2>8
  <2>12. From(a \o b, s)
    <3>1. ASSUME NEW k \in 1..(n - 1) PROVE \E j \in 1..n : (a \o b)[k] = s[j]
      <4>1. k \in 1..n /\ k + 1 \in 1..n
        BY <2>5
      <4>. QED BY <2>9, <4>1
    <3>. QED BY <2>5, <2>11, <3>1 DEF From
  <2>13. ASSUME NEW j \in 1..(n - 1), NEW k \in 1..(n - 1), j < k
         PROVE  (a \o b)[j] < (a \o b)[k]
    <3>1. \A p, q \in 1..n : p < q => s[p] < s[q]
      BY <2>5 DEF Rising
    <3>2. j \in 1..n /\ k \in 1..n /\ j + 1 \in 1..n /\ k + 1 \in 1..n
      BY <2>5
    <3>3. s[j] < s[k] /\ s[j + 1] < s[k + 1] /\ s[j] < s[k + 1]
      BY <2>13, <3>1, <3>2
    <3>4. ~(k < i) \/ j < i \/ ~(j < i)
      OBVIOUS
    <3>5. k < i => j < i
      BY <2>5, <2>13
    <3>. QED BY <2>9, <3>3, <3>5
  <2>. QED BY <2>4, <2>8, <2>10, <2>11, <2>12, <2>13 DEF Rising
<1>. QED BY <1>1, <1>2

-----------------------------------------------------------------------------
(* The requests on their way to the market *)

Ids(q) == [k \in DOMAIN q |-> q[k].id]

\* The requests that have a ticket, and those in the three units that stand
\* before the ticket, the nearest first.
Line == [p \in 0..3 |-> CASE p = 0 -> tickets
                          [] p = 1 -> Ids(queue["mrouter"])
                          [] p = 2 -> Ids(queue["router"])
                          [] p = 3 -> Ids(queue["header"])]

\* What the first two units hand on has come from a client.
FromClients ==
  \A t \in {"header", "router"} : \A k \in DOMAIN queue[t] : queue[t][k].kind \in Kinds

LineInv == tickets \in Seq(Nat) /\ FromClients /\ Ordered(Line, inputs)

\* The type invariant, but for the order of the tickets.
PlainTypes ==
  /\ state \in [Threads -> States]
  /\ queue \in [Threads -> Seq(Messages)]
  /\ hand \in [MarketWorkers -> Messages \cup {None}]
  /\ failed \subseteq {"cancel", "market"} /\ signalled \in BOOLEAN /\ locked \in BOOLEAN
  /\ duty \in 0..(Len(Duties) + 1) /\ child \in 0..Len(Children)
  /\ inputs \in 0..MaxInputs
  /\ late \subseteq Threads \X (Threads \cup {"freed"})

\* The ids of a queue that grows or shrinks.
LEMMA IdsAre ==
  ASSUME NEW q \in Seq(Messages)
  PROVE  /\ Ids(q) \in Seq(Nat)
         /\ \A m \in Messages : Ids(Append(q, m)) = Append(Ids(q), m.id)
         /\ q # <<>> => Ids(q) # <<>> /\ Ids(Tail(q)) = Tail(Ids(q)) /\ Head(Ids(q)) = Head(q).id
<1>1. /\ Len(q) \in Nat /\ DOMAIN q = 1..Len(q) /\ \A k \in 1..Len(q) : q[k] \in Messages
  OBVIOUS
<1>2. \A m \in Messages : m.id \in Nat
  BY BoundsAssumption DEF Messages
<1>3. /\ DOMAIN Ids(q) = 1..Len(q) /\ Ids(q) \in Seq(Nat) /\ Len(Ids(q)) = Len(q)
      /\ \A k \in 1..Len(q) : Ids(q)[k] = q[k].id
  BY <1>1, <1>2 DEF Ids
<1>4. ASSUME NEW m \in Messages PROVE Ids(Append(q, m)) = Append(Ids(q), m.id)
  <2>1. /\ Append(q, m) \in Seq(Messages) /\ Len(Append(q, m)) = Len(q) + 1
        /\ \A k \in 1..Len(q) : Append(q, m)[k] = q[k]
        /\ Append(q, m)[Len(q) + 1] = m
    BY AppendProperties
  <2>2. DOMAIN Ids(Append(q, m)) = 1..(Len(q) + 1)
    BY <1>1, <2>1 DEF Ids
  <2>3. /\ Append(Ids(q), m.id) \in Seq(Nat) /\ Len(Append(Ids(q), m.id)) = Len(q) + 1
        /\ \A k \in 1..Len(q) : Append(Ids(q), m.id)[k] = q[k].id
        /\ Append(Ids(q), m.id)[Len(q) + 1] = m.id
    BY <1>2, <1>3, AppendProperties
  <2>4. \A k \in 1..(Len(q) + 1) : Ids(Append(q, m))[k] = Append(q, m)[k].id
    BY <1>1, <2>1 DEF Ids
  <2>5. \A k \in 1..(Len(q) + 1) : k \in 1..Len(q) \/ k = Len(q) + 1
    BY <1>1
  <2>6. \A k \in 1..(Len(q) + 1) : Ids(Append(q, m))[k] = Append(Ids(q), m.id)[k]
    BY <2>1, <2>3, <2>4, <2>5
  <2>7. /\ DOMAIN Append(Ids(q), m.id) = 1..(Len(q) + 1)
        /\ Ids(Append(q, m)) = [k \in 1..(Len(q) + 1) |-> Ids(Append(q, m))[k]]
        /\ Append(Ids(q), m.id) = [k \in 1..(Len(q) + 1) |-> Append(Ids(q), m.id)[k]]
    <3>1. Ids(Append(q, m)) = [k \in DOMAIN Ids(Append(q, m)) |-> Ids(Append(q, m))[k]]
      BY DEF Ids
    <3>. QED BY <2>2, <2>3, <3>1
  <2>. QED BY <2>6, <2>7
<1>5. ASSUME q # <<>>
      PROVE  Ids(q) # <<>> /\ Ids(Tail(q)) = Tail(Ids(q)) /\ Head(Ids(q)) = Head(q).id
  <2>1. Len(q) >= 1 /\ Head(q) = q[1] /\ 1 \in 1..Len(q)
    BY <1>1, <1>5, EmptySeq
  <2>2. Ids(q) # <<>> /\ Head(Ids(q)) = Ids(q)[1]
    BY <1>3, <2>1
  <2>3. /\ Tail(q) \in Seq(Messages) /\ Len(Tail(q)) = Len(q) - 1
        /\ \A k \in 1..(Len(q) - 1) : Tail(q)[k] = q[k + 1]
    BY <1>5, HeadTailProperties
  <2>4. /\ Tail(Ids(q)) \in Seq(Nat) /\ Len(Tail(Ids(q))) = Len(q) - 1
        /\ \A k \in 1..(Len(q) - 1) : Tail(Ids(q))[k] = Ids(q)[k + 1]
    BY <1>3, <2>2, HeadTailProperties
  <2>5. \A k \in 1..(Len(q) - 1) : k + 1 \in 1..Len(q)
    BY <1>1
  <2>6. /\ DOMAIN Tail(q) = 1..(Len(q) - 1) /\ DOMAIN Tail(Ids(q)) = 1..(Len(q) - 1)
    BY <1>1, <2>1, <2>3, <2>4
  <2>7. \A k \in 1..(Len(q) - 1) : Tail(q)[k].id = Tail(Ids(q))[k]
    BY <1>3, <2>3, <2>4, <2>5
  <2>8. Ids(Tail(q)) = [k \in 1..(Len(q) - 1) |-> Tail(q)[k].id]
    BY <2>6 DEF Ids
  <2>9. Ids(Tail(q)) \in Seq(Nat) /\ Len(Ids(Tail(q))) = Len(q) - 1
    <3> DEFINE n == Len(q) - 1
    <3>1. n \in Nat /\ Ids(Tail(q)) = [k \in 1..n |-> Tail(q)[k].id]
      BY <1>1, <2>1, <2>8
    <3>2. \A k \in 1..n : Tail(q)[k].id \in Nat
      BY <1>2, <2>3
    <3> HIDE DEF n
    <3>3. Ids(Tail(q)) \in Seq(Nat) /\ Len(Ids(Tail(q))) = n
      <4> DEFINE g == [k \in 1..n |-> Tail(q)[k].id]
      <4>1. g \in [1..n -> Nat]
        BY <3>2
      <4> HIDE DEF g
      <4>2. g \in Seq(Nat) /\ Len(g) = n
        BY <3>1, <4>1
      <4>. QED BY <3>1, <4>2 DEF g
    <3>. QED BY <3>3 DEF n
  <2>10. \A k \in 1..(Len(q) - 1) : Ids(Tail(q))[k] = Tail(Ids(q))[k]
    BY <2>7, <2>8
  <2>11. Ids(Tail(q)) = Tail(Ids(q))
    BY <2>4, <2>9, <2>10, SeqEqual
  <2>. QED BY <1>3, <2>1, <2>2, <2>11
<1>. QED BY <1>3, <1>4, <1>5

\* Its four queues.
LEMMA LineIs ==
  /\ Line[0] = tickets /\ Line[1] = Ids(queue["mrouter"])
  /\ Line[2] = Ids(queue["router"]) /\ Line[3] = Ids(queue["header"])
  /\ PlainTypes /\ tickets \in Seq(Nat) => \A p \in 0..3 : Line[p] \in Seq(Nat)
<1>1. /\ Line[0] = tickets /\ Line[1] = Ids(queue["mrouter"])
      /\ Line[2] = Ids(queue["router"]) /\ Line[3] = Ids(queue["header"])
  BY DEF Line
<1>2. \A p \in 0..3 : p = 0 \/ p = 1 \/ p = 2 \/ p = 3
  OBVIOUS
<1>3. ASSUME PlainTypes
      PROVE  /\ Ids(queue["mrouter"]) \in Seq(Nat) /\ Ids(queue["router"]) \in Seq(Nat)
             /\ Ids(queue["header"]) \in Seq(Nat)
  <2>1. \A t \in {"mrouter", "router", "header"} : queue[t] \in Seq(Messages)
    BY <1>3, ThreadsAre DEF PlainTypes, Own
  <2>. QED BY <2>1, IdsAre
<1>. QED BY <1>1, <1>2, <1>3

\* A step that leaves the first units and the tickets alone.
LEMMA LineKept ==
  ASSUME LineInv, UNCHANGED tickets, inputs \in Nat, inputs' \in Nat, inputs <= inputs',
         \A t \in {"header", "router", "mrouter"} : queue'[t] = queue[t]
  PROVE  LineInv'
<1>1. Line' = Line
  BY DEF Line
<1>2. FromClients'
  BY DEF LineInv, FromClients
<1>3. \A p \in 0..3 : Rising(Line[p]) /\ From(Line[p], Line[p])
  BY DEF LineInv, Ordered, From
<1>4. Ordered(Line, inputs')
  BY <1>3, LineThinned DEF LineInv
<1>. QED BY <1>1, <1>2, <1>4 DEF LineInv

\* The messages that are left in a queue, or join it, have come from clients.
LEMMA ClientsKept ==
  ASSUME PlainTypes, FromClients,
         \A t \in {"header", "router"} :
           \/ queue'[t] = queue[t]
           \/ queue[t] # <<>> /\ queue'[t] = Tail(queue[t])
           \/ \E m \in Messages : m.kind \in Kinds /\ queue'[t] = Append(queue[t], m)
  PROVE  FromClients'
<1> SUFFICES ASSUME NEW t \in {"header", "router"}, NEW k \in DOMAIN queue'[t]
             PROVE  queue'[t][k].kind \in Kinds
  BY DEF FromClients
<1> DEFINE q == queue[t]
<1>1. q \in Seq(Messages) /\ \A j \in DOMAIN q : q[j].kind \in Kinds
  BY ThreadsAre DEF PlainTypes, FromClients, Own
<1>2. Len(q) \in Nat /\ DOMAIN q = 1..Len(q)
  BY <1>1
<1>3. CASE queue'[t] = q
  BY <1>1, <1>3
<1>4. CASE q # <<>> /\ queue'[t] = Tail(q)
  <2> HIDE DEF q
  <2>1. DOMAIN Tail(q) = 1..(Len(q) - 1) /\ \A j \in 1..(Len(q) - 1) : Tail(q)[j] = q[j + 1]
    BY <1>1, <1>4, HeadTailProperties
  <2>2. \A j \in 1..(Len(q) - 1) : j + 1 \in DOMAIN q
    BY <1>2
  <2>. QED BY <1>1, <1>4, <2>1, <2>2
<1>5. CASE \E m \in Messages : m.kind \in Kinds /\ queue'[t] = Append(q, m)
  <2>1. PICK m \in Messages : m.kind \in Kinds /\ queue'[t] = Append(q, m)
    BY <1>5
  <2> HIDE DEF q
  <2>2. /\ DOMAIN Append(q, m) = 1..(Len(q) + 1) /\ Append(q, m)[Len(q) + 1] = m
        /\ \A j \in 1..Len(q) : Append(q, m)[j] = q[j]
    BY <1>1, <1>2
  <2>3. k \in 1..Len(q) \/ k = Len(q) + 1
    BY <1>2, <2>1, <2>2
  <2>. QED BY <1>1, <1>2, <2>1, <2>2, <2>3
<1>. QED BY <1>3, <1>4, <1>5

\* A unit hands on nothing to the line: what is behind the first stays in it.
LEMMA LinePopped ==
  ASSUME PlainTypes, LineInv, UNCHANGED <<tickets, inputs>>,
         NEW t \in {"header", "router", "mrouter"},
         queue[t] # <<>>, queue'[t] = Tail(queue[t]),
         \A u \in {"header", "router", "mrouter"} \ {t} : queue'[u] = queue[u]
  PROVE  LineInv'
<1>1. FromClients'
  BY ClientsKept DEF LineInv
<1>2. \A u \in {"header", "router", "mrouter"} : queue[u] \in Seq(Messages)
  BY ThreadsAre DEF PlainTypes, Own
<1>3. Ids(queue[t]) # <<>> /\ Ids(queue'[t]) = Tail(Ids(queue[t]))
  BY <1>2, IdsAre
<1>4. \A p \in 0..3 : /\ Line[p] \in Seq(Nat) /\ Rising(Line[p])
                      /\ Line'[p] = Line[p] \/ (Line[p] # <<>> /\ Line'[p] = Tail(Line[p]))
  <2>1. \A p \in 0..3 : p = 0 \/ p = 1 \/ p = 2 \/ p = 3
    OBVIOUS
  <2>2. \A u \in {"header", "router", "mrouter"} :
          \/ Ids(queue'[u]) = Ids(queue[u])
          \/ Ids(queue[u]) # <<>> /\ Ids(queue'[u]) = Tail(Ids(queue[u]))
    BY <1>3
  <2>3. /\ Line'[0] = tickets' /\ Line'[1] = Ids(queue'["mrouter"])
        /\ Line'[2] = Ids(queue'["router"]) /\ Line'[3] = Ids(queue'["header"])
    BY DEF Line
  <2>4. \A p \in 0..3 : Line[p] \in Seq(Nat) /\ Rising(Line[p])
    BY LineIs DEF LineInv, Ordered
  <2>. QED BY <2>1, <2>2, <2>3, <2>4, LineIs
<1>5. \A p \in 0..3 : Rising(Line'[p]) /\ From(Line'[p], Line[p])
  <2>1. \A s : From(s, s)
    BY DEF From
  <2>. QED BY <1>4, <2>1, TailThins
<1>6. inputs \in Nat /\ inputs <= inputs
  BY BoundsAssumption DEF PlainTypes
<1>7. Ordered(Line', inputs)
  BY <1>5, <1>6, LineThinned DEF LineInv
<1>. QED BY <1>1, <1>7 DEF LineInv

\* A unit hands its input to the next one in the line.
LEMMA LinePassed ==
  ASSUME PlainTypes, LineInv, UNCHANGED <<tickets, inputs>>,
         NEW t \in {"header", "router"}, NEW v \in {"router", "mrouter"},
         <<t, v>> \in {<<"header", "router">>, <<"router", "mrouter">>},
         queue[t] # <<>>, queue'[t] = Tail(queue[t]),
         queue'[v] = Append(queue[v], Head(queue[t])),
         \A u \in {"header", "router", "mrouter"} \ {t, v} : queue'[u] = queue[u]
  PROVE  LineInv'
<1>1. \A u \in {"header", "router", "mrouter"} : queue[u] \in Seq(Messages)
  BY ThreadsAre DEF PlainTypes, Own
<1>2. Head(queue[t]) \in Messages /\ Head(queue[t]).kind \in Kinds
  <2>1. 1 \in DOMAIN queue[t] /\ Head(queue[t]) = queue[t][1]
    BY <1>1, EmptySeq
  <2>. QED BY <1>1, <2>1 DEF LineInv, FromClients
<1>3. FromClients'
  BY <1>2, ClientsKept DEF LineInv
<1>4. /\ Ids(queue[t]) # <<>> /\ Ids(queue'[t]) = Tail(Ids(queue[t]))
      /\ Ids(queue'[v]) = Append(Ids(queue[v]), Head(Ids(queue[t])))
  BY <1>1, <1>2, IdsAre
<1>5. /\ Line'[0] = tickets' /\ Line'[1] = Ids(queue'["mrouter"])
      /\ Line'[2] = Ids(queue'["router"]) /\ Line'[3] = Ids(queue'["header"])
  BY DEF Line
<1>6. inputs \in Nat
  BY BoundsAssumption DEF PlainTypes
<1>7. /\ \A q \in 0..3 : q = 0 \/ q = 1 \/ q = 2 \/ q = 3
      /\ \A q \in 0..3 : Line[q] \in Seq(Nat)
      /\ Ordered(Line, inputs)
  BY LineIs DEF LineInv
<1>8. CASE t = "header" /\ v = "router"
  <2>1. /\ Line[3] # <<>> /\ Line'[3] = Tail(Line[3]) /\ Line'[2] = Append(Line[2], Head(Line[3]))
        /\ Line'[0] = Line[0] /\ Line'[1] = Line[1]
    BY <1>4, <1>5, <1>8, LineIs
  <2>2. 3 \in 1..3 /\ 3 - 1 = 2 /\ \A q \in 0..3 : q # 3 /\ q # 2 => Line'[q] = Line[q]
    BY <1>7, <2>1
  <2>3. Ordered(Line', inputs)
    BY <1>6, <1>7, <2>1, <2>2, LineMoved
  <2>. QED BY <1>3, <2>3 DEF LineInv
<1>9. CASE t = "router" /\ v = "mrouter"
  <2>1. /\ Line[2] # <<>> /\ Line'[2] = Tail(Line[2]) /\ Line'[1] = Append(Line[1], Head(Line[2]))
        /\ Line'[0] = Line[0] /\ Line'[3] = Line[3]
    BY <1>4, <1>5, <1>9, LineIs
  <2>2. 2 \in 1..3 /\ 2 - 1 = 1 /\ \A q \in 0..3 : q # 2 /\ q # 1 => Line'[q] = Line[q]
    BY <1>7, <2>1
  <2>3. Ordered(Line', inputs)
    BY <1>6, <1>7, <2>1, <2>2, LineMoved
  <2>. QED BY <1>3, <2>3 DEF LineInv
<1>. QED BY <1>8, <1>9

\* MarketRouter draws the next ticket.
LEMMA LineTicketed ==
  ASSUME PlainTypes, LineInv, UNCHANGED inputs,
         queue["mrouter"] # <<>>, queue'["mrouter"] = Tail(queue["mrouter"]),
         tickets' = Append(tickets, Head(queue["mrouter"]).id),
         \A u \in {"header", "router"} : queue'[u] = queue[u]
  PROVE  LineInv'
<1>1. queue["mrouter"] \in Seq(Messages)
  BY ThreadsAre DEF PlainTypes, Own
<1>2. FromClients'
  BY DEF LineInv, FromClients
<1>3. /\ Ids(queue["mrouter"]) # <<>> /\ Ids(queue'["mrouter"]) = Tail(Ids(queue["mrouter"]))
      /\ Head(queue["mrouter"]).id = Head(Ids(queue["mrouter"]))
  BY <1>1, IdsAre
<1>4. /\ Line'[0] = tickets' /\ Line'[1] = Ids(queue'["mrouter"])
      /\ Line'[2] = Ids(queue'["router"]) /\ Line'[3] = Ids(queue'["header"])
  BY DEF Line
<1>5. inputs \in Nat
  BY BoundsAssumption DEF PlainTypes
<1>6. /\ \A q \in 0..3 : q = 0 \/ q = 1 \/ q = 2 \/ q = 3
      /\ \A q \in 0..3 : Line[q] \in Seq(Nat)
      /\ Ordered(Line, inputs)
  BY LineIs DEF LineInv
<1>7. /\ Line[1] # <<>> /\ Line'[1] = Tail(Line[1]) /\ Line'[0] = Append(Line[0], Head(Line[1]))
      /\ Line'[2] = Line[2] /\ Line'[3] = Line[3]
  BY <1>3, <1>4, LineIs
<1>8. 1 \in 1..3 /\ 1 - 1 = 0 /\ \A q \in 0..3 : q # 1 /\ q # 0 => Line'[q] = Line[q]
  BY <1>6, <1>7
<1>9. Ordered(Line', inputs)
  BY <1>5, <1>6, <1>7, <1>8, LineMoved
<1>10. tickets' \in Seq(Nat)
  <2>1. Head(Line[1]) \in Nat /\ tickets \in Seq(Nat)
    BY <1>6, <1>7, HeadTailProperties DEF LineInv
  <2>. QED BY <1>3, <2>1, LineIs, AppendProperties
<1>. QED BY <1>2, <1>9, <1>10 DEF LineInv

\* A ticket is given back, or has had its turn.
LEMMA LineLeft ==
  ASSUME PlainTypes, LineInv, UNCHANGED inputs,
         \/ \E x : tickets' = RemoveFirst(tickets, x)
         \/ tickets # <<>> /\ tickets' = Tail(tickets),
         \A u \in {"header", "router", "mrouter"} : queue'[u] = queue[u]
  PROVE  LineInv'
<1>1. FromClients'
  BY DEF LineInv, FromClients
<1>2. /\ Line'[0] = tickets' /\ Line'[1] = Line[1] /\ Line'[2] = Line[2] /\ Line'[3] = Line[3]
  BY DEF Line
<1>3. tickets \in Seq(Nat) /\ \A p \in 0..3 : Rising(Line[p])
  BY DEF LineInv, Ordered
<1>4. tickets' \in Seq(Nat) /\ Rising(tickets') /\ From(tickets', tickets)
  <2>1. Rising(tickets)
    BY <1>3, LineIs
  <2>2. ASSUME NEW x, tickets' = RemoveFirst(tickets, x)
        PROVE  tickets' \in Seq(Nat) /\ Rising(tickets') /\ From(tickets', tickets)
    BY <1>3, <2>1, <2>2, RemoveThins
  <2>3. ASSUME tickets # <<>>, tickets' = Tail(tickets)
        PROVE  tickets' \in Seq(Nat) /\ Rising(tickets') /\ From(tickets', tickets)
    BY <1>3, <2>1, <2>3, TailThins
  <2>. QED BY <2>2, <2>3
<1>5. \A p \in 0..3 : Rising(Line'[p]) /\ From(Line'[p], Line[p])
  <2>1. \A p \in 0..3 : p = 0 \/ p = 1 \/ p = 2 \/ p = 3
    OBVIOUS
  <2>2. \A s : From(s, s)
    BY DEF From
  <2>. QED BY <1>2, <1>3, <1>4, <2>1, <2>2, LineIs
<1>6. inputs \in Nat /\ inputs <= inputs
  BY BoundsAssumption DEF PlainTypes
<1>7. Ordered(Line', inputs)
  BY <1>5, <1>6, LineThinned DEF LineInv
<1>. QED BY <1>1, <1>4, <1>7 DEF LineInv

\* A message is read.
LEMMA LineRead ==
  ASSUME PlainTypes, LineInv, UNCHANGED tickets, inputs' = inputs + 1,
         NEW m \in Messages, m.id = inputs + 1, m.kind \in Kinds,
         queue'["header"] = Append(queue["header"], m),
         \A u \in {"router", "mrouter"} : queue'[u] = queue[u]
  PROVE  LineInv'
<1>1. FromClients'
  BY ClientsKept DEF LineInv
<1>2. queue["header"] \in Seq(Messages)
  BY ThreadsAre DEF PlainTypes, Own
<1>3. /\ Line'[0] = Line[0] /\ Line'[1] = Line[1] /\ Line'[2] = Line[2]
      /\ Line'[3] = Append(Line[3], inputs + 1)
  BY <1>2, IdsAre DEF Line
<1>4. inputs \in Nat
  BY BoundsAssumption DEF PlainTypes
<1>5. Line[3] \in Seq(Nat) /\ Ordered(Line, inputs)
  BY LineIs DEF LineInv
<1>6. \A q \in 0..2 : Line'[q] = Line[q]
  <2>1. \A q \in 0..2 : q = 0 \/ q = 1 \/ q = 2
    OBVIOUS
  <2>. QED BY <1>3, <2>1
<1>7. Ordered(Line', inputs + 1)
  BY <1>3, <1>4, <1>5, <1>6, LineJoined
<1>. QED BY <1>1, <1>7 DEF LineInv

-----------------------------------------------------------------------------
(* Every step keeps the types and the line *)

LineTypes == PlainTypes /\ LineInv

\* What is noted of a use are pairs of threads.
LEMMA UseTypes ==
  ASSUME late \subseteq Threads \X (Threads \cup {"freed"}),
         NEW t \in Threads, NEW G \in SUBSET Threads, Use(t, G)
  PROVE  late' \subseteq Threads \X (Threads \cup {"freed"})
BY DEF Use

\* After an input a thread is in one of the states.
LEMMA AfterTypes ==
  ASSUME state \in [Threads -> States], NEW t \in Threads, NEW q
  PROVE  After(t, q) \in [Threads -> States]
BY DEF After, States

\* What a thread does to the queues when it hands its first input on.
LEMMA HandlesIs ==
  ASSUME PlainTypes, NEW t \in Threads, NEW G \in SUBSET Threads, t \notin G,
         NEW given \in [G -> Messages], Has(t), Handles(t, given)
  PROVE  /\ queue' \in [Threads -> Seq(Messages)] /\ state' \in [Threads -> States]
         /\ late' \subseteq Threads \X (Threads \cup {"freed"})
         /\ queue[t] # <<>> /\ queue[t] \in Seq(Messages) /\ Head(queue[t]) \in Messages
         /\ queue'[t] = Tail(queue[t])
         /\ \A u \in G : queue'[u] = Append(queue[u], given[u])
         /\ \A u \in Threads : u \notin G /\ u # t => queue'[u] = queue[u]
<1>1. queue[t] # <<>> /\ queue[t] \in Seq(Messages)
  BY DEF Has, PlainTypes
<1>2. Tail(queue[t]) \in Seq(Messages) /\ Head(queue[t]) \in Messages
  BY <1>1, HeadTailProperties
<1> DEFINE q == [queue EXCEPT ![t] = Tail(@)]
<1>3. q \in [Threads -> Seq(Messages)] /\ q[t] = Tail(queue[t])
      /\ \A u \in Threads : u # t => q[u] = queue[u]
  BY <1>2 DEF PlainTypes
<1>4. queue' = Put(q, given)
  BY DEF Handles
<1> HIDE DEF q
<1>5. /\ queue' \in [Threads -> Seq(Messages)]
      /\ \A u \in G : queue'[u] = Append(q[u], given[u])
      /\ \A u \in Threads \ G : queue'[u] = q[u]
  <2>1. q \in [Threads -> Seq(Messages)]
    BY <1>3
  <2>2. /\ Put(q, given) \in [Threads -> Seq(Messages)]
        /\ \A u \in G : Put(q, given)[u] = Append(q[u], given[u])
        /\ \A u \in Threads \ G : Put(q, given)[u] = q[u]
    BY <2>1, PutIs, Zenon
  <2>. QED BY <1>4, <2>2, Zenon
<1>6. state' \in [Threads -> States]
  BY AfterTypes DEF Handles, PlainTypes
<1>7. DOMAIN given = G /\ Use(t, DOMAIN given)
  BY DEF Handles
<1>8. late' \subseteq Threads \X (Threads \cup {"freed"})
  BY <1>7, UseTypes DEF PlainTypes
<1>. QED BY <1>1, <1>2, <1>3, <1>5, <1>6, <1>8

\* One message for one thread, and an answer for the output.
LEMMA Given ==
  ASSUME NEW m \in Messages, NEW n \in Messages
  PROVE  /\ \A u : [v \in {u} |-> m] \in [{u} -> Messages] /\ [v \in {u} |-> m][u] = m
         /\ [header |-> m] = [v \in {"header"} |-> m]
         /\ [output |-> m] = [v \in {"output"} |-> m]
         /\ [neworderWorker |-> m] = [v \in {"neworderWorker"} |-> m]
         /\ [cancelWorker |-> m] = [v \in {"cancelWorker"} |-> m]
         /\ [neworderWorker |-> m, output |-> n]
              = [v \in {"neworderWorker", "output"} |-> IF v = "output" THEN n ELSE m]
         /\ [cancelWorker |-> m, output |-> n]
              = [v \in {"cancelWorker", "output"} |-> IF v = "output" THEN n ELSE m]
<1>1. \A u : [v \in {u} |-> m] \in [{u} -> Messages] /\ [v \in {u} |-> m][u] = m
  OBVIOUS
<1>2. [header |-> m] = [v \in {"header"} |-> m]
  OBVIOUS
<1>3. [output |-> m] = [v \in {"output"} |-> m]
  OBVIOUS
<1>4. [neworderWorker |-> m] = [v \in {"neworderWorker"} |-> m]
  OBVIOUS
<1>5. [cancelWorker |-> m] = [v \in {"cancelWorker"} |-> m]
  OBVIOUS
<1>6. [neworderWorker |-> m, output |-> n]
        = [v \in {"neworderWorker", "output"} |-> IF v = "output" THEN n ELSE m]
  OBVIOUS
<1>7. [cancelWorker |-> m, output |-> n]
        = [v \in {"cancelWorker", "output"} |-> IF v = "output" THEN n ELSE m]
  OBVIOUS
<1>. QED BY <1>1, <1>2, <1>3, <1>4, <1>5, <1>6, <1>7

\* Whom the units hand their inputs to.
LEMMA HandlersAre ==
  /\ \A k \in Kinds : Handler[k] \in {"logon", "logout", "heartbeat", "mrouter"}
  /\ DOMAIN Next1 = {"header", "logon", "logout", "heartbeat", "event", "output"}
  /\ Next1["header"] = "router" /\ Next1["logon"] = "logonPool"
  /\ Next1["logout"] = "logoutPool" /\ Next1["heartbeat"] = "heartbeatPool"
  /\ Next1["event"] = "eventPool" /\ Next1["output"] = "outputPool"
  /\ DOMAIN WorkerOf = {"neworder", "cancel", "heartbeat"}
  /\ WorkerOf["neworder"] = "neworderWorker" /\ WorkerOf["cancel"] = "cancelWorker"
  /\ WorkerOf["heartbeat"] = "watch"
  /\ Answer \in Messages /\ \A i \in Nat : i <= MaxInputs => \A k \in Kinds : [id |-> i, kind |-> k] \in Messages
<1>1. \A k \in Kinds : Handler[k] \in {"logon", "logout", "heartbeat", "mrouter"}
  <2>1. DOMAIN Handler = {"Logon", "Logout", "HeartBeat", "Limit", "Market", "Cancel"}
    BY DEF Handler
  <2>2. \A k \in DOMAIN Handler : Handler[k] \in {"logon", "logout", "heartbeat", "mrouter"}
    BY <2>1 DEF Handler
  <2>. QED BY <2>2, KindsAssumption
<1>2. /\ DOMAIN Next1 = {"header", "logon", "logout", "heartbeat", "event", "output"}
      /\ Next1["header"] = "router" /\ Next1["logon"] = "logonPool"
      /\ Next1["logout"] = "logoutPool" /\ Next1["heartbeat"] = "heartbeatPool"
      /\ Next1["event"] = "eventPool" /\ Next1["output"] = "outputPool"
  BY DEF Next1
<1>3. /\ DOMAIN WorkerOf = {"neworder", "cancel", "heartbeat"}
      /\ WorkerOf["neworder"] = "neworderWorker" /\ WorkerOf["cancel"] = "cancelWorker"
      /\ WorkerOf["heartbeat"] = "watch"
  BY DEF WorkerOf
<1>4. Answer \in Messages
  BY BoundsAssumption DEF Answer, Messages
<1>5. \A i \in Nat : i <= MaxInputs => \A k \in Kinds : [id |-> i, kind |-> k] \in Messages
  BY BoundsAssumption DEF Messages
<1>. QED BY <1>1, <1>2, <1>3, <1>4, <1>5

\* Handing an input on to threads that are not in the line.
LEMMA HandsOnTypes ==
  ASSUME LineTypes, NEW t \in Threads, NEW G \in SUBSET Threads, t \notin G,
         G \cap {"header", "router", "mrouter"} = {},
         NEW given \in [G -> Messages], Has(t), Handles(t, given),
         UNCHANGED <<marketVars, coreVars, inputs>>
  PROVE  LineTypes'
<1>1. PlainTypes /\ LineInv
  BY DEF LineTypes
<1>2. /\ queue' \in [Threads -> Seq(Messages)] /\ state' \in [Threads -> States]
      /\ late' \subseteq Threads \X (Threads \cup {"freed"})
      /\ queue[t] # <<>> /\ queue'[t] = Tail(queue[t])
      /\ \A u \in Threads : u \notin G /\ u # t => queue'[u] = queue[u]
  BY <1>1, HandlesIs
<1>3. PlainTypes'
  BY <1>1, <1>2 DEF PlainTypes, marketVars, coreVars
<1>4. \A u \in {"header", "router", "mrouter"} : u \in Threads /\ u \notin G
  BY ThreadsAre DEF Own
<1>5. tickets' = tickets /\ inputs' = inputs /\ inputs \in Nat
  BY <1>1, BoundsAssumption DEF marketVars, PlainTypes
<1>6. CASE t \in {"header", "router", "mrouter"}
  <2>1. \A u \in {"header", "router", "mrouter"} \ {t} : queue'[u] = queue[u]
    BY <1>2, <1>4
  <2>2. LineInv'
    BY <1>1, <1>2, <1>5, <1>6, <2>1, LinePopped
  <2>. QED BY <1>3, <2>2 DEF LineTypes
<1>7. CASE t \notin {"header", "router", "mrouter"}
  <2>1. \A u \in {"header", "router", "mrouter"} : queue'[u] = queue[u]
    BY <1>2, <1>4, <1>7
  <2>2. LineInv'
    BY <1>1, <1>5, <2>1, LineKept
  <2>. QED BY <1>3, <2>2 DEF LineTypes
<1>. QED BY <1>6, <1>7

\* An input is handed on.
LEMMA PassTypes ==
  ASSUME LineTypes, NEW t \in DOMAIN Next1 \cup {"router"}, Pass(t)
  PROVE  LineTypes'
<1> DEFINE m == Head(queue[t])
           v == IF t = "router" THEN Handler[m.kind] ELSE Next1[t]
           given == [u \in {v} |-> m]
<1>1. PlainTypes /\ LineInv /\ Has(t) /\ Handles(t, given) /\ UNCHANGED <<marketVars, coreVars, inputs>>
  BY DEF LineTypes, Pass
<1>2. t \in {"header", "logon", "logout", "heartbeat", "event", "output", "router"}
  BY HandlersAre
<1>3. t \in Threads
  BY <1>2, ThreadsAre DEF Own, Siblings
<1>4. queue[t] \in Seq(Messages) /\ queue[t] # <<>> /\ m \in Messages /\ m = queue[t][1]
      /\ 1 \in DOMAIN queue[t]
  <2>1. queue[t] \in Seq(Messages) /\ queue[t] # <<>>
    BY <1>1, <1>3 DEF PlainTypes, Has
  <2>. QED BY <2>1, HeadTailProperties, EmptySeq
<1> HIDE DEF m
<1>5. t = "router" => v \in {"logon", "logout", "heartbeat", "mrouter"}
  <2>1. t = "router" => m.kind \in Kinds
    BY <1>1, <1>4 DEF LineInv, FromClients
  <2>. QED BY <2>1, HandlersAre
<1>6. t # "router" => v \in {"router", "logonPool", "logoutPool", "heartbeatPool", "eventPool", "outputPool"}
                     /\ v # t /\ (v = "router" <=> t = "header")
  BY <1>2, HandlersAre
<1>7. v \in Threads /\ v # t
  BY <1>2, <1>5, <1>6, ThreadsAre DEF Own, Siblings
<1> HIDE DEF v
<1>8. given \in [{v} -> Messages] /\ given[v] = m
  BY <1>4, Given
<1> HIDE DEF given
<1>9. CASE v \in {"router", "mrouter"}
  <2>1. <<t, v>> \in {<<"header", "router">>, <<"router", "mrouter">>}
    BY <1>2, <1>5, <1>6, <1>9
  <2>2. /\ queue' \in [Threads -> Seq(Messages)] /\ state' \in [Threads -> States]
        /\ late' \subseteq Threads \X (Threads \cup {"freed"})
        /\ queue'[t] = Tail(queue[t]) /\ queue'[v] = Append(queue[v], m)
        /\ \A u \in Threads : u \notin {v} /\ u # t => queue'[u] = queue[u]
    BY <1>1, <1>3, <1>7, <1>8, HandlesIs
  <2>3. PlainTypes'
    BY <1>1, <2>2 DEF PlainTypes, marketVars, coreVars
  <2>4. \A u \in {"header", "router", "mrouter"} \ {t, v} : queue'[u] = queue[u]
    BY <2>2, ThreadsAre DEF Own
  <2>5. t \in {"header", "router"} /\ UNCHANGED <<tickets, inputs>>
    BY <1>1, <2>1 DEF marketVars
  <2>6. LineInv'
    BY <1>1, <1>4, <1>9, <2>1, <2>2, <2>4, <2>5, LinePassed DEF m
  <2>. QED BY <2>3, <2>6 DEF LineTypes
<1>10. CASE v \notin {"router", "mrouter"}
  <2>1. {v} \cap {"header", "router", "mrouter"} = {}
    BY <1>2, <1>5, <1>6, <1>10
  <2>. QED BY <1>1, <1>3, <1>7, <1>8, <2>1, HandsOnTypes
<1>. QED BY <1>9, <1>10

\* A refusal, or the answer of a task.
LEMMA ReplyTypes ==
  ASSUME LineTypes, NEW t \in Answering \cup {"header", "router", "mrouter"}, Reply(t)
  PROVE  LineTypes'
<1>1. t \in Threads /\ t # "output"
  BY ThreadsAre DEF Answering, Own
<1>2. PICK G \in SUBSET {"output"} : Handles(t, [u \in G |-> Answer])
  BY DEF Reply
<1>3. G \in SUBSET Threads /\ t \notin G /\ G \cap {"header", "router", "mrouter"} = {}
  BY <1>1, ThreadsAre DEF Own
<1>4. [u \in G |-> Answer] \in [G -> Messages]
  BY HandlersAre
<1>. QED BY <1>1, <1>2, <1>3, <1>4, HandsOnTypes DEF Reply

\* An answer is sent, or its client removed.
LEMMA SendAnswerTypes ==
  ASSUME LineTypes, SendAnswer
  PROVE  LineTypes'
<1>1. PICK G \in SUBSET {"removePool"} : Handles("outputPool", [u \in G |-> Answer])
  BY DEF SendAnswer
<1>2. "outputPool" \in Threads /\ G \in SUBSET Threads /\ "outputPool" \notin G
      /\ G \cap {"header", "router", "mrouter"} = {}
  BY ThreadsAre DEF Own
<1>3. [u \in G |-> Answer] \in [G -> Messages]
  BY HandlersAre
<1>. QED BY <1>1, <1>2, <1>3, HandsOnTypes DEF SendAnswer

\* An order, or a cancel, goes on to its worker.
LEMMA AcceptedTypes ==
  ASSUME LineTypes, OrderAccepted \/ CancelAccepted
  PROVE  LineTypes'
<1>1. PlainTypes /\ \A t \in {"neworder", "cancel"} : t \in Threads /\ queue[t] \in Seq(Messages)
  BY ThreadsAre DEF LineTypes, PlainTypes, Siblings
<1>2. \A t \in {"neworder", "cancel"} : Has(t) => Head(queue[t]) \in Messages
  BY <1>1, HeadTailProperties DEF Has
<1>3. CASE OrderAccepted
  <2> DEFINE m == Head(queue["neworder"])
             given == [v \in {"neworderWorker"} |-> m]
  <2>1. m \in Messages /\ Handles("neworder", [neworderWorker |-> m])
    BY <1>2, <1>3 DEF OrderAccepted
  <2>2. given \in [{"neworderWorker"} -> Messages] /\ [neworderWorker |-> m] = given
    BY <2>1, Given
  <2>3. /\ {"neworderWorker"} \in SUBSET Threads /\ "neworder" \notin {"neworderWorker"}
        /\ {"neworderWorker"} \cap {"header", "router", "mrouter"} = {}
    BY ThreadsAre
  <2> HIDE DEF m, given
  <2>. QED BY <1>1, <1>3, <2>1, <2>2, <2>3, HandsOnTypes DEF OrderAccepted
<1>4. CASE CancelAccepted
  <2> DEFINE m == Head(queue["cancel"])
             one == [v \in {"cancelWorker"} |-> m]
             both == [v \in {"cancelWorker", "output"} |-> IF v = "output" THEN Answer ELSE m]
  <2>1. m \in Messages /\ \/ Handles("cancel", [cancelWorker |-> m])
                          \/ Handles("cancel", [cancelWorker |-> m, output |-> Answer])
    BY <1>2, <1>4 DEF CancelAccepted
  <2>2. /\ one \in [{"cancelWorker"} -> Messages] /\ [cancelWorker |-> m] = one
        /\ both \in [{"cancelWorker", "output"} -> Messages]
        /\ [cancelWorker |-> m, output |-> Answer] = both
    BY <2>1, Given, HandlersAre
  <2>3. \A G \in {{"cancelWorker"}, {"cancelWorker", "output"}} :
          /\ G \in SUBSET Threads /\ "cancel" \notin G
          /\ G \cap {"header", "router", "mrouter"} = {}
    BY ThreadsAre DEF Own
  <2> HIDE DEF m, one, both
  <2>4. Handles("cancel", one) \/ Handles("cancel", both)
    BY <2>1, <2>2
  <2>. QED BY <1>1, <1>4, <2>2, <2>3, <2>4, HandsOnTypes DEF CancelAccepted
<1>. QED BY <1>3, <1>4

\* A ticket is drawn.
LEMMA TicketTypes ==
  ASSUME LineTypes, Ticket
  PROVE  LineTypes'
<1> DEFINE m == Head(queue["mrouter"])
           v == UnitOf(m)
           given == [u \in {v} |-> m]
<1>1. PlainTypes /\ LineInv /\ Has("mrouter") /\ Handles("mrouter", given)
      /\ tickets' = Append(tickets, m.id) /\ UNCHANGED <<hand, locked, coreVars, inputs>>
  BY DEF LineTypes, Ticket
<1>2. "mrouter" \in Threads /\ v \in Threads /\ v \in {"cancel", "neworder"}
  BY ThreadsAre DEF UnitOf, Own, Siblings
<1>3. m \in Messages
  <2>1. queue["mrouter"] \in Seq(Messages) /\ queue["mrouter"] # <<>>
    BY <1>1, <1>2 DEF PlainTypes, Has
  <2>. QED BY <2>1, HeadTailProperties
<1> HIDE DEF v
<1>4. given \in [{v} -> Messages]
  BY <1>3, Given
<1> HIDE DEF given
<1>5. /\ queue' \in [Threads -> Seq(Messages)] /\ state' \in [Threads -> States]
      /\ late' \subseteq Threads \X (Threads \cup {"freed"})
      /\ queue["mrouter"] # <<>> /\ queue'["mrouter"] = Tail(queue["mrouter"])
      /\ \A u \in Threads : u \notin {v} /\ u # "mrouter" => queue'[u] = queue[u]
  BY <1>1, <1>2, <1>4, HandlesIs
<1>6. PlainTypes'
  BY <1>1, <1>5 DEF PlainTypes, coreVars
<1>7. \A u \in {"header", "router"} : queue'[u] = queue[u]
  BY <1>2, <1>5, ThreadsAre DEF Own
<1>8. LineInv'
  BY <1>1, <1>5, <1>7, LineTicketed DEF m
<1>. QED BY <1>6, <1>8 DEF LineTypes

\* A unit of the market gives a ticket back.
LEMMA GivenBackTypes ==
  ASSUME LineTypes, NEW t \in {"neworder", "cancel"}, NEW G \in SUBSET Threads, t \notin G,
         G \cap {"header", "router", "mrouter"} = {},
         NEW given \in [G -> Messages], Has(t), Handles(t, given),
         \E x : tickets' = RemoveFirst(tickets, x), UNCHANGED <<hand, locked, coreVars, inputs>>
  PROVE  LineTypes'
<1>1. PlainTypes /\ LineInv /\ t \in Threads
  BY ThreadsAre DEF LineTypes, Siblings
<1>2. /\ queue' \in [Threads -> Seq(Messages)] /\ state' \in [Threads -> States]
      /\ late' \subseteq Threads \X (Threads \cup {"freed"})
      /\ \A u \in Threads : u \notin G /\ u # t => queue'[u] = queue[u]
  BY <1>1, HandlesIs
<1>3. PlainTypes'
  BY <1>1, <1>2 DEF PlainTypes, coreVars
<1>4. \A u \in {"header", "router", "mrouter"} : queue'[u] = queue[u]
  BY <1>2, ThreadsAre DEF Own
<1>5. LineInv'
  BY <1>1, <1>4, LineLeft
<1>. QED BY <1>3, <1>5 DEF LineTypes

\* A request is refused with its ticket.
LEMMA RefuseTypes ==
  ASSUME LineTypes, NEW u \in {"neworder", "cancel"}, Refuse(u)
  PROVE  LineTypes'
<1>1. Has(u) /\ UNCHANGED <<hand, locked, coreVars, inputs>>
  BY DEF Refuse
<1>2. \E x : tickets' = RemoveFirst(tickets, x)
  BY DEF Refuse
<1> DEFINE given == [v \in {"output"} |-> Answer]
<1>3. given \in [{"output"} -> Messages] /\ Handles(u, given)
  BY Given, HandlersAre DEF Refuse
<1>4. {"output"} \in SUBSET Threads /\ u \notin {"output"}
      /\ {"output"} \cap {"header", "router", "mrouter"} = {}
  BY ThreadsAre DEF Own
<1> HIDE DEF given
<1>. QED BY <1>1, <1>2, <1>3, <1>4, GivenBackTypes

\* An order of a type that is not supported.
LEMMA OrderUnsupportedTypes ==
  ASSUME LineTypes, OrderUnsupported
  PROVE  LineTypes'
<1> DEFINE m == Head(queue["neworder"])
           both == [v \in {"neworderWorker", "output"} |-> IF v = "output" THEN Answer ELSE m]
<1>1. Has("neworder") /\ UNCHANGED <<hand, locked, coreVars, inputs>>
      /\ Handles("neworder", [neworderWorker |-> m, output |-> Answer])
  BY DEF OrderUnsupported
<1>2. \E x : tickets' = RemoveFirst(tickets, x)
  BY DEF OrderUnsupported
<1>3. m \in Messages
  <2>1. queue["neworder"] \in Seq(Messages) /\ queue["neworder"] # <<>>
    BY <1>1, ThreadsAre DEF LineTypes, PlainTypes, Has, Siblings
  <2>. QED BY <2>1, HeadTailProperties
<1>4. /\ both \in [{"neworderWorker", "output"} -> Messages]
      /\ [neworderWorker |-> m, output |-> Answer] = both
  BY <1>3, Given, HandlersAre
<1>5. /\ {"neworderWorker", "output"} \in SUBSET Threads
      /\ "neworder" \notin {"neworderWorker", "output"}
      /\ {"neworderWorker", "output"} \cap {"header", "router", "mrouter"} = {}
  BY ThreadsAre DEF Own
<1> HIDE DEF m, both
<1>6. Handles("neworder", both)
  BY <1>1, <1>4
<1>. QED BY <1>1, <1>2, <1>4, <1>5, <1>6, GivenBackTypes

\* Steps that hand nothing to the line, and leave the tickets alone.
LEMMA QuietTypes ==
  ASSUME LineTypes, PlainTypes', UNCHANGED tickets, inputs <= inputs',
         \A u \in {"header", "router", "mrouter"} : queue'[u] = queue[u]
  PROVE  LineTypes'
<1>1. PlainTypes /\ LineInv /\ inputs \in Nat /\ inputs' \in Nat
  BY BoundsAssumption DEF LineTypes, PlainTypes
<1>2. LineInv'
  BY <1>1, LineKept
<1>. QED BY <1>2 DEF LineTypes

\* A worker takes a request, or waits for a lock in vain.
LEMMA BeginBlockTypes ==
  ASSUME LineTypes, NEW w \in MarketWorkers, Begin(w) \/ Block(w)
  PROVE  LineTypes'
<1>1. PlainTypes /\ w \in Threads /\ w \notin {"header", "router", "mrouter"}
  BY ThreadsAre DEF LineTypes, MarketWorkers
<1>2. inputs \in Nat /\ inputs <= inputs
  BY <1>1, BoundsAssumption DEF PlainTypes
<1>3. CASE Begin(w)
  <2>1. queue[w] \in Seq(Messages) /\ queue[w] # <<>>
    BY <1>1, <1>3 DEF PlainTypes, Has, Begin
  <2>2. Head(queue[w]) \in Messages /\ Tail(queue[w]) \in Seq(Messages)
    BY <2>1, HeadTailProperties
  <2>3. /\ hand' \in [MarketWorkers -> Messages \cup {None}]
        /\ queue' \in [Threads -> Seq(Messages)]
        /\ state' \in [Threads -> States]
    BY <1>1, <1>3, <2>2 DEF PlainTypes, Begin, States
  <2>4. PlainTypes'
    BY <1>1, <1>3, <2>3 DEF PlainTypes, Begin, coreVars
  <2>5. \A u \in {"header", "router", "mrouter"} : queue'[u] = queue[u]
    BY <1>1, <1>3, ThreadsAre DEF PlainTypes, Begin, Own
  <2>6. UNCHANGED <<tickets, inputs>>
    BY <1>3 DEF Begin
  <2>. QED BY <1>2, <2>4, <2>5, <2>6, QuietTypes
<1>4. CASE Block(w)
  <2>1. state' \in [Threads -> States]
    BY <1>1, <1>4 DEF PlainTypes, Block, States
  <2>2. PlainTypes' /\ UNCHANGED <<tickets, inputs, queue>>
    BY <1>1, <1>4, <2>1 DEF PlainTypes, Block, marketVars, coreVars
  <2>. QED BY <1>2, <2>2, QuietTypes
<1>. QED BY <1>3, <1>4

\* A worker serves a request.
LEMMA ServeTypes ==
  ASSUME LineTypes, NEW w \in MarketWorkers, Serve(w)
  PROVE  LineTypes'
<1>1. PlainTypes /\ LineInv /\ w \in Threads
  BY ThreadsAre DEF LineTypes, MarketWorkers
<1>2. PICK filled \in {{}, {"event"}} :
        LET given == [u \in {"output"} \cup filled |-> IF u = "event" THEN hand[w] ELSE Answer]
        IN queue' = Put(queue, given) /\ Use(w, DOMAIN given)
  BY Zenon DEF Serve
<1> DEFINE G == {"output"} \cup filled
           given == [u \in G |-> IF u = "event" THEN hand[w] ELSE Answer]
<1>3. queue' = Put(queue, given) /\ Use(w, G)
  BY <1>2
<1>4. hand[w] \in Messages /\ G \in SUBSET Threads /\ G \cap {"header", "router", "mrouter"} = {}
  BY <1>1, <1>2, ThreadsAre DEF Serve, HasTurn, PlainTypes, Own, Siblings
<1>5. given \in [G -> Messages]
  BY <1>4, HandlersAre
<1> HIDE DEF given, G
<1>6. queue \in [Threads -> Seq(Messages)] /\ state \in [Threads -> States]
      /\ late \subseteq Threads \X (Threads \cup {"freed"})
  BY <1>1 DEF PlainTypes
<1>7. Put(queue, given) \in [Threads -> Seq(Messages)]
      /\ \A u \in Threads \ G : Put(queue, given)[u] = queue[u]
  <2>1. G \in SUBSET Threads /\ queue \in [Threads -> Seq(Messages)]
    BY <1>4, <1>6
  <2>. QED BY <1>5, <2>1, PutIs
<1>8. late' \subseteq Threads \X (Threads \cup {"freed"})
  BY <1>1, <1>3, <1>4, <1>6, UseTypes
<1>9. state' \in [Threads -> States]
  BY <1>1, <1>6, AfterTypes DEF Serve
<1>10. hand' \in [MarketWorkers -> Messages \cup {None}]
  BY <1>1 DEF Serve, PlainTypes
<1>11. queue' \in [Threads -> Seq(Messages)]
  BY <1>3, <1>7
<1>12. PlainTypes'
  BY <1>1, <1>8, <1>9, <1>10, <1>11 DEF PlainTypes, Serve, coreVars
<1>13. \A u \in {"header", "router", "mrouter"} : queue'[u] = queue[u]
  <2>1. \A u \in {"header", "router", "mrouter"} : u \in Threads \ G
    BY <1>4, ThreadsAre DEF Own
  <2>. QED BY <1>3, <1>7, <2>1
<1>14. tickets # <<>> /\ tickets' = Tail(tickets) /\ UNCHANGED inputs
  BY DEF Serve, HasTurn
<1>15. LineInv'
  BY <1>1, <1>13, <1>14, LineLeft
<1>. QED BY <1>12, <1>15 DEF LineTypes

\* A thread that is asked to stop is in one of the states.
LEMMA AskedTypes ==
  ASSUME state \in [Threads -> States], NEW t \in Threads, NEW s \in Asked(t)
  PROVE  s \in States
BY DEF Asked, States

\* The loop of a unit is over.
LEMMA OverTypes ==
  ASSUME state \in [Threads -> States], NEW t \in Threads, RuntimeOver(t)
  PROVE  state' \in [Threads -> States]
<1>1. CASE t \in DOMAIN WorkerOf
  <2>1. WorkerOf[t] \in Threads
    BY <1>1, HandlersAre, ThreadsAre
  <2>2. PICK s \in Asked(WorkerOf[t]) :
          state' = [state EXCEPT ![t] = "ending", ![WorkerOf[t]] = s]
    BY <1>1 DEF RuntimeOver
  <2>3. s \in States
    BY <2>1, AskedTypes
  <2>. QED BY <2>1, <2>2, <2>3 DEF States
<1>2. CASE t \notin DOMAIN WorkerOf
  BY <1>2 DEF RuntimeOver, States
<1>. QED BY <1>1, <1>2

\* A message is read, or a late heartbeat found.
LEMMA ArrivalTypes ==
  ASSUME LineTypes, (\E k \in Kinds : Read(k)) \/ Watch
  PROVE  LineTypes'
<1>1. PlainTypes /\ LineInv
  BY DEF LineTypes
<1>2. inputs \in Nat /\ MaxInputs \in Nat /\ inputs < MaxInputs /\ inputs' = inputs + 1
      /\ UNCHANGED <<state, marketVars, coreVars>>
  <2>1. inputs \in Nat /\ MaxInputs \in Nat
    BY <1>1, BoundsAssumption DEF PlainTypes
  <2>2. ASSUME NEW k \in Kinds, Read(k)
        PROVE  inputs < MaxInputs /\ inputs' = inputs + 1 /\ UNCHANGED <<state, marketVars, coreVars>>
    BY <2>2 DEF Read
  <2>3. ASSUME Watch
        PROVE  inputs < MaxInputs /\ inputs' = inputs + 1 /\ UNCHANGED <<state, marketVars, coreVars>>
    BY <2>3 DEF Watch
  <2>. QED BY <2>1, <2>2, <2>3
<1>3. /\ state \in [Threads -> States] /\ queue \in [Threads -> Seq(Messages)]
      /\ late \subseteq Threads \X (Threads \cup {"freed"})
  BY <1>1 DEF PlainTypes
<1>4. CASE \E k \in Kinds : Read(k)
  <2>1. PICK k \in Kinds : Read(k)
    BY <1>4
  <2> DEFINE m == [id |-> inputs + 1, kind |-> k]
             given == [v \in {"header"} |-> m]
  <2>2. m \in Messages /\ m.id = inputs + 1 /\ m.kind \in Kinds
    BY <1>2, HandlersAre
  <2>3. queue' = Put(queue, [header |-> m]) /\ Use("input", {"header"})
    BY <2>1 DEF Read
  <2> HIDE DEF m
  <2>4. given \in [{"header"} -> Messages] /\ [header |-> m] = given /\ given["header"] = m
    BY <2>2, Given
  <2> HIDE DEF given
  <2>5. {"header"} \in SUBSET Threads /\ "input" \in Threads
    BY ThreadsAre DEF Own
  <2>6. /\ Put(queue, given) \in [Threads -> Seq(Messages)]
        /\ \A u \in {"header"} : Put(queue, given)[u] = Append(queue[u], given[u])
        /\ \A u \in Threads \ {"header"} : Put(queue, given)[u] = queue[u]
    BY <1>3, <2>4, <2>5, PutIs
  <2>7. /\ queue' \in [Threads -> Seq(Messages)]
        /\ queue'["header"] = Append(queue["header"], m)
        /\ \A u \in {"router", "mrouter"} : queue'[u] = queue[u]
    BY <2>3, <2>4, <2>6, ThreadsAre DEF Own
  <2>8. late' \subseteq Threads \X (Threads \cup {"freed"})
    BY <1>3, <2>3, <2>5, UseTypes
  <2>9. PlainTypes'
    BY <1>1, <1>2, <2>7, <2>8 DEF PlainTypes, marketVars, coreVars
  <2>10. LineInv'
    BY <1>1, <1>2, <2>2, <2>7, LineRead DEF marketVars
  <2>. QED BY <2>9, <2>10 DEF LineTypes
<1>5. CASE Watch
  <2> DEFINE given == [v \in {"output"} |-> Answer]
  <2>1. given \in [{"output"} -> Messages] /\ queue' = Put(queue, given)
        /\ Use("watch", {"output"})
    BY <1>5, Given, HandlersAre DEF Watch
  <2> HIDE DEF given
  <2>2. {"output"} \in SUBSET Threads /\ "watch" \in Threads
    BY ThreadsAre DEF Own
  <2>3. /\ Put(queue, given) \in [Threads -> Seq(Messages)]
        /\ \A u \in Threads \ {"output"} : Put(queue, given)[u] = queue[u]
    BY <1>3, <2>1, <2>2, PutIs
  <2>4. /\ queue' \in [Threads -> Seq(Messages)]
        /\ \A u \in {"header", "router", "mrouter"} : queue'[u] = queue[u]
    BY <2>1, <2>3, ThreadsAre DEF Own
  <2>5. late' \subseteq Threads \X (Threads \cup {"freed"})
    BY <1>3, <2>1, <2>2, UseTypes
  <2>6. PlainTypes'
    BY <1>1, <1>2, <2>4, <2>5 DEF PlainTypes, marketVars, coreVars
  <2>7. tickets' = tickets /\ inputs <= inputs'
    BY <1>2 DEF marketVars
  <2>. QED BY <2>4, <2>6, <2>7, QuietTypes
<1>. QED BY <1>4, <1>5

\* A client is removed, or a unit dies of a cancel.
LEMMA RemovedThrowsTypes ==
  ASSUME LineTypes, Removed \/ CancelThrows
  PROVE  LineTypes'
<1>1. PlainTypes
  BY DEF LineTypes
<1>2. inputs \in Nat /\ inputs <= inputs
  BY <1>1, BoundsAssumption DEF PlainTypes
<1>3. /\ state \in [Threads -> States] /\ queue \in [Threads -> Seq(Messages)]
      /\ late \subseteq Threads \X (Threads \cup {"freed"})
  BY <1>1 DEF PlainTypes
<1>4. ASSUME NEW t \in {"removePool", "cancel"}, queue[t] # <<>>,
             queue' = [queue EXCEPT ![t] = Tail(@)]
      PROVE  /\ queue' \in [Threads -> Seq(Messages)]
             /\ \A u \in {"header", "router", "mrouter"} : queue'[u] = queue[u]
  <2>1. t \in Threads /\ queue[t] \in Seq(Messages) /\ Tail(queue[t]) \in Seq(Messages)
    BY <1>3, <1>4, ThreadsAre, HeadTailProperties DEF Siblings
  <2>. QED BY <1>3, <1>4, <2>1, ThreadsAre DEF Own
<1>5. CASE Removed
  <2>1. /\ queue' \in [Threads -> Seq(Messages)]
        /\ \A u \in {"header", "router", "mrouter"} : queue'[u] = queue[u]
    BY <1>4, <1>5 DEF Removed
  <2>2. {"input"} \in SUBSET Threads /\ "removePool" \in Threads
    BY ThreadsAre DEF Own
  <2>3. late' \subseteq Threads \X (Threads \cup {"freed"})
    BY <1>3, <1>5, <2>2, UseTypes DEF Removed
  <2>4. PlainTypes' /\ UNCHANGED <<tickets, inputs>>
    BY <1>1, <1>5, <2>1, <2>3 DEF PlainTypes, Removed, marketVars, coreVars
  <2>. QED BY <1>2, <2>1, <2>4, QuietTypes
<1>6. CASE CancelThrows
  <2>1. /\ queue' \in [Threads -> Seq(Messages)]
        /\ \A u \in {"header", "router", "mrouter"} : queue'[u] = queue[u]
    BY <1>4, <1>6 DEF CancelThrows, Has
  <2>2. "cancel" \in Threads
    BY ThreadsAre DEF Siblings
  <2>3. state' \in [Threads -> States]
    BY <1>3, <1>6, <2>2, OverTypes DEF CancelThrows
  <2>4. locked' \in BOOLEAN /\ failed' \subseteq {"cancel", "market"}
    BY <1>1, <1>6 DEF PlainTypes, CancelThrows
  <2>5. PlainTypes' /\ UNCHANGED <<tickets, inputs>>
    BY <1>1, <1>6, <2>1, <2>3, <2>4 DEF PlainTypes, CancelThrows
  <2>. QED BY <1>2, <2>1, <2>5, QuietTypes
<1>. QED BY <1>5, <1>6

\* Core, the market and the units that end.
Stops ==
  \/ MarketFails \/ MarketStops \/ StopNext \/ Signal
  \/ \E t \in Threads : Exit(t)
  \/ \E u \in DOMAIN WorkerOf : EndUnit(u)

\* Stopping disturbs no queue and no ticket.
LEMMA StopsTypes ==
  ASSUME LineTypes, Stops
  PROVE  LineTypes'
<1>1. PlainTypes
  BY DEF LineTypes
<1>2. inputs \in Nat /\ inputs <= inputs
  BY <1>1, BoundsAssumption DEF PlainTypes
<1>3. state \in [Threads -> States]
  BY <1>1 DEF PlainTypes
<1>4. UNCHANGED <<queue, marketVars, inputs, late>>
  BY DEF Stops, MarketFails, MarketStops, StopNext, Signal, Exit, EndUnit
<1>5. /\ state' \in [Threads -> States] /\ failed' \subseteq {"cancel", "market"}
      /\ signalled' \in BOOLEAN /\ duty' \in 0..(Len(Duties) + 1) /\ child' \in 0..Len(Children)
  <2>1. CASE MarketFails
    BY <1>1, <2>1 DEF PlainTypes, MarketFails, States
  <2>2. CASE MarketStops
    <3>1. child' \in 0..3 /\ Len(Children) = 3
      BY <1>1, <2>2, ChildrenAre DEF PlainTypes, MarketStops
    <3>2. CASE child < Len(Children)
      <4>1. Children[child + 1] \in Threads
        BY <1>1, <3>2, ChildrenAre, ThreadsAre DEF PlainTypes
      <4>2. PICK s \in Asked(Children[child + 1]) : state' = [state EXCEPT ![Children[child + 1]] = s]
        BY <2>2, <3>2 DEF MarketStops
      <4>3. s \in States
        BY <1>3, <4>1, AskedTypes
      <4>. QED BY <1>1, <2>2, <3>1, <4>2, <4>3 DEF PlainTypes, MarketStops
    <3>3. CASE ~(child < Len(Children))
      BY <1>1, <2>2, <3>1, <3>3 DEF PlainTypes, MarketStops, States
    <3>. QED BY <3>2, <3>3
  <2>3. CASE StopNext
    <3>1. duty' \in 0..18 /\ Len(Duties) = 17 /\ duty \in 0..18
      BY <1>1, <2>3, DutiesAre DEF PlainTypes, StopNext
    <3>4. /\ failed' \subseteq {"cancel", "market"} /\ signalled' \in BOOLEAN
          /\ child' \in 0..Len(Children)
      BY <1>1, <2>3 DEF PlainTypes, StopNext
    <3>2. CASE duty < Len(Duties)
      <4>1. Duties[duty + 1] \in Threads
        BY <3>1, <3>2, TurnsAre, ThreadsAre
      <4>2. PICK s \in Asked(Duties[duty + 1]) : state' = [state EXCEPT ![Duties[duty + 1]] = s]
        BY <2>3, <3>2 DEF StopNext
      <4>3. s \in States
        BY <1>3, <4>1, AskedTypes
      <4>4. state' \in [Threads -> States]
        BY <1>3, <4>2, <4>3
      <4>. QED BY <3>1, <3>4, <4>4
    <3>3. CASE ~(duty < Len(Duties))
      <4>1. state' \in [Threads -> States]
        BY <1>3, <2>3, <3>3 DEF StopNext
      <4>. QED BY <3>1, <3>4, <4>1
    <3>. QED BY <3>2, <3>3
  <2>4. CASE Signal
    BY <1>1, <2>4 DEF PlainTypes, Signal
  <2>5. CASE \E t \in Threads : Exit(t)
    <3>1. state' \in [Threads -> States]
      BY <1>3, <2>5, OverTypes DEF Exit
    <3>. QED BY <1>1, <2>5, <3>1 DEF PlainTypes, Exit, coreVars
  <2>6. CASE \E u \in DOMAIN WorkerOf : EndUnit(u)
    BY <1>1, <2>6 DEF PlainTypes, EndUnit, coreVars, States
  <2>. QED BY <2>1, <2>2, <2>3, <2>4, <2>5, <2>6 DEF Stops
<1>6. PlainTypes'
  BY <1>1, <1>4, <1>5 DEF PlainTypes, marketVars
<1>. QED BY <1>2, <1>4, <1>6, QuietTypes DEF marketVars

\* Initially every queue is empty.
LEMMA InitTypes == Init => LineTypes
<1> SUFFICES ASSUME Init PROVE LineTypes
  OBVIOUS
<1>1. <<>> \in Seq(Messages) /\ <<>> \in Seq(Nat) /\ DOMAIN <<>> = {}
  OBVIOUS
<1>2. PlainTypes
  <2>1. duty \in 0..(Len(Duties) + 1) /\ child \in 0..Len(Children) /\ inputs \in 0..MaxInputs
    BY DutiesAre, ChildrenAre, BoundsAssumption DEF Init
  <2>2. state \in [Threads -> States] /\ queue \in [Threads -> Seq(Messages)]
    BY <1>1 DEF Init, States
  <2>3. hand \in [MarketWorkers -> Messages \cup {None}]
    BY DEF Init
  <2>4. /\ failed \subseteq {"cancel", "market"} /\ signalled \in BOOLEAN /\ locked \in BOOLEAN
        /\ late \subseteq Threads \X (Threads \cup {"freed"})
    BY DEF Init
  <2>. QED BY <2>1, <2>2, <2>3, <2>4 DEF PlainTypes
<1>3. \A t \in {"header", "router", "mrouter"} : queue[t] = <<>>
  BY ThreadsAre DEF Init, Own
<1>4. \A p \in 0..3 : DOMAIN Line[p] = {}
  <2>1. \A p \in 0..3 : p = 0 \/ p = 1 \/ p = 2 \/ p = 3
    OBVIOUS
  <2>2. \A t \in {"header", "router", "mrouter"} : DOMAIN Ids(queue[t]) = {}
    BY <1>1, <1>3 DEF Ids
  <2>. QED BY <1>1, <2>1, <2>2, LineIs DEF Init
<1>5. Ordered(Line, inputs)
  BY <1>4 DEF Ordered, Rising
<1>6. FromClients
  BY <1>1, <1>3 DEF FromClients
<1>. QED BY <1>1, <1>2, <1>5, <1>6 DEF LineTypes, LineInv, Init

\* Every step keeps the types.
LEMMA NextTypes == LineTypes /\ [Next]_vars => LineTypes'
<1> SUFFICES ASSUME LineTypes, [Next]_vars PROVE LineTypes'
  OBVIOUS
<1>1. CASE Stops
  BY <1>1, StopsTypes
<1>2. CASE \E t \in DOMAIN Next1 \cup {"router"} : Pass(t)
  BY <1>2, PassTypes
<1>3. CASE \E t \in Answering \cup {"header", "router", "mrouter"} : Reply(t)
  BY <1>3, ReplyTypes
<1>4. CASE SendAnswer
  BY <1>4, SendAnswerTypes
<1>5. CASE Removed \/ CancelThrows
  BY <1>5, RemovedThrowsTypes
<1>6. CASE Watch \/ \E k \in Kinds : Read(k)
  BY <1>6, ArrivalTypes
<1>7. CASE Ticket
  BY <1>7, TicketTypes
<1>8. CASE OrderAccepted \/ CancelAccepted
  BY <1>8, AcceptedTypes
<1>9. CASE OrderUnsupported
  BY <1>9, OrderUnsupportedTypes
<1>10. CASE \E u \in {"neworder", "cancel"} : Refuse(u)
  BY <1>10, RefuseTypes
<1>11. CASE \E w \in MarketWorkers : Begin(w) \/ Block(w)
  BY <1>11, BeginBlockTypes
<1>12. CASE \E w \in MarketWorkers : Serve(w)
  BY <1>12, ServeTypes
<1>13. CASE UNCHANGED vars
  <2>1. PlainTypes /\ PlainTypes' /\ UNCHANGED <<queue, tickets, inputs>>
    BY <1>13 DEF LineTypes, PlainTypes, vars, marketVars, coreVars
  <2>2. inputs <= inputs
    BY <2>1, BoundsAssumption DEF PlainTypes
  <2>. QED BY <2>1, <2>2, QuietTypes
<1>. QED BY <1>1, <1>2, <1>3, <1>4, <1>5, <1>6, <1>7, <1>8, <1>9, <1>10, <1>11, <1>12, <1>13
     DEF Next, Work, Stops

\* Every variable keeps its type, and the tickets of a market are in the order
\* in which MarketRouter drew them, for all clients and all ends of the server.
THEOREM TypeCorrect == Spec => []TypeOK
<1>1. LineTypes => TypeOK
  <2>1. LineTypes => Rising(tickets)
    BY LineIs DEF LineTypes, LineInv, Ordered
  <2>. QED BY <2>1 DEF LineTypes, PlainTypes, TypeOK, Rising
<1>2. Spec => []LineTypes
  BY InitTypes, NextTypes, PTL DEF Spec
<1>. QED BY <1>1, <1>2, PTL

-----------------------------------------------------------------------------
(* An orderly stop *)

Unasked(t) == state[t] \in {"idle", "busy"}
Ended(t) == state[t] = "ended"

\* Core asks its threads in turn, and has joined those before.
OwnInv == \A t \in Own : /\ TurnOf(t) < duty => Ended(t)
                         /\ duty < TurnOf(t) => Unasked(t)

\* So does the market with its children.
SiblingInv == \A t \in Siblings : /\ ChildOf(t) < child => Ended(t)
                                  /\ child < ChildOf(t) => Unasked(t)

\* It begins when Core asks it to stop, and ends after them.
MarketInv == /\ child > 0 => duty >= 8
             /\ Ended("market") => \A t \in Siblings : Ended(t)

\* A worker is asked by its unit, which ends after it.
WorkerInv == \A u \in {"neworder", "cancel", "heartbeat"} :
  /\ state[u] \notin {"ending", "ended"} => Unasked(WorkerOf[u])
  /\ Ended(u) => Ended(WorkerOf[u])

\* Nobody stops the pool that removes clients, and no map is left locked.
RestInv == ~locked /\ Unasked("removePool")

StopOrder == OwnInv /\ SiblingInv /\ MarketInv /\ WorkerInv /\ RestInv
StopInv == failed = {} => StopOrder

\* Steps of threads that go on with their work.
Alike ==
  /\ UNCHANGED <<failed, duty, child, locked>>
  /\ \A t \in Threads : state'[t] = state[t] \/ (Unasked(t) /\ Unasked(t)')

\* They do not disturb the order of the stop.
LEMMA AlikeStops ==
  ASSUME StopInv, Alike
  PROVE  StopInv'
<1> SUFFICES ASSUME failed' = {} PROVE StopOrder'
  BY DEF StopInv
<1>1. StopOrder /\ UNCHANGED <<duty, child, locked>>
  BY DEF StopInv, Alike
<1>2. \A t \in Threads : /\ Ended(t) => Ended(t)'
                         /\ Unasked(t) => Unasked(t)'
                         /\ Ended(t)' => Ended(t)
                         /\ state'[t] \notin {"ending", "ended"} => state[t] \notin {"ending", "ended"}
  BY DEF Alike, Ended, Unasked
<1>3. Own \subseteq Threads /\ Siblings \subseteq Threads
  BY ThreadsAre
<1>4. \A u \in {"neworder", "cancel", "heartbeat"} : u \in Threads /\ WorkerOf[u] \in Threads
  BY ThreadsAre, HandlersAre DEF Own, Siblings
<1>5. OwnInv'
  BY <1>1, <1>2, <1>3 DEF StopOrder, OwnInv
<1>6. SiblingInv'
  BY <1>1, <1>2, <1>3 DEF StopOrder, SiblingInv
<1>7. MarketInv'
  <2>1. "market" \in Threads
    BY ThreadsAre DEF Own
  <2>. QED BY <1>1, <1>2, <1>3, <2>1 DEF StopOrder, MarketInv
<1>8. WorkerInv'
  BY <1>1, <1>2, <1>4 DEF StopOrder, WorkerInv
<1>9. RestInv'
  <2>1. "removePool" \in Threads
    BY ThreadsAre
  <2>. QED BY <1>1, <1>2, <2>1 DEF StopOrder, RestInv
<1>. QED BY <1>5, <1>6, <1>7, <1>8, <1>9 DEF StopOrder

\* What a thread that is asked to stop turns to.
LEMMA AskedIs ==
  ASSUME NEW t \in Threads, t \notin Workers, NEW s \in Asked(t)
  PROVE  /\ Unasked(t) => s \in {"drain", "leave"}
         /\ Ended(t) => s = "ended"
BY DEF Asked, Unasked, Ended

\* Core joins one thread and asks the next.
LEMMA StopNextStops ==
  ASSUME PlainTypes, StopInv, StopNext
  PROVE  StopInv'
<1> SUFFICES ASSUME failed = {} PROVE StopOrder'
  BY DEF StopInv, StopNext
<1>1. StopOrder /\ duty' = duty + 1 /\ child' = child /\ locked' = locked /\ duty \in 0..18
  BY DutiesAre DEF StopInv, StopNext, PlainTypes, marketVars
<1>2. duty > 0 => duty \in 1..17 /\ Ended(Duties[duty])
  BY <1>1, DutiesAre DEF StopNext, Ended
<1>3. CASE duty >= 17
  <2>1. state' = state
    BY <1>3, DutiesAre, <1>1 DEF StopNext
  <2>2. \A t \in Own : TurnOf(t) < duty' => TurnOf(t) < duty \/ (duty > 0 /\ TurnOf(t) = duty)
    BY <1>1, TurnsAre
  <2>3. OwnInv'
    <3>1. \A t \in Own : TurnOf(t) < duty' => Ended(t)
      BY <1>1, <1>2, <2>2, TurnsAre DEF StopOrder, OwnInv
    <3>2. \A t \in Own : ~(duty' < TurnOf(t))
      BY <1>1, <1>3, TurnsAre
    <3>. QED BY <2>1, <3>1, <3>2 DEF OwnInv, Ended
  <2>4. SiblingInv' /\ MarketInv' /\ WorkerInv' /\ RestInv'
    BY <1>1, <1>3, <2>1 DEF StopOrder, SiblingInv, MarketInv, WorkerInv, RestInv, Ended, Unasked
  <2>. QED BY <2>3, <2>4 DEF StopOrder
<1>4. CASE duty < 17
  <2> DEFINE d == Duties[duty + 1]
  <2>1. duty + 1 \in 1..17 /\ d \in Own \cup Siblings /\ TurnOf(d) = duty + 1
    BY <1>1, <1>4, TurnsAre
  <2>2. PICK s \in Asked(d) : state' = [state EXCEPT ![d] = s]
    BY <1>4, DutiesAre DEF StopNext
  <2> HIDE DEF d
  <2>3. d \in Threads /\ d \notin Workers /\ state \in [Threads -> States]
    BY <2>1, ThreadsAre DEF PlainTypes, Own, Siblings, Workers, MarketWorkers
  <2>4. state'[d] = s /\ \A t \in Threads : t # d => state'[t] = state[t]
    BY <2>2, <2>3
  <2>5. (Unasked(d) => s \in {"drain", "leave"}) /\ (Ended(d) => s = "ended")
    BY <2>3, AskedIs
  <2>6. \A t \in Threads : Ended(t) => Ended(t)'
    BY <2>4, <2>5 DEF Ended
  <2>7. Own \subseteq Threads /\ Siblings \subseteq Threads
    BY ThreadsAre
  <2>8. OwnInv'
    <3>1. ASSUME NEW t \in Own, TurnOf(t) < duty' PROVE Ended(t)'
      <4>1. TurnOf(t) < duty \/ (duty > 0 /\ TurnOf(t) = duty)
        BY <1>1, <3>1, TurnsAre
      <4>2. Ended(t)
        BY <1>1, <1>2, <4>1, TurnsAre DEF StopOrder, OwnInv
      <4>. QED BY <2>6, <2>7, <4>2
    <3>2. ASSUME NEW t \in Own, duty' < TurnOf(t) PROVE Unasked(t)'
      <4>1. duty < TurnOf(t) /\ t # d
        BY <1>1, <2>1, <3>2, TurnsAre
      <4>2. Unasked(t)
        BY <1>1, <4>1 DEF StopOrder, OwnInv
      <4>. QED BY <2>4, <2>7, <4>1, <4>2 DEF Unasked
    <3>. QED BY <3>1, <3>2 DEF OwnInv
  <2>9. \A t \in Siblings : state'[t] = state[t]
    <3>1. CASE d \in Siblings
      <4>1. TurnOf(d) \in {14, 15, 16}
        BY <3>1 DEF TurnOf, Siblings
      <4>2. TurnOf("market") = 8 /\ "market" \in Own
        BY DEF TurnOf, Own
      <4>3. Ended("market")
        BY <1>1, <2>1, <4>1, <4>2 DEF StopOrder, OwnInv
      <4>4. Ended(d)
        BY <1>1, <3>1, <4>3 DEF StopOrder, MarketInv
      <4>. QED BY <2>4, <2>5, <2>7, <4>4 DEF Ended
    <3>2. CASE d \notin Siblings
      BY <2>4, <2>7, <3>2
    <3>. QED BY <3>1, <3>2
  <2>10. SiblingInv'
    BY <1>1, <2>9 DEF StopOrder, SiblingInv, Ended, Unasked
  <2>11. MarketInv'
    <3>1. child' > 0 => duty' >= 8
      BY <1>1 DEF StopOrder, MarketInv
    <3>2. ASSUME Ended("market")' PROVE Ended("market")
      <4>1. "market" \in Own /\ "market" \in Threads /\ TurnOf("market") = 8
        BY <2>7 DEF Own, TurnOf
      <4>2. d = "market" => Unasked(d)
        BY <1>1, <2>1, <4>1 DEF StopOrder, OwnInv
      <4>. QED BY <2>4, <2>5, <3>2, <4>1, <4>2 DEF Ended
    <3>3. Ended("market")' => \A t \in Siblings : Ended(t)'
      BY <1>1, <2>9, <3>2 DEF StopOrder, MarketInv, Ended
    <3>. QED BY <3>1, <3>3 DEF MarketInv
  <2>12. WorkerInv'
    <3>1. ASSUME NEW u \in {"neworder", "cancel", "heartbeat"}
          PROVE  /\ WorkerOf[u] \in Threads /\ WorkerOf[u] # d /\ u \in Threads
                 /\ u = d => u = "heartbeat" \/ state'[u] = state[u]
      BY <2>1, <2>9, HandlersAre, ThreadsAre DEF Own, Siblings
    <3>2. d = "heartbeat" => Unasked(d)
      <4>1. d = "heartbeat" => d \in Own /\ duty < TurnOf(d)
        BY <1>1, <2>1 DEF Own
      <4>. QED BY <1>1, <4>1 DEF StopOrder, OwnInv
    <3>3. ASSUME NEW u \in {"neworder", "cancel", "heartbeat"}
          PROVE  /\ state'[u] \notin {"ending", "ended"} => state[u] \notin {"ending", "ended"}
                 /\ Ended(u)' => Ended(u)
      BY <2>4, <2>5, <3>1, <3>2 DEF Ended, Unasked
    <3>. QED BY <1>1, <2>4, <3>1, <3>3 DEF StopOrder, WorkerInv, Ended, Unasked
  <2>13. RestInv'
    <3>1. "removePool" \in Threads /\ "removePool" # d
      BY <2>1, ThreadsAre DEF Own, Siblings
    <3>. QED BY <1>1, <2>4, <3>1 DEF StopOrder, RestInv, Unasked
  <2>. QED BY <2>8, <2>10, <2>11, <2>12, <2>13 DEF StopOrder
<1>. QED BY <1>1, <1>3, <1>4

\* The market joins one child and asks the next.
LEMMA MarketStopsStops ==
  ASSUME PlainTypes, StopInv, MarketStops
  PROVE  StopInv'
<1> SUFFICES ASSUME failed = {} PROVE StopOrder'
  BY DEF StopInv, MarketStops
<1>1. StopOrder /\ duty' = duty /\ locked' = locked /\ duty \in 0..18 /\ child \in 0..3
  BY DutiesAre, ChildrenAre DEF StopInv, MarketStops, PlainTypes, marketVars
<1>2. duty = 8 /\ ~Ended("market") /\ "market" \in Own /\ TurnOf("market") = 8
  <2>1. "market" \in Own /\ TurnOf("market") = 8 /\ ~Ended("market") /\ ~Unasked("market")
    BY DEF Own, TurnOf, MarketStops, Ended, Unasked
  <2>2. ~(8 < duty) /\ ~(duty < 8)
    BY <1>1, <2>1 DEF StopOrder, OwnInv
  <2>. QED BY <1>1, <2>1, <2>2
<1>3. \A t \in Siblings : /\ ChildOf(t) <= child => Ended(t)
                          /\ child < ChildOf(t) => Unasked(t)
  <2>1. child > 0 => Ended(Children[child])
    BY DEF MarketStops, Ended
  <2>2. ASSUME NEW t \in Siblings, ChildOf(t) <= child PROVE Ended(t)
    <3>1. CASE ChildOf(t) < child
      BY <1>1, <3>1 DEF StopOrder, SiblingInv
    <3>2. CASE ChildOf(t) = child
      BY <1>1, <2>1, <3>2, ChildrenAre
    <3>. QED BY <1>1, <2>2, <3>1, <3>2, ChildrenAre
  <2>. QED BY <1>1, <2>2 DEF StopOrder, SiblingInv
<1>4. Own \subseteq Threads /\ Siblings \subseteq Threads /\ state \in [Threads -> States]
  BY ThreadsAre DEF PlainTypes
<1>5. CASE child < 3
  <2> DEFINE d == Children[child + 1]
  <2>1. child + 1 \in 1..3 /\ d \in Siblings /\ ChildOf(d) = child + 1
    BY <1>1, <1>5, ChildrenAre
  <2>2. PICK s \in Asked(d) : state' = [state EXCEPT ![d] = s]
    BY <1>5, ChildrenAre DEF MarketStops
  <2>3. child' = child + 1
    BY <1>5, ChildrenAre DEF MarketStops
  <2> HIDE DEF d
  <2>4. d \in Threads /\ d \notin Workers /\ d \notin Own /\ d # "removePool"
    BY <2>1, <1>4 DEF Own, Siblings, Workers, MarketWorkers
  <2>5. state'[d] = s /\ \A t \in Threads : t # d => state'[t] = state[t]
    BY <1>4, <2>2, <2>4
  <2>6. Unasked(d) /\ s \in {"drain", "leave"}
    BY <1>1, <1>3, <2>1, <2>4, AskedIs
  <2>7. \A t \in Own : state'[t] = state[t]
    BY <1>4, <2>4, <2>5
  <2>8. OwnInv'
    BY <1>1, <2>7 DEF StopOrder, OwnInv, Ended, Unasked
  <2>9. SiblingInv'
    <3>1. ASSUME NEW t \in Siblings
          PROVE  /\ ChildOf(t) < child' => ChildOf(t) <= child /\ t # d
                 /\ child' < ChildOf(t) => child < ChildOf(t) /\ t # d
      BY <1>1, <2>1, <2>3, ChildrenAre
    <3>. QED BY <1>3, <1>4, <2>5, <3>1 DEF SiblingInv, Ended, Unasked
  <2>10. MarketInv'
    BY <1>1, <1>2, <2>7 DEF MarketInv, Ended
  <2>11. WorkerInv'
    <3>1. ASSUME NEW u \in {"neworder", "cancel", "heartbeat"}
          PROVE  WorkerOf[u] \in Threads /\ WorkerOf[u] # d /\ u \in Threads
      BY <2>4, HandlersAre, ThreadsAre DEF Own, Siblings, Workers, MarketWorkers
    <3>2. ASSUME NEW u \in {"neworder", "cancel", "heartbeat"}
          PROVE  /\ state'[u] \notin {"ending", "ended"} => state[u] \notin {"ending", "ended"}
                 /\ Ended(u)' => Ended(u)
      BY <2>5, <2>6, <3>1 DEF Ended, Unasked
    <3>. QED BY <1>1, <2>5, <3>1, <3>2 DEF StopOrder, WorkerInv, Ended, Unasked
  <2>12. RestInv'
    BY <1>1, <2>4, <2>5, ThreadsAre DEF StopOrder, RestInv, Unasked
  <2>. QED BY <2>8, <2>9, <2>10, <2>11, <2>12 DEF StopOrder
<1>6. CASE child = 3
  <2>1. state' = [state EXCEPT !["market"] = "ended"] /\ child' = child
    BY <1>6, ChildrenAre DEF MarketStops
  <2>2. state'["market"] = "ended" /\ \A t \in Threads : t # "market" => state'[t] = state[t]
    BY <1>2, <1>4, <2>1
  <2>3. OwnInv'
    BY <1>1, <1>2, <1>4, <2>2 DEF StopOrder, OwnInv, Ended, Unasked
  <2>4. \A t \in Siblings : t \in Threads /\ t # "market" /\ Ended(t) /\ state'[t] = state[t]
    BY <1>3, <1>4, <1>6, <2>2, ChildrenAre DEF Siblings
  <2>5. SiblingInv' /\ MarketInv'
    BY <1>1, <1>2, <2>1, <2>4 DEF StopOrder, SiblingInv, MarketInv, Ended, Unasked
  <2>6. \A u \in {"neworder", "cancel", "heartbeat"} :
          state'[u] = state[u] /\ state'[WorkerOf[u]] = state[WorkerOf[u]]
    BY <2>2, HandlersAre, ThreadsAre DEF Own, Siblings
  <2>7. WorkerInv'
    BY <1>1, <2>6 DEF StopOrder, WorkerInv, Ended, Unasked
  <2>8. RestInv'
    BY <1>1, <2>2, ThreadsAre DEF StopOrder, RestInv, Unasked
  <2>. QED BY <2>3, <2>5, <2>7, <2>8 DEF StopOrder
<1>. QED BY <1>1, <1>5, <1>6

\* A thread that has been asked to stop ends, or goes on to stop its worker.
LEMMA ExitStops ==
  ASSUME PlainTypes, StopInv, NEW t \in Threads, Exit(t)
  PROVE  StopInv'
<1> SUFFICES ASSUME failed = {} PROVE StopOrder'
  BY DEF StopInv, Exit, coreVars
<1>1. StopOrder /\ duty' = duty /\ child' = child /\ locked' = locked
  BY DEF StopInv, Exit, marketVars, coreVars
<1>2. ~Unasked(t) /\ ~Ended(t) /\ t # "market" /\ t # "removePool"
  BY <1>1 DEF Exit, Unasked, Ended, StopOrder, RestInv
<1>3. state \in [Threads -> States]
  BY DEF PlainTypes
<1>4. /\ state'[t] \in {"ending", "ended"}
      /\ state'[t] = "ending" => t \in {"neworder", "cancel", "heartbeat"}
      /\ \A u \in Threads : \/ u = t \/ state'[u] = state[u]
                            \/ t \in {"neworder", "cancel", "heartbeat"} /\ u = WorkerOf[t]
  <2>1. CASE t \in DOMAIN WorkerOf
    <3>1. t \in {"neworder", "cancel", "heartbeat"} /\ WorkerOf[t] \in Threads /\ WorkerOf[t] # t
      BY <2>1, HandlersAre, ThreadsAre
    <3>2. PICK s \in Asked(WorkerOf[t]) :
            state' = [state EXCEPT ![t] = "ending", ![WorkerOf[t]] = s]
      BY <2>1 DEF Exit, RuntimeOver
    <3>. QED BY <1>3, <3>1, <3>2
  <2>2. CASE t \notin DOMAIN WorkerOf
    BY <1>3, <2>2 DEF Exit, RuntimeOver
  <2>. QED BY <2>1, <2>2
<1>5. Own \subseteq Threads /\ Siblings \subseteq Threads
  BY ThreadsAre
<1>6. \A u \in {"neworder", "cancel", "heartbeat"} :
        /\ u \in Threads /\ WorkerOf[u] \in Threads /\ WorkerOf[u] # "removePool"
        /\ WorkerOf[u] \notin Own /\ WorkerOf[u] \notin Siblings /\ WorkerOf[u] \notin DOMAIN WorkerOf
        /\ \A v \in {"neworder", "cancel", "heartbeat"} : WorkerOf[u] = WorkerOf[v] => u = v
  BY HandlersAre, ThreadsAre DEF Own, Siblings
<1>7. \A u \in Own \cup Siblings : u # t => state'[u] = state[u]
  BY <1>4, <1>5, <1>6
<1>8. OwnInv'
  <2>1. t \in Own => ~(TurnOf(t) < duty) /\ ~(duty < TurnOf(t))
    BY <1>1, <1>2 DEF StopOrder, OwnInv
  <2>. QED BY <1>1, <1>7, <2>1 DEF StopOrder, OwnInv, Ended, Unasked
<1>9. SiblingInv'
  <2>1. t \in Siblings => ~(ChildOf(t) < child) /\ ~(child < ChildOf(t))
    BY <1>1, <1>2 DEF StopOrder, SiblingInv
  <2>. QED BY <1>1, <1>7, <2>1 DEF StopOrder, SiblingInv, Ended, Unasked
<1>10. MarketInv'
  <2>1. "market" \in Own
    BY DEF Own
  <2>2. ~(Ended("market") /\ t \in Siblings)
    BY <1>1, <1>2 DEF StopOrder, MarketInv
  <2>. QED BY <1>1, <1>2, <1>7, <2>1, <2>2 DEF StopOrder, MarketInv, Ended
<1>11. WorkerInv'
  <2> SUFFICES ASSUME NEW u \in {"neworder", "cancel", "heartbeat"}
               PROVE  /\ state'[u] \notin {"ending", "ended"} => Unasked(WorkerOf[u])'
                      /\ Ended(u)' => Ended(WorkerOf[u])'
    BY DEF WorkerInv
  <2>1. CASE u = t
    <3>1. t \in DOMAIN WorkerOf
      BY <2>1, HandlersAre
    <3>2. PICK s \in Asked(WorkerOf[t]) :
            state' = [state EXCEPT ![t] = "ending", ![WorkerOf[t]] = s]
      BY <3>1 DEF Exit, RuntimeOver
    <3>3. state'[u] = "ending"
      BY <1>3, <1>6, <2>1, <3>2, HandlersAre
    <3>. QED BY <3>3 DEF Ended
  <2>2. CASE t = WorkerOf[u]
    <3>1. state[u] \in {"ending", "ended"} /\ ~Ended(u) /\ u # t
      BY <1>1, <1>2, <1>6, <2>2, HandlersAre DEF StopOrder, WorkerInv
    <3>2. state'[u] = state[u]
      BY <1>4, <1>6, <2>2, <3>1, HandlersAre
    <3>. QED BY <3>1, <3>2 DEF Ended
  <2>3. CASE u # t /\ t # WorkerOf[u]
    <3>1. state'[u] = state[u] /\ state'[WorkerOf[u]] = state[WorkerOf[u]]
      BY <1>4, <1>6, <2>3, HandlersAre
    <3>. QED BY <1>1, <3>1 DEF StopOrder, WorkerInv, Ended, Unasked
  <2>. QED BY <2>1, <2>2, <2>3
<1>12. RestInv'
  <2>1. state'["removePool"] = state["removePool"]
    BY <1>2, <1>4, <1>6, ThreadsAre
  <2>. QED BY <1>1, <2>1 DEF StopOrder, RestInv, Unasked
<1>. QED BY <1>8, <1>9, <1>10, <1>11, <1>12 DEF StopOrder

\* A unit ends after its worker.
LEMMA EndUnitStops ==
  ASSUME PlainTypes, StopInv, NEW t \in DOMAIN WorkerOf, EndUnit(t)
  PROVE  StopInv'
<1> SUFFICES ASSUME failed = {} PROVE StopOrder'
  BY DEF StopInv, EndUnit, coreVars
<1>1. StopOrder /\ duty' = duty /\ child' = child /\ locked' = locked
  BY DEF StopInv, EndUnit, marketVars, coreVars
<1>2. t \in {"neworder", "cancel", "heartbeat"} /\ t \in Threads
  BY HandlersAre, ThreadsAre DEF Own, Siblings
<1>3. /\ ~Unasked(t) /\ ~Ended(t) /\ Ended(WorkerOf[t]) /\ state \in [Threads -> States]
      /\ state' = [state EXCEPT ![t] = "ended"]
  BY DEF EndUnit, Unasked, Ended, PlainTypes
<1>4. state'[t] = "ended" /\ \A u \in Threads : u # t => state'[u] = state[u]
  BY <1>2, <1>3
<1>5. Own \subseteq Threads /\ Siblings \subseteq Threads /\ "removePool" \in Threads
  BY ThreadsAre
<1>6. \A u \in {"neworder", "cancel", "heartbeat"} :
        u \in Threads /\ WorkerOf[u] \in Threads /\ WorkerOf[u] # t
  BY <1>2, HandlersAre, ThreadsAre DEF Own, Siblings
<1>7. OwnInv'
  <2>1. t \in Own => ~(TurnOf(t) < duty) /\ ~(duty < TurnOf(t))
    BY <1>1, <1>3 DEF StopOrder, OwnInv
  <2>. QED BY <1>1, <1>4, <1>5, <2>1 DEF StopOrder, OwnInv, Ended, Unasked
<1>8. SiblingInv'
  <2>1. t \in Siblings => ~(ChildOf(t) < child) /\ ~(child < ChildOf(t))
    BY <1>1, <1>3 DEF StopOrder, SiblingInv
  <2>. QED BY <1>1, <1>4, <1>5, <2>1 DEF StopOrder, SiblingInv, Ended, Unasked
<1>9. MarketInv'
  <2>1. "market" \in Threads /\ "market" # t
    BY <1>2, ThreadsAre DEF Own
  <2>. QED BY <1>1, <1>4, <1>5, <2>1 DEF StopOrder, MarketInv, Ended
<1>10. WorkerInv'
  BY <1>1, <1>3, <1>4, <1>6 DEF StopOrder, WorkerInv, Ended, Unasked
<1>11. RestInv'
  BY <1>1, <1>2, <1>4, <1>5 DEF StopOrder, RestInv, Unasked
<1>. QED BY <1>7, <1>8, <1>9, <1>10, <1>11 DEF StopOrder

-----------------------------------------------------------------------------
(* Who is handed something once it has ended *)

\* A thread that has not ended, in an object that is still there.
OnTime(u) == ~Ended(u) /\ (u = "input" => duty <= 9) /\ (u = "output" => duty <= 13)

\* A thread that works is handed on to by those that Core ends before it.
LEMMA OwnOnTime ==
  ASSUME PlainTypes, StopOrder, NEW t \in Own, NEW u \in Own, Running(t), TurnOf(t) < TurnOf(u)
  PROVE  OnTime(u)
<1>1. ~Ended(t)
  BY DEF Running, Ended
<1>2. duty <= TurnOf(t) /\ duty \in 0..18 /\ TurnOf(t) \in 1..17 /\ TurnOf(u) \in 1..17
  BY <1>1, TurnsAre, DutiesAre DEF StopOrder, OwnInv, PlainTypes
<1>3. Unasked(u)
  BY <1>2 DEF StopOrder, OwnInv
<1>4. u = "output" => TurnOf(u) = 9
  BY DEF TurnOf
<1>5. u # "input"
  <2>1. TurnOf("input") = 1
    BY DEF TurnOf
  <2>. QED BY <1>2, <2>1
<1>. QED BY <1>2, <1>3, <1>4, <1>5 DEF OnTime, Ended, Unasked

\* While a thread of a market works Core waits for the market at most.
LEMMA MarketOnTime ==
  ASSUME PlainTypes, StopOrder,
         NEW t \in {"mrouter", "neworder", "cancel", "event"} \cup MarketWorkers, Running(t)
  PROVE  /\ OnTime("output") /\ OnTime("eventPool")
         /\ t # "event" => OnTime("event")
         /\ t = "mrouter" => OnTime("neworder") /\ OnTime("cancel")
         /\ t \in {"neworder", "cancel"} => OnTime(WorkerOf[t])
<1>1. ~Ended(t) /\ state[t] # "ending"
  BY DEF Running, Ended
<1>2. /\ TurnOf("mrouter") = 4 /\ TurnOf("market") = 8 /\ TurnOf("output") = 9
      /\ TurnOf("eventPool") = 17 /\ {"mrouter", "market", "output", "eventPool"} \subseteq Own
      /\ ChildOf("neworder") = 1 /\ ChildOf("cancel") = 2 /\ ChildOf("event") = 3
      /\ duty \in 0..18 /\ child \in 0..3
  BY DutiesAre, ChildrenAre DEF TurnOf, ChildOf, Own, PlainTypes
<1>3. t \in {"mrouter", "neworder", "cancel", "event", "neworderWorker", "cancelWorker"}
  BY DEF MarketWorkers
<1>4. t = "mrouter" => duty <= 4 /\ child = 0
  BY <1>1, <1>2 DEF StopOrder, OwnInv, MarketInv
<1>5. t = "neworderWorker" => ~Ended("neworder")
  BY <1>1, HandlersAre DEF StopOrder, WorkerInv
<1>6. t = "cancelWorker" => ~Ended("cancel")
  BY <1>1, HandlersAre DEF StopOrder, WorkerInv
<1>7. t # "mrouter" => ~(8 < duty)
  BY <1>1, <1>2, <1>3, <1>5, <1>6 DEF StopOrder, OwnInv, MarketInv, Siblings
<1>8. t \notin {"mrouter", "event"} => child <= 2
  BY <1>1, <1>2, <1>3, <1>5, <1>6 DEF StopOrder, SiblingInv, Siblings
<1>9. duty <= 8
  BY <1>2, <1>4, <1>7
<1>10. Unasked("output") /\ Unasked("eventPool")
  BY <1>2, <1>9 DEF StopOrder, OwnInv
<1>11. t # "event" => Unasked("event")
  BY <1>2, <1>4, <1>8 DEF StopOrder, SiblingInv, Siblings
<1>12. t = "mrouter" => Unasked("neworder") /\ Unasked("cancel")
  BY <1>2, <1>4 DEF StopOrder, SiblingInv, Siblings
<1>13. t \in {"neworder", "cancel"} => Unasked(WorkerOf[t])
  BY <1>1 DEF StopOrder, WorkerInv, Ended
<1>14. \A u : Unasked(u) /\ u \notin {"input", "output"} => OnTime(u)
  BY DEF Unasked, OnTime, Ended
<1>15. OnTime("output")
  BY <1>2, <1>9, <1>10 DEF OnTime, Unasked, Ended
<1>16. OnTime("eventPool")
  BY <1>10, <1>14
<1>17. t # "event" => OnTime("event")
  BY <1>11, <1>14
<1>18. t = "mrouter" => OnTime("neworder") /\ OnTime("cancel")
  BY <1>12, <1>14
<1>19. t \in {"neworder", "cancel"} => OnTime(WorkerOf[t])
  BY <1>13, <1>14, HandlersAre
<1>. QED BY <1>15, <1>16, <1>17, <1>18, <1>19

\* Nothing is noted of such a use.
LEMMA UseOnTime ==
  ASSUME NEW t, NEW G, Use(t, G), \A u \in G : OnTime(u), duty \in 0..18
  PROVE  late' = late
<1>1. \A u \in G : ~(state[u] = "ended")
  BY DEF OnTime, Ended
<1>2. Len(Units) = 9
  BY DutiesAre
<1>3. \A u \in G : ~(u = "input" /\ duty > 9) /\ ~(u = "output" /\ duty > 9 + 4)
  BY DEF OnTime
<1>. QED BY <1>1, <1>2, <1>3 DEF Use

\* Nothing new is late.
LEMMA LateKept ==
  ASSUME OnlyPoolsAreLate, UNCHANGED failed, failed = {} => late' = late
  PROVE  OnlyPoolsAreLate'
BY DEF OnlyPoolsAreLate

\* A thread that is done with an input goes on as before.
LEMMA AfterAlike ==
  ASSUME state \in [Threads -> States], NEW t \in Threads, Running(t), NEW q, state' = After(t, q)
  PROVE  \A u \in Threads : state'[u] = state[u] \/ (Unasked(u) /\ Unasked(u)')
<1>1. \A u \in Threads : u # t => state'[u] = state[u]
  BY DEF After
<1>2. state[t] = "drain" => state'[t] = state[t]
  BY DEF After
<1>3. state[t] \in {"idle", "busy"} => state'[t] \in {state[t], "idle", "busy"}
  BY DEF After
<1>. QED BY <1>1, <1>2, <1>3 DEF Running, Unasked

\* An input is handed on in time.
LEMMA HandsOnTime ==
  ASSUME PlainTypes, OnlyPoolsAreLate, NEW t \in Threads, NEW given, Has(t), Handles(t, given),
         UNCHANGED <<failed, duty, child, locked>>,
         failed = {} => \A u \in DOMAIN given : OnTime(u)
  PROVE  Alike /\ OnlyPoolsAreLate'
<1>1. state \in [Threads -> States] /\ duty \in 0..18
  BY DutiesAre DEF PlainTypes
<1>2. Alike
  BY <1>1, AfterAlike DEF Has, Handles, Alike
<1>3. failed = {} => late' = late
  BY <1>1, UseOnTime DEF Handles
<1>. QED BY <1>2, <1>3, LateKept

\* What holds of a stop while nothing has failed.
Orderly == LineTypes /\ StopInv /\ OnlyPoolsAreLate

\* A unit hands on its input to one that ends after it.
LEMMA PassOnTime ==
  ASSUME Orderly, NEW t \in DOMAIN Next1 \cup {"router"}, Pass(t)
  PROVE  Alike /\ OnlyPoolsAreLate'
<1> DEFINE m == Head(queue[t])
           v == IF t = "router" THEN Handler[m.kind] ELSE Next1[t]
           given == [u \in {v} |-> m]
<1>1. PlainTypes /\ LineInv /\ Has(t) /\ Handles(t, given) /\ UNCHANGED <<marketVars, coreVars, inputs>>
  BY DEF Orderly, LineTypes, Pass
<1>2. t \in {"header", "logon", "logout", "heartbeat", "event", "output", "router"} /\ t \in Threads
  BY HandlersAre, ThreadsAre DEF Own, Siblings
<1>3. t = "router" => v \in {"logon", "logout", "heartbeat", "mrouter"}
  <2>1. queue[t] \in Seq(Messages) /\ queue[t] # <<>>
    BY <1>1, <1>2 DEF PlainTypes, Has
  <2>2. m = queue[t][1] /\ 1 \in DOMAIN queue[t]
    BY <2>1, HeadTailProperties, EmptySeq
  <2>3. t = "router" => m.kind \in Kinds
    BY <1>1, <2>2 DEF LineInv, FromClients
  <2>. QED BY <2>3, HandlersAre
<1>4. t # "router" => v = Next1[t]
  OBVIOUS
<1> HIDE DEF v
<1>5. DOMAIN given = {v}
  OBVIOUS
<1> HIDE DEF given
<1>6. ASSUME failed = {} PROVE OnTime(v)
  <2>1. StopOrder /\ Running(t)
    BY <1>1, <1>6 DEF Orderly, StopInv, Has
  <2>2. CASE t = "event"
    BY <1>1, <1>4, <2>1, <2>2, HandlersAre, MarketOnTime
  <2>3. CASE t # "event"
    <3>1. t \in Own /\ v \in Own /\ TurnOf(t) < TurnOf(v)
      BY <1>2, <1>3, <1>4, <2>3, HandlersAre DEF Own, TurnOf
    <3>. QED BY <1>1, <2>1, <3>1, OwnOnTime
  <2>. QED BY <2>2, <2>3
<1>7. UNCHANGED <<failed, duty, child, locked>>
  BY <1>1 DEF marketVars, coreVars
<1>. QED BY <1>1, <1>2, <1>5, <1>6, <1>7, HandsOnTime DEF Orderly

\* A refusal of a unit meets the output; the answer of a pool may be late.
LEMMA ReplyOnTime ==
  ASSUME Orderly, NEW t \in Answering \cup {"header", "router", "mrouter"}, Reply(t)
  PROVE  Alike /\ OnlyPoolsAreLate'
<1>1. PICK G \in SUBSET {"output"} : Handles(t, [u \in G |-> Answer])
  BY DEF Reply
<1>2. PlainTypes /\ Has(t) /\ UNCHANGED <<failed, duty, child, locked>> /\ t \in Threads
  BY ThreadsAre DEF Orderly, LineTypes, Reply, marketVars, coreVars, Answering, Own
<1>3. DOMAIN [u \in G |-> Answer] = G
  OBVIOUS
<1>4. CASE t \notin Answering
  <2>1. ASSUME failed = {} PROVE OnTime("output")
    <3>1. t \in Own /\ "output" \in Own /\ TurnOf(t) < TurnOf("output")
      BY <1>4 DEF Own, TurnOf
    <3>. QED BY <1>2, <2>1, <3>1, OwnOnTime DEF Orderly, StopInv, Has
  <2>. QED BY <1>1, <1>2, <1>3, <2>1, HandsOnTime DEF Orderly
<1>5. CASE t \in Answering
  <2>1. state \in [Threads -> States] /\ duty \in 0..18
    BY <1>2, DutiesAre DEF PlainTypes
  <2>2. Alike
    BY <1>1, <1>2, <2>1, AfterAlike DEF Has, Handles, Alike
  <2>3. ASSUME failed = {}
        PROVE  late' \subseteq late \cup {<<t, "output">>}
                 \cup (IF t = "eventPool" THEN {<<t, "freed">>} ELSE {})
    <3>1. Use(t, G)
      BY <1>1, <1>3 DEF Handles
    <3>2. t # "eventPool" => duty <= 12
      <4>1. t # "eventPool" => t \in Own /\ TurnOf(t) \in {10, 11, 12}
        BY <1>5 DEF Answering, Own, TurnOf
      <4>2. ~Ended(t)
        BY <1>2 DEF Has, Running, Ended
      <4>. QED BY <2>1, <2>3, <4>1, <4>2 DEF Orderly, StopInv, StopOrder, OwnInv
    <3>3. Len(Units) = 9 /\ \A u \in G : u = "output"
      BY DutiesAre
    <3>. QED BY <2>1, <3>1, <3>2, <3>3 DEF Use
  <2>4. OnlyPoolsAreLate'
    <3> SUFFICES ASSUME failed = {}
                 PROVE  late' \subseteq
                   ({"logonPool", "logoutPool", "heartbeatPool", "eventPool"} \X {"output"})
                     \cup {<<"eventPool", "freed">>, <<"removePool", "input">>,
                           <<"removePool", "freed">>}
      BY <1>2 DEF OnlyPoolsAreLate
    <3>1. late \subseteq
            ({"logonPool", "logoutPool", "heartbeatPool", "eventPool"} \X {"output"})
              \cup {<<"eventPool", "freed">>, <<"removePool", "input">>, <<"removePool", "freed">>}
      BY DEF Orderly, OnlyPoolsAreLate
    <3>. QED BY <1>5, <2>3, <3>1 DEF Answering
  <2>. QED BY <2>2, <2>4
<1>. QED BY <1>4, <1>5

\* Nobody ends the pool that removes clients; what it finds may be gone.
LEMMA RemovalOnTime ==
  ASSUME Orderly, SendAnswer \/ Removed
  PROVE  Alike /\ OnlyPoolsAreLate'
<1>1. CASE SendAnswer
  <2>1. PICK G \in SUBSET {"removePool"} : Handles("outputPool", [u \in G |-> Answer])
    BY <1>1 DEF SendAnswer
  <2>2. PlainTypes /\ Has("outputPool") /\ UNCHANGED <<failed, duty, child, locked>>
        /\ "outputPool" \in Threads
    BY <1>1, ThreadsAre DEF Orderly, LineTypes, SendAnswer, marketVars, coreVars, Own
  <2>3. DOMAIN [u \in G |-> Answer] = G
    OBVIOUS
  <2>4. failed = {} => OnTime("removePool")
    BY DEF Orderly, StopInv, StopOrder, RestInv, Unasked, OnTime, Ended
  <2>. QED BY <2>1, <2>2, <2>3, <2>4, HandsOnTime DEF Orderly
<1>2. CASE Removed
  <2>1. Alike
    BY <1>2 DEF Removed, Alike, marketVars, coreVars
  <2>2. late' \subseteq late \cup {<<"removePool", "input">>, <<"removePool", "freed">>}
    BY <1>2 DEF Removed, Use
  <2>3. failed' = failed
    BY <1>2 DEF Removed, coreVars
  <2>4. OnlyPoolsAreLate'
    BY <2>2, <2>3 DEF Orderly, OnlyPoolsAreLate
  <2>. QED BY <2>1, <2>4
<1>. QED BY <1>1, <1>2

\* TCPInput meets HeaderValidation, and the watch the output.
LEMMA ArrivalOnTime ==
  ASSUME Orderly, (\E k \in Kinds : Read(k)) \/ Watch
  PROVE  Alike /\ OnlyPoolsAreLate'
<1>1. PlainTypes /\ duty \in 0..18
  <2>1. PlainTypes
    BY DEF Orderly, LineTypes
  <2>2. duty \in 0..(Len(Duties) + 1) /\ Len(Duties) = 17
    BY <2>1, DutiesAre DEF PlainTypes
  <2>. QED BY <2>1, <2>2
<1>2. CASE \E k \in Kinds : Read(k)
  <2>1. Running("input") /\ Use("input", {"header"}) /\ UNCHANGED <<state, failed, duty, child, locked>>
    BY <1>2 DEF Read, marketVars, coreVars
  <2>2. failed = {} => OnTime("header")
    <3>1. "input" \in Own /\ "header" \in Own /\ TurnOf("input") < TurnOf("header")
      BY DEF Own, TurnOf
    <3>. QED BY <1>1, <2>1, <3>1, OwnOnTime DEF Orderly, StopInv
  <2>3. failed = {} => late' = late
    BY <1>1, <2>1, <2>2, UseOnTime
  <2>. QED BY <2>1, <2>3, LateKept DEF Orderly, Alike
<1>3. CASE Watch
  <2>1. Running("watch") /\ Use("watch", {"output"}) /\ UNCHANGED <<state, failed, duty, child, locked>>
    BY <1>3 DEF Watch, marketVars, coreVars
  <2>2. ASSUME failed = {} PROVE OnTime("output")
    <3>1. StopOrder /\ ~Ended("heartbeat")
      BY <2>1, <2>2, HandlersAre DEF Orderly, StopInv, StopOrder, WorkerInv, Running, Ended
    <3>2. /\ "heartbeat" \in Own /\ "output" \in Own
          /\ TurnOf("heartbeat") = 7 /\ TurnOf("output") = 9
      BY DEF Own, TurnOf
    <3>3. duty <= 7 /\ Unasked("output")
      BY <1>1, <3>1, <3>2 DEF StopOrder, OwnInv
    <3>. QED BY <1>1, <3>3 DEF OnTime, Unasked, Ended
  <2>3. failed = {} => late' = late
    BY <1>1, <2>1, <2>2, UseOnTime
  <2>. QED BY <2>1, <2>3, LateKept DEF Orderly, Alike
<1>. QED BY <1>2, <1>3

\* The units of the market meet their workers and the output.
LEMMA MarketUnitsOnTime ==
  ASSUME Orderly, \/ Ticket \/ OrderAccepted \/ OrderUnsupported \/ CancelAccepted
                  \/ \E u \in {"neworder", "cancel"} : Refuse(u)
  PROVE  Alike /\ OnlyPoolsAreLate'
<1>1. UNCHANGED <<failed, duty, child, locked>>
  BY DEF Ticket, OrderAccepted, OrderUnsupported, CancelAccepted, Refuse, coreVars, marketVars
<1>2. PlainTypes /\ {"mrouter", "neworder", "cancel"} \subseteq Threads
  BY ThreadsAre DEF Orderly, LineTypes, Own, Siblings
<1>3. PICK t \in {"mrouter", "neworder", "cancel"} :
        Has(t) /\ \E given : Handles(t, given) /\
          \/ t = "mrouter" /\ DOMAIN given \subseteq {"neworder", "cancel"}
          \/ t # "mrouter" /\ DOMAIN given \subseteq {WorkerOf[t], "output"}
  <2>1. CASE Ticket
    <3>1. PICK m : Has("mrouter") /\ Handles("mrouter", [u \in {UnitOf(m)} |-> m])
      BY <2>1 DEF Ticket
    <3>2. DOMAIN [u \in {UnitOf(m)} |-> m] \subseteq {"neworder", "cancel"}
      BY DEF UnitOf
    <3>. QED BY <3>1, <3>2
  <2>2. CASE OrderAccepted
    <3>1. PICK m : Has("neworder") /\ Handles("neworder", [neworderWorker |-> m])
      BY <2>2 DEF OrderAccepted
    <3>2. DOMAIN [neworderWorker |-> m] \subseteq {WorkerOf["neworder"], "output"}
      BY HandlersAre
    <3>. QED BY <3>1, <3>2
  <2>3. CASE OrderUnsupported
    <3>1. PICK m : Has("neworder") /\ Handles("neworder", [neworderWorker |-> m, output |-> Answer])
      BY <2>3 DEF OrderUnsupported
    <3>2. DOMAIN [neworderWorker |-> m, output |-> Answer] \subseteq {WorkerOf["neworder"], "output"}
      BY HandlersAre
    <3>. QED BY <3>1, <3>2
  <2>4. CASE CancelAccepted
    <3>1. PICK m : /\ Has("cancel")
                   /\ \/ Handles("cancel", [cancelWorker |-> m])
                      \/ Handles("cancel", [cancelWorker |-> m, output |-> Answer])
      BY <2>4 DEF CancelAccepted
    <3>2. /\ DOMAIN [cancelWorker |-> m] \subseteq {WorkerOf["cancel"], "output"}
          /\ DOMAIN [cancelWorker |-> m, output |-> Answer] \subseteq {WorkerOf["cancel"], "output"}
      BY HandlersAre
    <3>. QED BY <3>1, <3>2
  <2>5. CASE \E u \in {"neworder", "cancel"} : Refuse(u)
    <3>1. PICK u \in {"neworder", "cancel"} : Has(u) /\ Handles(u, [output |-> Answer])
      BY <2>5 DEF Refuse
    <3>2. DOMAIN [output |-> Answer] \subseteq {WorkerOf[u], "output"}
      OBVIOUS
    <3>. QED BY <3>1, <3>2
  <2>. QED BY <2>1, <2>2, <2>3, <2>4, <2>5
<1>4. PICK given : Handles(t, given) /\
          \/ t = "mrouter" /\ DOMAIN given \subseteq {"neworder", "cancel"}
          \/ t # "mrouter" /\ DOMAIN given \subseteq {WorkerOf[t], "output"}
  BY <1>3
<1>5. ASSUME failed = {} PROVE \A u \in DOMAIN given : OnTime(u)
  <2>1. StopOrder /\ Running(t)
    BY <1>3, <1>5 DEF Orderly, StopInv, Has
  <2>2. /\ OnTime("output") /\ (t = "mrouter" => OnTime("neworder") /\ OnTime("cancel"))
        /\ (t \in {"neworder", "cancel"} => OnTime(WorkerOf[t]))
    BY <1>2, <2>1, MarketOnTime
  <2>. QED BY <1>4, <2>2
<1>. QED BY <1>1, <1>2, <1>3, <1>4, <1>5, HandsOnTime DEF Orderly

\* The workers meet the output and OBEvent, and no lock that was left.
LEMMA WorkersOnTime ==
  ASSUME Orderly, NEW w \in MarketWorkers, Begin(w) \/ Serve(w) \/ Block(w)
  PROVE  StopInv' /\ OnlyPoolsAreLate'
<1>1. PlainTypes /\ w \in Threads /\ state \in [Threads -> States] /\ duty \in 0..18
  <2>1. PlainTypes /\ w \in Threads
    BY ThreadsAre DEF Orderly, LineTypes, MarketWorkers
  <2>2. /\ state \in [Threads -> States] /\ Len(Duties) = 17
        /\ duty \in 0..(Len(Duties) + 1)
    BY <2>1, DutiesAre DEF PlainTypes
  <2>. QED BY <2>1, <2>2
<1>2. CASE Begin(w)
  <2>1. Alike
    <3>1. \A u \in Threads : state'[u] = state[u] \/ (Unasked(u) /\ Unasked(u)')
      <4>1. \A u \in Threads : u # w => state'[u] = state[u]
        BY <1>1, <1>2 DEF Begin
      <4>2. state[w] = "drain" => state'[w] = state[w]
        BY <1>1, <1>2 DEF Begin
      <4>3. state[w] \in {"idle", "busy"} => state'[w] = "busy"
        BY <1>1, <1>2 DEF Begin
      <4>. QED BY <1>2, <4>1, <4>2, <4>3 DEF Begin, Has, Running, Unasked
    <3>. QED BY <1>2, <3>1 DEF Alike, Begin, coreVars
  <2>2. late' = late /\ failed' = failed
    BY <1>2 DEF Begin, coreVars
  <2>. QED BY <2>1, <2>2, AlikeStops, LateKept DEF Orderly
<1>3. CASE Serve(w)
  <2>1. Running(w) /\ state' = After(w, queue[w]) /\ UNCHANGED <<failed, duty, child, locked>>
    BY <1>3 DEF Serve, coreVars
  <2>2. Alike
    BY <1>1, <2>1, AfterAlike DEF Alike
  <2>3. PICK G \in {{"output"}, {"output", "event"}} : Use(w, G)
    <3>1. PICK filled \in {{}, {"event"}} :
            LET given == [u \in {"output"} \cup filled |-> IF u = "event" THEN hand[w] ELSE Answer]
            IN queue' = Put(queue, given) /\ Use(w, DOMAIN given)
      BY <1>3, Zenon DEF Serve
    <3>2. Use(w, {"output"} \cup filled)
      BY <3>1
    <3>3. {"output"} \cup filled \in {{"output"}, {"output", "event"}}
      BY <3>1
    <3>. QED BY <3>2, <3>3
  <2>4. failed = {} => OnTime("output") /\ OnTime("event")
    BY <1>1, <2>1, MarketOnTime DEF Orderly, StopInv, MarketWorkers
  <2>5. failed = {} => late' = late
    BY <1>1, <2>3, <2>4, UseOnTime
  <2>. QED BY <2>1, <2>2, <2>5, AlikeStops, LateKept DEF Orderly
<1>4. CASE Block(w)
  <2>1. failed' = failed /\ late' = late /\ locked
    BY <1>4 DEF Block, coreVars
  <2>2. failed # {}
    BY <2>1 DEF Orderly, StopInv, StopOrder, RestInv
  <2>. QED BY <2>1, <2>2, LateKept DEF Orderly, StopInv
<1>. QED BY <1>2, <1>3, <1>4

\* Initially no thread has been asked to stop.
LEMMA InitOrderly == Init => Orderly
<1> SUFFICES ASSUME Init PROVE Orderly
  OBVIOUS
<1>1. \A t \in Threads : Unasked(t) /\ ~Ended(t)
  BY DEF Init, Unasked, Ended
<1>2. \A t \in Own : t \in Threads /\ TurnOf(t) \in 1..17
  BY TurnsAre, ThreadsAre
<1>3. \A t \in Siblings : t \in Threads /\ ChildOf(t) \in 1..3
  BY ChildrenAre, ThreadsAre
<1>4. duty = 0 /\ child = 0 /\ locked = FALSE /\ late = {}
  BY DEF Init
<1>5. OwnInv /\ SiblingInv
  BY <1>1, <1>2, <1>3, <1>4 DEF OwnInv, SiblingInv
<1>6. MarketInv
  BY <1>1, <1>4, ThreadsAre DEF MarketInv, Own
<1>7. WorkerInv
  <2>1. \A u \in {"neworder", "cancel", "heartbeat"} : u \in Threads /\ WorkerOf[u] \in Threads
    BY HandlersAre, ThreadsAre DEF Own, Siblings
  <2>. QED BY <1>1, <2>1 DEF WorkerInv
<1>8. RestInv
  BY <1>1, <1>4, ThreadsAre DEF RestInv
<1>. QED BY <1>4, <1>5, <1>6, <1>7, <1>8, InitTypes
     DEF Orderly, StopInv, StopOrder, OnlyPoolsAreLate

\* Every step keeps the order of the stop.
LEMMA NextOrderly == Orderly /\ [Next]_vars => Orderly'
<1> SUFFICES ASSUME Orderly, [Next]_vars PROVE Orderly'
  OBVIOUS
<1>1. LineTypes' /\ PlainTypes
  BY NextTypes DEF Orderly, LineTypes
<1>2. CASE Alike /\ OnlyPoolsAreLate'
  BY <1>1, <1>2, AlikeStops DEF Orderly
<1>3. CASE Stops
  <2>1. StopInv'
    <3>1. CASE MarketFails
      BY <3>1 DEF MarketFails, StopInv
    <3>2. CASE Signal
      BY <3>2, AlikeStops DEF Signal, Orderly, Alike, marketVars
    <3>. QED BY <1>1, <1>3, <3>1, <3>2, MarketStopsStops, StopNextStops, ExitStops, EndUnitStops
         DEF Stops, Orderly
  <2>2. late' = late /\ (failed' = {} => failed = {})
    BY <1>3 DEF Stops, MarketFails, MarketStops, StopNext, Signal, Exit, EndUnit, coreVars
  <2>3. OnlyPoolsAreLate'
    BY <2>2 DEF Orderly, OnlyPoolsAreLate
  <2>. QED BY <1>1, <2>1, <2>3 DEF Orderly
<1>4. CASE CancelThrows
  <2>1. failed' # {}
    BY <1>4 DEF CancelThrows
  <2>. QED BY <1>1, <2>1 DEF Orderly, StopInv, OnlyPoolsAreLate
<1>5. CASE \E w \in MarketWorkers : Begin(w) \/ Serve(w) \/ Block(w)
  BY <1>1, <1>5, WorkersOnTime DEF Orderly
<1>6. CASE UNCHANGED vars
  <2>1. Alike /\ late' = late /\ failed' = failed
    BY <1>6 DEF vars, Alike, marketVars, coreVars
  <2>. QED BY <1>2, <2>1, LateKept DEF Orderly
<1>7. CASE \E t \in DOMAIN Next1 \cup {"router"} : Pass(t)
  BY <1>2, <1>7, PassOnTime
<1>8. CASE \E t \in Answering \cup {"header", "router", "mrouter"} : Reply(t)
  BY <1>2, <1>8, ReplyOnTime
<1>9. CASE SendAnswer \/ Removed
  BY <1>2, <1>9, RemovalOnTime
<1>10. CASE Watch \/ \E k \in Kinds : Read(k)
  BY <1>2, <1>10, ArrivalOnTime
<1>11. CASE \/ Ticket \/ OrderAccepted \/ OrderUnsupported \/ CancelAccepted
            \/ \E u \in {"neworder", "cancel"} : Refuse(u)
  BY <1>2, <1>11, MarketUnitsOnTime
<1>. QED BY <1>3, <1>4, <1>5, <1>6, <1>7, <1>8, <1>9, <1>10, <1>11 DEF Next, Work, Stops

\* Core stops its units in an order in which, as long as none of them fails, no
\* unit, worker or pool hands anything to a thread that has ended, but for the
\* answers of the pools that end last and the removal of clients.
THEOREM StopOrderKept == Spec => []OnlyPoolsAreLate
<1>1. Spec => []Orderly
  BY InitOrderly, NextOrderly, PTL DEF Spec
<1>2. Orderly => OnlyPoolsAreLate
  BY DEF Orderly
<1>. QED BY <1>1, <1>2, PTL
=============================================================================
