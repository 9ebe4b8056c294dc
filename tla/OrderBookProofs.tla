--------------------------- MODULE OrderBookProofs ---------------------------
(***************************************************************************)
(* Proofs about OrderBook, for every set of orders and every bound.        *)
(***************************************************************************)
EXTENDS OrderBook, TLAPS, FiniteSetTheorems, SequenceTheorems, WellFoundedInduction

-----------------------------------------------------------------------------
(* Sequences, prices, and the lists of the book *)

\* Erasing a node moves those behind it one place forward.
LEMMA RemovedAt ==
  ASSUME NEW S, NEW q \in Seq(S), NEW i \in 1..Len(q)
  PROVE  /\ RemoveAt(q, i) \in Seq(S)
         /\ Len(RemoveAt(q, i)) = Len(q) - 1
         /\ \A k \in 1..(Len(q) - 1) :
              RemoveAt(q, i)[k] = IF k < i THEN q[k] ELSE q[k + 1]
<1> DEFINE n == Len(q)
           a == SubSeq(q, 1, i - 1)
           b == SubSeq(q, i + 1, n)
<1>1. n \in Nat /\ i \in 1..n
  OBVIOUS
<1>2. a \in Seq(S) /\ Len(a) = i - 1 /\ \A k \in 1..(i - 1) : a[k] = q[k]
  BY <1>1, SubSeqProperties
<1>3. b \in Seq(S) /\ Len(b) = n - i /\ \A k \in 1..(n - i) : b[k] = q[i + k]
  <2>1. \A k \in (i + 1)..n : q[k] \in S
    BY <1>1
  <2>2. i + 1 \in Int /\ n \in Int /\ n - (i + 1) + 1 = n - i /\ (~(i + 1 <= n) => n - i = 0)
    BY <1>1
  <2>3. \A k \in 1..(n - i) : (i + 1) + k - 1 = i + k
    BY <1>1
  <2>4. /\ b \in Seq(S) /\ Len(b) = IF i + 1 <= n THEN n - (i + 1) + 1 ELSE 0
        /\ \A k \in 1..(n - (i + 1) + 1) : b[k] = q[(i + 1) + k - 1]
    <3> DEFINE m == i + 1
    <3>1. m \in Int /\ n \in Int /\ \A k \in m..n : q[k] \in S
      BY <1>1, <2>1
    <3> HIDE DEF m, n
    <3>2. /\ SubSeq(q, m, n) \in Seq(S) /\ Len(SubSeq(q, m, n)) = IF m <= n THEN n - m + 1 ELSE 0
          /\ \A k \in 1..(n - m + 1) : SubSeq(q, m, n)[k] = q[m + k - 1]
      BY <3>1, SubSeqProperties
    <3>. QED BY <3>2 DEF m
  <2> HIDE DEF b
  <2>. QED BY <2>2, <2>3, <2>4
<1>4. RemoveAt(q, i) = a \o b
  BY DEF RemoveAt
<1> HIDE DEF a, b
<1>5. /\ a \o b \in Seq(S) /\ Len(a \o b) = Len(a) + Len(b)
      /\ \A k \in 1..(Len(a) + Len(b)) : (a \o b)[k] = IF k <= Len(a) THEN a[k] ELSE b[k - Len(a)]
  BY <1>2, <1>3, ConcatProperties
<1>6. Len(a) + Len(b) = n - 1
  BY <1>1, <1>2, <1>3
<1>7. ASSUME NEW k \in 1..(n - 1) PROVE (a \o b)[k] = IF k < i THEN q[k] ELSE q[k + 1]
  <2>1. CASE k < i
    BY <1>1, <1>2, <1>5, <1>6, <2>1
  <2>2. CASE ~(k < i)
    <3>1. ~(k <= i - 1) /\ k - (i - 1) \in 1..(n - i) /\ i + (k - (i - 1)) = k + 1
      BY <1>1, <2>2
    <3>2. k \in 1..(Len(a) + Len(b)) /\ ~(k <= Len(a)) /\ k - Len(a) = k - (i - 1)
      BY <1>2, <1>6, <3>1
    <3>3. (a \o b)[k] = b[k - (i - 1)]
      BY <1>5, <3>2
    <3>4. b[k - (i - 1)] = q[k + 1]
      BY <1>3, <3>1
    <3>. QED BY <2>2, <3>3, <3>4
  <2>. QED BY <2>1, <2>2
<1>. QED BY <1>4, <1>5, <1>6, <1>7

\* Every set of prices has a lowest and a highest one.
LEMMA Extremes ==
  ASSUME NEW ps \in SUBSET Prices, ps # {}
  PROVE  /\ \E p \in ps : \A q \in ps : p <= q
         /\ \E p \in ps : \A q \in ps : p >= q
<1>1. MaxPrice \in Nat
  BY BoundsAssumption
<1>2. \A T \in SUBSET Nat : T # {} => \E x \in T : \A y \in T : x <= y
  <2> SUFFICES ASSUME NEW T \in SUBSET Nat, T # {} PROVE \E x \in T : \A y \in T : x <= y
    OBVIOUS
  <2> DEFINE R == {ss \in Nat \X Nat : ss[1] < ss[2]}
  <2>1. IsWellFoundedOn(R, Nat)
    BY NatLessThanWellFounded DEF OpToRel
  <2>2. \E x \in T : \A y \in T : ~(<<y, x>> \in R)
    <3> HIDE DEF R
    <3>. QED BY <2>1, WFMin
  <2>3. \A x, y \in T : <<y, x>> \in R <=> y < x
    OBVIOUS
  <2>4. \A x, y \in T : ~(y < x) <=> x <= y
    OBVIOUS
  <2>. QED
    <3> HIDE DEF R
    <3>. QED BY <2>2, <2>3, <2>4
<1>3. ps \subseteq Nat /\ {MaxPrice - p : p \in ps} \subseteq Nat
  BY <1>1 DEF Prices
<1>4. \E p \in ps : \A q \in ps : p >= q
  <2> DEFINE T == {MaxPrice - p : p \in ps}
  <2>1. T # {} /\ T \in SUBSET Nat
    BY <1>3
  <2>2. PICK x \in T : \A y \in T : x <= y
    <3> HIDE DEF T
    <3>. QED BY <1>2, <2>1
  <2>3. PICK p \in ps : x = MaxPrice - p
    OBVIOUS
  <2>4. ASSUME NEW q \in ps PROVE p >= q
    <3>1. MaxPrice - p <= MaxPrice - q
      BY <2>2, <2>3
    <3>. QED BY <1>1, <1>3, <3>1
  <2>. QED BY <2>4
<1>. QED BY <1>2, <1>3, <1>4

\* The best level is one of those left, and none of them is better.
LEMMA BestIsBest ==
  ASSUME NEW b \in Books, NEW ps \in SUBSET Prices, ps # {}
  PROVE  Best(b, ps) \in ps /\ \A q \in ps : ~Better(b, q, Best(b, ps))
<1>1. \E p \in ps : \A q \in ps : IF b = "ask" THEN p <= q ELSE p >= q
  BY Extremes
<1>2. Best(b, ps) \in ps /\ \A q \in ps : IF b = "ask" THEN Best(b, ps) <= q ELSE Best(b, ps) >= q
  BY <1>1 DEF Best
<1>3. ps \subseteq Nat
  BY BoundsAssumption DEF Prices
<1> HIDE DEF Prices
<1>4. ASSUME NEW p \in Nat, NEW q \in Nat PROVE (p <= q => ~(p > q)) /\ (p >= q => ~(p < q))
  OBVIOUS
<1>. QED BY <1>2, <1>3, <1>4, Zenon DEF Better

\* A step that replaces one list of the book leaves the others as they are.
LEMMA ListReplaced ==
  ASSUME NEW f \in [Books -> [Prices -> Seq(Node)]], NEW b \in Books, NEW p \in Prices,
         NEW s \in Seq(Node)
  PROVE  LET g == [f EXCEPT ![b][p] = s]
         IN /\ g \in [Books -> [Prices -> Seq(Node)]]
            /\ \A c \in Books, q \in Prices : g[c][q] = IF c = b /\ q = p THEN s ELSE f[c][q]
OBVIOUS

-----------------------------------------------------------------------------
(* The inductive invariant *)

Adding == pc \in {"scan", "fill"}
Facing == Opposite(BookOf(order.side))

\* The levels of the maps include every price at which orders rest.
LevelsKnown == \A b \in Books, p \in Prices : book[b][p] # <<>> => p \in levels[b]

\* Every node is mapped to the price where it rests, unless a cancel misread the
\* entry of its id and left it behind ...
NodesMapped ==
  \A b \in Books, p \in Prices : \A k \in DOMAIN book[b][p] :
    book[b][p][k].id \notin strays => idmap[b][book[b][p][k].id] = p

\* ... an id is in one of the two maps at most, and, left behind nowhere, once in
\* a list ...
OneBook == \A id \in OrderIds : idmap["bid"][id] = 0 \/ idmap["ask"][id] = 0

OneNode ==
  \A b \in Books, p \in Prices : \A j, k \in DOMAIN book[b][p] :
    book[b][p][j].id = book[b][p][k].id /\ book[b][p][j].id \notin strays => j = k

\* ... the order being added has not been mapped yet ...
NewcomerUnmapped == Adding => ~Mapped(order.id)

\* ... and a map names nothing else, unless the ids of erased nodes are misread.
EntriesFound ==
  FALSE \notin FreedReads =>
    \A b \in Books, id \in OrderIds :
      idmap[b][id] # 0 =>
        \E k \in DOMAIN book[b][idmap[b][id]] : book[b][idmap[b][id]][k].id = id

\* Every node has come with a request of its own.
ListsBounded ==
  \A b \in Books, p \in Prices : Len(book[b][p]) <= IF Adding THEN taken - 1 ELSE taken

MapInv == /\ NodesMapped /\ OneBook /\ OneNode /\ NewcomerUnmapped /\ EntriesFound
          /\ ListsBounded

\* Two resting orders that the rules of matching would not have left there.
Cross(m, n) == m.user # n.user /\ m.side \notin Restricted /\ n.side \notin Restricted

\* At no point of a request does the book cross.
NeverCrossed ==
  \A p, q \in Prices : p >= q =>
    \A m \in DOMAIN book["bid"][p], n \in DOMAIN book["ask"][q] :
      ~Cross(book["bid"][p][m], book["ask"][q][n])

\* The loop is done with a level the new order accepts: only orders of its own
\* user still rest there.
OwnBehind ==
  Adding => \A p \in Prices \ todo :
    Crosses(Facing, p, order.price) /\ ~(pc = "fill" /\ p = at) =>
      \A k \in DOMAIN book[Facing][p] : book[Facing][p][k].user = order.user

\* The level it is in is the best of those left, and of the orders it has
\* passed there the same is true.
InLevel ==
  pc = "fill" =>
    /\ Crosses(Facing, at, order.price) /\ at \notin todo
    /\ \A p \in todo : ~Better(Facing, p, at)
    /\ \A k \in DOMAIN book[Facing][at] : k < idx => book[Facing][at][k].user = order.user

MatchInv == LevelsKnown /\ NeverCrossed /\ OwnBehind /\ InLevel

\* An order that has lost quantity was filled at a price.
TradeKnown == Adding /\ left # order.qty => trade.price \in Prices

\* The last two prices never contradict the last change of the price.
TickInv ==
  /\ lastPrice > lastDiff => move = "up"
  /\ lastPrice < lastDiff => move = "down"
  /\ TickIsLastMove

BookInv == MapInv /\ MatchInv /\ TradeKnown /\ TickInv

-----------------------------------------------------------------------------
(* What a step does to the book *)

\* The same order, whatever is left of it.
Like(m, n) == m.id = n.id /\ m.user = n.user /\ m.side = n.side

OthersKept(b, p) ==
  \A c \in Books, q \in Prices : c # b \/ q # p => book'[c][q] = book[c][q]

Erased(b, p, i) ==
  /\ i \in DOMAIN book[b][p] /\ OthersKept(b, p)
  /\ Len(book'[b][p]) = Len(book[b][p]) - 1
  /\ \A k \in 1..(Len(book[b][p]) - 1) :
       book'[b][p][k] = book[b][p][IF k < i THEN k ELSE k + 1]

Reduced(b, p) ==
  /\ OthersKept(b, p)
  /\ Len(book'[b][p]) = Len(book[b][p])
  /\ \A k \in 1..Len(book[b][p]) : Like(book'[b][p][k], book[b][p][k])

Rested(b, p, node) ==
  /\ OthersKept(b, p)
  /\ Len(book'[b][p]) = Len(book[b][p]) + 1
  /\ \A k \in 1..Len(book[b][p]) : book'[b][p][k] = book[b][p][k]
  /\ book'[b][p][Len(book[b][p]) + 1] = node

\* The entry of id in the map of b becomes p, and no other changes.
Entered(b, id, p) ==
  \A c \in Books, i \in OrderIds : idmap'[c][i] = IF c = b /\ i = id THEN p ELSE idmap[c][i]

\* An id that is mapped is mapped to a price.
LEMMA MapTyped ==
  ASSUME BookTypes
  PROVE  \A c \in Books, id \in OrderIds : idmap[c][id] # 0 => idmap[c][id] \in Prices
<1>1. \A n \in 0..MaxPrice : n # 0 => n \in Prices
  BY BoundsAssumption DEF Prices
<1>2. \A c \in Books, id \in OrderIds : idmap[c][id] \in 0..MaxPrice
  BY DEF BookTypes
<1>. QED BY <1>1, <1>2

\* The order being added is one a client may send.
LEMMA OrderTyped ==
  ASSUME LoopTypes, Adding
  PROVE  /\ order \in NewOrder /\ order.id \in OrderIds /\ order.user \in Users
         /\ order.side \in Sides /\ order.price \in Prices /\ order.qty \in 0..MaxQty
         /\ BookOf(order.side) \in Books /\ Facing \in Books /\ Facing # BookOf(order.side)
<1>1. order \in NewOrder
  BY OrdersAssumption DEF LoopTypes, Adding
<1>. QED BY <1>1 DEF NewOrder, Facing, Opposite, BookOf, Books

\* addToBook puts one node at the end of its level and one entry in its map.
LEMMA AddShape ==
  ASSUME BookTypes, LoopTypes, Adding, NEW q \in 0..MaxQty, AddToBook(q)
  PROVE  LET b == BookOf(order.side)
             node == [id |-> order.id, user |-> order.user, side |-> order.side, qty |-> q]
         IN /\ BookTypes' /\ strays' = strays
            /\ \/ q = 0 /\ UNCHANGED <<book, levels, idmap>>
               \/ /\ q # 0 /\ Rested(b, order.price, node) /\ Entered(b, order.id, order.price)
                  /\ \A c \in Books : levels[c] \subseteq levels'[c]
                  /\ order.price \in levels'[b]
<1> DEFINE b == BookOf(order.side)
           p == order.price
           node == [id |-> order.id, user |-> order.user, side |-> order.side, qty |-> q]
           s == Append(book[b][p], node)
<1>1. /\ b \in Books /\ p \in Prices /\ node \in Node
      /\ order.id \in OrderIds /\ p \in 0..MaxPrice
  BY OrderTyped, BoundsAssumption DEF Node, Prices
<1>2. CASE q = 0
  BY <1>2 DEF AddToBook, BookTypes, bookVars
<1>3. CASE q # 0
  <2>1. /\ strays' = strays
        /\ book' = [book EXCEPT ![b][p] = s]
        /\ levels' = [levels EXCEPT ![b] = @ \cup {p}]
        /\ idmap' = [idmap EXCEPT ![b][order.id] = p]
    BY <1>3 DEF AddToBook
  <2> HIDE DEF node, b, p
  <2>2. book[b][p] \in Seq(Node) /\ s \in Seq(Node) /\ Len(s) = Len(book[b][p]) + 1
        /\ (\A k \in 1..Len(book[b][p]) : s[k] = book[b][p][k]) /\ s[Len(book[b][p]) + 1] = node
    BY <1>1 DEF BookTypes
  <2> HIDE DEF s
  <2>3. /\ book' \in [Books -> [Prices -> Seq(Node)]]
        /\ \A c \in Books, r \in Prices : book'[c][r] = IF c = b /\ r = p THEN s ELSE book[c][r]
    BY <1>1, <2>1, <2>2, ListReplaced DEF BookTypes
  <2>4. Rested(b, p, node)
    BY <1>1, <2>2, <2>3 DEF Rested, OthersKept
  <2>5. idmap' \in [Books -> [OrderIds -> 0..MaxPrice]] /\ Entered(b, order.id, p)
    BY <1>1, <2>1 DEF BookTypes, Entered
  <2>6. /\ levels' \in [Books -> SUBSET Prices] /\ p \in levels'[b]
        /\ \A c \in Books : levels[c] \subseteq levels'[c]
    BY <1>1, <2>1 DEF BookTypes
  <2>. QED BY <1>3, <2>1, <2>3, <2>4, <2>5, <2>6 DEF BookTypes, b, p, node
<1>. QED BY <1>2, <1>3

\* fillOrder erases the node or reduces it; the tick is computed from the price.
LEMMA FillShape ==
  ASSUME BookTypes, LoopTypes, Fill
  PROVE  LET node == book[Facing][at][idx]
             q == FillQty(node)
         IN /\ Facing \in Books /\ at \in Prices /\ idx \in DOMAIN book[Facing][at]
            /\ node \in Node /\ q \in 0..MaxQty /\ q <= left /\ q <= node.qty
            /\ left' = left - q /\ node.user # order.user
            /\ BookTypes' /\ UNCHANGED <<levels, strays>>
            /\ \/ /\ q = node.qty /\ Erased(Facing, at, idx) /\ idx' = idx
                  /\ \/ TRUE \in FreedReads /\ Entered(Facing, node.id, 0)
                     \/ FALSE \in FreedReads /\ idmap' = idmap
               \/ q # node.qty /\ q = left /\ Reduced(Facing, at) /\ idmap' = idmap
<1> DEFINE b == Facing
           list == book[b][at]
           node == list[idx]
           q == FillQty(node)
           done == node.qty = q
           s == IF done THEN RemoveAt(list, idx) ELSE [list EXCEPT ![idx].qty = node.qty - q]
<1>1. pc = "fill" /\ Adding /\ b \in Books /\ at \in Prices /\ idx \in Nat /\ idx > 0
  BY OrderTyped DEF Fill, Adding, LoopTypes
<1>2. list \in Seq(Node) /\ idx \in 1..Len(list) /\ idx \in DOMAIN list
  <2>1. list \in Seq(Node)
    BY <1>1 DEF BookTypes
  <2>2. idx <= Len(list)
    BY DEF Fill, Facing
  <2>3. Len(list) \in Nat /\ DOMAIN list = 1..Len(list)
    BY <2>1
  <2> HIDE DEF list
  <2>. QED BY <1>1, <2>1, <2>2, <2>3
<1>3. node \in Node /\ node.qty \in 0..MaxQty /\ node.id \in OrderIds
  <2>1. node \in Node
    BY <1>2
  <2>. QED BY <2>1 DEF Node
<1>4. left \in 0..MaxQty /\ MaxQty \in Nat
  BY BoundsAssumption DEF LoopTypes
<1>5. q \in 0..MaxQty /\ q <= left /\ q <= node.qty /\ (~done => q = left)
  <2> HIDE DEF node
  <2>. QED BY <1>3, <1>4 DEF FillQty
<1>6. /\ book' = [book EXCEPT ![b][at] = s]
      /\ left' = left - q /\ node.user # order.user /\ UNCHANGED <<levels, strays>>
      /\ idx' = IF done THEN idx ELSE idx + 1
      /\ \E intact \in FreedReads :
           idmap' = IF done /\ intact THEN [idmap EXCEPT ![b][node.id] = 0] ELSE idmap
  BY DEF Fill, Facing
<1> HIDE DEF q, node, b, list
<1>7. /\ s \in Seq(Node) /\ (done => Len(s) = Len(list) - 1)
      /\ done => \A k \in 1..(Len(list) - 1) : s[k] = list[IF k < idx THEN k ELSE k + 1]
      /\ ~done => Len(s) = Len(list) /\ \A k \in 1..Len(list) : Like(s[k], list[k])
  <2>1. CASE done
    <3>1. s = RemoveAt(list, idx)
      BY <2>1
    <3> HIDE DEF s
    <3>. QED BY <1>2, <2>1, <3>1, RemovedAt
  <2>2. CASE ~done
    <3> DEFINE n == [list[idx] EXCEPT !.qty = node.qty - q]
    <3>1. s = [list EXCEPT ![idx] = n]
      BY <2>2
    <3>2. list[idx] \in Node /\ node.qty - q \in 0..MaxQty
      BY <1>2, <1>3, <1>4, <1>5
    <3>3. n \in Node /\ Like(n, list[idx])
      BY <3>2 DEF Node, Like
    <3> HIDE DEF n, s
    <3>4. s \in Seq(Node) /\ Len(s) = Len(list)
          /\ \A k \in 1..Len(list) : s[k] = IF k = idx THEN n ELSE list[k]
      BY <1>2, <3>1, <3>3, ExceptSeq
    <3>. QED BY <2>2, <3>3, <3>4 DEF Like
  <2>. QED BY <2>1, <2>2
<1> HIDE DEF s
<1>8. /\ book' \in [Books -> [Prices -> Seq(Node)]]
      /\ \A c \in Books, r \in Prices : book'[c][r] = IF c = b /\ r = at THEN s ELSE book[c][r]
  BY <1>1, <1>6, <1>7, ListReplaced DEF BookTypes
<1>9. /\ OthersKept(b, at) /\ (done => Erased(b, at, idx)) /\ (~done => Reduced(b, at))
  BY <1>1, <1>2, <1>7, <1>8 DEF Erased, Reduced, OthersKept, list
<1>10. /\ idmap' \in [Books -> [OrderIds -> 0..MaxPrice]]
       /\ ~done => idmap' = idmap
       /\ \/ TRUE \in FreedReads /\ (done => Entered(b, node.id, 0))
          \/ FALSE \in FreedReads /\ idmap' = idmap
  <2>1. 0 \in 0..MaxPrice
    BY BoundsAssumption
  <2>2. PICK intact \in FreedReads :
          idmap' = IF done /\ intact THEN [idmap EXCEPT ![b][node.id] = 0] ELSE idmap
    BY <1>6
  <2>3. CASE done /\ intact
    BY <1>1, <1>3, <2>1, <2>2, <2>3, FreedAssumption DEF BookTypes, Entered
  <2>4. CASE ~(done /\ intact)
    BY <2>2, <2>4, FreedAssumption DEF BookTypes
  <2>. QED BY <2>3, <2>4
<1>11. BookTypes'
  BY <1>6, <1>8, <1>10 DEF BookTypes
<1>. QED BY <1>1, <1>2, <1>3, <1>5, <1>6, <1>9, <1>10, <1>11 DEF q, node, b, list

\* A cancel changes nothing, or removes an entry: with a node of its id, or with
\* none, because it is gone or because the entry was misread.
LEMMA CancelShape ==
  ASSUME BookTypes, TakeCancel
  PROVE  /\ BookTypes' /\ levels' = levels /\ strays \subseteq strays'
         /\ \/ UNCHANGED <<book, idmap, strays>> /\ pc' = "idle"
            \/ \E b \in Books, id \in OrderIds :
                 /\ idmap[b][id] # 0 /\ idmap[b][id] \in Prices /\ Entered(b, id, 0)
                 /\ \/ /\ pc' = "idle"
                       /\ \E k \in DOMAIN book[b][idmap[b][id]] :
                            /\ book[b][idmap[b][id]][k].id = id
                            /\ Erased(b, idmap[b][id], k)
                    \/ /\ pc' \in {"idle", "wrecked"} /\ UNCHANGED book
                       /\ \/ id \in strays'
                          \/ \A k \in DOMAIN book[b][idmap[b][id]] :
                               book[b][idmap[b][id]][k].id # id
<1>1. UNCHANGED levels /\ pc = "idle"
  BY DEF TakeCancel
<1>2. CASE UNCHANGED <<book, idmap, strays, pc>>
  BY <1>1, <1>2 DEF BookTypes
<1>3. CASE ~UNCHANGED <<book, idmap, strays, pc>>
  <2>0. PICK b \in Books, id \in OrderIds :
          /\ idmap[b][id] # 0 /\ idmap' = [idmap EXCEPT ![b][id] = 0]
          /\ \E k \in Pointed(b, id), intact \in FreedReads :
               /\ EraseNode(b, idmap[b][id], k, intact)
               /\ strays' = IF intact THEN strays ELSE strays \cup {id}
    BY <1>3 DEF TakeCancel
  <2>1. PICK k \in Pointed(b, id), intact \in FreedReads :
          /\ idmap[b][id] # 0 /\ idmap' = [idmap EXCEPT ![b][id] = 0]
          /\ EraseNode(b, idmap[b][id], k, intact)
          /\ strays' = IF intact THEN strays ELSE strays \cup {id}
    BY <2>0
  <2> DEFINE p == idmap[b][id]
             list == book[b][p]
  <2>2. p \in Prices /\ 0 \in 0..MaxPrice
    BY <2>1, MapTyped, BoundsAssumption
  <2>3. /\ idmap' \in [Books -> [OrderIds -> 0..MaxPrice]] /\ Entered(b, id, 0)
        /\ strays \subseteq strays' /\ strays' \subseteq OrderIds
    BY <2>1, <2>2 DEF BookTypes, Entered
  <2>4. CASE /\ intact /\ k # 0 /\ UNCHANGED pc
             /\ book' = [book EXCEPT ![b][p] = RemoveAt(@, k)]
    <3>1. book' = [book EXCEPT ![b][p] = RemoveAt(list, k)]
      BY <2>4
    <3>2. list \in Seq(Node) /\ k \in 1..Len(list) /\ k \in DOMAIN list /\ list[k].id = id
      BY <2>1, <2>2, <2>4 DEF BookTypes, Pointed
    <3> DEFINE s == RemoveAt(list, k)
    <3> HIDE DEF p, list
    <3>3. s \in Seq(Node) /\ Len(s) = Len(list) - 1
          /\ \A j \in 1..(Len(list) - 1) : s[j] = list[IF j < k THEN j ELSE j + 1]
      BY <3>2, RemovedAt
    <3> HIDE DEF s
    <3>4. /\ book' \in [Books -> [Prices -> Seq(Node)]]
          /\ \A c \in Books, r \in Prices : book'[c][r] = IF c = b /\ r = p THEN s ELSE book[c][r]
      BY <2>2, <3>1, <3>3, ListReplaced DEF BookTypes, s
    <3>5. Erased(b, p, k)
      BY <2>2, <3>2, <3>3, <3>4 DEF Erased, OthersKept, list
    <3>6. BookTypes'
      BY <1>1, <2>3, <3>4 DEF BookTypes
    <3>7. pc' = "idle" /\ k \in DOMAIN book[b][idmap[b][id]] /\ book[b][idmap[b][id]][k].id = id
      BY <1>1, <2>4, <3>2 DEF p, list
    <3>. QED BY <1>1, <2>1, <2>2, <2>3, <3>5, <3>6, <3>7 DEF p
  <2>5. CASE UNCHANGED book /\ pc' \in {"idle", "wrecked"} /\ (intact => k = 0)
    <3>1. BookTypes'
      BY <1>1, <2>3, <2>5 DEF BookTypes
    <3>2. \/ id \in strays'
          \/ \A j \in DOMAIN book[b][idmap[b][id]] : book[b][idmap[b][id]][j].id # id
      <4>1. CASE intact
        <5>1. \A j \in DOMAIN list : j # 0
          BY <2>2 DEF BookTypes
        <5>2. id \in strays \/ \A j \in DOMAIN list : list[j].id # id
          BY <2>1, <2>5, <4>1, <5>1 DEF Pointed
        <5>. QED BY <2>3, <5>2
      <4>2. CASE ~intact
        BY <2>1, <4>2
      <4>. QED BY <4>1, <4>2
    <3>. QED BY <1>1, <2>1, <2>2, <2>3, <2>5, <3>1, <3>2
  <2>6. \/ /\ intact /\ k # 0 /\ UNCHANGED pc
           /\ book' = [book EXCEPT ![b][p] = RemoveAt(@, k)]
        \/ UNCHANGED book /\ pc' \in {"idle", "wrecked"} /\ (intact => k = 0)
    BY <1>1, <2>1 DEF EraseNode
  <2>. QED BY <2>4, <2>5, <2>6
<1>. QED BY <1>2, <1>3

-----------------------------------------------------------------------------
(* Types and the tick *)

\* Recomputing the tick, or computing it from a price, keeps its meaning: it is
\* the direction of the last change, however often it is computed.
LEMMA TickStep ==
  ASSUME TickTypes, TickInv
  PROVE  /\ Recompute => TickTypes' /\ TickInv'
         /\ UNCHANGED tickVars => TickTypes' /\ TickInv'
         /\ \A p \in Prices : TradedAt(p) => TickTypes' /\ TickInv'
<1>1. Recompute => TickTypes' /\ TickInv'
  BY DEF Recompute, TickTypes, TickInv, TickIsLastMove, TickAfter, Ticks
<1>2. UNCHANGED tickVars => TickTypes' /\ TickInv'
  BY DEF tickVars, TickTypes, TickInv, TickIsLastMove
<1>3. ASSUME NEW p \in Prices, TradedAt(p) PROVE TickTypes' /\ TickInv'
  <2>1. p \in 0..MaxPrice
    BY BoundsAssumption DEF Prices
  <2>2. lastPrice' = p /\ lastDiff' = lastPrice /\ lastPrice \in 0..MaxPrice
    BY <1>3 DEF TradedAt, TickTypes
  <2>3. tick' \in Ticks /\ move' \in {"up", "down"}
    BY <1>3 DEF TradedAt, TickAfter, Ticks, TickTypes
  <2>4. TickInv'
    BY <1>3, <2>1 DEF TradedAt, TickAfter, TickTypes, TickInv, TickIsLastMove
  <2>. QED BY <2>1, <2>2, <2>3, <2>4 DEF TickTypes
<1>. QED BY <1>1, <1>2, <1>3

\* The same for each action of the book.
LEMMA TickNext == TickTypes /\ TickInv /\ LoopTypes /\ [Next]_vars => TickTypes' /\ TickInv'
<1> SUFFICES ASSUME TickTypes, TickInv, LoopTypes, [Next]_vars PROVE TickTypes' /\ TickInv'
  OBVIOUS
<1>1. CASE TakeNewOrder \/ EnterLevel \/ BlockedByTick
  BY <1>1, TickStep DEF TakeNewOrder, EnterLevel, BlockedByTick
<1>2. CASE EndOfBook \/ EndOfLevel \/ SkipOwnOrder \/ TakeCancel \/ UNCHANGED vars
  BY <1>2, TickStep DEF EndOfBook, EndOfLevel, SkipOwnOrder, TakeCancel, vars
<1>3. CASE Fill
  <2>1. at \in Prices /\ TradedAt(at)
    BY <1>3 DEF Fill, LoopTypes
  <2>. QED BY <2>1, TickStep
<1>. QED BY <1>1, <1>2, <1>3 DEF Next

TypeInv == TypeOK /\ TradeKnown

\* A request taken from the queue: nothing of it is filled yet.
LEMMA TakeTypes ==
  ASSUME TypeInv, TickTypes', TakeNewOrder \/ TakeCancel
  PROVE  TypeInv'
<1>1. BookTypes'
  BY CancelShape DEF TypeInv, TypeOK, TakeNewOrder, BookTypes, bookVars
<1>2. events' \in Seq(Event) /\ taken' \in 0..MaxOrders
  <2>1. events' = <<>> /\ taken' = taken + 1 /\ taken < MaxOrders /\ <<>> \in Seq(Event)
    BY DEF TakeNewOrder, TakeCancel
  <2>. QED BY <2>1, BoundsAssumption DEF TypeInv, TypeOK
<1>3. CASE TakeCancel
  <2>1. pc' \in {"idle", "wrecked"} /\ UNCHANGED loopVars
    BY <1>3, CancelShape DEF TypeInv, TypeOK, TakeCancel
  <2>. QED BY <1>1, <1>2, <2>1 DEF TypeInv, TypeOK, LoopTypes, TradeKnown, loopVars, Adding
<1>4. CASE TakeNewOrder
  <2>1. CASE UNCHANGED <<pc, loopVars>>
    BY <1>1, <1>2, <2>1 DEF TypeInv, TypeOK, LoopTypes, TradeKnown, loopVars, Adding
  <2>2. CASE ~UNCHANGED <<pc, loopVars>>
    <3>1. PICK o \in Orders : /\ pc' = "scan" /\ order' = o /\ left' = o.qty
                              /\ todo' = levels[Opposite(BookOf(o.side))]
                              /\ UNCHANGED <<trade, at, idx>>
      BY <1>4, <2>2 DEF TakeNewOrder
    <3>2. o.qty \in 0..MaxQty /\ Opposite(BookOf(o.side)) \in Books
      BY OrdersAssumption DEF NewOrder, Opposite, Books
    <3>3. todo' \subseteq Prices
      BY <3>1, <3>2 DEF TypeInv, TypeOK, BookTypes
    <3>. QED BY <1>1, <1>2, <3>1, <3>2, <3>3 DEF TypeInv, TypeOK, LoopTypes, TradeKnown
  <2>. QED BY <2>1, <2>2
<1>. QED BY <1>3, <1>4

\* A step of the loop between two fills, or the end of the loop.
LEMMA LoopStepTypes ==
  ASSUME TypeInv, TickTypes',
         EnterLevel \/ BlockedByTick \/ EndOfBook \/ EndOfLevel \/ SkipOwnOrder
  PROVE  TypeInv'
<1> USE DEF TypeInv, TypeOK
<1>1. Adding
  BY DEF Adding, EnterLevel, BlockedByTick, EndOfBook, EndOfLevel, SkipOwnOrder
<1>2. CASE EnterLevel
  <2>1. Level \in todo /\ todo \subseteq Prices /\ Level \in Prices
    BY <1>1, <1>2, OrderTyped, BestIsBest DEF EnterLevel, CanCross, Level, LoopTypes, Facing
  <2>2. Level \in 0..MaxPrice
    BY <2>1, BoundsAssumption DEF Prices
  <2>. QED BY <1>2, <2>1, <2>2 DEF EnterLevel, BookTypes, bookVars, LoopTypes, TradeKnown, Adding
<1>3. CASE BlockedByTick
  <2>1. BookTypes'
    BY <1>1, <1>3, AddShape DEF BlockedByTick, LoopTypes
  <2>. QED BY <1>3, <2>1 DEF BlockedByTick, LoopTypes, loopVars, TradeKnown, Adding
<1>4. CASE EndOfBook
  <2>1. BookTypes'
    BY <1>1, <1>4, AddShape DEF EndOfBook, LoopTypes
  <2>2. events' \in Seq(Event)
    <3>1. CASE left # order.qty
      <4>1. trade.price \in Prices /\ trade.qty \in 0..MaxQty /\ left \in 0..MaxQty
        BY <1>1, <3>1 DEF TradeKnown, LoopTypes
      <4>2. MainEvent(left, "PartiallyFilled") \in Event
        BY <1>1, <4>1, OrderTyped DEF MainEvent, Event
      <4>. QED BY <1>4, <3>1, <4>2 DEF EndOfBook
    <3>2. CASE left = order.qty
      BY <1>4, <3>2 DEF EndOfBook
    <3>. QED BY <3>1, <3>2
  <2>. QED BY <1>4, <2>1, <2>2 DEF EndOfBook, LoopTypes, loopVars, TradeKnown, Adding
<1>5. CASE EndOfLevel
  BY <1>5 DEF EndOfLevel, BookTypes, bookVars, LoopTypes, loopVars, TradeKnown, Adding
<1>6. CASE SkipOwnOrder
  BY <1>6 DEF SkipOwnOrder, BookTypes, bookVars, LoopTypes, TradeKnown, Adding
<1>. QED BY <1>2, <1>3, <1>4, <1>5, <1>6

\* What a fill reports: the order filled at the level, and the incoming one
\* once nothing of it is left.
LEMMA FillEvents ==
  ASSUME BookTypes, LoopTypes, Fill
  PROVE  \E first, last \in Event :
           /\ first.id = book[Facing][at][idx].id /\ first.price = at
           /\ last.id = order.id /\ last.leaves = 0
           /\ events' = events \o <<first>> \o (IF left' = 0 THEN <<last>> ELSE <<>>)
<1> DEFINE node == book[Facing][at][idx]
           q == FillQty(node)
           first == [id |-> node.id, price |-> at, last |-> q, leaves |-> node.qty - q,
                     status |-> IF node.qty = q THEN "Filled" ELSE "PartiallyFilled"]
           m == MainEvent(0, "Filled")
           last == [m EXCEPT !.price = at, !.last = q]
<1>1. node \in Node /\ q \in 0..MaxQty /\ q <= left /\ q <= node.qty /\ at \in Prices
  BY FillShape
<1>2. Adding /\ left \in 0..MaxQty /\ MaxQty \in Nat
  BY BoundsAssumption DEF Fill, Adding, LoopTypes
<1>3. first \in Event
  <2> HIDE DEF q, node
  <2>1. node.id \in OrderIds /\ node.qty \in 0..MaxQty /\ node.qty - q \in 0..MaxQty
    BY <1>1, <1>2 DEF Node
  <2>. QED BY <1>1, <2>1 DEF Event
<1>4. last \in Event /\ last.id = order.id /\ last.leaves = 0
  <2> DEFINE Draft == [id : {order.id}, price : 0..MaxPrice, last : 0..MaxQty, leaves : {0},
                       status : {"Filled", "PartiallyFilled"}]
  <2>1. order.id \in OrderIds /\ trade.price \in 0..MaxPrice /\ trade.qty \in 0..MaxQty
        /\ at \in 0..MaxPrice /\ 0 \in 0..MaxQty
    BY <1>1, <1>2, OrderTyped, BoundsAssumption DEF LoopTypes, Prices
  <2>2. m \in Draft
    BY <2>1 DEF MainEvent
  <2> HIDE DEF q, m
  <2>3. last \in Draft /\ last.price = at
    BY <1>1, <2>1, <2>2
  <2> HIDE DEF last
  <2>. QED BY <1>1, <2>1, <2>3 DEF Event
<1>5. events' = events \o <<first>> \o (IF left' = 0 THEN <<last>> ELSE <<>>)
  BY DEF Fill, Facing
<1>6. first.id = node.id /\ first.price = at
  OBVIOUS
<1> HIDE DEF first, last, node
<1>. QED BY <1>3, <1>4, <1>5, <1>6 DEF node

\* A fill: the quantities stay in their range and the events are complete.
LEMMA FillTypes ==
  ASSUME TypeInv, TickTypes', Fill
  PROVE  TypeInv'
<1> USE DEF TypeInv, TypeOK
<1> DEFINE node == book[Facing][at][idx]
           q == FillQty(node)
<1>1. /\ node \in Node /\ q \in 0..MaxQty /\ q <= left /\ q <= node.qty
      /\ left' = left - q /\ at \in Prices /\ BookTypes'
  BY FillShape
<1>2. Adding /\ left \in 0..MaxQty /\ MaxQty \in Nat
  BY BoundsAssumption DEF Fill, Adding, LoopTypes
<1>6. events' \in Seq(Event)
  <2>1. PICK first \in Event, last \in Event :
          events' = events \o <<first>> \o (IF left' = 0 THEN <<last>> ELSE <<>>)
    BY FillEvents
  <2>. QED BY <2>1
<1>7. trade' = [price |-> at, qty |-> q]
  BY DEF Fill, Facing
<1>8. /\ pc' \in {"idle", "fill"} /\ UNCHANGED <<order, todo, at, taken>>
      /\ idx' \in {idx, idx + 1}
  BY DEF Fill
<1> HIDE DEF node, q
<1>9. trade' \in [price : 0..MaxPrice, qty : 0..MaxQty] /\ trade'.price \in Prices /\ left' \in 0..MaxQty
  <2>1. at \in 0..MaxPrice
    BY <1>1, BoundsAssumption DEF Prices
  <2>. QED BY <1>1, <1>2, <1>7, <2>1
<1>10. order \in Orders /\ idx \in Nat /\ idx > 0
  BY DEF Fill, LoopTypes
<1>11. LoopTypes'
  BY <1>1, <1>8, <1>9, <1>10 DEF LoopTypes
<1>. QED BY <1>1, <1>6, <1>8, <1>9, <1>11 DEF TradeKnown

\* Types, for every step.
LEMMA TypeStep == TypeInv /\ TickTypes' /\ [Next]_vars => TypeInv'
<1>1. TypeInv /\ TickTypes' /\ UNCHANGED vars => TypeInv'
  BY DEF TypeInv, TypeOK, BookTypes, LoopTypes, TradeKnown, Adding, vars, loopVars, bookVars
<1>. QED BY <1>1, TakeTypes, LoopStepTypes, FillTypes DEF Next

-----------------------------------------------------------------------------
(* The id maps and the lists *)

Listed == NodesMapped /\ OneBook /\ OneNode

\* An entry of a list is a node, and its id has an entry in the map.
LEMMA NodeTyped ==
  ASSUME BookTypes, NEW b \in Books, NEW p \in Prices
  PROVE  /\ book[b][p] \in Seq(Node) /\ Len(book[b][p]) \in Nat
         /\ DOMAIN book[b][p] = 1..Len(book[b][p])
         /\ \A k \in DOMAIN book[b][p] :
              /\ book[b][p][k] \in Node /\ book[b][p][k].id \in OrderIds
              /\ book[b][p][k].user \in Users
<1>1. book[b][p] \in Seq(Node)
  BY DEF BookTypes
<1>2. \A k \in DOMAIN book[b][p] : book[b][p][k] \in Node
  BY <1>1
<1>. QED BY <1>1, <1>2 DEF Node

\* The same in the next state.
LEMMA NodeTypedNext ==
  ASSUME BookTypes', NEW b \in Books, NEW p \in Prices
  PROVE  /\ book'[b][p] \in Seq(Node) /\ Len(book'[b][p]) \in Nat
         /\ DOMAIN book'[b][p] = 1..Len(book'[b][p])
<1>1. book'[b][p] \in Seq(Node)
  BY DEF BookTypes
<1>. QED BY <1>1

\* Erasing a node, with its entry or without, leaves every other in its place.
LEMMA ErasedKeeps ==
  ASSUME BookTypes, BookTypes', Listed, NEW b \in Books, NEW p \in Prices, NEW i,
         Erased(b, p, i), Entered(b, book[b][p][i].id, 0) \/ idmap' = idmap,
         strays \subseteq strays'
  PROVE  /\ Listed'
         /\ EntriesFound /\ Entered(b, book[b][p][i].id, 0) => EntriesFound'
<1> DEFINE gone == book[b][p][i].id
           n == Len(book[b][p])
           from(k) == IF k < i THEN k ELSE k + 1
<1>1. /\ n \in Nat /\ i \in 1..n /\ gone \in OrderIds /\ p # 0
      /\ gone \notin strays => idmap[b][gone] = p
  BY NodeTyped DEF Erased, Listed, NodesMapped, Prices
<1>2. DOMAIN book'[b][p] = 1..(n - 1)
  BY NodeTypedNext DEF Erased
<1>3. \A k \in 1..(n - 1) : from(k) \in 1..n /\ from(k) # i /\ book'[b][p][k] = book[b][p][from(k)]
  BY <1>1 DEF Erased
<1>4. \A j, k \in 1..(n - 1) : from(j) = from(k) => j = k
  BY <1>1
<1>5. gone \notin strays => \A k \in 1..n : k # i => book[b][p][k].id # gone
  BY <1>1, NodeTyped DEF Listed, OneNode
<1>6. \A c \in Books, id \in OrderIds : c # b \/ id # gone => idmap'[c][id] = idmap[c][id]
  BY DEF Entered
<1> HIDE DEF gone, n, from
<1>7. ASSUME NEW c \in Books, NEW r \in Prices, NEW k \in DOMAIN book'[c][r],
             book'[c][r][k].id \notin strays'
      PROVE  idmap'[c][book'[c][r][k].id] = r
  <2>1. CASE c = b /\ r = p
    <3>1. from(k) \in DOMAIN book[b][p] /\ book'[c][r][k] = book[b][p][from(k)]
          /\ book[b][p][from(k)].id # gone
      BY <1>2, <1>3, <1>5, <1>7, <2>1, NodeTyped DEF n
    <3>. QED BY <1>6, <1>7, <2>1, <3>1, NodeTyped DEF Listed, NodesMapped
  <2>2. CASE c # b \/ r # p
    <3>1. book'[c][r] = book[c][r] /\ k \in DOMAIN book[c][r]
      BY <2>2 DEF Erased, OthersKept
    <3>2. book[c][r][k].id \in OrderIds /\ idmap[c][book[c][r][k].id] = r
          /\ book[c][r][k].id \notin strays
      BY <1>7, <3>1, NodeTyped DEF Listed, NodesMapped
    <3>. QED BY <1>1, <1>6, <2>2, <3>1, <3>2
  <2>. QED BY <2>1, <2>2
<1>8. OneBook'
  <2>1. \A c \in Books, id \in OrderIds : idmap'[c][id] \in {0, idmap[c][id]}
    BY <1>6 DEF Entered, gone
  <2>. QED BY <2>1 DEF Listed, OneBook, Books
<1>9. ASSUME NEW c \in Books, NEW r \in Prices, NEW j \in DOMAIN book'[c][r],
             NEW k \in DOMAIN book'[c][r], book'[c][r][j].id = book'[c][r][k].id,
             book'[c][r][j].id \notin strays'
      PROVE  j = k
  <2>1. CASE c = b /\ r = p
    <3>1. /\ from(j) \in DOMAIN book[b][p] /\ book'[b][p][j] = book[b][p][from(j)]
          /\ from(k) \in DOMAIN book[b][p] /\ book'[b][p][k] = book[b][p][from(k)]
      BY <1>2, <1>3, <2>1, NodeTyped DEF n
    <3>2. from(j) = from(k)
      BY <1>9, <2>1, <3>1 DEF Listed, OneNode
    <3>. QED BY <1>2, <1>4, <2>1, <3>2
  <2>2. CASE c # b \/ r # p
    <3>1. book'[c][r] = book[c][r]
      BY <2>2 DEF Erased, OthersKept
    <3>. QED BY <1>9, <3>1 DEF Listed, OneNode
  <2>. QED BY <2>1, <2>2
<1>10. ASSUME EntriesFound, Entered(b, gone, 0) PROVE EntriesFound'
  <2> SUFFICES ASSUME FALSE \notin FreedReads, NEW c \in Books, NEW id \in OrderIds,
                      idmap'[c][id] # 0
               PROVE  \E k \in DOMAIN book'[c][idmap'[c][id]] : book'[c][idmap'[c][id]][k].id = id
    BY DEF EntriesFound
  <2> DEFINE r == idmap[c][id]
  <2>1. (c # b \/ id # gone) /\ idmap'[c][id] = r /\ r # 0 /\ r \in Prices
    <3>1. (c # b \/ id # gone) /\ idmap'[c][id] = r
      BY <1>10 DEF Entered
    <3>. QED BY <3>1, MapTyped
  <2>2. PICK k \in DOMAIN book[c][r] : book[c][r][k].id = id
    BY <1>10, <2>1 DEF EntriesFound
  <2>3. CASE c = b /\ r = p
    <3>1. k \in 1..n /\ k # i
      BY <2>1, <2>2, <2>3, NodeTyped DEF gone, n
    <3>2. \E j \in 1..(n - 1) : from(j) = k
      <4>1. CASE k < i
        BY <1>1, <3>1, <4>1 DEF from
      <4>2. CASE k > i
        <5>1. k - 1 \in 1..(n - 1) /\ from(k - 1) = k
          BY <1>1, <3>1, <4>2 DEF from
        <5>. QED BY <5>1
      <4>. QED BY <1>1, <3>1, <4>1, <4>2
    <3>3. PICK j \in 1..(n - 1) : from(j) = k
      BY <3>2
    <3>4. j \in DOMAIN book'[b][p] /\ book'[b][p][j].id = id
      BY <1>2, <1>3, <2>2, <2>3, <3>3
    <3>. QED BY <2>1, <2>3, <3>4
  <2>4. CASE c # b \/ r # p
    BY <2>1, <2>2, <2>4 DEF Erased, OthersKept
  <2>. QED BY <2>3, <2>4
<1>. QED BY <1>7, <1>8, <1>9, <1>10 DEF Listed, NodesMapped, OneNode, gone

\* Erasing a node makes no list longer.
LEMMA ErasedShortens ==
  ASSUME BookTypes, NEW b \in Books, NEW p \in Prices, NEW i, Erased(b, p, i)
  PROVE  \A c \in Books, r \in Prices : Len(book'[c][r]) <= Len(book[c][r])
<1> SUFFICES ASSUME NEW c \in Books, NEW r \in Prices PROVE Len(book'[c][r]) <= Len(book[c][r])
  OBVIOUS
<1>1. book[c][r] \in Seq(Node)
  BY DEF BookTypes
<1>2. Len(book[c][r]) \in Nat
  BY <1>1, LenProperties
<1>3. \/ Len(book'[c][r]) = Len(book[c][r]) - 1
      \/ book'[c][r] = book[c][r]
  BY DEF Erased, OthersKept
<1>. QED BY <1>2, <1>3

\* Reducing a node changes no id.
LEMMA ReducedKeeps ==
  ASSUME BookTypes, BookTypes', Listed, NEW b \in Books, NEW p \in Prices, Reduced(b, p),
         idmap' = idmap, strays' = strays
  PROVE  Listed' /\ (EntriesFound => EntriesFound')
<1>1. \A c \in Books, r \in Prices :
        /\ DOMAIN book'[c][r] = DOMAIN book[c][r]
        /\ \A k \in DOMAIN book[c][r] : book'[c][r][k].id = book[c][r][k].id
  BY NodeTyped, NodeTypedNext DEF Reduced, OthersKept, Like
<1>2. \A c \in Books, id \in OrderIds : idmap[c][id] # 0 => idmap[c][id] \in Prices
  BY MapTyped
<1>3. Listed'
  BY <1>1 DEF Listed, NodesMapped, OneBook, OneNode
<1>4. EntriesFound => EntriesFound'
  BY <1>1, <1>2 DEF EntriesFound
<1>. QED BY <1>3, <1>4

\* A new order rests under an id that nothing in either book had.
LEMMA RestedKeeps ==
  ASSUME BookTypes, BookTypes', Listed, NEW b \in Books, NEW p \in Prices, NEW node,
         node.id \in OrderIds, ~Mapped(node.id), Rested(b, p, node), Entered(b, node.id, p),
         strays' = strays
  PROVE  Listed' /\ (EntriesFound => EntriesFound')
<1> DEFINE n == Len(book[b][p])
<1>1. n \in Nat /\ DOMAIN book[b][p] = 1..n /\ DOMAIN book'[b][p] = 1..(n + 1)
  BY NodeTyped, NodeTypedNext DEF Rested
<1>2. \A k \in 1..n : book'[b][p][k] = book[b][p][k]
  BY DEF Rested
<1>3. book'[b][p][n + 1] = node
  BY DEF Rested
<1>4. \A c \in Books, r \in Prices : c # b \/ r # p => book'[c][r] = book[c][r]
  BY DEF Rested, OthersKept
<1>5. \A c \in Books : idmap[c][node.id] = 0
  BY DEF Mapped
<1>6. \A c \in Books, r \in Prices : \A k \in DOMAIN book[c][r] :
        book[c][r][k].id \notin strays =>
          /\ book[c][r][k].id \in OrderIds /\ book[c][r][k].id # node.id
          /\ idmap'[c][book[c][r][k].id] = r
  BY <1>5, NodeTyped DEF Listed, NodesMapped, Entered, Prices
<1> HIDE DEF n
<1>7. NodesMapped'
  <2> SUFFICES ASSUME NEW c \in Books, NEW r \in Prices, NEW k \in DOMAIN book'[c][r],
                      book'[c][r][k].id \notin strays
               PROVE  idmap'[c][book'[c][r][k].id] = r
    BY DEF NodesMapped
  <2>1. CASE c = b /\ r = p /\ k = n + 1
    BY <1>3, <2>1 DEF Entered
  <2>2. CASE c = b /\ r = p /\ k # n + 1
    BY <1>1, <1>2, <1>6, <2>2
  <2>3. CASE c # b \/ r # p
    BY <1>4, <1>6, <2>3
  <2>. QED BY <2>1, <2>2, <2>3
<1>8. OneBook'
  BY <1>5 DEF Listed, OneBook, Entered, Books
<1>9. OneNode'
  <2> SUFFICES ASSUME NEW c \in Books, NEW r \in Prices, NEW j \in DOMAIN book'[c][r],
                      NEW k \in DOMAIN book'[c][r], book'[c][r][j].id = book'[c][r][k].id,
                      book'[c][r][j].id \notin strays
               PROVE  j = k
    BY DEF OneNode
  <2>1. CASE c = b /\ r = p
    BY <1>1, <1>2, <1>3, <1>6, <2>1 DEF Listed, OneNode
  <2>2. CASE c # b \/ r # p
    BY <1>4, <2>2 DEF Listed, OneNode
  <2>. QED BY <2>1, <2>2
<1>10. ASSUME EntriesFound PROVE EntriesFound'
  <2> SUFFICES ASSUME FALSE \notin FreedReads, NEW c \in Books, NEW id \in OrderIds,
                      idmap'[c][id] # 0
               PROVE  \E k \in DOMAIN book'[c][idmap'[c][id]] : book'[c][idmap'[c][id]][k].id = id
    BY DEF EntriesFound
  <2>1. CASE c = b /\ id = node.id
    BY <1>1, <1>3, <2>1 DEF Entered
  <2>2. CASE c # b \/ id # node.id
    <3>1. idmap'[c][id] = idmap[c][id]
      BY <2>2 DEF Entered
    <3>2. idmap[c][id] # 0
      BY <3>1
    <3>3. PICK r \in Prices : r = idmap[c][id]
      BY <3>2, MapTyped
    <3>4. PICK k \in DOMAIN book[c][r] : book[c][r][k].id = id
      BY <1>10, <3>2, <3>3 DEF EntriesFound
    <3>5. k \in DOMAIN book'[c][r] /\ book'[c][r][k] = book[c][r][k]
      <4>1. CASE c = b /\ r = p
        <5>1. k \in 1..n /\ k \in 1..(n + 1)
          BY <1>1, <3>4, <4>1
        <5>. QED BY <1>1, <1>2, <4>1, <5>1
      <4>2. CASE c # b \/ r # p
        BY <1>4, <3>4, <4>2
      <4>. QED BY <4>1, <4>2
    <3>. QED BY <3>1, <3>3, <3>4, <3>5
  <2>. QED BY <2>1, <2>2
<1>. QED BY <1>7, <1>8, <1>9, <1>10 DEF Listed

\* A step that leaves lists and maps alone keeps what relates them.
LEMMA ListedFrame ==
  ASSUME Listed, UNCHANGED <<book, idmap>>, strays \subseteq strays'
  PROVE  Listed' /\ (EntriesFound => EntriesFound')
<1>1. NodesMapped' /\ OneBook' /\ OneNode'
  BY DEF Listed, NodesMapped, OneBook, OneNode
<1>2. EntriesFound => EntriesFound'
  BY DEF EntriesFound
<1>. QED BY <1>1, <1>2 DEF Listed

\* A list grows only when the request that is in hand comes to rest.
LEMMA BoundedStep ==
  ASSUME BookTypes, BookTypes', ListsBounded, taken \in Nat, taken' \in Nat,
         \/ /\ \A c \in Books, r \in Prices : Len(book'[c][r]) <= Len(book[c][r])
            /\ taken' = taken + 1 \/ (taken' = taken /\ (Adding' => Adding))
         \/ /\ \A c \in Books, r \in Prices : Len(book'[c][r]) <= Len(book[c][r]) + 1
            /\ taken' = taken /\ Adding /\ ~Adding'
  PROVE  ListsBounded'
<1> SUFFICES ASSUME NEW c \in Books, NEW r \in Prices
             PROVE  Len(book'[c][r]) <= IF Adding' THEN taken' - 1 ELSE taken'
  BY DEF ListsBounded
<1>1. PICK m \in Nat : m = Len(book[c][r])
  BY NodeTyped
<1>2. PICK n \in Nat : n = Len(book'[c][r])
  BY NodeTypedNext
<1>3. /\ Adding => m <= taken - 1
      /\ ~Adding => m <= taken
  BY <1>1 DEF ListsBounded
<1>4. CASE n <= m /\ taken' = taken + 1
  <2>1. n <= taken
    BY <1>3, <1>4
  <2>. QED BY <1>2, <1>4, <2>1
<1>5. CASE n <= m /\ taken' = taken /\ (Adding' => Adding)
  <2>1. CASE Adding'
    BY <1>2, <1>3, <1>5, <2>1
  <2>2. CASE ~Adding'
    <3>1. n <= taken
      BY <1>3, <1>5
    <3>. QED BY <1>2, <1>5, <2>2, <3>1
  <2>. QED BY <2>1, <2>2
<1>6. CASE n <= m + 1 /\ taken' = taken /\ Adding /\ ~Adding'
  BY <1>2, <1>3, <1>6
<1>. QED BY <1>1, <1>2, <1>4, <1>5, <1>6

\* The id maps and the lists agree after every step.
LEMMA MapStep == TypeInv /\ TypeInv' /\ MapInv /\ [Next]_vars => MapInv'
<1> SUFFICES ASSUME TypeInv, TypeInv', MapInv, [Next]_vars PROVE MapInv'
  OBVIOUS
<1>0. /\ BookTypes /\ BookTypes' /\ LoopTypes /\ Listed /\ EntriesFound /\ ListsBounded
      /\ NewcomerUnmapped /\ taken \in Nat /\ taken' \in Nat
  BY BoundsAssumption DEF TypeInv, TypeOK, MapInv, Listed
<1>1. ASSUME Listed', EntriesFound', NewcomerUnmapped', ListsBounded' PROVE MapInv'
  BY <1>1 DEF MapInv, Listed
<1>2. ASSUME UNCHANGED book
      PROVE  \A c \in Books, r \in Prices : Len(book'[c][r]) <= Len(book[c][r])
  BY <1>0, <1>2, NodeTyped
<1>3. CASE EnterLevel \/ EndOfLevel \/ SkipOwnOrder \/ UNCHANGED vars
  <2>1. UNCHANGED <<book, idmap, strays, order, taken>> /\ (Adding' <=> Adding)
    BY <1>3 DEF EnterLevel, EndOfLevel, SkipOwnOrder, vars, loopVars, bookVars, Adding
  <2>2. NewcomerUnmapped'
    BY <1>0, <2>1 DEF NewcomerUnmapped, Mapped
  <2>. QED BY <1>0, <1>1, <1>2, <2>1, <2>2, ListedFrame, BoundedStep
<1>4. CASE TakeNewOrder
  <2>1. UNCHANGED <<book, idmap, strays>> /\ taken' = taken + 1 /\ ~Adding
    BY <1>4 DEF TakeNewOrder, bookVars, Adding
  <2>2. NewcomerUnmapped'
    <3>1. Adding' => ~Mapped(order'.id)
      BY <1>4, <2>1 DEF TakeNewOrder, Adding
    <3>. QED BY <2>1, <3>1 DEF NewcomerUnmapped, Mapped
  <2>. QED BY <1>0, <1>1, <1>2, <2>1, <2>2, ListedFrame, BoundedStep
<1>5. CASE BlockedByTick \/ EndOfBook
  <2> DEFINE b == BookOf(order.side)
             node == [id |-> order.id, user |-> order.user, side |-> order.side, qty |-> left]
  <2>1. Adding /\ ~Adding' /\ AddToBook(left) /\ taken' = taken /\ left \in 0..MaxQty
    BY <1>0, <1>5 DEF BlockedByTick, EndOfBook, Adding, LoopTypes
  <2>2. NewcomerUnmapped'
    BY <2>1 DEF NewcomerUnmapped
  <2>5. strays' = strays
    BY <1>0, <2>1, AddShape
  <2>3. CASE UNCHANGED <<book, idmap>>
    BY <1>0, <1>1, <1>2, <2>1, <2>2, <2>3, <2>5, ListedFrame, BoundedStep
  <2>4. CASE Rested(b, order.price, node) /\ Entered(b, order.id, order.price)
    <3>1. b \in Books /\ order.price \in Prices /\ node.id = order.id /\ order.id \in OrderIds
      BY <1>0, <2>1, OrderTyped
    <3>2. ~Mapped(node.id)
      BY <1>0, <2>1, <3>1 DEF NewcomerUnmapped
    <3> HIDE DEF node, b
    <3>3. Listed' /\ EntriesFound'
      BY <1>0, <2>4, <2>5, <3>1, <3>2, RestedKeeps
    <3>4. \A c \in Books, r \in Prices : Len(book'[c][r]) <= Len(book[c][r]) + 1
      BY <1>0, <2>4, <3>1, NodeTyped DEF Rested, OthersKept
    <3>. QED BY <1>0, <1>1, <2>1, <2>2, <3>3, <3>4, BoundedStep
  <2>. QED BY <1>0, <2>1, <2>3, <2>4, AddShape
<1>6. CASE Fill
  <2> DEFINE b == Facing
             gone == book[b][at][idx].id
  <2>1. /\ b \in Books /\ at \in Prices /\ gone \in OrderIds /\ Adding
        /\ UNCHANGED <<order, taken, strays>>
    BY <1>0, <1>6, FillShape DEF Fill, Adding, Node
  <2>2. CASE Reduced(b, at) /\ idmap' = idmap
    <3> HIDE DEF b
    <3>1. Listed' /\ EntriesFound'
      BY <1>0, <2>1, <2>2, ReducedKeeps
    <3>2. \A c \in Books, r \in Prices : Len(book'[c][r]) <= Len(book[c][r])
      BY <1>0, <2>1, <2>2, NodeTyped DEF Reduced, OthersKept
    <3>3. NewcomerUnmapped'
      BY <1>0, <2>1, <2>2 DEF NewcomerUnmapped, Mapped
    <3>. QED BY <1>0, <1>1, <2>1, <3>1, <3>2, <3>3, BoundedStep
  <2>3. CASE /\ Erased(b, at, idx)
             /\ \/ TRUE \in FreedReads /\ Entered(b, gone, 0)
                \/ FALSE \in FreedReads /\ idmap' = idmap
    <3> HIDE DEF b
    <3>1. Listed' /\ EntriesFound'
      BY <1>0, <2>1, <2>3, ErasedKeeps DEF EntriesFound
    <3>2. \A c \in Books, r \in Prices : Len(book'[c][r]) <= Len(book[c][r])
      BY <1>0, <2>1, <2>3, NodeTyped DEF Erased, OthersKept
    <3>3. \A c \in Books : idmap'[c][order.id] \in {0, idmap[c][order.id]}
      BY <1>0, <2>1, <2>3, OrderTyped DEF Entered
    <3>4. NewcomerUnmapped'
      BY <1>0, <2>1, <3>3 DEF NewcomerUnmapped, Mapped
    <3>. QED BY <1>0, <1>1, <2>1, <3>1, <3>2, <3>4, BoundedStep
  <2>. QED BY <1>0, <1>6, <2>2, <2>3, FillShape
<1>7. CASE TakeCancel
  <2>1. /\ ~Adding /\ taken' = taken + 1 /\ pc' \in {"idle", "wrecked"}
        /\ strays \subseteq strays'
    BY <1>0, <1>7, CancelShape DEF TakeCancel, Adding
  <2>2. NewcomerUnmapped'
    BY <2>1 DEF NewcomerUnmapped, Adding
  <2>3. CASE UNCHANGED <<book, idmap>>
    BY <1>0, <1>1, <1>2, <2>1, <2>2, <2>3, ListedFrame, BoundedStep
  <2>4. ASSUME NEW b \in Books, NEW id \in OrderIds, NEW k \in DOMAIN book[b][idmap[b][id]],
               idmap[b][id] \in Prices, Entered(b, id, 0),
               book[b][idmap[b][id]][k].id = id, Erased(b, idmap[b][id], k)
        PROVE  MapInv'
    <3>1. Listed' /\ EntriesFound'
      BY <1>0, <2>1, <2>4, ErasedKeeps
    <3>2. \A c \in Books, r \in Prices : Len(book'[c][r]) <= Len(book[c][r])
      BY <1>0, <2>4, ErasedShortens
    <3>. QED BY <1>0, <1>1, <2>1, <2>2, <3>1, <3>2, BoundedStep
  <2>5. ASSUME NEW b \in Books, NEW id \in OrderIds, UNCHANGED book,
               idmap[b][id] \in Prices, Entered(b, id, 0),
               \/ id \in strays'
               \/ \A k \in DOMAIN book[b][idmap[b][id]] : book[b][idmap[b][id]][k].id # id
        PROVE  MapInv'
    <3>1. id \notin strays' => \A r \in Prices : \A k \in DOMAIN book[b][r] : book[b][r][k].id # id
      BY <2>1, <2>5 DEF MapInv, NodesMapped
    <3>2. NodesMapped'
      BY <1>0, <2>1, <2>5, <3>1, NodeTyped DEF Listed, NodesMapped, Entered
    <3>3. OneBook' /\ OneNode'
      BY <1>0, <2>1, <2>5 DEF Listed, OneBook, OneNode, Entered, Books
    <3>4. EntriesFound'
      BY <1>0, <2>5 DEF EntriesFound, Entered
    <3>. QED BY <1>0, <1>1, <1>2, <2>1, <2>2, <2>5, <3>2, <3>3, <3>4, BoundedStep DEF Listed
  <2>. QED BY <1>0, <1>7, <2>3, <2>4, <2>5, CancelShape
<1>. QED BY <1>3, <1>4, <1>5, <1>6, <1>7 DEF Next

-----------------------------------------------------------------------------
(* Matching *)

\* Every node was there before the step, with another quantity perhaps.
NothingNew ==
  \A b \in Books, p \in Prices : \A k \in DOMAIN book'[b][p] :
    \E j \in DOMAIN book[b][p] : Like(book'[b][p][k], book[b][p][j])

\* Erasing and reducing bring nothing new.
LEMMA NothingNewIn ==
  ASSUME BookTypes, BookTypes',
         \/ UNCHANGED book
         \/ \E b \in Books, p \in Prices : Reduced(b, p) \/ \E i : Erased(b, p, i)
  PROVE  NothingNew
<1> SUFFICES ASSUME NEW c \in Books, NEW r \in Prices, NEW k \in DOMAIN book'[c][r]
             PROVE  \E j \in DOMAIN book[c][r] : Like(book'[c][r][k], book[c][r][j])
  BY DEF NothingNew
<1>1. CASE book'[c][r] = book[c][r]
  BY <1>1 DEF Like
<1>2. CASE Reduced(c, r)
  BY <1>2, NodeTyped, NodeTypedNext DEF Reduced
<1>3. ASSUME NEW i, Erased(c, r, i) PROVE \E j \in DOMAIN book[c][r] : Like(book'[c][r][k], book[c][r][j])
  <2> DEFINE n == Len(book[c][r])
             j == IF k < i THEN k ELSE k + 1
  <2>1. n \in Nat /\ DOMAIN book[c][r] = 1..n /\ i \in 1..n /\ k \in 1..(n - 1)
    BY <1>3, NodeTyped, NodeTypedNext DEF Erased
  <2>2. j \in 1..n /\ book'[c][r][k] = book[c][r][j]
    BY <1>3, <2>1 DEF Erased
  <2> HIDE DEF j, n
  <2>. QED BY <2>1, <2>2 DEF Like
<1>4. ASSUME NEW b \in Books, NEW p \in Prices, Reduced(b, p) \/ \E i : Erased(b, p, i)
      PROVE  book'[c][r] = book[c][r] \/ Reduced(c, r) \/ \E i : Erased(c, r, i)
  <2>1. CASE c = b /\ r = p
    BY <1>4, <2>1
  <2>2. CASE c # b \/ r # p
    <3>1. OthersKept(b, p)
      BY <1>4 DEF Reduced, Erased
    <3>. QED BY <2>2, <3>1 DEF OthersKept
  <2>. QED BY <2>1, <2>2
<1>. QED BY <1>1, <1>2, <1>3, <1>4

\* A book that nothing joins does not become crossed.
LEMMA NothingNewKeeps ==
  ASSUME BookTypes, BookTypes', LevelsKnown, NeverCrossed, NothingNew, levels' = levels
  PROVE  LevelsKnown' /\ NeverCrossed'
<1>1. ASSUME NEW b \in Books, NEW p \in Prices, book'[b][p] # <<>> PROVE p \in levels'[b]
  <2>1. 1 \in DOMAIN book'[b][p]
    BY <1>1, NodeTypedNext
  <2>2. book[b][p] # <<>>
    BY <2>1 DEF NothingNew
  <2>. QED BY <2>2 DEF LevelsKnown
<1>2. NeverCrossed'
  <2> SUFFICES ASSUME NEW p \in Prices, NEW q \in Prices, p >= q,
                      NEW m \in DOMAIN book'["bid"][p], NEW n \in DOMAIN book'["ask"][q]
               PROVE  ~Cross(book'["bid"][p][m], book'["ask"][q][n])
    BY DEF NeverCrossed
  <2>1. PICK j \in DOMAIN book["bid"][p] : Like(book'["bid"][p][m], book["bid"][p][j])
    BY DEF NothingNew, Books
  <2>2. PICK k \in DOMAIN book["ask"][q] : Like(book'["ask"][q][n], book["ask"][q][k])
    BY DEF NothingNew, Books
  <2>. QED BY <2>1, <2>2 DEF NeverCrossed, Cross, Like
<1>. QED BY <1>1, <1>2 DEF LevelsKnown

\* When the loop stops at the limit of the order, no level left is within it.
LEMMA NoneLeft ==
  ASSUME LoopTypes, Adding, ~CanCross
  PROVE  \A p \in todo : ~Crosses(Facing, p, order.price)
<1>1. CASE todo = {}
  BY <1>1
<1>2. CASE todo # {}
  <2>1. /\ Level \in todo /\ (\A p \in todo : ~Better(Facing, p, Level)) /\ todo \subseteq Prices
        /\ ~Crosses(Facing, Level, order.price) /\ order.price \in Prices
    BY <1>2, OrderTyped, BestIsBest DEF CanCross, Level, LoopTypes, Facing
  <2>2. Prices \subseteq Nat
    BY BoundsAssumption DEF Prices
  <2>3. ASSUME NEW p \in todo PROVE ~Crosses(Facing, p, order.price)
    <3>1. p \in Nat /\ Level \in Nat /\ order.price \in Nat
      BY <2>1, <2>2
    <3>. QED BY <2>1, <3>1 DEF Better, Crosses
  <2>. QED BY <2>3
<1>. QED BY <1>1, <1>2

\* An order comes to rest only where it crosses nothing: the tick may stop its
\* side, or the loop has left only orders of its own user within its limit.
LEMMA RestsUncrossed ==
  ASSUME TypeInv, MatchInv, Adding, BlockedByTick \/ EndOfBook, NEW p \in Prices,
         Crosses(Facing, p, order.price), NEW k \in DOMAIN book[Facing][p]
  PROVE  order.side \in Restricted \/ book[Facing][p][k].user = order.user
<1>0. LoopTypes
  BY DEF TypeInv, TypeOK
<1>1. CASE BlockedByTick
  BY <1>1 DEF BlockedByTick, Allowed, Restricted
<1>2. CASE EndOfBook
  <2>1. p \notin todo /\ pc # "fill"
    BY <1>0, <1>2, NoneLeft DEF EndOfBook
  <2>. QED BY <2>1 DEF MatchInv, OwnBehind
<1>. QED BY <1>1, <1>2

\* What joins the book crosses nothing.
LEMMA RestStep ==
  ASSUME TypeInv, TypeInv', MatchInv, BlockedByTick \/ EndOfBook
  PROVE  MatchInv'
<1> DEFINE b == BookOf(order.side)
           limit == order.price
           node == [id |-> order.id, user |-> order.user, side |-> order.side, qty |-> left]
<1>1. /\ BookTypes /\ BookTypes' /\ LoopTypes /\ Adding /\ ~Adding' /\ pc' # "fill"
      /\ AddToBook(left) /\ left \in 0..MaxQty
  BY DEF TypeInv, TypeOK, BlockedByTick, EndOfBook, Adding, LoopTypes
<1>2. /\ b \in Books /\ limit \in Prices /\ Facing \in Books /\ Facing # b
  BY <1>1, OrderTyped
<1>3. OwnBehind' /\ InLevel'
  BY <1>1 DEF OwnBehind, InLevel
<1>4. CASE UNCHANGED <<book, levels>>
  BY <1>1, <1>3, <1>4, NothingNewIn, NothingNewKeeps DEF MatchInv
<1>5. CASE /\ Rested(b, limit, node) /\ limit \in levels'[b]
           /\ \A c \in Books : levels[c] \subseteq levels'[c]
  <2> DEFINE n == Len(book[b][limit])
  <2>1. n \in Nat /\ DOMAIN book[b][limit] = 1..n /\ DOMAIN book'[b][limit] = 1..(n + 1)
    BY <1>1, <1>2, <1>5, NodeTyped, NodeTypedNext DEF Rested
  <2>2. (\A k \in 1..n : book'[b][limit][k] = book[b][limit][k]) /\ book'[b][limit][n + 1] = node
    BY <1>5 DEF Rested
  <2>3. \A c \in Books, r \in Prices : c # b \/ r # limit => book'[c][r] = book[c][r]
    BY <1>5 DEF Rested, OthersKept
  <2>4. node.user = order.user /\ node.side = order.side
    OBVIOUS
  <2> HIDE DEF n, node
  <2>5. LevelsKnown'
    BY <1>5, <2>3 DEF MatchInv, LevelsKnown
  <2>6. ASSUME NEW c \in Books, NEW r \in Prices, NEW k \in DOMAIN book'[c][r]
        PROVE  \/ k \in DOMAIN book[c][r] /\ book'[c][r][k] = book[c][r][k]
               \/ c = b /\ r = limit /\ book'[c][r][k] = node
    BY <2>1, <2>2, <2>3
  <2>7. ASSUME NEW r \in Prices, Crosses(Facing, r, limit), NEW k \in DOMAIN book[Facing][r]
        PROVE  ~Cross(node, book[Facing][r][k]) /\ ~Cross(book[Facing][r][k], node)
    BY <1>1, <2>4, <2>7, RestsUncrossed DEF Cross
  <2>8. NeverCrossed'
    <3> SUFFICES ASSUME NEW p \in Prices, NEW q \in Prices, p >= q,
                        NEW j \in DOMAIN book'["bid"][p], NEW k \in DOMAIN book'["ask"][q]
                 PROVE  ~Cross(book'["bid"][p][j], book'["ask"][q][k])
      BY DEF NeverCrossed
    <3>1. "bid" \in Books /\ "ask" \in Books
      BY DEF Books
    <3>2. CASE b = "bid"
      <4>1. Facing = "ask" /\ k \in DOMAIN book["ask"][q] /\ book'["ask"][q][k] = book["ask"][q][k]
        BY <1>2, <2>6, <3>1, <3>2 DEF Books
      <4>2. CASE j \in DOMAIN book["bid"][p] /\ book'["bid"][p][j] = book["bid"][p][j]
        BY <4>1, <4>2 DEF MatchInv, NeverCrossed
      <4>3. CASE p = limit /\ book'["bid"][p][j] = node
        <5>1. Crosses(Facing, q, limit)
          BY <4>1, <4>3 DEF Crosses
        <5>. QED BY <2>7, <4>1, <4>3, <5>1
      <4>. QED BY <2>6, <3>1, <4>2, <4>3
    <3>3. CASE b = "ask"
      <4>1. Facing = "bid" /\ j \in DOMAIN book["bid"][p] /\ book'["bid"][p][j] = book["bid"][p][j]
        BY <1>2, <2>6, <3>1, <3>3 DEF Books
      <4>2. CASE k \in DOMAIN book["ask"][q] /\ book'["ask"][q][k] = book["ask"][q][k]
        BY <4>1, <4>2 DEF MatchInv, NeverCrossed
      <4>3. CASE q = limit /\ book'["ask"][q][k] = node
        <5>1. Crosses(Facing, p, limit)
          BY <4>1, <4>3 DEF Crosses
        <5>. QED BY <2>7, <4>1, <4>3, <5>1
      <4>. QED BY <2>6, <3>1, <4>2, <4>3
    <3>. QED BY <1>2, <3>2, <3>3 DEF Books
  <2>. QED BY <1>3, <2>5, <2>8 DEF MatchInv
<1>. QED BY <1>1, <1>4, <1>5, AddShape

\* The book is never crossed, and the loop leaves nothing behind but orders of
\* the newcomer's own user.
LEMMA MatchStep == TypeInv /\ TypeInv' /\ MatchInv /\ [Next]_vars => MatchInv'
<1> SUFFICES ASSUME TypeInv, TypeInv', MatchInv, [Next]_vars PROVE MatchInv'
  OBVIOUS
<1>0. BookTypes /\ BookTypes' /\ LoopTypes
  BY DEF TypeInv, TypeOK
<1>1. ASSUME UNCHANGED <<book, levels>> PROVE LevelsKnown' /\ NeverCrossed'
  BY <1>0, <1>1, NothingNewIn, NothingNewKeeps DEF MatchInv
<1>2. CASE UNCHANGED vars
  BY <1>1, <1>2 DEF vars, loopVars, bookVars, MatchInv, OwnBehind, InLevel, Adding, Facing
<1>3. CASE TakeNewOrder
  <2>1. UNCHANGED <<book, levels>> /\ pc' # "fill"
    BY <1>3 DEF TakeNewOrder, bookVars
  <2>2. OwnBehind'
    <3> SUFFICES ASSUME Adding', NEW p \in Prices, p \notin todo'
                 PROVE  book'[Facing'][p] = <<>>
      BY DEF OwnBehind
    <3>1. todo' = levels[Facing'] /\ Facing' \in Books
      BY <1>3 DEF TakeNewOrder, Adding, Facing, Opposite, Books
    <3>. QED BY <2>1, <3>1 DEF MatchInv, LevelsKnown
  <2>. QED BY <1>1, <2>1, <2>2 DEF MatchInv, InLevel
<1>4. CASE EnterLevel
  <2>1. /\ UNCHANGED <<book, levels, order>> /\ pc = "scan" /\ pc' = "fill" /\ Adding /\ CanCross
        /\ at' = Level /\ idx' = 1 /\ todo' = todo \ {Level} /\ Facing' = Facing
    BY <1>4 DEF EnterLevel, bookVars, Adding, Facing
  <2>2. Level \in todo /\ (\A p \in todo : ~Better(Facing, p, Level)) /\ Crosses(Facing, Level, order.price)
        /\ Level \in Prices /\ Facing \in Books
    BY <1>0, <2>1, OrderTyped, BestIsBest DEF CanCross, Level, LoopTypes, Facing
  <2>3. OwnBehind'
    BY <2>1, <2>2 DEF MatchInv, OwnBehind
  <2>4. InLevel'
    <3>1. \A k \in DOMAIN book[Facing][Level] : ~(k < 1)
      BY <1>0, <2>2, NodeTyped
    <3>. QED BY <2>1, <2>2, <3>1 DEF InLevel
  <2>. QED BY <1>1, <2>1, <2>3, <2>4 DEF MatchInv
<1>5. CASE BlockedByTick \/ EndOfBook
  BY <1>5, RestStep
<1>6. CASE EndOfLevel
  <2>1. /\ UNCHANGED <<book, levels, order, todo, at>> /\ pc = "fill" /\ pc' = "scan" /\ Adding
        /\ idx > Len(book[Facing][at]) /\ Facing' = Facing
    BY <1>6 DEF EndOfLevel, bookVars, Adding, Facing, loopVars
  <2>2. at \in Prices /\ Facing \in Books /\ idx \in Nat
    BY <1>0, <2>1, OrderTyped DEF LoopTypes
  <2>3. \A k \in DOMAIN book[Facing][at] : book[Facing][at][k].user = order.user
    BY <1>0, <2>1, <2>2, NodeTyped DEF MatchInv, InLevel
  <2>4. OwnBehind'
    BY <2>1, <2>3 DEF MatchInv, OwnBehind
  <2>. QED BY <1>1, <2>1, <2>4 DEF MatchInv, InLevel
<1>7. CASE SkipOwnOrder
  <2>1. /\ UNCHANGED <<book, levels, order, todo, at>> /\ pc = "fill" /\ pc' = "fill" /\ Adding
        /\ idx' = idx + 1 /\ book[Facing][at][idx].user = order.user /\ Facing' = Facing
    BY <1>7 DEF SkipOwnOrder, bookVars, Adding, Facing
  <2>2. at \in Prices /\ Facing \in Books /\ idx \in Nat
    BY <1>0, <2>1, OrderTyped DEF LoopTypes
  <2>3. \A k \in DOMAIN book[Facing][at] : k < idx + 1 => book[Facing][at][k].user = order.user
    BY <1>0, <2>1, <2>2, NodeTyped DEF MatchInv, InLevel
  <2>4. OwnBehind' /\ InLevel'
    BY <2>1, <2>3 DEF MatchInv, OwnBehind, InLevel, Adding
  <2>. QED BY <1>1, <2>1, <2>4 DEF MatchInv
<1>8. CASE Fill
  <2>1. /\ UNCHANGED <<order, todo, at, levels>> /\ pc = "fill" /\ Facing' = Facing /\ Adding
        /\ pc' = IF left' = 0 THEN "idle" ELSE "fill"
    BY <1>8 DEF Fill, Facing, Adding
  <2>2. Facing \in Books /\ at \in Prices
    BY <1>0, <1>8, FillShape
  <2>3. Reduced(Facing, at) \/ Erased(Facing, at, idx)
    BY <1>0, <1>8, FillShape
  <2>4. LevelsKnown' /\ NeverCrossed'
    BY <1>0, <2>1, <2>2, <2>3, NothingNewIn, NothingNewKeeps DEF MatchInv
  <2>5. CASE pc' = "idle"
    BY <2>4, <2>5 DEF MatchInv, OwnBehind, InLevel, Adding
  <2>6. CASE pc' = "fill"
    <3>1. Erased(Facing, at, idx) /\ idx' = idx
      <4> DEFINE q == FillQty(book[Facing][at][idx])
      <4>1. left' # 0 /\ left \in Nat /\ left' = left - q
        <5>1. left' # 0
          BY <2>1, <2>6
        <5>2. left \in Nat
          BY <1>0, BoundsAssumption DEF LoopTypes
        <5>3. left' = left - q
          BY <1>0, <1>8, FillShape
        <5>. QED BY <5>1, <5>2, <5>3
      <4>2. \/ Erased(Facing, at, idx) /\ idx' = idx
            \/ q = left
        BY <1>0, <1>8, FillShape
      <4> HIDE DEF q
      <4>3. q # left
        BY <4>1
      <4>. QED BY <4>2, <4>3
    <3>2. /\ idx \in DOMAIN book[Facing][at] /\ DOMAIN book'[Facing][at] \subseteq DOMAIN book[Facing][at]
          /\ \A k \in DOMAIN book'[Facing][at] : k < idx => book'[Facing][at][k] = book[Facing][at][k]
      <4> DEFINE n == Len(book[Facing][at])
      <4>1. n \in Nat /\ DOMAIN book[Facing][at] = 1..n /\ idx \in 1..n
        BY <1>0, <2>2, <3>1, NodeTyped DEF Erased
      <4>2. DOMAIN book'[Facing][at] = 1..(n - 1)
        BY <1>0, <2>2, <3>1, NodeTypedNext DEF Erased
      <4>3. \A k \in 1..(n - 1) : k < idx => book'[Facing][at][k] = book[Facing][at][k]
        BY <3>1 DEF Erased
      <4> HIDE DEF n
      <4>. QED BY <4>1, <4>2, <4>3
    <3>3. InLevel'
      BY <2>1, <2>6, <3>1, <3>2 DEF MatchInv, InLevel
    <3>4. \A p \in Prices : p # at => book'[Facing][p] = book[Facing][p]
      BY <2>2, <3>1 DEF Erased, OthersKept
    <3>5. OwnBehind'
      BY <2>1, <2>6, <3>4 DEF MatchInv, OwnBehind, Adding
    <3>. QED BY <2>4, <3>3, <3>5 DEF MatchInv
  <2>. QED BY <2>1, <2>5, <2>6
<1>9. CASE TakeCancel
  <2>1. levels' = levels /\ pc' \in {"idle", "wrecked"}
    BY <1>0, <1>9, CancelShape
  <2>2. NothingNew
    BY <1>0, <1>9, CancelShape, NothingNewIn
  <2>. QED BY <1>0, <2>1, <2>2, NothingNewKeeps DEF MatchInv, OwnBehind, InLevel, Adding
<1>. QED BY <1>2, <1>3, <1>4, <1>5, <1>6, <1>7, <1>8, <1>9 DEF Next

-----------------------------------------------------------------------------
(* The inductive invariant, and what follows *)

\* Types, the maps, the loop and the tick together.
LEMMA InvariantHolds == Spec => [](TypeOK /\ BookInv)
<1> DEFINE Inv == TypeInv /\ TickTypes /\ TickInv /\ MapInv /\ MatchInv
<1>1. Init => Inv
  <2> SUFFICES ASSUME Init PROVE Inv
    OBVIOUS
  <2>0. 0 \in 0..MaxPrice /\ 0 \in 0..MaxQty /\ 0 \in 0..MaxOrders /\ MaxOrders \in Nat
    BY BoundsAssumption
  <2>1. BookTypes
    <3>1. /\ book = [b \in Books |-> [p \in Prices |-> <<>>]] /\ <<>> \in Seq(Node)
          /\ levels = [b \in Books |-> {}]
          /\ idmap = [b \in Books |-> [id \in OrderIds |-> 0]] /\ strays = {}
      BY DEF Init
    <3>2. book \in [Books -> [Prices -> Seq(Node)]]
      BY <3>1
    <3>3. levels \in [Books -> SUBSET Prices] /\ idmap \in [Books -> [OrderIds -> 0..MaxPrice]]
      BY <2>0, <3>1
    <3>. QED BY <3>1, <3>2, <3>3 DEF BookTypes
  <2>2. TickTypes /\ TickInv
    BY <2>0 DEF Init, TickTypes, TickInv, TickIsLastMove, Ticks
  <2>3. LoopTypes /\ TradeKnown
    BY <2>0 DEF Init, LoopTypes, TradeKnown, Adding
  <2>4. TypeInv
    <3>1. events = <<>> /\ <<>> \in Seq(Event) /\ taken = 0
      BY DEF Init
    <3>. QED BY <2>0, <2>1, <2>2, <2>3, <3>1 DEF TypeInv, TypeOK
  <2>5. MapInv
    <3>1. NodesMapped /\ OneBook /\ OneNode /\ NewcomerUnmapped
      BY DEF Init, NodesMapped, OneBook, OneNode, NewcomerUnmapped, Adding, Books
    <3>2. EntriesFound /\ ListsBounded
      BY DEF Init, EntriesFound, ListsBounded, Adding, Books
    <3>. QED BY <3>1, <3>2 DEF MapInv
  <2>6. MatchInv
    BY DEF Init, MatchInv, LevelsKnown, NeverCrossed, OwnBehind, InLevel, Adding, Books
  <2>. QED BY <2>2, <2>4, <2>5, <2>6 DEF TypeInv, TypeOK
<1>2. Inv /\ [Next]_vars => Inv'
  <2> SUFFICES ASSUME Inv, [Next]_vars PROVE Inv'
    OBVIOUS
  <2>1. TickTypes' /\ TickInv'
    BY TickNext DEF TypeInv, TypeOK
  <2>2. TypeInv'
    BY <2>1, TypeStep
  <2>. QED BY <2>1, <2>2, MapStep, MatchStep
<1>3. Inv => TypeOK /\ BookInv
  BY DEF TypeInv, BookInv
<1>. QED BY <1>1, <1>2, <1>3, PTL DEF Spec

\* Every variable has its type: no quantity falls below zero, and every event
\* is complete.
THEOREM TypeCorrect == Spec => []TypeOK
BY InvariantHolds, PTL

\* However often the tick is computed, it tells the last change of the price.
THEOREM TickDirection == Spec => []TickIsLastMove
<1>1. BookInv => TickIsLastMove
  BY DEF BookInv, TickInv
<1>. QED BY <1>1, InvariantHolds, PTL

\* Between two requests no two orders rest that should have been matched, but
\* for those of one user and those the tick can stop.
THEOREM BookUncrossed == Spec => []Uncrossed
<1>1. BookInv => Uncrossed
  BY DEF BookInv, MatchInv, NeverCrossed, Cross, Uncrossed
<1>. QED BY <1>1, InvariantHolds, PTL

\* A resting order is found, alone, at the price its id is mapped to, whatever
\* was filled, cancelled or misread before, unless a cancel misread the entry of
\* this very id.
THEOREM MapFindsOrders == Spec => []MapFindsTheOrder
<1>1. TypeOK /\ BookInv => MapFindsTheOrder
  <2> SUFFICES ASSUME TypeOK, BookInv, pc = "idle", NEW id \in OrderIds
               PROVE  LET homes == {h \in Books \X Prices \X (1..MaxOrders) :
                                      /\ h[3] \in DOMAIN book[h[1]][h[2]]
                                      /\ book[h[1]][h[2]][h[3]].id = id}
                      IN /\ id \notin strays => /\ Cardinality(homes) <= 1
                                                 /\ \A h \in homes : idmap[h[1]][id] = h[2]
                         /\ \A b \in Books : FALSE \notin FreedReads /\ idmap[b][id] # 0 =>
                                             \E h \in homes : h[1] = b
    BY DEF MapFindsTheOrder
  <2> DEFINE homes == {h \in Books \X Prices \X (1..MaxOrders) :
                         /\ h[3] \in DOMAIN book[h[1]][h[2]]
                         /\ book[h[1]][h[2]][h[3]].id = id}
  <2>1. BookTypes /\ MapInv
    BY DEF TypeOK, BookInv
  <2>2. ASSUME NEW h \in homes
        PROVE  /\ h[1] \in Books /\ h[2] \in Prices /\ h[3] \in DOMAIN book[h[1]][h[2]]
               /\ book[h[1]][h[2]][h[3]].id = id /\ h = <<h[1], h[2], h[3]>>
    OBVIOUS
  <2>3. id \notin strays => \A h \in homes : idmap[h[1]][id] = h[2] /\ h[2] # 0
    BY <2>1, <2>2 DEF MapInv, NodesMapped, Prices
  <2>4. ASSUME NEW b \in Books, FALSE \notin FreedReads, idmap[b][id] # 0
        PROVE  \E h \in homes : h[1] = b
    <3> DEFINE p == idmap[b][id]
    <3>1. PICK k \in DOMAIN book[b][p] : book[b][p][k].id = id
      BY <2>1, <2>4 DEF MapInv, EntriesFound
    <3>2. p \in Prices
      BY <2>1, <2>4, MapTyped
    <3>3. k \in 1..MaxOrders
      <4>1. Len(book[b][p]) <= taken /\ taken <= MaxOrders /\ taken \in Nat /\ MaxOrders \in Nat
        BY <2>1, <3>2, BoundsAssumption DEF TypeOK, MapInv, ListsBounded, Adding
      <4>. QED BY <2>1, <3>1, <3>2, <4>1, NodeTyped
    <3>4. <<b, p, k>> \in homes
      BY <3>1, <3>2, <3>3
    <3>. QED BY <3>4
  <2> HIDE DEF homes
  <2>5. id \notin strays => \A g, h \in homes : g = h
    <3> SUFFICES ASSUME id \notin strays, NEW g \in homes, NEW h \in homes PROVE g = h
      OBVIOUS
    <3>1. g[1] = h[1]
      BY <2>1, <2>2, <2>3 DEF MapInv, OneBook, Books
    <3>2. g[2] = h[2]
      BY <2>3, <3>1
    <3>3. g[3] = h[3]
      BY <2>1, <2>2, <3>1, <3>2 DEF MapInv, OneNode
    <3>. QED BY <2>2, <3>1, <3>2, <3>3
  <2>6. ASSUME id \notin strays PROVE Cardinality(homes) <= 1
    <3>1. CASE homes = {}
      <4>1. Cardinality({}) = 0
        BY FS_EmptySet
      <4>. QED BY <3>1, <4>1
    <3>2. CASE homes # {}
      <4>1. PICK h : homes = {h}
        BY <2>5, <2>6, <3>2
      <4>2. Cardinality({h}) = 1
        BY FS_Singleton
      <4>. QED BY <4>1, <4>2
    <3>. QED BY <3>1, <3>2
  <2>. QED BY <2>3, <2>4, <2>6 DEF homes
<1>. QED BY <1>1, InvariantHolds, PTL

\* Whatever order is filled, those before it by price and by time are of the
\* incoming order's own user.
THEOREM PriorityKept == Spec => PriceTimePriority
<1> DEFINE Kept == pc = "fill" /\ events' # events =>
       LET b == Opposite(BookOf(order.side))
           e == events'[Len(events) + 1]
       IN /\ \A p \in Prices : Better(b, p, e.price) =>
               \A k \in DOMAIN book[b][p] : book[b][p][k].user = order.user
          /\ \E k \in DOMAIN book[b][e.price] :
               /\ book[b][e.price][k].id = e.id
               /\ \A j \in 1..(k - 1) : book[b][e.price][j].user = order.user
<1>1. TypeOK /\ BookInv /\ [Next]_vars => Kept
  <2> SUFFICES ASSUME TypeOK, BookInv, [Next]_vars, pc = "fill", events' # events
               PROVE  LET b == Opposite(BookOf(order.side))
                          e == events'[Len(events) + 1]
                      IN /\ \A p \in Prices : Better(b, p, e.price) =>
                              \A k \in DOMAIN book[b][p] : book[b][p][k].user = order.user
                         /\ \E k \in DOMAIN book[b][e.price] :
                              /\ book[b][e.price][k].id = e.id
                              /\ \A j \in 1..(k - 1) : book[b][e.price][j].user = order.user
    OBVIOUS
  <2>1. Fill /\ BookTypes /\ LoopTypes
    BY DEF Next, vars, TakeNewOrder, EnterLevel, BlockedByTick, EndOfBook, EndOfLevel, SkipOwnOrder,
       TakeCancel, TypeOK
  <2>2. PICK first \in Event, last \in Event :
          /\ first.id = book[Facing][at][idx].id /\ first.price = at
          /\ events' = events \o <<first>> \o (IF left' = 0 THEN <<last>> ELSE <<>>)
    BY <2>1, FillEvents
  <2>3. events'[Len(events) + 1] = first
    <3>1. events \in Seq(Event)
      BY DEF TypeOK
    <3>2. CASE left' = 0
      BY <2>2, <3>1, <3>2
    <3>3. CASE left' # 0
      BY <2>2, <3>1, <3>3
    <3>. QED BY <3>2, <3>3
  <2>4. /\ order \in NewOrder /\ order.price \in Prices /\ Facing \in Books /\ at \in Prices
        /\ idx \in DOMAIN book[Facing][at] /\ idx \in Nat
    <3>1. Facing \in Books /\ at \in Prices /\ idx \in DOMAIN book[Facing][at]
      BY <2>1, FillShape
    <3>. QED BY <2>1, <3>1, OrderTyped DEF LoopTypes, Adding
  <2>5. InLevel /\ OwnBehind
    BY DEF BookInv, MatchInv
  <2>6. ASSUME NEW p \in Prices, Better(Facing, p, at), NEW k \in DOMAIN book[Facing][p]
        PROVE  book[Facing][p][k].user = order.user
    <3>1. p \notin todo /\ p # at /\ Crosses(Facing, p, order.price)
      <4>1. p \in Nat /\ at \in Nat /\ order.price \in Nat
        BY <2>4, BoundsAssumption DEF Prices
      <4>2. Crosses(Facing, at, order.price) /\ \A r \in todo : ~Better(Facing, r, at)
        BY <2>5 DEF InLevel
      <4>3. p \notin todo
        BY <2>6, <4>2
      <4> HIDE DEF Prices
      <4>. QED BY <2>6, <4>1, <4>2, <4>3 DEF Better, Crosses
    <3>. QED BY <2>5, <3>1 DEF OwnBehind, Adding
  <2>7. \A j \in 1..(idx - 1) : book[Facing][at][j].user = order.user
    <3>1. \A k \in DOMAIN book[Facing][at] : k < idx => book[Facing][at][k].user = order.user
      BY <2>5 DEF InLevel
    <3> DEFINE n == Len(book[Facing][at])
    <3>2. DOMAIN book[Facing][at] = 1..n /\ n \in Nat
      BY <2>1, <2>4, NodeTyped
    <3> HIDE DEF n
    <3>. QED BY <2>4, <3>1, <3>2
  <2>. QED BY <2>2, <2>3, <2>4, <2>6, <2>7 DEF Facing
<1>. QED BY <1>1, InvariantHolds, PTL DEF Spec, PriceTimePriority

\* An order that the tick cannot stop is reported, with what is left of it,
\* whenever it met another: at the end of the loop or when it is filled.
THEOREM FillsReported == Spec => UnrestrictedFillsReported
<1> DEFINE Kept == EndsAdd /\ left' # order.qty /\ order.side \notin Restricted => Reported
<1>1. TypeOK /\ BookInv /\ [Next]_vars => Kept
  <2> SUFFICES ASSUME TypeOK, [Next]_vars, EndsAdd, left' # order.qty, order.side \notin Restricted
               PROVE  Reported
    OBVIOUS
  <2>1. events \in Seq(Event) /\ BookTypes /\ LoopTypes
    BY DEF TypeOK
  <2>2. Allowed(order.side)
    BY DEF Allowed, Restricted
  <2>3. EndOfBook \/ Fill
    BY <2>2 DEF Next, vars, EndsAdd, TakeNewOrder, EnterLevel, BlockedByTick, EndOfLevel, SkipOwnOrder,
       TakeCancel
  <2>4. CASE EndOfBook
    <3> DEFINE e == MainEvent(left, "PartiallyFilled")
    <3>1. left' = left /\ events' = Append(events, e)
      BY <2>4 DEF EndOfBook, loopVars
    <3>2. e.id = order.id /\ e.leaves = left
      BY DEF MainEvent
    <3> HIDE DEF e
    <3>3. Len(events) + 1 \in DOMAIN events' /\ events'[Len(events) + 1] = e
      BY <2>1, <3>1
    <3>. QED BY <3>1, <3>2, <3>3 DEF Reported
  <2>5. CASE Fill
    <3>1. left' = 0
      BY <2>5 DEF Fill, EndsAdd
    <3>2. PICK first \in Event, last \in Event :
            /\ last.id = order.id /\ last.leaves = 0
            /\ events' = events \o <<first>> \o <<last>>
      BY <2>1, <2>5, <3>1, FillEvents
    <3>3. Len(events) + 2 \in DOMAIN events' /\ events'[Len(events) + 2] = last
      BY <2>1, <3>2
    <3>. QED BY <3>1, <3>2, <3>3 DEF Reported
  <2>. QED BY <2>3, <2>4, <2>5
<1>. QED BY <1>1, InvariantHolds, PTL DEF Spec, UnrestrictedFillsReported
=============================================================================
