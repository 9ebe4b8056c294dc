----------------------------- MODULE OrderBook -----------------------------
(***************************************************************************)
(* The order book of one market, as the worker that holds the QueueMutex   *)
(* drives it: the price levels in price-time priority, the id map, the     *)
(* tick, and the events that become execution reports.  A new order is     *)
(* matched one resting order at a time (fillOrder), so that every state of *)
(* the loop of fillOnBook is a state of the model.                         *)
(*                                                                         *)
(* Average prices are left out: nothing in the book depends on them.       *)
(***************************************************************************)
EXTENDS Integers, FiniteSets, SequencesExt

CONSTANTS
  Orders,         \* what clients may submit: a set of NewOrder records
  OrderIds, Users,
  MaxPrice, MaxQty,
  MaxOrders,      \* bound: requests taken from the queues in a behaviour
  FreedReads      \* what reading an erased list or map node may give: TRUE it
                  \* still reads as it was, FALSE it does not

Books == {"bid", "ask"}
Prices == 1..MaxPrice
Sides == {"Buy", "BuyMinus", "Sell", "SellPlus"}
Restricted == {"BuyMinus", "SellPlus"}   \* sides subject to the tick

NewOrder == [id : OrderIds, user : Users, side : Sides, price : Prices, qty : 0..MaxQty]

\* A list node: what the rest of the book reads of struct Order.
Node == [id : OrderIds, user : Users, side : Sides, qty : 0..MaxQty]

\* An event for the OBEvent unit: the order filled, at which price, by how
\* much, and what is left of it.
Event == [id : OrderIds, price : Prices, last : 0..MaxQty, leaves : 0..MaxQty,
          status : {"Filled", "PartiallyFilled"}]

\* Before the first order: the loop variables of add() do not exist yet.
NoOrder == [id |-> "none", user |-> "none", side |-> "none", price |-> 0, qty |-> 0]

Ticks == {"Plus", "ZeroPlus", "Minus", "ZeroMinus"}

ASSUME OrdersAssumption == Orders \subseteq NewOrder
ASSUME BoundsAssumption == /\ MaxPrice \in Nat \ {0} /\ MaxQty \in Nat /\ MaxOrders \in Nat
ASSUME FreedAssumption == FreedReads \subseteq BOOLEAN /\ FreedReads # {}

VARIABLES
  book,    \* m_bid_book and m_ask_book: the nodes of each price level, oldest first
  levels,  \* the prices that have an entry in each map, never erased
  idmap,   \* m_bid_id and m_ask_id: id to price, 0 when the id is not there
  strays,  \* history: ids whose map entry a cancel misread after erasing it
  tick, lastPrice, lastDiff,   \* m_tick, m_lastprice, m_lastprice_diff
  pc,      \* "idle", "scan" between two price levels, "fill" inside one, "wrecked"
  order,   \* the order being added
  left,    \* main_event.order.remainQty
  trade,   \* price and quantity of its last fill (main_event.lastPrice, lastQty)
  todo,    \* levels of the opposite book the loop has not reached
  at, idx, \* level and index of the loops
  events,  \* pushed to the event queue by the current request
  taken,   \* number of requests taken, for MaxOrders
  move     \* history: "up" or "down", the last change of the traded price

tickVars == <<tick, lastPrice, lastDiff, move>>
loopVars == <<order, left, trade, todo, at, idx>>
bookVars == <<book, levels, idmap, strays>>
vars == <<bookVars, tickVars, pc, loopVars, events, taken>>

BookOf(side) == IF side \in {"Buy", "BuyMinus"} THEN "bid" ELSE "ask"
Opposite(b) == IF b = "bid" THEN "ask" ELSE "bid"

\* Faulty order of the levels: the lowest price first in both books.
BestLowest(b, ps) == CHOOSE p \in ps : \A q \in ps : p <= q

\* Best of a set of prices in a book: lowest ask, highest bid.
Best(b, ps) ==
  CHOOSE p \in ps : \A q \in ps : IF b = "ask" THEN p <= q ELSE p >= q

\* Faulty comparator: a strict one.
CrossesStrictly(b, p, limit) == IF b = "ask" THEN p < limit ELSE p > limit

\* An order of limit `limit` accepts price p of book b.
Crosses(b, p, limit) == IF b = "ask" THEN p <= limit ELSE p >= limit

\* has(): the id rests in either book.
Mapped(id) == \E b \in Books : idmap[b][id] # 0

-----------------------------------------------------------------------------
(* Tick *)

\* computeTick(): the direction of the last two prices, or when they are equal
\* the zero form of the direction before.
TickAfter(t, last, diff) ==
  IF last > diff THEN "Plus" ELSE IF last < diff THEN "Minus"
  ELSE IF t \in {"Plus", "ZeroPlus"} THEN "ZeroPlus" ELSE "ZeroMinus"

Recompute == /\ tick' = TickAfter(tick, lastPrice, lastDiff)
             /\ UNCHANGED <<lastPrice, lastDiff, move>>

\* allowTick(), which recomputes the tick first.
Allowed(side) ==
  LET t == TickAfter(tick, lastPrice, lastDiff)
  IN /\ side = "BuyMinus" => t \in {"Plus", "ZeroPlus"}
     /\ side = "SellPlus" => t \in {"Minus", "ZeroMinus"}

\* Faulty computeTick(_price): the two assignments swapped.
TradedAtSwapped(p) ==
  /\ lastPrice' = p
  /\ lastDiff' = p
  /\ tick' = TickAfter(tick, p, p)
  /\ move' = IF p > lastPrice THEN "up" ELSE IF p < lastPrice THEN "down" ELSE move

\* computeTick(_price), after a fill.
TradedAt(p) ==
  /\ lastDiff' = lastPrice
  /\ lastPrice' = p
  /\ tick' = TickAfter(tick, p, lastPrice)
  /\ move' = IF p > lastPrice THEN "up" ELSE IF p < lastPrice THEN "down" ELSE move

-----------------------------------------------------------------------------
(* NewOrder::orderProcessing and OrderBook::add *)

\* A tick reject or a duplicate ends the request, anything else is matched.
TakeNewOrder ==
  /\ pc = "idle" /\ taken < MaxOrders /\ taken' = taken + 1
  /\ Recompute
  /\ \E o \in Orders :
       IF ~Allowed(o.side) \/ Mapped(o.id)
       THEN UNCHANGED <<pc, loopVars>>
       ELSE /\ pc' = "scan"
            /\ order' = o /\ left' = o.qty
            /\ todo' = levels[Opposite(BookOf(o.side))]
            /\ UNCHANGED <<trade, at, idx>>
  /\ events' = <<>>
  /\ UNCHANGED bookVars

Level == Best(Opposite(BookOf(order.side)), todo)

CanCross == todo # {} /\ Crosses(Opposite(BookOf(order.side)), Level, order.price)

\* The next level is within the limit and the tick allows the side: an empty
\* level, which is never erased from the map, is checked like any other.
EnterLevel ==
  /\ pc = "scan" /\ CanCross /\ Allowed(order.side)
  /\ Recompute
  /\ pc' = "fill" /\ at' = Level /\ idx' = 1 /\ todo' = todo \ {Level}
  /\ UNCHANGED <<bookVars, order, left, trade, events, taken>>

\* Faulty addToBook: the whole quantity rests, not what is left of it.
AddToBookWhole(q) ==
  LET b == BookOf(order.side)
      node == [id |-> order.id, user |-> order.user, side |-> order.side, qty |-> order.qty]
  IN IF q = 0 THEN UNCHANGED bookVars
     ELSE /\ UNCHANGED strays
          /\ book' = [book EXCEPT ![b][order.price] = Append(@, node)]
          /\ levels' = [levels EXCEPT ![b] = @ \cup {order.price}]
          /\ idmap' = [idmap EXCEPT ![b][order.id] = order.price]

\* addToBook: what is left joins the end of its level, and its id the map.
AddToBook(q) ==
  LET b == BookOf(order.side)
      node == [id |-> order.id, user |-> order.user, side |-> order.side, qty |-> q]
  IN IF q = 0 THEN UNCHANGED bookVars
     ELSE /\ UNCHANGED strays
          /\ book' = [book EXCEPT ![b][order.price] = Append(@, node)]
          /\ levels' = [levels EXCEPT ![b] = @ \cup {order.price}]
          /\ idmap' = [idmap EXCEPT ![b][order.id] = order.price]

\* The tick forbids the side to go on: add() keeps what is left and the fills
\* made so far are not reported.
BlockedByTick ==
  /\ pc = "scan" /\ CanCross /\ ~Allowed(order.side)
  /\ Recompute
  /\ AddToBook(left)
  /\ pc' = "idle"
  /\ UNCHANGED <<loopVars, events, taken>>

\* Faulty report: the whole quantity is announced as left.
MainEventWhole(q, status) ==
  [id |-> order.id, price |-> trade.price, last |-> trade.qty, leaves |-> order.qty,
   status |-> status]

MainEvent(q, status) ==
  [id |-> order.id, price |-> trade.price, last |-> trade.qty, leaves |-> q, status |-> status]

\* No level left to try: the fills are reported and the rest joins the book.
EndOfBook ==
  /\ pc = "scan" /\ ~CanCross
  /\ events' = IF left # order.qty THEN Append(events, MainEvent(left, "PartiallyFilled"))
               ELSE events
  /\ AddToBook(left)
  /\ pc' = "idle"
  /\ UNCHANGED <<tickVars, loopVars, taken>>

EndOfLevel ==
  /\ pc = "fill" /\ idx > Len(book[Opposite(BookOf(order.side))][at])
  /\ pc' = "scan"
  /\ UNCHANGED <<bookVars, tickVars, loopVars, events, taken>>

\* fillOrder skips the orders of the same user.
SkipOwnOrder ==
  LET list == book[Opposite(BookOf(order.side))][at]
  IN /\ pc = "fill" /\ idx <= Len(list) /\ list[idx].user = order.user
     /\ idx' = idx + 1
     /\ UNCHANGED <<bookVars, tickVars, pc, order, left, trade, todo, at, events,
                    taken>>

\* Faulty quantity: the node is always filled whole.
FillQtyOfNode(node) == node.qty

FillQty(node) == IF node.qty <= left THEN node.qty ELSE left

\* fillOrder on a node of another user: both are reduced, the node's event is
\* pushed, a node left with nothing is erased and unmapped by the id read from
\* the erased node; the order itself is reported here only once it is filled.
Fill ==
  LET b == Opposite(BookOf(order.side))
      list == book[b][at]
      node == list[idx]
      q == FillQty(node)
      done == node.qty = q
      event == [id |-> node.id, price |-> at, last |-> q, leaves |-> node.qty - q,
                status |-> IF done THEN "Filled" ELSE "PartiallyFilled"]
  IN /\ pc = "fill" /\ idx <= Len(list) /\ node.user # order.user
     /\ left' = left - q
     /\ trade' = [price |-> at, qty |-> q]
     /\ book' = [book EXCEPT ![b][at] =
                   IF done THEN RemoveAt(list, idx)
                   ELSE [list EXCEPT ![idx].qty = node.qty - q]]
     /\ \E intact \in FreedReads :
          idmap' = IF done /\ intact THEN [idmap EXCEPT ![b][node.id] = 0] ELSE idmap
     /\ TradedAt(at)
     /\ events' = events \o <<event>> \o
          (IF left' = 0 THEN <<[MainEvent(0, "Filled") EXCEPT !.price = at, !.last = q]>>
           ELSE <<>>)
     /\ idx' = IF done THEN idx ELSE idx + 1
     /\ pc' = IF left' = 0 THEN "idle" ELSE "fill"
     /\ UNCHANGED <<levels, strays, order, todo, at, taken>>

-----------------------------------------------------------------------------
(* Cancel::orderProcessing and OrderBook::cancel *)

\* Where the node may be that an entry of the id map points to: at its place in
\* the level, or nowhere (0), erased and its memory freed, when the level has no
\* node of that id or may have one that a cancel left behind.
Pointed(b, id) ==
  LET list == book[b][idmap[b][id]]
      ks == {k \in DOMAIN list : list[k].id = id}
  IN IF ks = {} \/ id \in strays THEN ks \cup {0} ELSE ks

\* Faulty cancelOrder: it erases the first node of the level.
EraseFirst(b, p, k, intact) ==
  \/ /\ intact /\ k # 0
     /\ book' = [book EXCEPT ![b][p] = RemoveAt(@, 1)]
     /\ UNCHANGED pc
  \/ (intact => k = 0) /\ pc' = "wrecked" /\ UNCHANGED book
  \/ ~intact /\ UNCHANGED <<book, pc>>

\* cancelOrder, with the price and the iterator of a map entry that is already
\* erased.  Read as they were, they lead to the node: erasing one that is gone
\* corrupts the list.  Misread, they make at() throw or corrupt a list, or name
\* a node of another market, and this book keeps the order.
EraseNode(b, p, k, intact) ==
  \/ /\ intact /\ k # 0
     /\ book' = [book EXCEPT ![b][p] = RemoveAt(@, k)]
     /\ UNCHANGED pc
  \/ (intact => k = 0) /\ pc' = "wrecked" /\ UNCHANGED book
  \/ ~intact /\ UNCHANGED <<book, pc>>

\* An unknown id or another quantity is rejected; on a match the id leaves its
\* map, then the order its level.  The quantity of an erased node may match.
TakeCancel ==
  /\ pc = "idle" /\ taken < MaxOrders /\ taken' = taken + 1
  /\ events' = <<>>
  /\ \E b \in Books, id \in OrderIds, q \in 0..MaxQty :
       LET p == idmap[b][id]
       IN \/ /\ p # 0 => \E k \in Pointed(b, id) : k # 0 => book[b][p][k].qty # q
             /\ UNCHANGED <<book, idmap, strays, pc>>
          \/ /\ p # 0
             /\ idmap' = [idmap EXCEPT ![b][id] = 0]
             /\ \E k \in Pointed(b, id), intact \in FreedReads :
                  /\ k # 0 => book[b][p][k].qty = q
                  /\ EraseNode(b, p, k, intact)
                  /\ strays' = IF intact THEN strays ELSE strays \cup {id}
  /\ UNCHANGED <<levels, tickVars, loopVars>>

-----------------------------------------------------------------------------

Init ==
  /\ book = [b \in Books |-> [p \in Prices |-> <<>>]]
  /\ levels = [b \in Books |-> {}]
  /\ idmap = [b \in Books |-> [id \in OrderIds |-> 0]] /\ strays = {}
  /\ tick = "ZeroPlus" /\ lastPrice = 0 /\ lastDiff = 0 /\ move = "up"
  /\ pc = "idle"
  /\ order = NoOrder /\ left = 0 /\ trade = [price |-> 0, qty |-> 0]
  /\ todo = {} /\ at = 0 /\ idx = 0
  /\ events = <<>> /\ taken = 0

Next == TakeNewOrder \/ EnterLevel \/ BlockedByTick \/ EndOfBook \/ EndOfLevel
        \/ SkipOwnOrder \/ Fill \/ TakeCancel

Spec == Init /\ [][Next]_vars

-----------------------------------------------------------------------------
(* Properties *)

BookTypes ==
  /\ book \in [Books -> [Prices -> Seq(Node)]]
  /\ levels \in [Books -> SUBSET Prices]
  /\ idmap \in [Books -> [OrderIds -> 0..MaxPrice]] /\ strays \subseteq OrderIds
TickTypes ==
  /\ tick \in Ticks /\ lastPrice \in 0..MaxPrice /\ lastDiff \in 0..MaxPrice
  /\ move \in {"up", "down"}
LoopTypes ==
  /\ pc \in {"idle", "scan", "fill", "wrecked"}
  /\ order \in Orders \cup {NoOrder} /\ (pc \in {"scan", "fill"} => order \in Orders)
  /\ left \in 0..MaxQty /\ todo \subseteq Prices
  /\ trade \in [price : 0..MaxPrice, qty : 0..MaxQty]
  /\ at \in 0..MaxPrice /\ idx \in Nat /\ (pc = "fill" => at \in Prices /\ idx > 0)

\* Every variable has its type; quantities never fall below zero.
TypeOK == /\ BookTypes /\ TickTypes /\ LoopTypes
          /\ events \in Seq(Event) /\ taken \in 0..MaxOrders

\* Between two requests every resting order is found through the id map of its
\* book, under the price where it rests, and no second one of either book has
\* its id, so that a cancel tests and removes that order: but for ids whose map
\* entry a cancel misread.  Unless erased nodes are misread, the maps name
\* nothing else.
MapFindsTheOrder ==
  pc = "idle" =>
    \A id \in OrderIds :
      LET homes == {h \in Books \X Prices \X (1..MaxOrders) :
                      /\ h[3] \in DOMAIN book[h[1]][h[2]]
                      /\ book[h[1]][h[2]][h[3]].id = id}
      IN /\ id \notin strays => /\ Cardinality(homes) <= 1
                                /\ \A h \in homes : idmap[h[1]][id] = h[2]
         /\ \A b \in Books : FALSE \notin FreedReads /\ idmap[b][id] # 0 =>
                             \E h \in homes : h[1] = b

\* No bid rests at or above an ask, but for two orders of one user or an order
\* whose side the tick can block.
Uncrossed ==
  pc = "idle" =>
    \A p, q \in Prices : p >= q =>
      \A m \in DOMAIN book["bid"][p], n \in DOMAIN book["ask"][q] :
        \/ book["bid"][p][m].user = book["ask"][q][n].user
        \/ book["bid"][p][m].side \in Restricted
        \/ book["ask"][q][n].side \in Restricted

Better(b, p, q) == IF b = "ask" THEN p < q ELSE p > q

\* A resting order is filled only when every order that goes before it, by price
\* and then by time, is one of the incoming order's own user.
PriceTimePriority ==
  [][pc = "fill" /\ events' # events =>
       LET b == Opposite(BookOf(order.side))
           e == events'[Len(events) + 1]
       IN /\ \A p \in Prices : Better(b, p, e.price) =>
               \A k \in DOMAIN book[b][p] : book[b][p][k].user = order.user
          /\ \E k \in DOMAIN book[b][e.price] :
               /\ book[b][e.price][k].id = e.id
               /\ \A j \in 1..(k - 1) : book[b][e.price][j].user = order.user]_vars

EndsAdd == pc \in {"scan", "fill"} /\ pc' = "idle"

\* When add() returns, the fills reported to the resting orders account for the
\* whole quantity the new order lost, and what it lost or keeps is in the book.
\* An order whose id a cancel left behind is not told apart from its namesake.
FillsAddUp ==
  [][EndsAdd /\ order.id \notin strays =>
       LET sides == [e \in DOMAIN events' |-> IF events'[e].id = order.id THEN 0
                                              ELSE events'[e].last]
       IN /\ FoldSeq(+, 0, sides) = order.qty - left'
          /\ order.qty > 0 => \A e \in DOMAIN events' : events'[e].last > 0
          /\ left' > 0 => \E k \in DOMAIN book'[BookOf(order.side)][order.price] :
               LET node == book'[BookOf(order.side)][order.price][k]
               IN node.id = order.id /\ node.qty = left']_vars

Reported == \E e \in DOMAIN events' : events'[e].id = order.id /\ events'[e].leaves = left'

\* A new order that met others is reported, with what is left of it, unless the
\* tick may have stopped it.
UnrestrictedFillsReported ==
  [][EndsAdd /\ left' # order.qty /\ order.side \notin Restricted => Reported]_vars

\* The tick tells the direction of the last change of the traded price, however
\* often it is recomputed in between.
TickIsLastMove == tick \in {"Plus", "ZeroPlus"} <=> move = "up"
=============================================================================
