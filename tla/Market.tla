------------------------------- MODULE Market -------------------------------
(***************************************************************************)
(* One market of the server: the MarketRouter thread hands every order and *)
(* cancel request a ticket in the market's QueueMutex and forwards it to   *)
(* the NewOrder or the Cancel process unit.  Each unit has an input thread *)
(* (onInput, which validates and may give the ticket back) and a worker    *)
(* thread (orderProcessing, which takes the lock in ticket order and       *)
(* changes the order book).  Cancel's input thread also reads the book,    *)
(* outside the QueueMutex, while the workers change it.                    *)
(*                                                                         *)
(* A request is named by its arrival number: it stands for the execution   *)
(* id, a fresh uuid per request.  Prices are left out: which resting order *)
(* an incoming one meets is a free choice here, and decided in OrderBook.  *)
(***************************************************************************)
EXTENDS Integers, Sequences, FiniteSets

CONSTANTS
  Requests,       \* the requests clients may send: a set of Request records
  OrderIds,       \* client order ids (ClOrdID of orders, OrigClOrdID of cancels)
  MaxQty,         \* largest order quantity
  MaxRequests,    \* bound: requests received by the router in a behaviour
  FreedReads      \* what reading an erased list or map node may give: TRUE it
                  \* still reads as it was, FALSE it does not

Units == {"New", "Cancel"}
Books == {"bid", "ask"}
Sides == {"Buy", "BuyMinus", "Sell", "SellPlus"}

\* Supported sides map to a book; any other FIX side is "Unsupported".
BookOf(side) == IF side \in {"Buy", "BuyMinus"} THEN "bid" ELSE "ask"
Opposite(book) == IF book = "bid" THEN "ask" ELSE "bid"

\* fault: "unroutable" the router refuses it (unknown symbol, or a parse error,
\* whose session reject counts as a refusal of the same kind), "missing" Price or
\* OrderQty is absent, "ordtype" OrdType is not Limit.
Request == [unit : Units, fault : {"none", "unroutable", "missing", "ordtype"},
            id : OrderIds, side : Sides \cup {"Unsupported"}, qty : 1..MaxQty]

NoOrder == [side |-> "none", qty |-> 0]
Order == [side : Sides, qty : 0..MaxQty]

ReplyKinds == {"BusinessReject", "SideReject", "Unknown", "TooLate", "TickReject",
               "Duplicate", "New", "PendingCancel", "Canceled"}

ASSUME RequestsAssumption == Requests \subseteq Request
ASSUME BoundsAssumption == MaxRequests \in Nat /\ MaxQty \in Nat \ {0}
ASSUME FreedAssumption == FreedReads \subseteq BOOLEAN /\ FreedReads # {}

VARIABLES
  req,       \* requests received so far, in arrival order
  rpc,       \* MarketRouter: "idle", or "append" between allow() and append()
  tickets,   \* QueueMutex::m_queue
  locked,    \* QueueMutex::m_lock
  inbox,     \* the units' AInputProcess::m_input
  ipc, ival, \* the input threads: where they are, and the request in hand
  work,      \* the units' m_internal_queue
  wpc, cur,  \* the workers: where they are, and the request in hand
  left,      \* quantity the NewOrder worker still has to place
  note,      \* answer a worker still has to send, or the id it has to unmap
  rest,      \* resting orders: the list nodes of the bid and the ask book
  idmap,     \* ids in m_bid_id and m_ask_id
  strays,    \* history: ids whose map entry a cancel misread after erasing it
  readLock,  \* id map the Cancel input thread holds shared, or "none"
  replies,   \* replies given to each request, appended to the TCPOutput queue
  applied,   \* history: requests that took the lock, in that order
  open       \* history: id and side of the orders acknowledged that are not yet
             \* filled, and that no cancel has taken

routerVars == <<req, rpc>>
lockVars == <<tickets, locked>>
inputVars == <<inbox, ipc, ival>>
workerVars == <<work, wpc, cur, left, note>>
bookVars == <<rest, idmap, strays>>
vars == <<routerVars, lockVars, inputVars, workerVars, bookVars, readLock,
          replies, applied, open>>

-----------------------------------------------------------------------------
(* QueueMutex *)

LastAt(q, i) == CHOOSE k \in DOMAIN q :
                  q[k] = i /\ \A j \in DOMAIN q : j > k => q[j] # i

\* Faulty finish(): it erases from the ticket to the end of the queue.
FinishedToEnd(q, i) ==
  IF \E k \in DOMAIN q : q[k] = i THEN SubSeq(q, 1, LastAt(q, i) - 1) ELSE q

\* The queue finish(i) leaves: it drops the last occurrence of i, if any.
Finished(q, i) ==
  IF \E k \in DOMAIN q : q[k] = i
  THEN [j \in 1..(Len(q) - 1) |-> IF j < LastAt(q, i) THEN q[j] ELSE q[j + 1]]
  ELSE q

\* Faulty reject path: the ticket is not given back.
FinishForgotten(i) == UNCHANGED lockVars

Finish(i) == tickets' = Finished(tickets, i) /\ UNCHANGED locked

\* Faulty unlock(): the ticket stays in front.
UnlockKeepsTicket == locked' = FALSE /\ UNCHANGED tickets

\* unlock() pops the front ticket; pop_front() of an empty queue is undefined,
\* and no worker that holds the lock meets one (OrderInv).
Unlock == /\ locked' = FALSE
          /\ tickets' = IF tickets = <<>> THEN <<>> ELSE Tail(tickets)

\* Faulty reply: it opens an answer of its own.
ReplyElsewhere(i, kind) == replies' = Append(replies, <<kind>>)

Reply(i, kind) == replies' = [replies EXCEPT ![i] = Append(@, kind)]

-----------------------------------------------------------------------------
(* MarketRouter: onInput parses, draws an execution id and redirects. *)

\* An unknown symbol or a message that does not parse is answered at once;
\* otherwise the ticket is drawn before the request is forwarded.
RouterReceive ==
  /\ rpc = "idle" /\ Len(req) < MaxRequests
  /\ \E r \in Requests :
       /\ req' = Append(req, [body |-> r, known |-> <<r.id, r.side>> \in open])
       /\ IF r.fault = "unroutable"
          THEN /\ replies' = Append(replies, <<"BusinessReject">>)
               /\ UNCHANGED <<rpc, tickets>>
          ELSE /\ replies' = Append(replies, <<>>)
               /\ tickets' = Append(tickets, Len(req) + 1)
               /\ rpc' = "append"
  /\ UNCHANGED <<locked, inputVars, workerVars, bookVars, readLock, applied, open>>

RouterAppend ==
  /\ rpc = "append"
  /\ inbox' = [inbox EXCEPT ![req[Len(req)].body.unit] = Append(@, Len(req))]
  /\ rpc' = "idle"
  /\ UNCHANGED <<req, lockVars, ipc, ival, workerVars, bookVars, readLock,
                 replies, applied, open>>

-----------------------------------------------------------------------------
(* NewOrder::onInput *)

\* The BusinessRejects onInput sends: a missing field ends it, an unsupported
\* order type does not, so that an unsupported side is rejected on top of it.
Rejects(r) ==
  IF r.fault = "missing" THEN <<"BusinessReject">>
  ELSE (IF r.fault = "ordtype" THEN <<"BusinessReject">> ELSE <<>>)
       \o (IF r.side = "Unsupported" THEN <<"BusinessReject">> ELSE <<>>)

\* Every reject gives the ticket back; only a missing field or an unsupported
\* side ends the request there, everything else reaches the internal queue.
NewOrderOnInput ==
  LET i == Head(inbox["New"])
      r == req[i].body
  IN /\ inbox["New"] # <<>>
     /\ inbox' = [inbox EXCEPT !["New"] = Tail(@)]
     /\ IF Rejects(r) # <<>> THEN Finish(i) ELSE UNCHANGED lockVars
     /\ replies' = [replies EXCEPT ![i] = @ \o Rejects(r)]
     /\ work' = IF r.fault = "missing" \/ r.side = "Unsupported" THEN work
                ELSE [work EXCEPT !["New"] = Append(@, i)]
     /\ UNCHANGED <<routerVars, ipc, ival, wpc, cur, left, note, bookVars,
                    readLock, applied, open>>

-----------------------------------------------------------------------------
(* Cancel::onInput *)

InMap(id, side) == id \in idmap[BookOf(side)]

\* The values getOrder() may return through the iterator of the id map: the
\* node's, or anything when the node is already erased from its list.
Nodes(id) ==
  LET b == IF id \in idmap["bid"] THEN "bid" ELSE "ask"
  IN IF rest[b][id] # NoOrder THEN {rest[b][id]} ELSE Order

\* The unit is waiting for a request: it pops one, refuses a missing quantity,
\* throws on an unsupported side, and looks the order up holding the id map of
\* the OTHER side shared (lockReadOrder).
CancelOnInput ==
  LET i == Head(inbox["Cancel"])
      r == req[i].body
  IN /\ ipc = "idle" /\ inbox["Cancel"] # <<>>
     /\ inbox' = [inbox EXCEPT !["Cancel"] = Tail(@)]
     /\ \/ /\ r.fault = "missing"
           /\ Finish(i) /\ Reply(i, "BusinessReject")
           /\ UNCHANGED <<ipc, ival, readLock>>
        \/ /\ r.fault # "missing" /\ r.side = "Unsupported"
           /\ ipc' = "dead" /\ ival' = i
           /\ UNCHANGED <<lockVars, readLock, replies>>
        \/ /\ r.fault # "missing" /\ r.side # "Unsupported" /\ ~InMap(r.id, r.side)
           /\ Finish(i) /\ Reply(i, "Unknown")
           /\ UNCHANGED <<ipc, ival, readLock>>
        \/ /\ r.fault # "missing" /\ r.side # "Unsupported" /\ InMap(r.id, r.side)
           /\ ipc' = "get" /\ ival' = i /\ readLock' = Opposite(BookOf(r.side))
           /\ UNCHANGED <<lockVars, replies>>
     /\ UNCHANGED <<routerVars, workerVars, bookVars, applied, open>>

\* getOrder(): when a worker unmapped the id since the test, at() throws, the
\* unit dies and its shared lock is never released.
CancelGetOrder ==
  LET r == req[ival].body
  IN /\ ipc = "get"
     /\ \/ /\ r.id \notin idmap["bid"] \cup idmap["ask"]
           /\ ipc' = "dead"
           /\ UNCHANGED <<lockVars, ival, readLock, replies>>
        \/ /\ r.id \in idmap["bid"] \cup idmap["ask"]
           /\ readLock' = "none"
           /\ \E o \in Nodes(r.id) :
                IF o.side # r.side
                THEN /\ Finish(ival) /\ Reply(ival, "SideReject")
                     /\ ipc' = "idle" /\ ival' = 0
                ELSE /\ ipc' = "push"
                     /\ UNCHANGED <<lockVars, ival, replies>>
     /\ UNCHANGED <<routerVars, inbox, workerVars, bookVars, applied, open>>

\* The request goes to the worker, acknowledged with PendingCancel when
\* something is ahead of it.
CancelPush ==
  /\ ipc = "push"
  /\ IF work["Cancel"] # <<>> \/ tickets = <<>> \/ Head(tickets) # ival
     THEN Reply(ival, "PendingCancel") ELSE UNCHANGED replies
  /\ work' = [work EXCEPT !["Cancel"] = Append(@, ival)]
  /\ ipc' = "idle" /\ ival' = 0
  /\ UNCHANGED <<routerVars, lockVars, inbox, wpc, cur, left, note, bookVars,
                 readLock, applied, open>>

-----------------------------------------------------------------------------
(* orderProcessing of both units: pop, then QueueMutex::lock *)

GoTo(u, pc) == wpc' = [wpc EXCEPT ![u] = pc]

WorkerPop(u) ==
  /\ wpc[u] = "idle" /\ work[u] # <<>>
  /\ work' = [work EXCEPT ![u] = Tail(@)]
  /\ cur' = [cur EXCEPT ![u] = Head(work[u])]
  /\ GoTo(u, "empty")
  /\ UNCHANGED <<routerVars, lockVars, inputVars, left, note, bookVars, readLock,
                 replies, applied, open>>

\* Faulty lock(): it waits for the flag only.
LockSpinAnyTicket(u) ==
  /\ \/ wpc[u] = "empty" /\ GoTo(u, IF tickets = <<>> THEN "empty" ELSE "flag")
     \/ wpc[u] = "flag" /\ GoTo(u, IF locked THEN "empty" ELSE "set")
  /\ UNCHANGED <<routerVars, lockVars, inputVars, work, cur, left, note, bookVars,
                 readLock, replies, applied, open>>

\* The spin loop evaluates empty(), front() != id and m_lock one after the
\* other, each on its own; the flag is set in a later step still.  front() of
\* an empty queue is undefined: the comparison fails or the thread dies.
LockSpin(u) ==
  /\ \/ wpc[u] = "empty" /\ GoTo(u, IF tickets = <<>> THEN "empty" ELSE "front")
     \/ wpc[u] = "front" /\ tickets = <<>>
        /\ \E pc \in {"empty", "dead"} : GoTo(u, pc)
     \/ wpc[u] = "front" /\ tickets # <<>>
        /\ GoTo(u, IF Head(tickets) # cur[u] THEN "empty" ELSE "flag")
     \/ wpc[u] = "flag" /\ GoTo(u, IF locked THEN "empty" ELSE "set")
  /\ UNCHANGED <<routerVars, lockVars, inputVars, work, cur, left, note, bookVars,
                 readLock, replies, applied, open>>

LockSet(u) ==
  /\ wpc[u] = "set"
  /\ locked' = TRUE
  /\ GoTo(u, "cs")
  /\ applied' = Append(applied, cur[u])
  /\ UNCHANGED <<routerVars, tickets, inputVars, work, cur, left, note, bookVars,
                 readLock, replies, open>>

\* unlock() comes before the answer of a rejected order and of every cancel.
UnlockThenReport(u, kind) ==
  /\ Unlock
  /\ GoTo(u, "report")
  /\ note' = [note EXCEPT ![u] = kind]

WorkerReport(u) ==
  /\ wpc[u] = "report"
  /\ Reply(cur[u], note[u])
  /\ GoTo(u, "idle")
  /\ cur' = [cur EXCEPT ![u] = 0]
  /\ note' = [note EXCEPT ![u] = "none"]
  /\ UNCHANGED <<routerVars, lockVars, inputVars, work, left, bookVars, readLock,
                 applied, open>>

-----------------------------------------------------------------------------
(* NewOrder::orderProcessing, holding the lock *)

\* The order is refused for its tick or for its id, or acknowledged; the
\* acknowledgement leaves before the order is in the book.
NewOrderCheck ==
  LET r == req[cur["New"]].body
  IN /\ wpc["New"] = "cs"
     /\ \/ /\ r.side \in {"BuyMinus", "SellPlus"}
           /\ UnlockThenReport("New", "TickReject")
           /\ UNCHANGED <<left, replies, open>>
        \/ /\ r.id \in idmap["bid"] \cup idmap["ask"]
           /\ UnlockThenReport("New", "Duplicate")
           /\ UNCHANGED <<left, replies, open>>
        \/ /\ r.id \notin idmap["bid"] \cup idmap["ask"]
           /\ Reply(cur["New"], "New")
           /\ GoTo("New", "fill")
           /\ left' = r.qty
           /\ open' = open \cup {<<r.id, r.side>>}
           /\ UNCHANGED <<lockVars, note>>
     /\ UNCHANGED <<routerVars, inputVars, work, cur, bookVars, readLock, applied>>

\* fillOnBook meets one resting order of the opposite book (fillOrder); a
\* filled one leaves its list, and its id leaves the map in a later step.
NewOrderFill ==
  LET r == req[cur["New"]].body
      b == Opposite(BookOf(r.side))
  IN /\ wpc["New"] = "fill" /\ left > 0
     /\ \E o \in OrderIds :
          LET q == rest[b][o].qty
              full == q <= left
          IN /\ rest[b][o] # NoOrder
             /\ left' = IF full THEN left - q ELSE 0
             /\ rest' = [rest EXCEPT ![b][o] =
                           IF full THEN NoOrder ELSE [@ EXCEPT !.qty = q - left]]
             /\ note' = IF full THEN [note EXCEPT !["New"] = o] ELSE note
             /\ GoTo("New", IF full THEN "unmap" ELSE "fill")
             /\ open' = open \ ((IF full THEN {<<o, rest[b][o].side>>} ELSE {}) \cup
                                (IF left' = 0 THEN {<<r.id, r.side>>} ELSE {}))
     /\ UNCHANGED <<routerVars, lockVars, inputVars, work, cur, idmap, strays,
                    readLock, replies, applied>>

\* removeFromIdMap(order.orderId) reads the id of the node just erased.
NewOrderUnmap ==
  LET b == Opposite(BookOf(req[cur["New"]].body.side))
  IN /\ wpc["New"] = "unmap" /\ readLock # b
     /\ \E intact \in FreedReads :
          idmap' = IF intact THEN [idmap EXCEPT ![b] = @ \ {note["New"]}] ELSE idmap
     /\ note' = [note EXCEPT !["New"] = "none"]
     /\ GoTo("New", "fill")
     /\ UNCHANGED <<routerVars, lockVars, inputVars, work, cur, left, rest, strays,
                    readLock, replies, applied, open>>

\* addToBook: what is left of the order joins its price level ...
NewOrderRest ==
  LET r == req[cur["New"]].body
  IN /\ wpc["New"] = "fill" /\ left > 0
     /\ rest' = [rest EXCEPT ![BookOf(r.side)][r.id] = [side |-> r.side, qty |-> left]]
     /\ left' = 0
     /\ GoTo("New", "map")
     /\ UNCHANGED <<routerVars, lockVars, inputVars, work, cur, note, idmap, strays,
                    readLock, replies, applied, open>>

\* Faulty addToBook: the id joins the map of the other side.
NewOrderMapOtherSide ==
  LET r == req[cur["New"]].body
  IN /\ wpc["New"] = "map" /\ readLock # BookOf(r.side)
     /\ idmap' = [idmap EXCEPT ![Opposite(BookOf(r.side))] = @ \cup {r.id}]
     /\ GoTo("New", "done")
     /\ UNCHANGED <<routerVars, lockVars, inputVars, work, cur, left, note, rest,
                    strays, readLock, replies, applied, open>>

\* ... and its id the map.
NewOrderMap ==
  LET r == req[cur["New"]].body
  IN /\ wpc["New"] = "map" /\ readLock # BookOf(r.side)
     /\ idmap' = [idmap EXCEPT ![BookOf(r.side)] = @ \cup {r.id}]
     /\ GoTo("New", "done")
     /\ UNCHANGED <<routerVars, lockVars, inputVars, work, cur, left, note, rest,
                    strays, readLock, replies, applied, open>>

NewOrderUnlock ==
  /\ wpc["New"] = "done" \/ (wpc["New"] = "fill" /\ left = 0)
  /\ Unlock
  /\ GoTo("New", "idle")
  /\ cur' = [cur EXCEPT !["New"] = 0]
  /\ UNCHANGED <<routerVars, inputVars, work, left, note, bookVars, readLock,
                 replies, applied, open>>

-----------------------------------------------------------------------------
(* Cancel::orderProcessing, holding the lock *)

\* Faulty check: the quantity is not compared.
CancelCheckAnyQuantity ==
  LET r == req[cur["Cancel"]].body
      b == BookOf(r.side)
  IN /\ wpc["Cancel"] = "cs"
     /\ IF InMap(r.id, r.side)
        THEN /\ readLock # b
             /\ idmap' = [idmap EXCEPT ![b] = @ \ {r.id}]
             /\ GoTo("Cancel", "erase")
             /\ UNCHANGED <<lockVars, note>>
        ELSE UnlockThenReport("Cancel", "TooLate") /\ UNCHANGED idmap
     /\ UNCHANGED <<routerVars, inputVars, work, cur, left, rest, strays, readLock,
                    replies, applied, open>>

\* verifyOrderStateWithLock: the order is gone, or its quantity differs, or
\* its id leaves the map.
CancelCheck ==
  LET r == req[cur["Cancel"]].body
      b == BookOf(r.side)
  IN /\ wpc["Cancel"] = "cs"
     /\ \/ /\ \/ ~InMap(r.id, r.side)
              \/ InMap(r.id, r.side) /\ \E o \in Nodes(r.id) : o.qty # r.qty
           /\ UnlockThenReport("Cancel", "TooLate")
           /\ UNCHANGED <<idmap, open>>
        \/ /\ InMap(r.id, r.side) /\ \E o \in Nodes(r.id) : o.qty = r.qty
           /\ readLock # b
           /\ idmap' = [idmap EXCEPT ![b] = @ \ {r.id}]
           /\ open' = open \ {<<r.id, s>> : s \in Sides}
           /\ GoTo("Cancel", "erase")
           /\ UNCHANGED <<lockVars, note>>
     /\ UNCHANGED <<routerVars, inputVars, work, cur, left, rest, strays, readLock,
                    replies, applied>>

\* cancelOrder reads the price and the iterator of the map entry that
\* removeFromIdMap has just erased.  As they were, they lead to the list node,
\* unless that one is gone too: erasing it again corrupts the list and ends the
\* thread.  Misread, they make at() throw or corrupt a list, or name a node of
\* another market: the cancel is reported and its order stays.
CancelErase ==
  LET r == req[cur["Cancel"]].body
      b == BookOf(r.side)
  IN /\ wpc["Cancel"] = "erase"
     /\ \E intact \in FreedReads :
          /\ strays' = IF intact THEN strays ELSE strays \cup {r.id}
          /\ \/ /\ intact /\ rest[b][r.id] # NoOrder
                /\ rest' = [rest EXCEPT ![b][r.id] = NoOrder]
                /\ UnlockThenReport("Cancel", "Canceled")
             \/ /\ intact => rest[b][r.id] = NoOrder
                /\ GoTo("Cancel", "wrecked")
                /\ UNCHANGED <<lockVars, note, rest>>
             \/ ~intact /\ UNCHANGED rest /\ UnlockThenReport("Cancel", "Canceled")
     /\ UNCHANGED <<routerVars, inputVars, work, cur, left, idmap, readLock, replies,
                    applied, open>>

-----------------------------------------------------------------------------

Init ==
  /\ req = <<>> /\ rpc = "idle"
  /\ tickets = <<>> /\ locked = FALSE
  /\ inbox = [u \in Units |-> <<>>] /\ ipc = "idle" /\ ival = 0
  /\ work = [u \in Units |-> <<>>]
  /\ wpc = [u \in Units |-> "idle"] /\ cur = [u \in Units |-> 0]
  /\ left = 0 /\ note = [u \in Units |-> "none"]
  /\ rest = [b \in Books |-> [o \in OrderIds |-> NoOrder]]
  /\ idmap = [b \in Books |-> {}] /\ strays = {}
  /\ readLock = "none"
  /\ replies = <<>> /\ applied = <<>> /\ open = {}

CancelInput == CancelOnInput \/ CancelGetOrder \/ CancelPush

NewOrderHolds == NewOrderCheck \/ NewOrderFill \/ NewOrderUnmap \/ NewOrderRest
                 \/ NewOrderMap \/ NewOrderUnlock

CancelHolds == CancelCheck \/ CancelErase

Worker(u) == WorkerPop(u) \/ LockSpin(u) \/ LockSet(u) \/ WorkerReport(u)
             \/ (u = "New" /\ NewOrderHolds) \/ (u = "Cancel" /\ CancelHolds)

Next == RouterReceive \/ RouterAppend \/ NewOrderOnInput \/ CancelInput
        \/ \E u \in Units : Worker(u)

Spec == Init /\ [][Next]_vars

\* Every thread is scheduled: the input threads poll every 100 ms and the
\* workers and lock() spin.  Clients need not send anything.
Fairness == /\ WF_vars(RouterAppend)
            /\ WF_vars(NewOrderOnInput) /\ WF_vars(CancelInput)
            /\ \A u \in Units : WF_vars(Worker(u))

FairSpec == Spec /\ Fairness

-----------------------------------------------------------------------------
(* Properties *)

\* Program points of a worker that holds the QueueMutex.
HoldsLock == {"cs", "fill", "unmap", "map", "done", "erase", "wrecked"}
WorkerPoints == HoldsLock \cup {"idle", "empty", "front", "flag", "set", "report", "dead"}

RouterTypes == req \in Seq([body : Requests, known : BOOLEAN]) /\ rpc \in {"idle", "append"}
LockTypes == tickets \in Seq(Nat) /\ locked \in BOOLEAN
InputTypes == /\ inbox \in [Units -> Seq(Nat)]
              /\ ipc \in {"idle", "get", "push", "dead"} /\ ival \in Nat
WorkerTypes == /\ work \in [Units -> Seq(Nat)]
               /\ wpc \in [Units -> WorkerPoints] /\ cur \in [Units -> Nat]
               /\ left \in 0..MaxQty
NoteTypes == /\ note \in [Units -> ReplyKinds \cup OrderIds \cup {"none"}]
             /\ \A u \in Units : wpc[u] = "report" => note[u] \in ReplyKinds
BookTypes == /\ rest \in [Books -> [OrderIds -> Order \cup {NoOrder}]]
             /\ idmap \in [Books -> SUBSET OrderIds] /\ strays \subseteq OrderIds
             /\ readLock \in Books \cup {"none"}
ReplyTypes == replies \in Seq(Seq(ReplyKinds)) /\ Len(replies) = Len(req)
HistoryTypes == applied \in Seq(Nat) /\ open \subseteq OrderIds \X Sides

\* Every variable has its type; a request has one sequence of replies.
TypeOK == /\ RouterTypes /\ LockTypes /\ InputTypes /\ WorkerTypes /\ NoteTypes
          /\ BookTypes /\ ReplyTypes /\ HistoryTypes

\* The book is changed by one worker at a time, although lock() tests the
\* queue and the flag in separate steps and sets the flag in another one.
MutualExclusion ==
  \A u, v \in Units : wpc[u] \in HoldsLock /\ wpc[v] \in HoldsLock => u = v

\* The two workers apply requests to the book in the order the MarketRouter
\* received them, whatever their units' queues and threads do in between.
InArrivalOrder ==
  \A j, k \in DOMAIN applied : j < k => applied[j] < applied[k]

\* No unit crashed, and no unsupported order type was let through.
Healthy ==
  /\ ipc # "dead" /\ \A u \in Units : wpc[u] \notin {"dead", "wrecked"}
  /\ \A i \in DOMAIN req : req[i].body.fault # "ordtype"

InHand(i) ==
  \/ rpc = "append" /\ i = Len(req)
  \/ ival = i
  \/ \E u \in Units :
       \/ \E k \in DOMAIN inbox[u] : inbox[u][k] = i
       \/ \E k \in DOMAIN work[u] : work[u][k] = i
       \/ cur[u] = i

\* Every path that gives up on a request gives its ticket back: a ticket whose
\* request no thread will ever serve blocks the whole market.
NoOrphanTicket ==
  Healthy => \A k \in DOMAIN tickets : InHand(tickets[k])

\* Neither a spinning lock() nor Cancel's input thread, which compares its ticket
\* with the first one, reads front() of an empty queue, which is undefined: the
\* reader's own ticket stays in the queue meanwhile.
NoFrontOfEmpty ==
  Healthy => /\ \A u \in Units : wpc[u] = "front" => tickets # <<>>
             /\ ipc = "push" => tickets # <<>>

TwiceRejected(r) == r.unit = "New" /\ r.fault = "ordtype" /\ r.side = "Unsupported"

\* A client is told one outcome of a request at most, but for an order whose type
\* and whose side are unsupported: it is rejected for each.
OneOutcome ==
  \A i \in DOMAIN replies : ~TwiceRejected(req[i].body) =>
    Cardinality({k \in DOMAIN replies[i] : replies[i][k] # "PendingCancel"}) <= 1

\* While nobody changes the book every resting order is found through the id
\* map, so that it can be cancelled and its id is refused to a new order, but
\* for one that was reported canceled; and unless erased nodes are misread, the
\* map names nothing else.
MapFindsTheBook ==
  (\A u \in Units : wpc[u] \notin HoldsLock) =>
    \A b \in Books :
      LET ids == {o \in OrderIds : rest[b][o] # NoOrder}
      IN /\ ids \subseteq idmap[b] \cup strays
         /\ FALSE \notin FreedReads => ids = idmap[b]

\* A cancel that is to be reported done has removed the order it names, with the
\* quantity its client asked for, and no other: nothing is filled or placed
\* between the test under the lock and the removal.  But for a misread of the
\* erased map entry, after which the book is as it was.
CancelTakesTheAskedQuantity ==
  [][wpc["Cancel"] = "erase" /\ wpc'["Cancel"] = "report" =>
       LET r == req[cur["Cancel"]].body
           b == BookOf(r.side)
       IN \/ /\ rest[b][r.id] # NoOrder /\ rest[b][r.id].qty = r.qty
             /\ rest' = [rest EXCEPT ![b][r.id] = NoOrder]
          \/ rest' = rest /\ r.id \in strays']_vars

Answered(i) == i \in DOMAIN replies /\ \E k \in DOMAIN replies[i] :
                                         replies[i][k] # "PendingCancel"

\* Every request gets its outcome, as long as no unit crashes and no order of an
\* unsupported type is sent.
EveryRequestAnswered ==
  []Healthy => \A i \in 1..MaxRequests : (i \in DOMAIN req) ~> Answered(i)

\* A cancel sent after its order was acknowledged, naming the side of that
\* order, is not told that the order is unknown while it is still open.
NoUnknownAfterAck ==
  [][\A i \in DOMAIN replies :
       (req[i].known /\ replies'[i] # replies[i] /\ replies'[i] = <<"Unknown">>)
         => <<req[i].body.id, req[i].body.side>> \notin open]_vars

\* An accepted limit order is acknowledged or refused, whatever was sent to
\* the market before it.
LimitOrderAnswered ==
  \A i \in 1..MaxRequests :
    (i \in DOMAIN req /\ req[i].body.unit = "New" /\ req[i].body.fault = "none")
      ~> Answered(i)

-----------------------------------------------------------------------------
(* The inductive invariant behind MutualExclusion and InArrivalOrder: requests *)
(* keep their arrival order in every queue they pass through, so that the      *)
(* first ticket names one request, in the hands of one thread.                 *)

Increasing(s) == \A j, k \in DOMAIN s : j < k => s[j] < s[k]
AllBelow(s, t) == \A j \in DOMAIN s, k \in DOMAIN t : s[j] < t[k]

\* Tickets are drawn in arrival order, and finish() keeps them in order.
TicketsOrdered ==
  /\ Increasing(tickets)
  /\ \A k \in DOMAIN tickets : tickets[k] \in 1..Len(req)

\* Request i has been received, was sent to unit u and can be worked on by it.
Belongs(i, u) == i \in 1..Len(req) /\ req[i].body.unit = u
Workable(i, u) == Belongs(i, u) /\ req[i].body.side \in Sides

\* What a unit still has to look at, then what waits for its worker, then what
\* its worker has in hand: each older than the one before.
InboxOrdered(u) ==
  /\ Increasing(inbox[u])
  /\ \A k \in DOMAIN inbox[u] : Belongs(inbox[u][k], u)
  /\ rpc = "append" => Len(req) > 0 /\ \A k \in DOMAIN inbox[u] : inbox[u][k] < Len(req)

InputOrdered ==
  ipc # "idle" =>
    /\ Belongs(ival, "Cancel")
    /\ ipc \in {"get", "push"} => req[ival].body.side \in Sides
    /\ \A k \in DOMAIN inbox["Cancel"] : ival < inbox["Cancel"][k]
    /\ \A k \in DOMAIN work["Cancel"] : work["Cancel"][k] < ival
    /\ rpc = "append" => ival < Len(req)

WorkOrdered(u) ==
  /\ Increasing(work[u]) /\ AllBelow(work[u], inbox[u])
  /\ \A k \in DOMAIN work[u] : Workable(work[u][k], u)
  /\ rpc = "append" => \A k \in DOMAIN work[u] : work[u][k] < Len(req)

CurOrdered(u) ==
  wpc[u] # "idle" =>
    /\ Workable(cur[u], u)
    /\ \A k \in DOMAIN work[u] : cur[u] < work[u][k]
    /\ \A k \in DOMAIN inbox[u] : cur[u] < inbox[u][k]
    /\ u = "Cancel" /\ ipc # "idle" => cur[u] < ival
    /\ rpc = "append" => cur[u] < Len(req)

\* From the moment lock() has seen its ticket first, the ticket stays first.
FirstServed(u) ==
  wpc[u] \in HoldsLock \cup {"flag", "set"} =>
    tickets # <<>> /\ Head(tickets) = cur[u]

\* m_lock says exactly whether a worker holds the mutex.
FlagMeansHeld == locked <=> \E u \in Units : wpc[u] \in HoldsLock

\* Everything served is older than everything that waits, but for the request
\* being served.
ServedBefore ==
  /\ Increasing(applied)
  /\ \A j \in DOMAIN applied, k \in DOMAIN tickets :
       IF locked /\ k = 1 THEN applied[j] <= tickets[k] ELSE applied[j] < tickets[k]
  /\ \A j \in DOMAIN applied : applied[j] \in 1..Len(req)

QueueInv == InputOrdered /\ \A u \in Units : InboxOrdered(u) /\ WorkOrdered(u) /\ CurOrdered(u)

LockInv == TicketsOrdered /\ (\A u \in Units : FirstServed(u)) /\ FlagMeansHeld /\ ServedBefore

\* Requests keep their arrival order in every queue and under the lock.
OrderInv == QueueInv /\ LockInv

\* The request whose worker holds the QueueMutex.
Holder ==
  IF \E u \in Units : wpc[u] \in HoldsLock
  THEN cur[CHOOSE u \in Units : wpc[u] \in HoldsLock] ELSE 0

Ticket == INSTANCE TicketLock WITH
            arrived <- Len(req), queue <- tickets, holder <- Holder, served <- applied

\* QueueMutex, as router, units and workers use it step by step, gives the book
\* to the requests as TicketLock promises.
ImplementsTicketLock == Ticket!Spec
=============================================================================
