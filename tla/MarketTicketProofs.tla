------------------------- MODULE MarketTicketProofs -------------------------
(***************************************************************************)
(* Proofs about Market: where a request is, whether it still has a ticket, *)
(* and what its client has been told.                                      *)
(***************************************************************************)
EXTENDS MarketBookProofs, FiniteSetTheorems

-----------------------------------------------------------------------------
(* Queues as sets *)

InQueue(q, i) == \E k \in DOMAIN q : q[k] = i

\* Appending adds one request ...
LEMMA AppendedTo ==
  ASSUME NEW q \in Seq(Nat), NEW i \in Nat
  PROVE  \A j : InQueue(Append(q, i), j) <=> InQueue(q, j) \/ j = i
<1> DEFINE n == Len(q)
           s == Append(q, i)
<1>1. n \in Nat /\ DOMAIN q = 1..n /\ DOMAIN s = 1..(n + 1) /\ s[n + 1] = i /\ \A k \in 1..n : s[k] = q[k]
  OBVIOUS
<1> HIDE DEF n, s
<1>2. \A k \in 1..(n + 1) : k \in 1..n \/ k = n + 1
  BY <1>1
<1>3. (\A k \in 1..n : k \in 1..(n + 1)) /\ n + 1 \in 1..(n + 1)
  BY <1>1
<1>4. \A j : InQueue(s, j) <=> InQueue(q, j) \/ j = i
  BY <1>1, <1>2, <1>3 DEF InQueue
<1>. QED BY <1>4 DEF s

\* ... taking the head of an ordered queue removes one ...
LEMMA TakenFrom ==
  ASSUME NEW q \in Seq(Nat), q # <<>>, Increasing(q)
  PROVE  /\ Head(q) \in Nat /\ InQueue(q, Head(q))
         /\ \A j : InQueue(Tail(q), j) <=> InQueue(q, j) /\ j # Head(q)
<1>1. \A k \in DOMAIN Tail(q) : k + 1 \in DOMAIN q /\ Tail(q)[k] = q[k + 1] /\ Tail(q)[k] > Head(q)
  BY TailShape
<1>2. Head(q) \in Nat /\ 1 \in DOMAIN q /\ q[1] = Head(q)
  OBVIOUS
<1>3. \A k \in DOMAIN q : k # 1 => k - 1 \in DOMAIN Tail(q) /\ Tail(q)[k - 1] = q[k]
  OBVIOUS
<1>4. \A k \in DOMAIN Tail(q) : Tail(q)[k] \in Nat
  OBVIOUS
<1>5. ASSUME NEW j PROVE InQueue(Tail(q), j) <=> InQueue(q, j) /\ j # Head(q)
  <2>1. ASSUME NEW k \in DOMAIN Tail(q), Tail(q)[k] = j PROVE InQueue(q, j) /\ j # Head(q)
    <3>1. Tail(q)[k] # Head(q)
      <4> DEFINE x == Tail(q)[k]
      <4>1. x \in Nat /\ x > Head(q)
        BY <1>1, <1>4
      <4> HIDE DEF x
      <4>2. x # Head(q)
        BY <1>2, <4>1
      <4>. QED BY <4>2 DEF x
    <3>. QED BY <1>1, <2>1, <3>1 DEF InQueue
  <2>. QED BY <1>2, <1>3, <2>1 DEF InQueue
<1>. QED BY <1>2, <1>5 DEF InQueue

\* ... and finish() removes the one it names.
LEMMA FinishedFrom ==
  ASSUME NEW q \in Seq(Nat), NEW i \in Nat, Increasing(q)
  PROVE  \A j : InQueue(Finished(q, i), j) <=> InQueue(q, j) /\ j # i
<1>1. CASE ~InQueue(q, i)
  BY <1>1 DEF Finished, InQueue
<1>2. CASE InQueue(q, i)
  <2>1. PICK p \in DOMAIN q : q[p] = i
    BY <1>2 DEF InQueue
  <2> DEFINE n == Len(q)
             l == LastAt(q, i)
             g == [j \in 1..(n - 1) |-> IF j < l THEN q[j] ELSE q[j + 1]]
  <2>2. n \in Nat /\ DOMAIN q = 1..n /\ \A k \in 1..n : q[k] \in Nat
    OBVIOUS
  <2>3. \A j, k \in 1..n : q[j] = q[k] => j = k
    <3>1. \A j, k \in 1..n : j < k => q[j] < q[k]
      BY <2>2 DEF Increasing
    <3> HIDE DEF n
    <3>2. \A j, k \in 1..n : j # k => j < k \/ k < j
      BY <2>2
    <3>3. \A j, k \in 1..n : j < k => q[j] # q[k]
      BY <2>2, <3>1
    <3>. QED BY <3>2, <3>3
  <2>4. l \in 1..n /\ q[l] = i
    <3>1. \A j \in DOMAIN q : j > p => q[j] # i
      BY <2>1 DEF Increasing
    <3>. QED BY <2>1, <3>1, <2>2 DEF LastAt
  <2>5. Finished(q, i) = g
    BY <1>2 DEF Finished, InQueue
  <2> HIDE DEF l, n
  <2>6. \A k \in 1..(n - 1) : \E m \in 1..n : m # l /\ g[k] = q[m]
    <3> SUFFICES ASSUME NEW k \in 1..(n - 1) PROVE \E m \in 1..n : m # l /\ g[k] = q[m]
      OBVIOUS
    <3>1. CASE k < l
      <4>1. k \in 1..n /\ k # l /\ g[k] = q[k]
        BY <2>2, <2>4, <3>1
      <4>. QED BY <4>1
    <3>2. CASE ~(k < l)
      <4>1. k + 1 \in 1..n /\ k + 1 # l /\ g[k] = q[k + 1]
        BY <2>2, <2>4, <3>2
      <4>. QED BY <4>1
    <3>. QED BY <3>1, <3>2
  <2>7. \A m \in 1..n : m # l => \E k \in 1..(n - 1) : g[k] = q[m]
    <3> SUFFICES ASSUME NEW m \in 1..n, m # l PROVE \E k \in 1..(n - 1) : g[k] = q[m]
      OBVIOUS
    <3>1. CASE m < l
      <4>1. m \in 1..(n - 1) /\ g[m] = q[m]
        BY <2>2, <2>4, <3>1
      <4>. QED BY <4>1
    <3>2. CASE ~(m < l)
      <4>1. m - 1 \in 1..(n - 1) /\ ~(m - 1 < l) /\ (m - 1) + 1 = m
        BY <2>2, <2>4, <3>2
      <4>2. g[m - 1] = q[m]
        BY <4>1
      <4>. QED BY <4>1, <4>2
    <3>. QED BY <3>1, <3>2
  <2>8. DOMAIN g = 1..(n - 1)
    OBVIOUS
  <2> HIDE DEF g
  <2>9. ASSUME NEW j PROVE InQueue(g, j) <=> InQueue(q, j) /\ j # i
    <3>1. InQueue(g, j) => InQueue(q, j) /\ j # i
      BY <2>2, <2>3, <2>4, <2>6, <2>8, Zenon DEF InQueue
    <3>2. InQueue(q, j) /\ j # i => InQueue(g, j)
      BY <2>2, <2>4, <2>7, <2>8, Zenon DEF InQueue
    <3>. QED BY <3>1, <3>2
  <2>. QED BY <2>5, <2>9
<1>. QED BY <1>1, <1>2

-----------------------------------------------------------------------------
(* The places of a request *)

AtRouter(i) == rpc = "append" /\ i = Len(req)
InBox(u, i) == InQueue(inbox[u], i)
AtInput(i) == ipc # "idle" /\ i = ival
InWork(u, i) == InQueue(work[u], i)
AtWorker(u, i) == wpc[u] # "idle" /\ i = cur[u]
Ticketed(i) == InQueue(tickets, i)

\* A request is at one place at a time.
LEMMA OnePlace ==
  ASSUME TypeOK, OrderInv, NEW u \in Units, NEW v \in Units, NEW i \in Nat
  PROVE  /\ InBox(u, i) => /\ ~AtRouter(i) /\ ~AtInput(i) /\ ~InWork(v, i) /\ ~AtWorker(v, i)
                           /\ (InBox(v, i) => u = v)
         /\ InWork(u, i) => ~AtRouter(i) /\ ~AtInput(i) /\ ~AtWorker(v, i) /\ (InWork(v, i) => u = v)
         /\ AtWorker(u, i) => ~AtRouter(i) /\ ~AtInput(i) /\ (AtWorker(v, i) => u = v)
         /\ AtInput(i) => ~AtRouter(i)
<1> USE DEF OrderInv, QueueInv
<1>1. Len(req) \in Nat /\ ival \in Nat /\ cur[u] \in Nat /\ cur[v] \in Nat
  BY DEF TypeOK, RouterTypes, InputTypes, WorkerTypes
<1>2. /\ InBox(u, i) => Belongs(i, u) /\ (rpc = "append" => i < Len(req))
      /\ InBox(v, i) => Belongs(i, v)
  BY DEF InBox, InQueue, InboxOrdered
<1>3. /\ InWork(u, i) => Belongs(i, u) /\ (rpc = "append" => i < Len(req))
      /\ InWork(v, i) => Belongs(i, v)
  BY DEF InWork, InQueue, WorkOrdered, Workable
<1>4. /\ AtWorker(u, i) => Belongs(i, u) /\ (rpc = "append" => i < Len(req))
      /\ AtWorker(v, i) => Belongs(i, v)
  BY DEF AtWorker, CurOrdered, Workable
<1>5. AtInput(i) => Belongs(i, "Cancel") /\ (rpc = "append" => i < Len(req))
  BY DEF AtInput, InputOrdered
<1>6. \A w \in Units : Belongs(i, u) /\ Belongs(i, w) => u = w
  BY DEF Belongs
<1>7. ~(i < i)
  OBVIOUS
<1>8. InBox(u, i) => ~InWork(u, i) /\ ~AtWorker(u, i) /\ (u = "Cancel" => ~AtInput(i))
  <2>1. InBox(u, i) /\ InWork(u, i) => i < i
    BY DEF InBox, InWork, InQueue, WorkOrdered, AllBelow
  <2>2. InBox(u, i) /\ AtWorker(u, i) => i < i
    BY DEF InBox, AtWorker, InQueue, CurOrdered
  <2>3. InBox("Cancel", i) /\ AtInput(i) => i < i
    BY DEF InBox, AtInput, InQueue, InputOrdered
  <2>. QED BY <1>7, <2>1, <2>2, <2>3
<1>9. InWork(u, i) => ~AtWorker(u, i) /\ (u = "Cancel" => ~AtInput(i))
  <2>1. InWork(u, i) /\ AtWorker(u, i) => i < i
    BY DEF InWork, AtWorker, InQueue, CurOrdered
  <2>2. InWork("Cancel", i) /\ AtInput(i) => i < i
    BY DEF InWork, AtInput, InQueue, InputOrdered
  <2>. QED BY <1>7, <2>1, <2>2
<1>10. AtWorker("Cancel", i) => ~AtInput(i)
  <2>1. AtWorker("Cancel", i) /\ AtInput(i) => i < i
    BY DEF AtWorker, AtInput, CurOrdered, Units
  <2>. QED BY <1>7, <2>1
<1>11. (i < Len(req)) => i # Len(req)
  BY <1>1
<1>12. "Cancel" \in Units
  BY DEF Units
<1>. QED BY <1>2, <1>3, <1>4, <1>5, <1>6, <1>8, <1>9, <1>10, <1>11, <1>12 DEF AtRouter

\* Every place and every ticket is that of a request received.
LEMMA PlacesReceived ==
  ASSUME TypeOK, OrderInv, NEW i \in Nat, NEW u \in Units,
         AtRouter(i) \/ InBox(u, i) \/ AtInput(i) \/ InWork(u, i) \/ AtWorker(u, i) \/ Ticketed(i)
  PROVE  i \in 1..Len(req)
<1>1. AtRouter(i) => i \in 1..Len(req)
  <2>1. rpc = "append" => Len(req) > 0 /\ Len(req) \in Nat
    BY DEF OrderInv, QueueInv, InboxOrdered, Units, TypeOK, RouterTypes
  <2>. QED BY <2>1 DEF AtRouter
<1>. QED BY <1>1 DEF OrderInv, QueueInv, LockInv, TicketsOrdered, InboxOrdered, InputOrdered, WorkOrdered,
            CurOrdered, Workable, Belongs, InQueue, InBox, AtInput, InWork, AtWorker, Ticketed

\* What the places of a request are after a step, but for those it moves to.
SamePlaces(S) ==
  \A j \in Nat :
    /\ "router" \in S => (AtRouter(j)' <=> AtRouter(j))
    /\ "inbox" \in S => \A u \in Units : InBox(u, j)' <=> InBox(u, j)
    /\ "input" \in S => (AtInput(j)' <=> AtInput(j))
    /\ "work" \in S => \A u \in Units : InWork(u, j)' <=> InWork(u, j)
    /\ "worker" \in S => \A u \in Units : AtWorker(u, j)' <=> AtWorker(u, j)
    /\ "tickets" \in S => (Ticketed(j)' <=> Ticketed(j))

\* A request leaves the router for the inbox of its unit.
LEMMA RouterAppendMoves ==
  ASSUME TypeOK, OrderInv, RouterAppend
  PROVE  /\ SamePlaces({"input", "work", "worker", "tickets"})
         /\ \A j \in Nat : ~AtRouter(j)'
         /\ \A j \in Nat, u \in Units :
              InBox(u, j)' <=> (InBox(u, j) \/ (u = req[Len(req)].body.unit /\ AtRouter(j)))
<1>1. Len(req) \in Nat /\ inbox \in [Units -> Seq(Nat)]
  BY DEF TypeOK, RouterTypes, InputTypes
<1> DEFINE v == req[Len(req)].body.unit
           n == Len(req)
<1>2. inbox' = [inbox EXCEPT ![v] = Append(@, n)] /\ rpc = "append"
  BY DEF RouterAppend
<1>3. \A j \in Nat, u \in Units : InBox(u, j)' <=> InBox(u, j) \/ (u = v /\ j = n)
  <2> SUFFICES ASSUME NEW u \in Units PROVE \A j \in Nat : InBox(u, j)' <=> InBox(u, j) \/ (u = v /\ j = n)
    OBVIOUS
  <2> HIDE DEF v, n
  <2>0. inbox[u] \in Seq(Nat) /\ n \in Nat
    BY <1>1 DEF n
  <2>1. inbox'[u] = IF u = v THEN Append(inbox[u], n) ELSE inbox[u]
    BY <1>1, <1>2
  <2>. QED BY <2>0, <2>1, AppendedTo DEF InBox
<1>4. \A j \in Nat : ~AtRouter(j)'
  BY DEF RouterAppend, AtRouter
<1>5. SamePlaces({"input", "work", "worker", "tickets"})
  BY DEF RouterAppend, SamePlaces, AtInput, InWork, AtWorker, Ticketed, workerVars, lockVars
<1>. QED BY <1>2, <1>3, <1>4, <1>5 DEF AtRouter

\* The oldest request of an inbox leaves it.
LEMMA InboxTaken ==
  ASSUME TypeOK, OrderInv, NEW v \in Units, inbox[v] # <<>>,
         inbox' = [inbox EXCEPT ![v] = Tail(@)]
  PROVE  /\ Head(inbox[v]) \in Nat /\ InBox(v, Head(inbox[v]))
         /\ \A j \in Nat, u \in Units : InBox(u, j)' <=> InBox(u, j) /\ ~(u = v /\ j = Head(inbox[v]))
<1>1. inbox \in [Units -> Seq(Nat)] /\ Increasing(inbox[v])
  BY DEF TypeOK, InputTypes, OrderInv, QueueInv, InboxOrdered
<1>2. inbox[v] \in Seq(Nat)
  BY <1>1
<1>3. \A u \in Units : inbox'[u] = IF u = v THEN Tail(inbox[v]) ELSE inbox[u]
  BY <1>1
<1>. QED BY <1>1, <1>2, <1>3, TakenFrom DEF InBox

\* A request joins the queue of a worker.
LEMMA WorkQueued ==
  ASSUME TypeOK, NEW v \in Units, NEW i \in Nat, work' = [work EXCEPT ![v] = Append(@, i)]
  PROVE  \A j \in Nat, u \in Units : InWork(u, j)' <=> InWork(u, j) \/ (u = v /\ j = i)
<1>1. work \in [Units -> Seq(Nat)]
  BY DEF TypeOK, WorkerTypes
<1>2. \A u \in Units : work'[u] = IF u = v THEN Append(work[v], i) ELSE work[u]
  BY <1>1
<1>3. work[v] \in Seq(Nat)
  BY <1>1
<1>. QED BY <1>2, <1>3, AppendedTo DEF InWork

\* finish() takes the ticket of one request.
LEMMA FinishMoves ==
  ASSUME TypeOK, OrderInv, NEW i \in Nat, Finish(i)
  PROVE  \A j \in Nat : Ticketed(j)' <=> Ticketed(j) /\ j # i
<1>1. tickets \in Seq(Nat) /\ Increasing(tickets) /\ tickets' = Finished(tickets, i)
  BY DEF TypeOK, LockTypes, OrderInv, LockInv, TicketsOrdered, Finish
<1>. QED BY <1>1, FinishedFrom DEF Ticketed

\* unlock() takes that of the worker that holds the lock.
LEMMA UnlockMoves ==
  ASSUME TypeOK, OrderInv, NEW v \in Units, wpc[v] \in HoldsLock, Unlock
  PROVE  \A j \in Nat : Ticketed(j)' <=> Ticketed(j) /\ j # cur[v]
<1>1. tickets \in Seq(Nat) /\ Increasing(tickets) /\ tickets # <<>> /\ Head(tickets) = cur[v]
      /\ tickets' = Tail(tickets)
  BY DEF TypeOK, LockTypes, OrderInv, LockInv, TicketsOrdered, FirstServed, Unlock
<1>. QED BY <1>1, TakenFrom DEF Ticketed

\* The worker that has seen its ticket first has one.
LEMMA FirstTicketed ==
  ASSUME TypeOK, OrderInv, NEW v \in Units, wpc[v] \in HoldsLock \cup {"flag", "set"}
  PROVE  Ticketed(cur[v])
<1>1. tickets \in Seq(Nat) /\ tickets # <<>> /\ Head(tickets) = cur[v]
  BY DEF TypeOK, LockTypes, OrderInv, LockInv, FirstServed
<1>2. 1 \in DOMAIN tickets /\ tickets[1] = cur[v]
  BY <1>1
<1>. QED BY <1>2 DEF Ticketed, InQueue

-----------------------------------------------------------------------------
(* The tickets are those of the requests that somebody will serve *)

\* Some thread still has to see to the request.
Pending(i) ==
  \/ AtRouter(i) \/ AtInput(i)
  \/ \E u \in Units : InBox(u, i) \/ InWork(u, i) \/ (AtWorker(u, i) /\ wpc[u] # "report")

TicketInv == Healthy => \A i \in Nat : Ticketed(i) <=> Pending(i)

\* A market that is healthy after a step was healthy before it.
LEMMA HealthyBefore ==
  ASSUME TypeOK, [Next]_vars, Healthy'
  PROVE  Healthy
<1>1. \A i \in DOMAIN req : req[i].body.fault # "ordtype"
  BY RequestsKept DEF Healthy
<1>2. ipc # "dead"
  <2>1. ipc = "dead" => ipc' = "dead"
    BY DEF Next, vars, inputVars, RouterReceive, RouterAppend, NewOrderOnInput, CancelInput, CancelOnInput,
       CancelGetOrder, CancelPush, Worker, WorkerPop, LockSpin, LockSet, WorkerReport, NewOrderHolds,
       NewOrderCheck, NewOrderFill, NewOrderUnmap, NewOrderRest, NewOrderMap, NewOrderUnlock, CancelHolds,
       CancelCheck, CancelErase
  <2>. QED BY <2>1 DEF Healthy
<1>3. ASSUME NEW u \in Units PROVE wpc[u] \notin {"dead", "wrecked"}
  <2>0. wpc \in [Units -> WorkerPoints]
    BY DEF TypeOK, WorkerTypes
  <2>1. CASE wpc' = wpc
    BY <2>1 DEF Healthy
  <2>2. ASSUME NEW v \in Units, Worker(v), wpc[u] \in {"dead", "wrecked"} PROVE wpc'[u] = wpc[u]
    BY <2>0, <2>2 DEF Worker, GoTo, UnlockThenReport, WorkerPop, LockSpin, LockSet, WorkerReport, NewOrderHolds,
       NewOrderCheck, NewOrderFill, NewOrderUnmap, NewOrderRest, NewOrderMap, NewOrderUnlock, CancelHolds,
       CancelCheck, CancelErase
  <2>3. RouterReceive \/ RouterAppend \/ NewOrderOnInput \/ CancelInput \/ UNCHANGED vars => wpc' = wpc
    BY DEF vars, workerVars, RouterReceive, RouterAppend, NewOrderOnInput, CancelInput, CancelOnInput,
       CancelGetOrder, CancelPush
  <2>. QED BY <2>1, <2>2, <2>3 DEF Next, Healthy
<1>. QED BY <1>1, <1>2, <1>3 DEF Healthy

\* A request that is refused at the door gets no ticket, any other one does.
LEMMA RouterReceiveTickets ==
  ASSUME TypeOK, OrderInv, Healthy, TicketInv, RouterReceive
  PROVE  TicketInv'
<1>1. PICK r \in Requests :
        /\ req' = Append(req, [body |-> r, known |-> <<r.id, r.side>> \in open])
        /\ IF r.fault = "unroutable" THEN UNCHANGED <<rpc, tickets>>
           ELSE tickets' = Append(tickets, Len(req) + 1) /\ rpc' = "append"
  BY DEF RouterReceive
<1>2. SamePlaces({"inbox", "input", "work", "worker"}) /\ rpc = "idle" /\ wpc' = wpc
  BY DEF RouterReceive, SamePlaces, InBox, AtInput, InWork, AtWorker, inputVars, workerVars
<1> DEFINE n == Len(req) + 1
<1>3. Len(req') = n /\ n \in Nat /\ tickets \in Seq(Nat)
  <2> DEFINE R == [body : Requests, known : BOOLEAN]
  <2>1. req \in Seq(R) /\ tickets \in Seq(Nat)
    BY DEF TypeOK, RouterTypes, LockTypes
  <2> HIDE DEF R
  <2>. QED BY <1>1, <2>1
<1>4. \A j \in Nat : ~AtRouter(j)
  BY <1>2 DEF AtRouter
<1>5. CASE r.fault = "unroutable"
  <2>1. \A j \in Nat : ~AtRouter(j)' /\ (Ticketed(j)' <=> Ticketed(j))
    BY <1>1, <1>2, <1>5 DEF AtRouter, Ticketed
  <2>. QED BY <1>2, <1>4, <2>1 DEF TicketInv, Pending, SamePlaces
<1>6. CASE r.fault # "unroutable"
  <2>1. \A j \in Nat : (AtRouter(j)' <=> j = n) /\ (Ticketed(j)' <=> (Ticketed(j) \/ j = n))
    <3> HIDE DEF n
    <3>1. tickets' = Append(tickets, n) /\ rpc' = "append"
      BY <1>1, <1>6 DEF n
    <3>. QED BY <1>3, <3>1, AppendedTo DEF AtRouter, Ticketed
  <2>. QED BY <1>2, <1>4, <2>1 DEF TicketInv, Pending, SamePlaces
<1>. QED BY <1>5, <1>6

\* The push of a request to its unit leaves it pending.
LEMMA RouterAppendTickets ==
  ASSUME TypeOK, OrderInv, Healthy, TicketInv, RouterAppend
  PROVE  TicketInv'
<1>1. AtRouter(Len(req)) /\ Len(req) \in Nat
  BY DEF RouterAppend, AtRouter, TypeOK, RouterTypes
<1>2. req[Len(req)].body.unit \in Units
  <2>1. Len(req) \in DOMAIN req
    BY <1>1, PlacesReceived DEF Units, TypeOK, RouterTypes
  <2>. QED BY <2>1, ReceivedRequests DEF Request
<1>3. wpc' = wpc
  BY DEF RouterAppend, workerVars
<1>. QED BY <1>2, <1>3, RouterAppendMoves DEF TicketInv, Pending, SamePlaces

\* NewOrder::onInput gives back the ticket of what it does not pass on.
LEMMA NewOrderOnInputTickets ==
  ASSUME TypeOK, OrderInv, Healthy, TicketInv, NewOrderOnInput
  PROVE  TicketInv'
<1> DEFINE i == Head(inbox["New"])
           r == req[i].body
<1>1. /\ "New" \in Units /\ inbox["New"] # <<>> /\ inbox' = [inbox EXCEPT !["New"] = Tail(@)]
      /\ SamePlaces({"router", "input", "worker"}) /\ wpc' = wpc
  BY DEF NewOrderOnInput, Units, routerVars, SamePlaces, AtRouter, AtInput, AtWorker
<1>2. /\ i \in Nat /\ InBox("New", i)
      /\ \A j \in Nat, u \in Units : InBox(u, j)' <=> InBox(u, j) /\ ~(u = "New" /\ j = i)
  BY <1>1, InboxTaken
<1>3. i \in DOMAIN req
  BY <1>1, <1>2, PlacesReceived DEF TypeOK, RouterTypes
<1> HIDE DEF i
<1>4. CASE r.fault = "missing" \/ r.side = "Unsupported"
  <2>1. Finish(i) /\ work' = work
    BY <1>4 DEF NewOrderOnInput, Rejects, i
  <2>2. /\ \A j \in Nat : Ticketed(j)' <=> Ticketed(j) /\ j # i
        /\ \A j \in Nat, u \in Units : InWork(u, j)' <=> InWork(u, j)
    BY <1>2, <2>1, FinishMoves DEF InWork
  <2>3. \A u \in Units : ~AtRouter(i) /\ ~AtInput(i) /\ ~InWork(u, i) /\ ~AtWorker(u, i) /\ (InBox(u, i) => u = "New")
    BY <1>1, <1>2, OnePlace
  <2>. QED BY <1>1, <1>2, <2>2, <2>3 DEF TicketInv, Pending, SamePlaces
<1>5. CASE ~(r.fault = "missing" \/ r.side = "Unsupported")
  <2>1. UNCHANGED tickets /\ work' = [work EXCEPT !["New"] = Append(@, i)]
    <3>1. r.fault # "ordtype"
      BY <1>3 DEF Healthy
    <3>. QED BY <1>5, <3>1 DEF NewOrderOnInput, Rejects, lockVars, i
  <2>2. /\ \A j \in Nat : Ticketed(j)' <=> Ticketed(j)
        /\ \A j \in Nat, u \in Units : InWork(u, j)' <=> (InWork(u, j) \/ (u = "New" /\ j = i))
    BY <1>1, <1>2, <2>1, WorkQueued DEF Ticketed
  <2>. QED BY <1>1, <1>2, <2>2 DEF TicketInv, Pending, SamePlaces
<1>. QED BY <1>4, <1>5

\* Cancel::onInput does the same, or keeps the request in hand.
LEMMA CancelOnInputTickets ==
  ASSUME TypeOK, OrderInv, Healthy, Healthy', TicketInv, CancelOnInput
  PROVE  TicketInv'
<1> DEFINE i == Head(inbox["Cancel"])
           r == req[i].body
<1>1. /\ "Cancel" \in Units /\ inbox["Cancel"] # <<>> /\ inbox' = [inbox EXCEPT !["Cancel"] = Tail(@)]
      /\ SamePlaces({"router", "work", "worker"}) /\ wpc' = wpc /\ ipc = "idle"
  BY DEF CancelOnInput, Units, routerVars, workerVars, SamePlaces, AtRouter, InWork, AtWorker
<1>2. /\ i \in Nat /\ InBox("Cancel", i)
      /\ \A j \in Nat, u \in Units : InBox(u, j)' <=> InBox(u, j) /\ ~(u = "Cancel" /\ j = i)
  BY <1>1, InboxTaken
<1>3. \A j \in Nat : ~AtInput(j)
  BY <1>1 DEF AtInput
<1>4. \/ Finish(i) /\ UNCHANGED <<ipc, ival>>
      \/ ipc' = "get" /\ ival' = i /\ UNCHANGED tickets
  BY DEF CancelOnInput, Healthy, lockVars
<1> HIDE DEF i
<1>5. CASE Finish(i) /\ UNCHANGED <<ipc, ival>>
  <2>1. \A j \in Nat : (Ticketed(j)' <=> Ticketed(j) /\ j # i) /\ ~AtInput(j)'
    BY <1>1, <1>2, <1>5, FinishMoves DEF AtInput
  <2>2. \A u \in Units : ~AtRouter(i) /\ ~InWork(u, i) /\ ~AtWorker(u, i) /\ (InBox(u, i) => u = "Cancel")
    BY <1>1, <1>2, OnePlace
  <2>. QED BY <1>1, <1>2, <1>3, <2>1, <2>2 DEF TicketInv, Pending, SamePlaces
<1>6. CASE ipc' = "get" /\ ival' = i /\ UNCHANGED tickets
  <2>1. \A j \in Nat : (Ticketed(j)' <=> Ticketed(j)) /\ (AtInput(j)' <=> j = i)
    BY <1>6 DEF AtInput, Ticketed
  <2>. QED BY <1>1, <1>2, <1>3, <2>1 DEF TicketInv, Pending, SamePlaces
<1>. QED BY <1>4, <1>5, <1>6

\* The request in hand goes to the worker, or is refused and loses its ticket.
LEMMA CancelInHandTickets ==
  ASSUME TypeOK, OrderInv, Healthy, Healthy', TicketInv, CancelGetOrder \/ CancelPush
  PROVE  TicketInv'
<1>1. /\ SamePlaces({"router", "inbox", "worker"}) /\ wpc' = wpc /\ ipc # "idle" /\ ival \in Nat
  BY DEF CancelGetOrder, CancelPush, routerVars, workerVars, SamePlaces, AtRouter, InBox, AtWorker, TypeOK,
     InputTypes
<1>2. AtInput(ival) /\ "Cancel" \in Units /\ "New" \in Units
  BY <1>1 DEF AtInput, Units
<1>3. CASE CancelGetOrder /\ ipc' = "idle"
  <2>1. Finish(ival) /\ work' = work
    BY <1>3 DEF CancelGetOrder, workerVars
  <2>2. /\ \A j \in Nat : (Ticketed(j)' <=> Ticketed(j) /\ j # ival) /\ ~AtInput(j)'
        /\ \A j \in Nat, u \in Units : InWork(u, j)' <=> InWork(u, j)
    BY <1>1, <1>3, <2>1, FinishMoves DEF AtInput, InWork
  <2>3. ~AtRouter(ival) /\ \A u \in Units : ~InBox(u, ival) /\ ~InWork(u, ival) /\ ~AtWorker(u, ival)
    BY <1>1, <1>2, OnePlace
  <2>4. \A j \in Nat : AtInput(j) <=> j = ival
    BY <1>1 DEF AtInput
  <2>. QED BY <1>1, <2>2, <2>3, <2>4 DEF TicketInv, Pending, SamePlaces
<1>4. CASE CancelGetOrder /\ ipc' # "idle"
  <2>1. UNCHANGED <<tickets, work, ival>>
    BY <1>4 DEF CancelGetOrder, Healthy, lockVars, workerVars
  <2>2. SamePlaces({"input", "work", "tickets"})
    BY <1>1, <1>4, <2>1 DEF SamePlaces, AtInput, InWork, Ticketed
  <2>. QED BY <1>1, <2>2 DEF TicketInv, Pending, SamePlaces
<1>5. CASE CancelPush
  <2>1. UNCHANGED tickets /\ work' = [work EXCEPT !["Cancel"] = Append(@, ival)] /\ ipc' = "idle"
    BY <1>5 DEF CancelPush, lockVars
  <2>2. /\ \A j \in Nat : (Ticketed(j)' <=> Ticketed(j)) /\ ~AtInput(j)' /\ (AtInput(j) <=> j = ival)
        /\ \A j \in Nat, u \in Units : InWork(u, j)' <=> (InWork(u, j) \/ (u = "Cancel" /\ j = ival))
    BY <1>1, <1>2, <2>1, WorkQueued DEF Ticketed, AtInput
  <2>. QED BY <1>1, <1>2, <2>2 DEF TicketInv, Pending, SamePlaces
<1>. QED BY <1>3, <1>4, <1>5

\* A worker takes the oldest request of its queue.
LEMMA PopMoves ==
  ASSUME TypeOK, OrderInv, NEW v \in Units, WorkerPop(v)
  PROVE  /\ SamePlaces({"router", "inbox", "input", "tickets"}) /\ wpc[v] = "idle"
         /\ wpc' = [wpc EXCEPT ![v] = "empty"]
         /\ cur'[v] \in Nat /\ InWork(v, cur'[v])
         /\ \A j \in Nat, u \in Units :
              /\ InWork(u, j)' <=> InWork(u, j) /\ ~(u = v /\ j = cur'[v])
              /\ AtWorker(u, j)' <=> (AtWorker(u, j) \/ (u = v /\ j = cur'[v]))
<1>1. SamePlaces({"router", "inbox", "input", "tickets"})
  BY DEF WorkerPop, SamePlaces, AtRouter, InBox, AtInput, Ticketed, routerVars, lockVars, inputVars
<1>2. /\ work \in [Units -> Seq(Nat)] /\ work[v] \in Seq(Nat) /\ Increasing(work[v]) /\ work[v] # <<>>
      /\ wpc \in [Units -> WorkerPoints] /\ cur \in [Units -> Nat]
  BY DEF TypeOK, WorkerTypes, OrderInv, QueueInv, WorkOrdered, WorkerPop
<1>3. /\ wpc[v] = "idle" /\ work' = [work EXCEPT ![v] = Tail(@)] /\ cur' = [cur EXCEPT ![v] = Head(work[v])]
      /\ wpc' = [wpc EXCEPT ![v] = "empty"]
  BY DEF WorkerPop, GoTo
<1>4. /\ \A u \in Units : work'[u] = IF u = v THEN Tail(work[v]) ELSE work[u]
      /\ \A u \in Units : cur'[u] = IF u = v THEN Head(work[v]) ELSE cur[u]
      /\ \A u \in Units : wpc'[u] = IF u = v THEN "empty" ELSE wpc[u]
  BY <1>2, <1>3
<1>5. cur'[v] \in Nat /\ InWork(v, cur'[v])
  BY <1>2, <1>4, TakenFrom DEF InWork
<1>6. \A j \in Nat, u \in Units : InWork(u, j)' <=> InWork(u, j) /\ ~(u = v /\ j = cur'[v])
  BY <1>2, <1>4, TakenFrom DEF InWork
<1>7. \A j \in Nat, u \in Units : AtWorker(u, j)' <=> (AtWorker(u, j) \/ (u = v /\ j = cur'[v]))
  BY <1>3, <1>4 DEF AtWorker
<1>. QED BY <1>1, <1>3, <1>5, <1>6, <1>7

\* A worker waits for the lock, holds it or reports: it gives its ticket back
\* exactly when it has done with the book.
LEMMA WorkerMoves ==
  ASSUME TypeOK, OrderInv, NEW v \in Units, Worker(v), ~WorkerPop(v)
  PROVE  /\ SamePlaces({"router", "inbox", "input", "work"}) /\ req' = req
         /\ wpc[v] # "idle" /\ cur[v] \in Nat
         /\ \A u \in Units : u # v => wpc'[u] = wpc[u] /\ cur'[u] = cur[u]
         /\ wpc'[v] # "idle" => cur'[v] = cur[v]
         /\ \/ /\ wpc[v] \in HoldsLock /\ wpc'[v] \in {"report", "idle"}
               /\ \A j \in Nat : Ticketed(j)' <=> Ticketed(j) /\ j # cur[v]
            \/ /\ UNCHANGED tickets
               /\ \/ wpc[v] = "report" /\ wpc'[v] = "idle"
                  \/ wpc[v] # "report" /\ wpc'[v] \notin {"report", "idle"}
<1> USE DEF GoTo, HoldsLock
<1>0. wpc \in [Units -> WorkerPoints] /\ cur \in [Units -> Nat]
  BY DEF TypeOK, WorkerTypes
<1>1. CASE LockSpin(v) \/ LockSet(v) \/ WorkerReport(v)
  <2>1. UNCHANGED <<req, rpc, inbox, ipc, ival, work, tickets>>
    BY <1>1 DEF LockSpin, LockSet, WorkerReport, routerVars, inputVars, lockVars
  <2>2. SamePlaces({"router", "inbox", "input", "work"})
    BY <2>1 DEF SamePlaces, AtRouter, InBox, AtInput, InWork
  <2>. QED BY <1>0, <1>1, <2>1, <2>2 DEF LockSpin, LockSet, WorkerReport
<1>2. CASE (v = "New" /\ NewOrderHolds) \/ (v = "Cancel" /\ CancelHolds)
  <2>1. UNCHANGED <<req, rpc, inbox, ipc, ival, work>>
    BY <1>2 DEF NewOrderHolds, NewOrderCheck, NewOrderFill, NewOrderUnmap, NewOrderRest, NewOrderMap,
       NewOrderUnlock, CancelHolds, CancelCheck, CancelErase, routerVars, inputVars
  <2>2. SamePlaces({"router", "inbox", "input", "work"})
    BY <2>1 DEF SamePlaces, AtRouter, InBox, AtInput, InWork
  <2>3. /\ wpc[v] \in HoldsLock /\ \A u \in Units : u # v => wpc'[u] = wpc[u] /\ cur'[u] = cur[u]
        /\ wpc'[v] # "idle" => cur'[v] = cur[v]
        /\ \/ Unlock /\ wpc'[v] \in {"report", "idle"}
           \/ UNCHANGED tickets /\ wpc'[v] \notin {"report", "idle"}
    BY <1>0, <1>2 DEF NewOrderHolds, NewOrderCheck, NewOrderFill, NewOrderUnmap, NewOrderRest, NewOrderMap,
       NewOrderUnlock, CancelHolds, CancelCheck, CancelErase, UnlockThenReport, lockVars
  <2>. QED BY <1>0, <2>1, <2>2, <2>3, UnlockMoves
<1>. QED BY <1>1, <1>2 DEF Worker

\* Whatever a worker does, it has a ticket until it gives the lock back.
LEMMA WorkerTickets ==
  ASSUME TypeOK, OrderInv, Healthy, TicketInv, NEW v \in Units, Worker(v)
  PROVE  TicketInv'
<1>0. wpc \in [Units -> WorkerPoints]
  BY DEF TypeOK, WorkerTypes
<1>1. CASE WorkerPop(v)
  <2>1. /\ \A u \in Units : u # v => wpc'[u] = wpc[u]
        /\ wpc'[v] = "empty" /\ wpc[v] = "idle"
    BY <1>0, <1>1, PopMoves
  <2>2. \A j \in Nat : ~AtWorker(v, j)
    BY <2>1 DEF AtWorker
  <2>3. ASSUME NEW j \in Nat PROVE Pending(j)' <=> Pending(j)
    BY <1>1, <2>1, <2>2, PopMoves DEF Pending, SamePlaces
  <2>. QED BY <1>1, <2>3, PopMoves DEF TicketInv, SamePlaces
<1>2. CASE ~WorkerPop(v)
  <2>1. /\ AtWorker(v, cur[v]) /\ cur[v] \in Nat /\ \A j \in Nat : AtWorker(v, j) => j = cur[v]
        /\ \A j \in Nat : \A u \in Units : u # v => (AtWorker(u, j)' <=> AtWorker(u, j))
        /\ wpc'[v] # "idle" => \A j \in Nat : AtWorker(v, j)' <=> AtWorker(v, j)
        /\ wpc'[v] = "idle" => \A j \in Nat : ~AtWorker(v, j)'
    BY <1>2, WorkerMoves DEF AtWorker
  <2>2. ~AtRouter(cur[v]) /\ ~AtInput(cur[v])
        /\ \A u \in Units : ~InBox(u, cur[v]) /\ ~InWork(u, cur[v]) /\ (AtWorker(u, cur[v]) => u = v)
    BY <2>1, OnePlace
  <2>3. CASE wpc[v] \in HoldsLock /\ wpc'[v] \in {"report", "idle"}
             /\ \A j \in Nat : Ticketed(j)' <=> Ticketed(j) /\ j # cur[v]
    <3>1. ASSUME NEW j \in Nat PROVE Pending(j)' <=> Pending(j) /\ j # cur[v]
      BY <1>2, <2>1, <2>2, <2>3, WorkerMoves DEF Pending, SamePlaces, HoldsLock
    <3>. QED BY <2>3, <3>1 DEF TicketInv
  <2>4. CASE UNCHANGED tickets /\ (\/ wpc[v] = "report" /\ wpc'[v] = "idle"
                                   \/ wpc[v] # "report" /\ wpc'[v] \notin {"report", "idle"})
    <3>1. ASSUME NEW j \in Nat PROVE Pending(j)' <=> Pending(j)
      BY <1>2, <2>1, <2>4, WorkerMoves DEF Pending, SamePlaces
    <3>. QED BY <2>4, <3>1 DEF TicketInv, Ticketed
  <2>. QED BY <1>2, <2>3, <2>4, WorkerMoves
<1>. QED BY <1>1, <1>2

\* As long as the market is healthy its tickets are those of the requests that
\* somebody will serve.
LEMMA TicketInvariantHolds == Spec => [](TypeOK /\ OrderInv /\ TicketInv)
<1>1. Init => TicketInv
  BY DEF Init, TicketInv, Pending, Ticketed, InQueue, AtRouter, AtInput, InBox, InWork, AtWorker
<1>2. TypeOK /\ OrderInv /\ TicketInv /\ [Next]_vars => TicketInv'
  <2> SUFFICES ASSUME TypeOK, OrderInv, TicketInv, [Next]_vars, Healthy' PROVE TicketInv'
    BY DEF TicketInv
  <2>1. Healthy
    BY HealthyBefore
  <2>2. CASE UNCHANGED vars
    BY <2>1, <2>2 DEF vars, routerVars, lockVars, inputVars, workerVars, TicketInv, Pending, Ticketed, AtRouter,
       AtInput, InBox, InWork, AtWorker
  <2>. QED BY <2>1, <2>2, RouterReceiveTickets, RouterAppendTickets, NewOrderOnInputTickets,
           CancelOnInputTickets, CancelInHandTickets, WorkerTickets DEF Next, CancelInput
<1>. QED BY <1>1, <1>2, InvariantHolds, PTL DEF Spec

\* No ticket stays behind: every one belongs to a request that a thread has.
THEOREM TicketsAreServed == Spec => []NoOrphanTicket
<1>1. TypeOK /\ OrderInv /\ TicketInv => NoOrphanTicket
  <2> SUFFICES ASSUME TypeOK, TicketInv, Healthy, NEW k \in DOMAIN tickets PROVE InHand(tickets[k])
    BY DEF NoOrphanTicket
  <2>1. tickets[k] \in Nat /\ Ticketed(tickets[k])
    BY DEF TypeOK, LockTypes, Ticketed, InQueue
  <2>2. Pending(tickets[k])
    BY <2>1 DEF TicketInv
  <2>. QED BY <2>2 DEF Pending, InHand, InQueue, AtRouter, AtInput, InBox, InWork, AtWorker
<1>. QED BY <1>1, TicketInvariantHolds, PTL

\* A thread that compares the first ticket with its own finds a first ticket.
THEOREM FrontIsThere == Spec => []NoFrontOfEmpty
<1>1. TypeOK /\ OrderInv /\ TicketInv => NoFrontOfEmpty
  <2> SUFFICES ASSUME TypeOK, TicketInv, Healthy
               PROVE  /\ \A u \in Units : wpc[u] = "front" => tickets # <<>>
                      /\ ipc = "push" => tickets # <<>>
    BY DEF NoFrontOfEmpty
  <2>1. ASSUME NEW u \in Units, wpc[u] = "front" PROVE tickets # <<>>
    <3>1. cur[u] \in Nat /\ Pending(cur[u])
      BY <2>1 DEF TypeOK, WorkerTypes, Pending, AtWorker
    <3>2. Ticketed(cur[u])
      BY <3>1 DEF TicketInv
    <3>. QED BY <3>2 DEF Ticketed, InQueue
  <2>2. ASSUME ipc = "push" PROVE tickets # <<>>
    <3>1. ival \in Nat /\ Pending(ival)
      BY <2>2 DEF TypeOK, InputTypes, Pending, AtInput
    <3>2. Ticketed(ival)
      BY <3>1 DEF TicketInv
    <3>. QED BY <3>2 DEF Ticketed, InQueue
  <2>. QED BY <2>1, <2>2
<1>. QED BY <1>1, TicketInvariantHolds, PTL

-----------------------------------------------------------------------------
(* One outcome at most *)

Silent(s) == \A k \in DOMAIN s : s[k] = "PendingCancel"
OneAtMost(s) ==
  \A j, k \in DOMAIN s : s[j] # "PendingCancel" /\ s[k] # "PendingCancel" => j = k

BeforeOutcome(u) ==
  {"empty", "front", "flag", "set", "cs", "report"} \cup (IF u = "Cancel" THEN {"erase"} ELSE {})

\* The client has not been told the outcome of a request on its way to one: an
\* order in the hands of its worker has a ticket until it is refused, and one
\* without a ticket was rejected by the input thread.
Unanswered(i) ==
  \/ AtRouter(i) \/ AtInput(i) \/ \E u \in Units : InBox(u, i)
  \/ \E u \in Units : InWork(u, i) /\ (u = "Cancel" \/ Ticketed(i))
  \/ \E u \in Units : /\ AtWorker(u, i) /\ wpc[u] \in BeforeOutcome(u)
                      /\ u = "Cancel" \/ wpc[u] = "report" \/ Ticketed(i)

ReplyInv ==
  \A i \in DOMAIN req :
    /\ Unanswered(i) => Silent(replies[i])
    /\ ~TwiceRejected(req[i].body) => OneAtMost(replies[i])

\* One more answer after none.
LEMMA AnswerAdded ==
  ASSUME NEW s \in Seq(ReplyKinds), NEW k \in ReplyKinds, Silent(s)
  PROVE  /\ s \o <<k>> \in Seq(ReplyKinds) /\ OneAtMost(s \o <<k>>)
         /\ k = "PendingCancel" => Silent(s \o <<k>>)
<1> DEFINE n == Len(s)
           t == s \o <<k>>
<1>1. n \in Nat /\ DOMAIN s = 1..n /\ DOMAIN t = 1..(n + 1) /\ t[n + 1] = k /\ t \in Seq(ReplyKinds)
      /\ \A j \in 1..n : t[j] = s[j]
  OBVIOUS
<1> HIDE DEF n, t
<1>2. \A j \in 1..(n + 1) : j \in 1..n \/ j = n + 1
  BY <1>1
<1>3. \A j \in 1..(n + 1) : t[j] # "PendingCancel" => j = n + 1
  BY <1>1, <1>2 DEF Silent
<1>4. OneAtMost(t)
  BY <1>1, <1>3 DEF OneAtMost
<1>5. k = "PendingCancel" => Silent(t)
  BY <1>1, <1>3 DEF Silent
<1>. QED BY <1>1, <1>4, <1>5 DEF t

\* A step that answers nothing.
LEMMA NoAnswer ==
  ASSUME TypeOK, ReplyInv, UNCHANGED <<req, replies>>, \A j \in Nat : Unanswered(j)' => Unanswered(j)
  PROVE  ReplyInv'
<1>1. DOMAIN req \subseteq Nat
  BY DEF TypeOK, RouterTypes
<1>. QED BY <1>1 DEF ReplyInv

\* A step that answers one request that has had no outcome.
LEMMA AnswerGiven ==
  ASSUME TypeOK, ReplyInv, UNCHANGED req, NEW i \in DOMAIN req, Unanswered(i),
         NEW x \in Seq(ReplyKinds), replies' = [replies EXCEPT ![i] = @ \o x],
         \A j \in Nat : Unanswered(j)' => Unanswered(j),
         \/ x = <<>>
         \/ ~Unanswered(i)' /\ (TwiceRejected(req[i].body) \/ \E k \in ReplyKinds : x = <<k>>)
         \/ x = <<"PendingCancel">>
  PROVE  ReplyInv'
<1>1. DOMAIN req \subseteq Nat /\ DOMAIN replies = DOMAIN req /\ replies[i] \in Seq(ReplyKinds)
  BY DEF TypeOK, RouterTypes, ReplyTypes
<1>2. /\ replies'[i] = replies[i] \o x
      /\ \A j \in DOMAIN req : j # i => replies'[j] = replies[j]
  BY <1>1
<1>3. Silent(replies[i])
  BY DEF ReplyInv
<1>4. "PendingCancel" \in ReplyKinds
  BY DEF ReplyKinds
<1>5. (~TwiceRejected(req[i].body) => OneAtMost(replies'[i])) /\ (Unanswered(i)' => Silent(replies'[i]))
  <2>1. CASE x = <<>>
    <3>1. replies[i] \o x = replies[i]
      BY <1>1, <2>1
    <3>. QED BY <1>2, <1>3, <3>1 DEF OneAtMost, Silent
  <2>2. CASE ~Unanswered(i)' /\ (TwiceRejected(req[i].body) \/ \E k \in ReplyKinds : x = <<k>>)
    BY <1>1, <1>2, <1>3, <2>2, AnswerAdded
  <2>3. CASE x = <<"PendingCancel">>
    BY <1>1, <1>2, <1>3, <1>4, <2>3, AnswerAdded
  <2>. QED BY <2>1, <2>2, <2>3
<1>. QED BY <1>1, <1>2, <1>5 DEF ReplyInv

\* The same of a single reply.
LEMMA OneReplyGiven ==
  ASSUME TypeOK, ReplyInv, UNCHANGED req, NEW i \in DOMAIN req, Unanswered(i), NEW k \in ReplyKinds,
         Reply(i, k), \A j \in Nat : Unanswered(j)' => Unanswered(j),
         ~Unanswered(i)' \/ k = "PendingCancel"
  PROVE  ReplyInv'
<1>1. replies[i] \in Seq(ReplyKinds)
  BY DEF TypeOK, RouterTypes, ReplyTypes
<1>2. Append(replies[i], k) = replies[i] \o <<k>> /\ <<k>> \in Seq(ReplyKinds)
  BY <1>1
<1>3. replies' = [replies EXCEPT ![i] = @ \o <<k>>]
  BY <1>2 DEF Reply
<1>. QED BY <1>2, <1>3, AnswerGiven

\* A request is refused at the door, or has no answer yet.
LEMMA RouterReceiveReplies ==
  ASSUME TypeOK, OrderInv, ReplyInv, RouterReceive
  PROVE  ReplyInv'
<1>1. PICK r \in Requests :
        /\ req' = Append(req, [body |-> r, known |-> <<r.id, r.side>> \in open])
        /\ IF r.fault = "unroutable"
           THEN replies' = Append(replies, <<"BusinessReject">>) /\ UNCHANGED <<rpc, tickets>>
           ELSE /\ replies' = Append(replies, <<>>) /\ rpc' = "append"
                /\ tickets' = Append(tickets, Len(req) + 1)
  BY DEF RouterReceive
<1>2. SamePlaces({"inbox", "input", "work", "worker"}) /\ rpc = "idle" /\ wpc' = wpc
  BY DEF RouterReceive, SamePlaces, InBox, AtInput, InWork, AtWorker, inputVars, workerVars
<1>0. PICK n \in Nat : n = Len(req) + 1
  BY DEF TypeOK, RouterTypes
<1> DEFINE x == replies'[n]
<1>3. /\ Len(req') = n /\ n \in Nat /\ tickets \in Seq(Nat) /\ DOMAIN req' = 1..n
      /\ DOMAIN req = 1..(n - 1) /\ \A j \in 1..(n - 1) : req'[j] = req[j]
  <2> DEFINE R == [body : Requests, known : BOOLEAN]
  <2>1. req \in Seq(R) /\ tickets \in Seq(Nat)
    BY DEF TypeOK, RouterTypes, LockTypes
  <2> HIDE DEF R
  <2>. QED BY <1>0, <1>1, <2>1
<1>4. /\ \A j \in 1..(n - 1) : replies'[j] = replies[j]
      /\ x = IF r.fault = "unroutable" THEN <<"BusinessReject">> ELSE <<>>
  <2> DEFINE y == IF r.fault = "unroutable" THEN <<"BusinessReject">> ELSE <<>>
  <2>1. replies \in Seq(Seq(ReplyKinds)) /\ Len(replies) = Len(req)
    BY DEF TypeOK, ReplyTypes
  <2>2. replies' = Append(replies, y)
    BY <1>1
  <2> HIDE DEF y
  <2>3. replies'[Len(replies) + 1] = y /\ \A j \in 1..Len(replies) : replies'[j] = replies[j]
    BY <2>1, <2>2
  <2>4. n - 1 = Len(req)
    BY <1>0 DEF TypeOK, RouterTypes
  <2>. QED BY <2>1, <2>3, <2>4 DEF y
<1>5. OneAtMost(x) /\ (r.fault # "unroutable" => Silent(x))
  BY <1>4 DEF OneAtMost, Silent
<1> HIDE DEF x
<1>6. \A j \in Nat : ~AtRouter(j) /\ (AtRouter(j)' => j = n /\ r.fault # "unroutable")
  BY <1>1, <1>2, <1>3 DEF AtRouter
<1>7. \A j \in Nat : Ticketed(j)' => Ticketed(j) \/ (j = n /\ r.fault # "unroutable")
  <2>1. tickets' = tickets \/ (tickets' = Append(tickets, n) /\ r.fault # "unroutable")
    BY <1>0, <1>1
  <2>. QED BY <1>3, <2>1, AppendedTo DEF Ticketed
<1>8. \A j \in 1..(n - 1) : Unanswered(j)' => Unanswered(j)
  <2>1. \A j \in 1..(n - 1) : j \in Nat /\ j # n
    BY <1>3
  <2>. QED BY <1>2, <1>6, <1>7, <2>1 DEF Unanswered, SamePlaces
<1>9. Unanswered(n)' => r.fault # "unroutable"
  <2>1. \A u \in Units : ~InBox(u, n) /\ ~AtInput(n) /\ ~InWork(u, n) /\ ~AtWorker(u, n)
    <3>1. n \notin 1..Len(req)
      BY <1>0
    <3>. QED BY <1>3, <3>1, PlacesReceived
  <2>2. "New" \in Units /\ n \in Nat
    BY <1>3 DEF Units
  <2>3. AtRouter(n)' => r.fault # "unroutable"
    BY <1>6, <2>2
  <2>4. \A u \in Units : ~InBox(u, n)' /\ ~AtInput(n)' /\ ~InWork(u, n)' /\ ~AtWorker(u, n)'
    BY <1>2, <2>1, <2>2 DEF SamePlaces
  <2>. QED BY <2>2, <2>3, <2>4 DEF Unanswered
<1>10. \A j \in 1..n : j \in 1..(n - 1) \/ j = n
  BY <1>3
<1>11. ASSUME NEW j \in 1..(n - 1)
       PROVE  /\ Unanswered(j)' => Silent(replies'[j])
              /\ ~TwiceRejected(req'[j].body) => OneAtMost(replies'[j])
  BY <1>3, <1>4, <1>8 DEF ReplyInv
<1>12. /\ Unanswered(n)' => Silent(replies'[n])
       /\ OneAtMost(replies'[n])
  BY <1>5, <1>9 DEF x
<1>13. DOMAIN req' = 1..n
  BY <1>3
<1>. QED BY <1>10, <1>11, <1>12, <1>13 DEF ReplyInv

\* The push of a request to its unit answers nothing.
LEMMA RouterAppendReplies ==
  ASSUME TypeOK, OrderInv, ReplyInv, RouterAppend
  PROVE  ReplyInv'
<1>1. UNCHANGED <<req, replies>> /\ wpc' = wpc
  BY DEF RouterAppend, workerVars
<1>2. \A j \in Nat : Unanswered(j)' => Unanswered(j)
  BY <1>1, RouterAppendMoves DEF Unanswered, SamePlaces
<1>. QED BY <1>1, <1>2, NoAnswer

\* NewOrder::onInput rejects a request once, or for its type and for its side.
LEMMA NewOrderOnInputReplies ==
  ASSUME TypeOK, OrderInv, ReplyInv, NewOrderOnInput
  PROVE  ReplyInv'
<1>1. /\ "New" \in Units /\ inbox["New"] # <<>> /\ inbox' = [inbox EXCEPT !["New"] = Tail(@)]
      /\ SamePlaces({"router", "input", "worker"}) /\ UNCHANGED <<req, wpc>>
  BY DEF NewOrderOnInput, Units, routerVars, SamePlaces, AtRouter, AtInput, AtWorker
<1>2. PICK i \in Nat :
        /\ i = Head(inbox["New"]) /\ InBox("New", i)
        /\ \A j \in Nat, u \in Units : InBox(u, j)' <=> InBox(u, j) /\ ~(u = "New" /\ j = i)
  BY <1>1, InboxTaken
<1> DEFINE r == req[i].body
           x == Rejects(r)
<1>3. i \in DOMAIN req /\ r.unit = "New"
  <2>1. i \in 1..Len(req)
    BY <1>1, <1>2, PlacesReceived
  <2>2. Belongs(i, "New")
    BY <1>1, <1>2, InboxHead DEF OrderInv
  <2>. QED BY <2>1, <2>2 DEF TypeOK, RouterTypes, Belongs
<1>4. \A u \in Units : ~AtRouter(i) /\ ~AtInput(i) /\ ~InWork(u, i) /\ ~AtWorker(u, i) /\ (InBox(u, i) => u = "New")
  BY <1>1, <1>2, OnePlace
<1>5. /\ x # <<>> => Finish(i)
      /\ x = <<>> => UNCHANGED tickets
      /\ replies' = [replies EXCEPT ![i] = @ \o x]
      /\ work' = work \/ work' = [work EXCEPT !["New"] = Append(@, i)]
  BY <1>2 DEF NewOrderOnInput, lockVars
<1>6. /\ x \in Seq(ReplyKinds)
      /\ x = <<>> \/ x = <<"BusinessReject">> \/ TwiceRejected(r)
  <2>1. "BusinessReject" \in ReplyKinds
    BY DEF ReplyKinds
  <2>2. CASE r.fault = "missing"
    BY <2>1, <2>2 DEF Rejects
  <2>3. CASE r.fault # "missing"
    <3> DEFINE y == IF r.fault = "ordtype" THEN <<"BusinessReject">> ELSE <<>>
               z == IF r.side = "Unsupported" THEN <<"BusinessReject">> ELSE <<>>
    <3>1. x = y \o z
      BY <2>3 DEF Rejects
    <3>2. y \in Seq(ReplyKinds) /\ z \in Seq(ReplyKinds)
      BY <2>1
    <3>3. CASE r.fault = "ordtype" /\ r.side = "Unsupported"
      BY <1>3, <3>1, <3>2, <3>3 DEF TwiceRejected
    <3>4. CASE r.fault # "ordtype"
      BY <2>1, <3>1, <3>2, <3>4
    <3>5. CASE r.side # "Unsupported"
      BY <2>1, <3>1, <3>2, <3>5
    <3>. QED BY <3>3, <3>4, <3>5
  <2>. QED BY <2>2, <2>3
<1> HIDE DEF x, r
<1>7. /\ \A j \in Nat : Ticketed(j)' => Ticketed(j)
      /\ x # <<>> => ~Ticketed(i)'
  <2>1. CASE x = <<>>
    BY <1>5, <2>1 DEF Ticketed
  <2>2. CASE x # <<>>
    BY <1>2, <1>5, <2>2, FinishMoves
  <2>. QED BY <2>1, <2>2
<1>8. \A j \in Nat, u \in Units : InWork(u, j)' => (InWork(u, j) \/ (u = "New" /\ j = i))
  <2>1. CASE work' = work
    BY <2>1 DEF InWork
  <2>. QED BY <1>1, <1>5, <2>1, WorkQueued
<1>9. \A j \in Nat : Unanswered(j)' => Unanswered(j)
  BY <1>1, <1>2, <1>7, <1>8 DEF Unanswered, SamePlaces
<1>10. x # <<>> => ~Unanswered(i)'
  BY <1>1, <1>2, <1>4, <1>7, <1>8 DEF Unanswered, SamePlaces
<1>11. Unanswered(i)
  BY <1>1, <1>2 DEF Unanswered
<1>12. x = <<"BusinessReject">> => \E k \in ReplyKinds : x = <<k>>
  BY DEF ReplyKinds
<1>. QED BY <1>1, <1>3, <1>5, <1>6, <1>9, <1>10, <1>11, <1>12, AnswerGiven DEF r

\* Cancel::onInput refuses a request once, and has acknowledged it then at most.
LEMMA CancelInputReplies ==
  ASSUME TypeOK, OrderInv, ReplyInv, CancelInput
  PROVE  ReplyInv'
<1>0. /\ SamePlaces({"router", "worker"}) /\ UNCHANGED <<req, wpc>> /\ "Cancel" \in Units /\ "New" \in Units
      /\ {"BusinessReject", "Unknown", "SideReject", "PendingCancel"} \subseteq ReplyKinds
  BY DEF CancelInput, CancelOnInput, CancelGetOrder, CancelPush, Units, routerVars, workerVars, SamePlaces,
     AtRouter, AtWorker, ReplyKinds
<1>1. CASE CancelOnInput
  <2>1. /\ inbox["Cancel"] # <<>> /\ inbox' = [inbox EXCEPT !["Cancel"] = Tail(@)]
        /\ SamePlaces({"work"}) /\ ipc = "idle"
    BY <1>1 DEF CancelOnInput, workerVars, SamePlaces, InWork
  <2>2. PICK i \in Nat :
          /\ i = Head(inbox["Cancel"]) /\ InBox("Cancel", i)
          /\ \A j \in Nat, u \in Units : InBox(u, j)' <=> InBox(u, j) /\ ~(u = "Cancel" /\ j = i)
    BY <1>0, <2>1, InboxTaken
  <2>3. i \in DOMAIN req
    BY <1>0, <2>2, PlacesReceived DEF TypeOK, RouterTypes
  <2>4. Unanswered(i)
    BY <1>0, <2>2 DEF Unanswered
  <2>5. \/ /\ Finish(i) /\ UNCHANGED <<ipc, ival>>
           /\ Reply(i, "BusinessReject") \/ Reply(i, "Unknown")
        \/ /\ ipc' \in {"get", "dead"} /\ ival' = i /\ UNCHANGED <<tickets, replies>>
    BY <1>1, <2>2 DEF CancelOnInput, lockVars
  <2>6. CASE Finish(i) /\ UNCHANGED <<ipc, ival>> /\ (Reply(i, "BusinessReject") \/ Reply(i, "Unknown"))
    <3>1. \A j \in Nat : (Ticketed(j)' => Ticketed(j)) /\ ~AtInput(j)'
      BY <2>1, <2>2, <2>6, FinishMoves DEF AtInput
    <3>2. \A j \in Nat : Unanswered(j)' => Unanswered(j)
      BY <1>0, <2>1, <2>2, <3>1 DEF Unanswered, SamePlaces
    <3>3. \A u \in Units : ~AtRouter(i) /\ ~InWork(u, i) /\ ~AtWorker(u, i) /\ (InBox(u, i) => u = "Cancel")
      BY <1>0, <2>2, OnePlace
    <3>4. ~Unanswered(i)'
      BY <1>0, <2>1, <2>2, <3>1, <3>3 DEF Unanswered, SamePlaces
    <3>. QED BY <1>0, <2>3, <2>4, <2>6, <3>2, <3>4, OneReplyGiven
  <2>7. CASE ipc' \in {"get", "dead"} /\ ival' = i /\ UNCHANGED <<tickets, replies>>
    <3>1. \A j \in Nat : (Ticketed(j)' => Ticketed(j)) /\ (AtInput(j)' => j = i)
      BY <2>7 DEF AtInput, Ticketed
    <3>2. \A j \in Nat : Unanswered(j)' => Unanswered(j)
      BY <1>0, <2>1, <2>2, <2>4, <3>1 DEF Unanswered, SamePlaces
    <3>. QED BY <1>0, <2>7, <3>2, NoAnswer
  <2>. QED BY <2>5, <2>6, <2>7
<1>2. ASSUME CancelGetOrder \/ CancelPush
      PROVE  /\ AtInput(ival) /\ ival \in Nat /\ ival \in DOMAIN req /\ Unanswered(ival)
             /\ SamePlaces({"inbox"}) /\ \A j \in Nat : AtInput(j) <=> j = ival
             /\ ~AtRouter(ival) /\ \A u \in Units : ~InBox(u, ival) /\ ~InWork(u, ival) /\ ~AtWorker(u, ival)
  <2>1. AtInput(ival) /\ ival \in Nat /\ (\A j \in Nat : AtInput(j) <=> j = ival) /\ SamePlaces({"inbox"})
    BY <1>2 DEF CancelGetOrder, CancelPush, AtInput, TypeOK, InputTypes, SamePlaces, InBox
  <2>2. ival \in DOMAIN req
    BY <1>0, <2>1, PlacesReceived DEF TypeOK, RouterTypes
  <2>3. ~AtRouter(ival) /\ \A u \in Units : ~InBox(u, ival) /\ ~InWork(u, ival) /\ ~AtWorker(u, ival)
    BY <1>0, <2>1, OnePlace
  <2>. QED BY <2>1, <2>2, <2>3 DEF Unanswered
<1>3. CASE CancelGetOrder
  <2>1. work' = work /\ SamePlaces({"work"})
    BY <1>3 DEF CancelGetOrder, workerVars, SamePlaces, InWork
  <2>2. \/ Finish(ival) /\ Reply(ival, "SideReject") /\ ipc' = "idle"
        \/ UNCHANGED <<tickets, replies>> /\ ival' = ival
    BY <1>3 DEF CancelGetOrder, lockVars
  <2>3. CASE Finish(ival) /\ Reply(ival, "SideReject") /\ ipc' = "idle"
    <3>1. \A j \in Nat : (Ticketed(j)' => Ticketed(j)) /\ ~AtInput(j)'
      BY <1>2, <1>3, <2>3, FinishMoves DEF AtInput
    <3>2. \A j \in Nat : Unanswered(j)' => Unanswered(j)
      BY <1>0, <1>2, <1>3, <2>1, <3>1 DEF Unanswered, SamePlaces
    <3>3. PICK i \in DOMAIN req : i = ival /\ i \in Nat
      BY <1>2, <1>3
    <3>4. ~Unanswered(i)'
      BY <1>0, <1>2, <1>3, <2>1, <3>1, <3>3 DEF Unanswered, SamePlaces
    <3>. QED BY <1>0, <1>2, <1>3, <2>3, <3>2, <3>3, <3>4, OneReplyGiven
  <2>4. CASE UNCHANGED <<tickets, replies>> /\ ival' = ival
    <3>1. \A j \in Nat : (Ticketed(j)' => Ticketed(j)) /\ (AtInput(j)' => AtInput(j))
      BY <1>2, <1>3, <2>4 DEF AtInput, Ticketed
    <3>2. \A j \in Nat : Unanswered(j)' => Unanswered(j)
      BY <1>0, <1>2, <1>3, <2>1, <3>1 DEF Unanswered, SamePlaces
    <3>. QED BY <1>0, <2>4, <3>2, NoAnswer
  <2>. QED BY <2>2, <2>3, <2>4
<1>4. CASE CancelPush
  <2>1. UNCHANGED tickets /\ work' = [work EXCEPT !["Cancel"] = Append(@, ival)] /\ ipc' = "idle"
        /\ (Reply(ival, "PendingCancel") \/ UNCHANGED replies)
    BY <1>4 DEF CancelPush, lockVars
  <2>2. /\ \A j \in Nat : (Ticketed(j)' => Ticketed(j)) /\ ~AtInput(j)'
        /\ \A j \in Nat, u \in Units : InWork(u, j)' => (InWork(u, j) \/ (u = "Cancel" /\ j = ival))
    BY <1>0, <1>2, <1>4, <2>1, WorkQueued DEF Ticketed, AtInput
  <2>3. \A j \in Nat : Unanswered(j)' => Unanswered(j)
    BY <1>0, <1>2, <1>4, <2>2 DEF Unanswered, SamePlaces
  <2>4. CASE UNCHANGED replies
    BY <1>0, <2>3, <2>4, NoAnswer
  <2>5. CASE Reply(ival, "PendingCancel")
    BY <1>0, <1>2, <1>4, <2>3, <2>5, OneReplyGiven
  <2>. QED BY <2>1, <2>4, <2>5
<1>. QED BY <1>1, <1>3, <1>4 DEF CancelInput

\* What a worker answers: the outcome of the request it has in hand, on its way
\* out or with the acknowledgement.
LEMMA WorkerAnswers ==
  ASSUME TypeOK, OrderInv, NEW v \in Units, Worker(v), ~WorkerPop(v)
  PROVE  /\ \/ UNCHANGED replies
            \/ /\ \E k \in ReplyKinds : Reply(cur[v], k)
               /\ \/ wpc[v] = "report" /\ wpc'[v] = "idle"
                  \/ v = "New" /\ wpc[v] = "cs" /\ wpc'[v] = "fill"
         /\ wpc'[v] \in BeforeOutcome(v) => wpc[v] \in BeforeOutcome(v)
         /\ v = "New" /\ wpc'[v] = "report" => wpc[v] = "cs"
<1> USE DEF GoTo, HoldsLock, BeforeOutcome
<1>0. wpc \in [Units -> WorkerPoints] /\ {"New", "TickReject"} \subseteq ReplyKinds
  BY DEF TypeOK, WorkerTypes, ReplyKinds
<1>2. CASE LockSpin(v) \/ LockSet(v)
  BY <1>0, <1>2 DEF LockSpin, LockSet
<1>3. CASE WorkerReport(v)
  <2>1. note[v] \in ReplyKinds
    BY <1>3 DEF WorkerReport, TypeOK, NoteTypes
  <2>. QED BY <1>0, <1>3, <2>1 DEF WorkerReport
<1>4. CASE v = "New" /\ NewOrderHolds
  BY <1>0, <1>4 DEF NewOrderHolds, NewOrderCheck, NewOrderFill, NewOrderUnmap, NewOrderRest, NewOrderMap,
     NewOrderUnlock, UnlockThenReport
<1>5. CASE v = "Cancel" /\ CancelHolds
  BY <1>0, <1>5 DEF CancelHolds, CancelCheck, CancelErase, UnlockThenReport
<1>. QED BY <1>2, <1>3, <1>4, <1>5 DEF Worker

\* A worker answers what nobody has answered, and once.
LEMMA WorkerReplies ==
  ASSUME TypeOK, OrderInv, ReplyInv, NEW v \in Units, Worker(v)
  PROVE  ReplyInv'
<1>0. wpc \in [Units -> WorkerPoints] /\ "Cancel" \in Units
  BY DEF TypeOK, WorkerTypes, Units
<1>1. CASE WorkerPop(v)
  <2>1. /\ \A u \in Units : u # v => wpc'[u] = wpc[u]
        /\ wpc'[v] = "empty" /\ wpc[v] = "idle"
    BY <1>0, <1>1, PopMoves
  <2>2. \A j \in Nat : ~AtWorker(v, j)
    BY <2>1 DEF AtWorker
  <2>3. ASSUME NEW j \in Nat, Unanswered(j)' PROVE Unanswered(j)
    BY <1>1, <2>1, <2>2, <2>3, PopMoves DEF Unanswered, SamePlaces, BeforeOutcome
  <2>. QED BY <1>1, <2>3, NoAnswer DEF WorkerPop, routerVars
<1>2. CASE ~WorkerPop(v)
  <2>1. PICK i \in Nat : i = cur[v] /\ AtWorker(v, i)
    BY <1>2, WorkerMoves DEF AtWorker
  <2>2. /\ \A j \in Nat : AtWorker(v, j) => j = i
        /\ \A j \in Nat : \A u \in Units : u # v => (AtWorker(u, j)' <=> AtWorker(u, j))
        /\ \A j \in Nat : AtWorker(v, j)' => wpc'[v] # "idle" /\ AtWorker(v, j)
    BY <1>2, <2>1, WorkerMoves DEF AtWorker
  <2>3. ~AtRouter(i) /\ ~AtInput(i)
        /\ \A u \in Units : ~InBox(u, i) /\ ~InWork(u, i) /\ (AtWorker(u, i) => u = v)
    BY <2>1, OnePlace
  <2>4. i \in DOMAIN req
    BY <2>1, PlacesReceived DEF TypeOK, RouterTypes
  <2>5. \A j \in Nat : Ticketed(j)' => Ticketed(j)
    BY <1>2, WorkerMoves DEF Ticketed
  <2>6. wpc[v] = "cs" => Ticketed(i)
    BY <2>1, FirstTicketed DEF HoldsLock
  <2>7. ASSUME NEW j \in Nat, Unanswered(j)' PROVE Unanswered(j)
    <3>1. CASE \E u \in Units : u # v /\ AtWorker(u, j) /\ wpc'[u] \in BeforeOutcome(u)
                                /\ (u = "Cancel" \/ wpc'[u] = "report" \/ Ticketed(j)')
      BY <1>2, <2>5, <3>1, WorkerMoves DEF Unanswered
    <3>2. CASE AtWorker(v, j)' /\ wpc'[v] \in BeforeOutcome(v)
               /\ (v = "Cancel" \/ wpc'[v] = "report" \/ Ticketed(j)')
      <4>1. j = i /\ wpc[v] \in BeforeOutcome(v) /\ AtWorker(v, j)
        BY <1>2, <2>2, <3>2, WorkerAnswers
      <4>2. v = "Cancel" \/ Ticketed(j)
        BY <1>2, <2>5, <2>6, <3>2, <4>1, WorkerAnswers DEF Units
      <4>. QED BY <4>1, <4>2 DEF Unanswered
    <3>3. CASE AtRouter(j)' \/ AtInput(j)' \/ (\E u \in Units : InBox(u, j)')
               \/ \E u \in Units : InWork(u, j)' /\ (u = "Cancel" \/ Ticketed(j)')
      BY <1>2, <2>5, <3>3, WorkerMoves DEF Unanswered, SamePlaces
    <3>. QED BY <2>2, <2>7, <3>1, <3>2, <3>3 DEF Unanswered
  <2>8. CASE UNCHANGED replies
    BY <1>2, <2>7, <2>8, WorkerMoves, NoAnswer
  <2>9. ASSUME NEW k \in ReplyKinds, Reply(cur[v], k),
               \/ wpc[v] = "report" /\ wpc'[v] = "idle"
               \/ v = "New" /\ wpc[v] = "cs" /\ wpc'[v] = "fill"
        PROVE  ReplyInv'
    <3>1. Unanswered(i)
      BY <2>1, <2>6, <2>9 DEF Unanswered, BeforeOutcome
    <3>2. ~Unanswered(i)'
      BY <1>2, <2>2, <2>3, <2>9, WorkerMoves DEF Unanswered, SamePlaces, BeforeOutcome
    <3>. QED BY <1>2, <2>1, <2>4, <2>7, <2>9, <3>1, <3>2, WorkerMoves, OneReplyGiven
  <2>. QED BY <1>2, <2>8, <2>9, WorkerAnswers
<1>. QED BY <1>1, <1>2

\* A client is told at most one outcome of a request, but for an order rejected
\* both for its type and for its side.
THEOREM OutcomeOnce == Spec => []OneOutcome
<1>1. Init => ReplyInv
  BY DEF Init, ReplyInv
<1>2. TypeOK /\ OrderInv /\ ReplyInv /\ [Next]_vars => ReplyInv'
  <2> SUFFICES ASSUME TypeOK, OrderInv, ReplyInv, [Next]_vars PROVE ReplyInv'
    OBVIOUS
  <2>1. CASE UNCHANGED vars
    <3>1. \A j \in Nat : Unanswered(j)' => Unanswered(j)
      BY <2>1 DEF vars, routerVars, lockVars, inputVars, workerVars, Unanswered, Ticketed, AtRouter, AtInput,
         InBox, InWork, AtWorker
    <3>. QED BY <2>1, <3>1, NoAnswer DEF vars, routerVars
  <2>. QED BY <2>1, RouterReceiveReplies, RouterAppendReplies, NewOrderOnInputReplies, CancelInputReplies,
           WorkerReplies DEF Next
<1>3. TypeOK /\ ReplyInv => OneOutcome
  <2> SUFFICES ASSUME TypeOK, ReplyInv, NEW i \in DOMAIN replies, ~TwiceRejected(req[i].body)
               PROVE  Cardinality({k \in DOMAIN replies[i] : replies[i][k] # "PendingCancel"}) <= 1
    BY DEF OneOutcome
  <2> DEFINE S == {k \in DOMAIN replies[i] : replies[i][k] # "PendingCancel"}
  <2>1. \A j, k \in S : j = k
    BY DEF TypeOK, RouterTypes, ReplyTypes, ReplyInv, OneAtMost
  <2> HIDE DEF S
  <2>2. CASE S = {}
    <3>1. Cardinality({}) = 0
      BY FS_EmptySet
    <3>. QED BY <2>2, <3>1 DEF S
  <2>3. CASE S # {}
    <3>1. PICK k : S = {k}
      BY <2>1, <2>3
    <3>2. Cardinality({k}) = 1
      BY FS_Singleton
    <3>. QED BY <3>1, <3>2 DEF S
  <2>. QED BY <2>2, <2>3
<1>. QED BY <1>1, <1>2, <1>3, InvariantHolds, PTL DEF Spec
=============================================================================
