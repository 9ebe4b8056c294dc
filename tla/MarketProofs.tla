---------------------------- MODULE MarketProofs ----------------------------
(***************************************************************************)
(* Proofs about Market, for every set of requests and every bound: types,  *)
(* the inductive invariant OrderInv, and what follows from it.             *)
(***************************************************************************)
EXTENDS Market, TLAPS

-----------------------------------------------------------------------------
(* Sequences *)

\* finish() of an ordered queue gives an ordered queue whose entries keep
\* their place or move one forward; the first one stays unless it is the one
\* dropped.
LEMMA FinishedShape ==
  ASSUME NEW q \in Seq(Nat), NEW i \in Nat, Increasing(q)
  PROVE  LET f == Finished(q, i)
         IN /\ f \in Seq(Nat)
            /\ Increasing(f)
            /\ \A k \in DOMAIN f : \/ k \in DOMAIN q /\ f[k] = q[k]
                                   \/ k + 1 \in DOMAIN q /\ f[k] = q[k + 1]
            /\ q # <<>> /\ Head(q) # i => f # <<>> /\ f[1] = q[1]
<1> DEFINE f == Finished(q, i)
<1>1. CASE ~ \E k \in DOMAIN q : q[k] = i
  BY <1>1 DEF Finished
<1>2. CASE \E k \in DOMAIN q : q[k] = i
  <2>1. PICK p \in DOMAIN q : q[p] = i
    BY <1>2
  <2>2. \A j \in DOMAIN q : j > p => q[j] # i
    BY <2>1 DEF Increasing
  <2>3. LastAt(q, i) \in DOMAIN q /\ q[LastAt(q, i)] = i
    BY <2>1, <2>2 DEF LastAt
  <2> DEFINE n == Len(q) - 1
             g == [j \in 1..n |-> IF j < LastAt(q, i) THEN q[j] ELSE q[j + 1]]
  <2>4. f = g
    BY <1>2 DEF Finished
  <2>5. n \in Nat /\ DOMAIN q = 1..(n + 1) /\ LastAt(q, i) \in 1..(n + 1)
    BY <2>3
  <2>6. \A j \in 1..n : g[j] \in Nat
    BY <2>5
  <2>7. g \in Seq(Nat) /\ DOMAIN g = 1..n
    BY <2>5, <2>6
  <2>8. Increasing(g)
    <3>1. \A j, k \in 1..(n + 1) : j < k => q[j] < q[k]
      BY <2>5 DEF Increasing
    <3>2. \A j \in 1..(n + 1) : q[j] \in Nat
      BY <2>5
    <3>3. ASSUME NEW j \in 1..n, NEW k \in 1..n, j < k PROVE g[j] < g[k]
      <4>1. j \in 1..(n + 1) /\ k \in 1..(n + 1) /\ j + 1 \in 1..(n + 1)
            /\ k + 1 \in 1..(n + 1)
        BY <2>5
      <4>2. g[j] = IF j < LastAt(q, i) THEN q[j] ELSE q[j + 1]
        OBVIOUS
      <4>3. g[k] = IF k < LastAt(q, i) THEN q[k] ELSE q[k + 1]
        OBVIOUS
      <4> HIDE DEF g, n
      <4>4. q[j] < q[k] /\ q[j + 1] < q[k + 1] /\ q[j] < q[k + 1]
        BY <3>1, <3>3, <4>1
      <4>. QED BY <3>3, <4>1, <4>2, <4>3, <4>4, <2>5
    <3>. QED BY <3>3, <2>7 DEF Increasing
  <2>9. \A k \in DOMAIN g : \/ k \in DOMAIN q /\ g[k] = q[k]
                            \/ k + 1 \in DOMAIN q /\ g[k] = q[k + 1]
    BY <2>5, <2>7
  <2>10. ASSUME q # <<>>, Head(q) # i PROVE g # <<>> /\ g[1] = q[1]
    <3>1. LastAt(q, i) > 1
      BY <2>3, <2>5, <2>10
    <3>2. n >= 1
      BY <3>1, <2>5
    <3>3. g[1] = q[1]
      BY <3>1, <3>2
    <3>4. 1 \in DOMAIN g
      BY <2>5, <2>7, <3>2
    <3>5. g # <<>>
      <4> HIDE DEF g
      <4>. QED BY <3>4, <2>7
    <3>. QED BY <3>3, <3>5
  <2>. QED BY <2>4, <2>7, <2>8, <2>9, <2>10
<1>. QED BY <1>1, <1>2

\* unlock() drops the first entry of an ordered queue.
LEMMA TailShape ==
  ASSUME NEW q \in Seq(Nat), q # <<>>, Increasing(q)
  PROVE  /\ Tail(q) \in Seq(Nat) /\ Increasing(Tail(q))
         /\ Len(Tail(q)) = Len(q) - 1
         /\ \A k \in DOMAIN Tail(q) : /\ k + 1 \in DOMAIN q
                                      /\ Tail(q)[k] = q[k + 1]
                                      /\ Tail(q)[k] > Head(q)
BY DEF Increasing

\* A request younger than all of a queue keeps it in order when it is appended.
LEMMA AppendShape ==
  ASSUME NEW q \in Seq(Nat), NEW i \in Nat, Increasing(q),
         \A k \in DOMAIN q : q[k] < i
  PROVE  /\ Append(q, i) \in Seq(Nat) /\ Increasing(Append(q, i))
         /\ Append(q, i) # <<>>
         /\ DOMAIN Append(q, i) = 1..(Len(q) + 1)
         /\ \A k \in DOMAIN Append(q, i) :
              \/ k \in DOMAIN q /\ Append(q, i)[k] = q[k]
              \/ k = Len(q) + 1 /\ Append(q, i)[k] = i
<1> DEFINE s == Append(q, i)
           n == Len(q)
<1>1. /\ n \in Nat /\ DOMAIN q = 1..n /\ \A k \in 1..n : q[k] \in Nat
  OBVIOUS
<1>2. s \in Seq(Nat) /\ Len(s) = n + 1 /\ DOMAIN s = 1..(n + 1)
  OBVIOUS
<1>3. (\A k \in 1..n : s[k] = q[k]) /\ s[n + 1] = i
  OBVIOUS
<1>4. s # <<>>
  BY <1>1, <1>2
<1> HIDE DEF s, n
<1>5. \A k \in 1..(n + 1) : \/ k \in 1..n /\ s[k] = q[k]
                            \/ k = n + 1 /\ s[k] = i
  BY <1>1, <1>3
<1>6. Increasing(s)
  <2> SUFFICES ASSUME NEW j \in 1..(n + 1), NEW k \in 1..(n + 1), j < k
               PROVE  s[j] < s[k]
    BY <1>2 DEF Increasing
  <2>1. j \in 1..n /\ s[j] = q[j]
    BY <1>1, <1>3
  <2>2. CASE k = n + 1
    BY <2>1, <2>2, <1>1, <1>3
  <2>3. CASE k \in 1..n
    <3>1. q[j] < q[k]
      BY <2>1, <2>3, <1>1 DEF Increasing
    <3>. QED BY <3>1, <2>1, <2>3, <1>3
  <2>. QED BY <2>2, <2>3, <1>1
<1>. QED BY <1>1, <1>2, <1>4, <1>5, <1>6 DEF s, n

\* Writing one reply sequence keeps the type and the length of the replies.
LEMMA ReplacedReply ==
  ASSUME NEW s \in Seq(Seq(ReplyKinds)), NEW i \in DOMAIN s, NEW x \in Seq(ReplyKinds)
  PROVE  [s EXCEPT ![i] = x] \in Seq(Seq(ReplyKinds)) /\ Len([s EXCEPT ![i] = x]) = Len(s)
<1> DEFINE t == [j \in 1..Len(s) |-> IF j = i THEN x ELSE s[j]]
<1>1. [s EXCEPT ![i] = x] = t
  <2>1. DOMAIN s = 1..Len(s)
    OBVIOUS
  <2>2. [s EXCEPT ![i] = x] = [j \in DOMAIN s |-> IF j = i THEN x ELSE s[j]]
    BY Zenon
  <2>. QED BY <2>1, <2>2
<1>2. Len(s) \in Nat /\ \A j \in 1..Len(s) : t[j] \in Seq(ReplyKinds)
  OBVIOUS
<1>3. t \in Seq(Seq(ReplyKinds)) /\ Len(t) = Len(s)
  BY <1>2
<1>. QED BY <1>1, <1>3

-----------------------------------------------------------------------------
(* Types *)

\* What the router has received, and what a request is made of.
LEMMA ReceivedRequests ==
  ASSUME TypeOK
  PROVE  DOMAIN req = 1..Len(req) /\ \A i \in 1..Len(req) : req[i].body \in Request
<1> DEFINE R == [body : Requests, known : BOOLEAN]
<1>1. req \in Seq(R)
  BY DEF TypeOK, RouterTypes
<1>2. \A x \in R : x.body \in Request
  BY RequestsAssumption
<1> HIDE DEF R
<1>. QED BY <1>1, <1>2

\* The request a thread has in hand, and its ticket, exist.
LEMMA InHandExists ==
  ASSUME TypeOK, OrderInv
  PROVE  /\ \A u \in Units : wpc[u] # "idle" =>
                cur[u] \in DOMAIN req /\ req[cur[u]].body \in Request
                /\ req[cur[u]].body.unit = u /\ req[cur[u]].body.side \in Sides
         /\ \A u \in Units : inbox[u] # <<>> =>
                Head(inbox[u]) \in DOMAIN req /\ req[Head(inbox[u])].body \in Request
                /\ req[Head(inbox[u])].body.unit = u
         /\ ipc # "idle" => ival \in DOMAIN req /\ req[ival].body \in Request
                            /\ req[ival].body.unit = "Cancel"
         /\ DOMAIN replies = DOMAIN req
<1>1. DOMAIN req = 1..Len(req) /\ \A i \in DOMAIN req : req[i].body \in Request
  BY ReceivedRequests
<1>2. \A u \in Units : wpc[u] # "idle" => cur[u] \in DOMAIN req
          /\ req[cur[u]].body.unit = u /\ req[cur[u]].body.side \in Sides
  BY <1>1 DEF OrderInv, QueueInv, CurOrdered, Workable, Belongs
<1>3. ASSUME NEW u \in Units, inbox[u] # <<>>
      PROVE  Head(inbox[u]) \in DOMAIN req /\ req[Head(inbox[u])].body.unit = u
  <2>1. 1 \in DOMAIN inbox[u] /\ Head(inbox[u]) = inbox[u][1]
    BY <1>3 DEF TypeOK, InputTypes
  <2>. QED BY <1>1, <2>1 DEF OrderInv, QueueInv, InboxOrdered, Belongs
<1>4. ipc # "idle" => ival \in DOMAIN req /\ req[ival].body.unit = "Cancel"
  BY <1>1 DEF OrderInv, QueueInv, InputOrdered, Belongs
<1>5. DOMAIN replies = DOMAIN req
  BY <1>1 DEF TypeOK, ReplyTypes
<1>. QED BY <1>1, <1>2, <1>3, <1>4, <1>5

\* Replies are only ever appended to those of a request that was received.
LEMMA ReplyTyped ==
  ASSUME TypeOK, NEW i \in DOMAIN req, NEW x \in Seq(ReplyKinds),
         req' = req, replies' = [replies EXCEPT ![i] = x]
  PROVE  ReplyTypes'
<1>1. i \in DOMAIN replies /\ replies \in Seq(Seq(ReplyKinds)) /\ Len(replies) = Len(req)
  <2>1. Len(req) \in Nat /\ DOMAIN req = 1..Len(req)
    BY DEF TypeOK, RouterTypes
  <2>. QED BY <2>1 DEF TypeOK, ReplyTypes
<1>. QED BY <1>1, ReplacedReply DEF ReplyTypes

\* ts::Queue::append() of one reply keeps the type of the replies.
LEMMA OneReplyTyped ==
  ASSUME TypeOK, NEW i \in DOMAIN req, NEW k \in ReplyKinds, req' = req, Reply(i, k)
  PROVE  ReplyTypes'
<1>1. replies[i] \in Seq(ReplyKinds)
  <2>1. i \in DOMAIN replies /\ replies \in Seq(Seq(ReplyKinds))
    BY DEF TypeOK, ReplyTypes, RouterTypes
  <2>. QED BY <2>1
<1>2. Append(replies[i], k) \in Seq(ReplyKinds)
  BY <1>1
<1>. QED BY <1>2, ReplyTyped DEF Reply

\* What unlock() and finish() leave in m_queue is a queue of requests again.
LEMMA TicketsTyped ==
  ASSUME TypeOK, OrderInv
  PROVE  /\ \A i \in Nat : Finished(tickets, i) \in Seq(Nat)
         /\ tickets # <<>> => Tail(tickets) \in Seq(Nat)
BY FinishedShape, TailShape DEF TypeOK, LockTypes, OrderInv, LockInv, TicketsOrdered

\* MarketRouter::onInput keeps the types.
LEMMA RouterReceiveTypes == TypeOK /\ RouterReceive => TypeOK'
<1> SUFFICES ASSUME TypeOK, RouterReceive PROVE TypeOK'
  OBVIOUS
<1> DEFINE R == [body : Requests, known : BOOLEAN]
<1>1. PICK r \in Requests : req' = Append(req, [body |-> r, known |-> <<r.id, r.side>> \in open])
  BY DEF RouterReceive
<1>2. req \in Seq(R) /\ [body |-> r, known |-> <<r.id, r.side>> \in open] \in R
  BY DEF TypeOK, RouterTypes
<1>3. req' \in Seq(R) /\ Len(req') = Len(req) + 1 /\ Len(req) \in Nat
  <2> HIDE DEF R
  <2>. QED BY <1>1, <1>2
<1>4. RouterTypes'
  BY <1>3 DEF RouterReceive, TypeOK, RouterTypes
<1>5. LockTypes'
  <2>1. tickets' \in {tickets, Append(tickets, Len(req) + 1)} /\ locked' = locked
    BY DEF RouterReceive
  <2>2. Len(req) + 1 \in Nat
    BY <1>3
  <2>. QED BY <2>1, <2>2 DEF TypeOK, LockTypes
<1>6. InputTypes' /\ WorkerTypes' /\ NoteTypes' /\ BookTypes' /\ HistoryTypes'
  BY DEF RouterReceive, TypeOK, InputTypes, WorkerTypes, NoteTypes, BookTypes,
         HistoryTypes, inputVars, workerVars, bookVars
<1>7. ReplyTypes'
  <2>1. <<"BusinessReject">> \in Seq(ReplyKinds) /\ <<>> \in Seq(ReplyKinds)
    BY DEF ReplyKinds
  <2>2. PICK x \in Seq(ReplyKinds) : replies' = Append(replies, x)
    BY <2>1 DEF RouterReceive
  <2>. QED BY <2>2, <1>3 DEF TypeOK, ReplyTypes
<1>. QED BY <1>4, <1>5, <1>6, <1>7 DEF TypeOK

\* The push of a request to its unit keeps the types.
LEMMA RouterAppendTypes == TypeOK /\ RouterAppend => TypeOK'
<1> SUFFICES ASSUME TypeOK, RouterAppend PROVE TypeOK'
  OBVIOUS
<1>1. Len(req) \in Nat
  BY DEF TypeOK, RouterTypes
<1>2. InputTypes'
  <2> DEFINE x == req[Len(req)].body.unit
             n == Len(req)
  <2>1. inbox' = [inbox EXCEPT ![x] = Append(inbox[x], n)] /\ UNCHANGED <<ipc, ival>>
    BY DEF RouterAppend
  <2>2. inbox \in [Units -> Seq(Nat)]
    BY DEF TypeOK, InputTypes
  <2>3. n \in Nat
    BY <1>1
  <2> HIDE DEF x, n
  <2>4. inbox' \in [Units -> Seq(Nat)]
    <3>1. inbox' = [u \in Units |-> IF u = x THEN Append(inbox[x], n) ELSE inbox[u]]
      BY <2>1, <2>2
    <3>2. \A u \in Units : inbox'[u] \in Seq(Nat)
      BY <3>1, <2>2, <2>3
    <3>. QED BY <3>1, <3>2
  <2>. QED BY <2>1, <2>4 DEF TypeOK, InputTypes
<1>. QED BY <1>2 DEF RouterAppend, TypeOK, RouterTypes, LockTypes, WorkerTypes, NoteTypes,
            BookTypes, ReplyTypes, HistoryTypes, lockVars, workerVars, bookVars

\* NewOrder::onInput keeps the types.
LEMMA NewOrderOnInputTypes == TypeOK /\ OrderInv /\ NewOrderOnInput => TypeOK'
<1> SUFFICES ASSUME TypeOK, OrderInv, NewOrderOnInput PROVE TypeOK'
  OBVIOUS
<1> DEFINE i == Head(inbox["New"])
<1>1. i \in DOMAIN req /\ i \in Nat /\ inbox["New"] \in Seq(Nat) /\ inbox["New"] # <<>>
  <2>1. inbox["New"] \in Seq(Nat) /\ inbox["New"] # <<>>
    BY DEF NewOrderOnInput, TypeOK, InputTypes, Units
  <2>. QED BY <2>1, InHandExists DEF Units
<1>2. LockTypes'
  BY <1>1, TicketsTyped DEF NewOrderOnInput, Finish, TypeOK, LockTypes, lockVars
<1>3. InputTypes'
  BY <1>1 DEF NewOrderOnInput, TypeOK, InputTypes, Units
<1>4. WorkerTypes'
  BY <1>1 DEF NewOrderOnInput, TypeOK, WorkerTypes, Units
<1>5. ReplyTypes'
  <2>1. Rejects(req[i].body) \in Seq(ReplyKinds)
    <3>1. <<"BusinessReject">> \in Seq(ReplyKinds) /\ <<>> \in Seq(ReplyKinds)
      BY DEF ReplyKinds
    <3>2. \A x, y \in Seq(ReplyKinds) : x \o y \in Seq(ReplyKinds)
      OBVIOUS
    <3>. QED BY <3>1, <3>2, Zenon DEF Rejects
  <2>2. replies[i] \in Seq(ReplyKinds)
    <3>1. i \in DOMAIN replies /\ replies \in Seq(Seq(ReplyKinds))
      BY <1>1 DEF TypeOK, ReplyTypes, RouterTypes
    <3>. QED BY <3>1
  <2>3. replies[i] \o Rejects(req[i].body) \in Seq(ReplyKinds)
    BY <2>1, <2>2
  <2>4. req' = req /\ replies' = [replies EXCEPT ![i] = replies[i] \o Rejects(req[i].body)]
    BY DEF NewOrderOnInput, routerVars
  <2>. QED BY <1>1, <2>3, <2>4, ReplyTyped
<1>. QED BY <1>2, <1>3, <1>4, <1>5
     DEF NewOrderOnInput, TypeOK, RouterTypes, NoteTypes, BookTypes, HistoryTypes,
         routerVars, bookVars

\* Cancel::onInput, in its three steps, keeps the types.
LEMMA CancelInputTypes == TypeOK /\ OrderInv /\ CancelInput => TypeOK'
<1> SUFFICES ASSUME TypeOK, OrderInv, CancelInput PROVE TypeOK'
  OBVIOUS
<1>0. req' = req /\ UNCHANGED <<rpc, left, applied, rest>> /\ WorkerTypes /\ BookTypes
  BY DEF CancelInput, CancelOnInput, CancelGetOrder, CancelPush, routerVars, workerVars,
         bookVars, TypeOK
<1>1. CASE CancelOnInput
  <2> DEFINE i == Head(inbox["Cancel"])
  <2>1. i \in DOMAIN req /\ i \in Nat /\ inbox["Cancel"] \in Seq(Nat) /\ inbox["Cancel"] # <<>>
    <3>1. inbox["Cancel"] \in Seq(Nat) /\ inbox["Cancel"] # <<>>
      BY <1>1 DEF CancelOnInput, TypeOK, InputTypes, Units
    <3>. QED BY <3>1, InHandExists DEF Units
  <2>2. LockTypes'
    BY <1>1, <2>1, TicketsTyped DEF CancelOnInput, Finish, TypeOK, LockTypes, lockVars
  <2>3. InputTypes'
    BY <1>1, <2>1 DEF CancelOnInput, TypeOK, InputTypes, Units
  <2>4. BookTypes'
    BY <1>1 DEF CancelOnInput, TypeOK, BookTypes, bookVars, Opposite, BookOf, Books
  <2>5. ReplyTypes'
    <3>1. \/ Reply(i, "BusinessReject") \/ Reply(i, "Unknown") \/ replies' = replies
      BY <1>1 DEF CancelOnInput
    <3>2. CASE replies' = replies
      BY <3>2, <1>0 DEF TypeOK, ReplyTypes
    <3>. QED BY <1>0, <2>1, <3>1, <3>2, OneReplyTyped DEF ReplyKinds
  <2>. QED BY <1>1, <2>2, <2>3, <2>4, <2>5
       DEF CancelOnInput, TypeOK, RouterTypes, WorkerTypes, NoteTypes, HistoryTypes,
           routerVars, workerVars
<1>2. CASE CancelGetOrder
  <2>1. ival \in DOMAIN req /\ ival \in Nat
    BY <1>2, InHandExists DEF CancelGetOrder, TypeOK, InputTypes
  <2>2. LockTypes'
    BY <1>2, <2>1, TicketsTyped DEF CancelGetOrder, Finish, TypeOK, LockTypes, lockVars
  <2>3. InputTypes' /\ BookTypes'
    BY <1>2 DEF CancelGetOrder, TypeOK, InputTypes, BookTypes, bookVars
  <2>4. ReplyTypes'
    <3>1. Reply(ival, "SideReject") \/ replies' = replies
      BY <1>2 DEF CancelGetOrder
    <3>2. CASE replies' = replies
      BY <3>2, <1>0 DEF TypeOK, ReplyTypes
    <3>. QED BY <1>0, <2>1, <3>1, <3>2, OneReplyTyped DEF ReplyKinds
  <2>. QED BY <1>2, <2>2, <2>3, <2>4
       DEF CancelGetOrder, TypeOK, RouterTypes, WorkerTypes, NoteTypes, HistoryTypes,
           routerVars, workerVars
<1>3. CASE CancelPush
  <2>1. ival \in DOMAIN req /\ ival \in Nat
    BY <1>3, InHandExists DEF CancelPush, TypeOK, InputTypes
  <2>2. InputTypes' /\ WorkerTypes'
    BY <1>3, <2>1 DEF CancelPush, TypeOK, InputTypes, WorkerTypes, Units
  <2>3. ReplyTypes'
    <3>1. Reply(ival, "PendingCancel") \/ replies' = replies
      BY <1>3 DEF CancelPush
    <3>2. CASE replies' = replies
      BY <3>2, <1>0 DEF TypeOK, ReplyTypes
    <3>. QED BY <1>0, <2>1, <3>1, <3>2, OneReplyTyped DEF ReplyKinds
  <2>. QED BY <1>3, <2>2, <2>3
       DEF CancelPush, TypeOK, RouterTypes, LockTypes, NoteTypes, BookTypes, HistoryTypes,
           routerVars, lockVars, bookVars
<1>. QED BY <1>1, <1>2, <1>3 DEF CancelInput

\* What the workers do to the lock, whatever they do to the book.
LEMMA UnlockTypes == TypeOK /\ OrderInv /\ tickets # <<>> /\ Unlock => LockTypes'
BY TicketsTyped DEF Unlock, TypeOK, LockTypes

\* A worker moves from one of its points to another.
LEMMA GoToTypes ==
  ASSUME NEW u, NEW pc \in WorkerPoints, wpc \in [Units -> WorkerPoints], GoTo(u, pc)
  PROVE  wpc' \in [Units -> WorkerPoints]
BY DEF GoTo

\* The steps of QueueMutex::lock() keep the types.
LEMMA LockTypesOfWorker ==
  ASSUME TypeOK, OrderInv, NEW u \in Units,
         WorkerPop(u) \/ LockSpin(u) \/ LockSet(u) \/ WorkerReport(u)
  PROVE  TypeOK'
<1>1. CASE WorkerPop(u)
  <2>1. work[u] \in Seq(Nat) /\ work[u] # <<>>
    BY <1>1 DEF WorkerPop, TypeOK, WorkerTypes
  <2>2. Head(work[u]) \in Nat /\ Tail(work[u]) \in Seq(Nat)
    BY <2>1
  <2>3. WorkerTypes' /\ NoteTypes'
    BY <1>1, <2>2 DEF WorkerPop, GoTo, TypeOK, WorkerTypes, NoteTypes, WorkerPoints
  <2>. QED BY <1>1, <2>3 DEF WorkerPop, TypeOK, RouterTypes, LockTypes, InputTypes,
          BookTypes, ReplyTypes, HistoryTypes, routerVars, lockVars, inputVars, bookVars
<1>2. CASE LockSpin(u)
  <2>1. WorkerTypes' /\ NoteTypes'
    BY <1>2 DEF LockSpin, GoTo, TypeOK, WorkerTypes, NoteTypes, WorkerPoints
  <2>. QED BY <1>2, <2>1 DEF LockSpin, TypeOK, RouterTypes, LockTypes, InputTypes,
          BookTypes, ReplyTypes, HistoryTypes, routerVars, lockVars, inputVars, bookVars
<1>3. CASE LockSet(u)
  <2>1. WorkerTypes' /\ NoteTypes' /\ LockTypes' /\ HistoryTypes'
    BY <1>3 DEF LockSet, GoTo, TypeOK, WorkerTypes, NoteTypes, LockTypes, HistoryTypes,
                WorkerPoints, HoldsLock
  <2>. QED BY <1>3, <2>1 DEF LockSet, TypeOK, RouterTypes, InputTypes, NoteTypes,
          BookTypes, ReplyTypes, routerVars, inputVars, bookVars
<1>4. CASE WorkerReport(u)
  <2>1. cur[u] \in DOMAIN req
    BY <1>4, InHandExists DEF WorkerReport
  <2>2. WorkerTypes' /\ NoteTypes'
    BY <1>4 DEF WorkerReport, GoTo, TypeOK, WorkerTypes, NoteTypes, WorkerPoints
  <2>3. ReplyTypes'
    <3>1. req' = req /\ Reply(cur[u], note[u]) /\ note[u] \in ReplyKinds
      BY <1>4 DEF WorkerReport, routerVars, TypeOK, NoteTypes
    <3>. QED BY <2>1, <3>1, OneReplyTyped
  <2>. QED BY <1>4, <2>2, <2>3 DEF WorkerReport, TypeOK, RouterTypes, LockTypes, InputTypes,
          BookTypes, HistoryTypes, routerVars, lockVars, inputVars, bookVars
<1>. QED BY <1>1, <1>2, <1>3, <1>4

\* The NewOrder worker keeps the types while it holds the QueueMutex.
LEMMA NewOrderHoldsTypes == TypeOK /\ OrderInv /\ NewOrderHolds => TypeOK'
<1> SUFFICES ASSUME TypeOK, OrderInv, NewOrderHolds PROVE TypeOK'
  OBVIOUS
<1> DEFINE r == req[cur["New"]].body
<1> USE DEF Units, Books
<1>0. /\ cur["New"] \in DOMAIN req /\ r \in Request /\ r.side \in Sides
      /\ tickets # <<>>
  <2>1. wpc["New"] \in HoldsLock
    BY DEF NewOrderHolds, NewOrderCheck, NewOrderFill, NewOrderUnmap, NewOrderRest,
           NewOrderMap, NewOrderUnlock, HoldsLock
  <2>. QED BY <2>1, InHandExists DEF OrderInv, LockInv, FirstServed, HoldsLock
<1>01. r.id \in OrderIds /\ r.qty \in 1..MaxQty /\ MaxQty \in Nat
  BY <1>0, BoundsAssumption DEF Request
<1>1. CASE NewOrderCheck
  <2>1. LockTypes'
    BY <1>0, <1>1, UnlockTypes DEF NewOrderCheck, UnlockThenReport, TypeOK, LockTypes, lockVars
  <2>2. WorkerTypes' /\ NoteTypes'
    BY <1>1, <1>01 DEF NewOrderCheck, UnlockThenReport, GoTo, TypeOK, WorkerTypes, NoteTypes,
       WorkerPoints, HoldsLock, ReplyKinds
  <2>4. HistoryTypes'
    <3>1. <<r.id, r.side>> \in OrderIds \X Sides
      BY <1>0, <1>01
    <3>2. open' \in {open, open \cup {<<r.id, r.side>>}} /\ applied' = applied
      BY <1>1 DEF NewOrderCheck
    <3>. QED BY <3>1, <3>2 DEF TypeOK, HistoryTypes
  <2>3. ReplyTypes'
    <3>1. (Reply(cur["New"], "New") \/ replies' = replies) /\ req' = req
      BY <1>1 DEF NewOrderCheck, routerVars
    <3>2. CASE replies' = replies
      BY <3>1, <3>2 DEF TypeOK, ReplyTypes
    <3>. QED BY <1>0, <3>1, <3>2, OneReplyTyped DEF ReplyKinds
  <2>. QED BY <1>1, <2>1, <2>2, <2>3, <2>4 DEF NewOrderCheck, TypeOK, RouterTypes, InputTypes,
          BookTypes, routerVars, inputVars, bookVars
<1>2. CASE NewOrderFill
  <2> DEFINE b == Opposite(BookOf(r.side))
  <2>1. PICK o \in OrderIds :
          LET q == rest[b][o].qty
              full == q <= left
          IN /\ rest[b][o] # NoOrder
             /\ left' = IF full THEN left - q ELSE 0
             /\ rest' = [rest EXCEPT ![b][o] =
                           IF full THEN NoOrder ELSE [@ EXCEPT !.qty = q - left]]
             /\ note' = IF full THEN [note EXCEPT !["New"] = o] ELSE note
             /\ GoTo("New", IF full THEN "unmap" ELSE "fill")
             /\ open' = open \ ((IF full THEN {<<o, rest[b][o].side>>} ELSE {}) \cup
                                (IF left' = 0 THEN {<<r.id, r.side>>} ELSE {}))
    BY <1>2, Zenon DEF NewOrderFill
  <2>2. b \in Books /\ rest[b][o] \in Order
    BY <2>1 DEF Opposite, BookOf, TypeOK, BookTypes
  <2>3. rest[b][o].qty \in 0..MaxQty /\ left \in 0..MaxQty
    BY <2>2 DEF Order, TypeOK, WorkerTypes
  <2>4. WorkerTypes'
    <3>1. left' \in 0..MaxQty
      <4> DEFINE q == rest[b][o].qty
      <4>1. left' = IF q <= left THEN left - q ELSE 0
        BY <2>1, Zenon
      <4>2. q \in 0..MaxQty /\ left \in 0..MaxQty /\ MaxQty \in Nat
        BY <2>3, <1>01
      <4> HIDE DEF q
      <4>. QED BY <4>1, <4>2
    <3>2. wpc' \in [Units -> WorkerPoints]
      BY <2>1 DEF GoTo, TypeOK, WorkerTypes, WorkerPoints, HoldsLock
    <3>. QED BY <1>2, <3>1, <3>2 DEF NewOrderFill, TypeOK, WorkerTypes
  <2>5. NoteTypes' /\ HistoryTypes'
    BY <1>2, <2>1 DEF NewOrderFill, GoTo, TypeOK, NoteTypes, HistoryTypes, WorkerTypes
  <2>6. BookTypes'
    <3> DEFINE n == IF rest[b][o].qty <= left THEN NoOrder
                    ELSE [rest[b][o] EXCEPT !.qty = rest[b][o].qty - left]
    <3>1. n \in Order \cup {NoOrder}
      <4>1. CASE rest[b][o].qty <= left
        BY <4>1
      <4>2. CASE ~(rest[b][o].qty <= left)
        <5>1. PICK x \in Order : rest[b][o] = x
          BY <2>2
        <5>2. x = [side |-> x.side, qty |-> x.qty] /\ x.side \in Sides
              /\ x.qty \in 0..MaxQty
          BY DEF Order
        <5>3. x.qty - left \in 0..MaxQty
          BY <4>2, <5>1, <5>2, <2>3, <1>01
        <5>4. [x EXCEPT !.qty = x.qty - left] = [side |-> x.side, qty |-> x.qty - left]
          BY <5>2
        <5>. QED BY <4>2, <5>1, <5>2, <5>3, <5>4 DEF Order
      <4>. QED BY <4>1, <4>2
    <3>2. rest' = [rest EXCEPT ![b][o] = n]
      BY <2>1
    <3>3. rest' \in [Books -> [OrderIds -> Order \cup {NoOrder}]]
      <4> HIDE DEF n, b
      <4>. QED BY <2>2, <3>1, <3>2 DEF TypeOK, BookTypes
    <3>. QED BY <1>2, <3>3 DEF NewOrderFill, TypeOK, BookTypes
  <2>. QED BY <1>2, <2>4, <2>5, <2>6 DEF NewOrderFill, TypeOK, RouterTypes, LockTypes,
          InputTypes, ReplyTypes, routerVars, lockVars, inputVars
<1>3. CASE NewOrderUnmap
  <2>1. WorkerTypes' /\ NoteTypes'
    BY <1>3 DEF NewOrderUnmap, GoTo, TypeOK, WorkerTypes, NoteTypes, WorkerPoints, HoldsLock
  <2>2. BookTypes'
    BY <1>3 DEF NewOrderUnmap, TypeOK, BookTypes
  <2>. QED BY <1>3, <2>1, <2>2 DEF NewOrderUnmap, TypeOK, RouterTypes, LockTypes, InputTypes,
          ReplyTypes, HistoryTypes, routerVars, lockVars, inputVars
<1>4. CASE NewOrderRest
  <2>1. WorkerTypes' /\ NoteTypes'
    BY <1>4, <1>01 DEF NewOrderRest, GoTo, TypeOK, WorkerTypes, NoteTypes, WorkerPoints,
       HoldsLock
  <2>2. BookTypes'
    <3> DEFINE n == [side |-> r.side, qty |-> left]
               b == BookOf(r.side)
    <3>1. n \in Order /\ b \in Books
      BY <1>0, <1>4 DEF Order, TypeOK, WorkerTypes, BookOf
    <3>2. rest' = [rest EXCEPT ![b][r.id] = n]
      BY <1>4 DEF NewOrderRest
    <3>3. rest' \in [Books -> [OrderIds -> Order \cup {NoOrder}]]
      <4> HIDE DEF n, b
      <4>. QED BY <3>1, <3>2 DEF TypeOK, BookTypes
    <3>. QED BY <1>4, <3>3 DEF NewOrderRest, TypeOK, BookTypes
  <2>. QED BY <1>4, <2>1, <2>2 DEF NewOrderRest, TypeOK, RouterTypes, LockTypes, InputTypes,
          NoteTypes, ReplyTypes, HistoryTypes, routerVars, lockVars, inputVars
<1>5. CASE NewOrderMap
  <2>1. WorkerTypes' /\ NoteTypes'
    BY <1>5 DEF NewOrderMap, GoTo, TypeOK, WorkerTypes, NoteTypes, WorkerPoints, HoldsLock
  <2>2. BookTypes'
    BY <1>5, <1>01 DEF NewOrderMap, TypeOK, BookTypes
  <2>. QED BY <1>5, <2>1, <2>2 DEF NewOrderMap, TypeOK, RouterTypes, LockTypes, InputTypes,
          NoteTypes, ReplyTypes, HistoryTypes, routerVars, lockVars, inputVars
<1>6. CASE NewOrderUnlock
  <2>1. LockTypes'
    BY <1>0, <1>6, UnlockTypes DEF NewOrderUnlock
  <2>2. WorkerTypes' /\ NoteTypes'
    BY <1>6 DEF NewOrderUnlock, GoTo, TypeOK, WorkerTypes, NoteTypes, WorkerPoints
  <2>. QED BY <1>6, <2>1, <2>2 DEF NewOrderUnlock, TypeOK, RouterTypes, InputTypes,
          NoteTypes, BookTypes, ReplyTypes, HistoryTypes, routerVars, inputVars, bookVars
<1>. QED BY <1>1, <1>2, <1>3, <1>4, <1>5, <1>6 DEF NewOrderHolds

\* The Cancel worker keeps the types while it holds the QueueMutex.
LEMMA CancelHoldsTypes == TypeOK /\ OrderInv /\ CancelHolds => TypeOK'
<1> SUFFICES ASSUME TypeOK, OrderInv, CancelHolds PROVE TypeOK'
  OBVIOUS
<1> USE DEF Units, Books
<1>0. tickets # <<>>
  BY DEF CancelHolds, CancelCheck, CancelErase, OrderInv, LockInv, FirstServed, HoldsLock
<1>1. CASE CancelCheck
  <2>1. LockTypes'
    BY <1>0, <1>1, UnlockTypes DEF CancelCheck, UnlockThenReport, TypeOK, LockTypes, lockVars
  <2>2. WorkerTypes' /\ NoteTypes'
    BY <1>1 DEF CancelCheck, UnlockThenReport, GoTo, TypeOK, WorkerTypes, NoteTypes,
       WorkerPoints, HoldsLock, ReplyKinds
  <2>3. BookTypes'
    BY <1>1 DEF CancelCheck, TypeOK, BookTypes
  <2>. QED BY <1>1, <2>1, <2>2, <2>3 DEF CancelCheck, TypeOK, RouterTypes, InputTypes,
          ReplyTypes, HistoryTypes, routerVars, inputVars
<1>2. CASE CancelErase
  <2>1. LockTypes'
    BY <1>0, <1>2, UnlockTypes DEF CancelErase, UnlockThenReport, TypeOK, LockTypes, lockVars
  <2>2. WorkerTypes' /\ NoteTypes' /\ HistoryTypes'
    BY <1>2 DEF CancelErase, UnlockThenReport, GoTo, TypeOK, WorkerTypes, NoteTypes,
       HistoryTypes, WorkerPoints, HoldsLock, ReplyKinds
  <2>3. BookTypes'
    <3> DEFINE c == req[cur["Cancel"]].body
    <3>1. c.id \in OrderIds /\ BookOf(c.side) \in Books
      <4>1. cur["Cancel"] \in DOMAIN req /\ c \in Request
        BY <1>2, InHandExists DEF CancelErase, HoldsLock
      <4>. QED BY <4>1 DEF Request, BookOf
    <3>2. /\ rest' \in {rest, [rest EXCEPT ![BookOf(c.side)][c.id] = NoOrder]}
          /\ strays' \in {strays, strays \cup {c.id}} /\ UNCHANGED <<idmap, readLock>>
      BY <1>2 DEF CancelErase
    <3>3. rest' \in [Books -> [OrderIds -> Order \cup {NoOrder}]]
      <4>1. rest \in [Books -> [OrderIds -> Order \cup {NoOrder}]]
        BY DEF TypeOK, BookTypes
      <4> HIDE DEF c, NoOrder
      <4>. QED BY <3>1, <3>2, <4>1
    <3> HIDE DEF c
    <3>. QED BY <3>1, <3>2, <3>3 DEF TypeOK, BookTypes
  <2>. QED BY <1>2, <2>1, <2>2, <2>3 DEF CancelErase, TypeOK, RouterTypes, InputTypes,
          ReplyTypes, routerVars, inputVars
<1>. QED BY <1>1, <1>2 DEF CancelHolds

\* Every step of a market keeps the types.
LEMMA TypeStep == TypeOK /\ OrderInv /\ [Next]_vars => TypeOK'
<1> SUFFICES ASSUME TypeOK, OrderInv, [Next]_vars PROVE TypeOK'
  OBVIOUS
<1>1. ASSUME NEW u \in Units, Worker(u) PROVE TypeOK'
  BY <1>1, LockTypesOfWorker, NewOrderHoldsTypes, CancelHoldsTypes DEF Worker
<1>2. CASE UNCHANGED vars
  BY <1>2 DEF vars, routerVars, lockVars, inputVars, workerVars, bookVars, TypeOK, RouterTypes,
     LockTypes, InputTypes, WorkerTypes, NoteTypes, BookTypes, ReplyTypes, HistoryTypes
<1>. QED BY <1>1, <1>2, RouterReceiveTypes, RouterAppendTypes, NewOrderOnInputTypes,
        CancelInputTypes DEF Next

-----------------------------------------------------------------------------
(* The queues keep their requests in arrival order *)

\* A step that moves no request from one queue to another.
LEMMA QueueFrame ==
  ASSUME QueueInv, UNCHANGED <<req, rpc, inbox, ipc, ival, work>>,
         \A u \in Units : wpc'[u] # "idle" => wpc[u] # "idle" /\ cur'[u] = cur[u]
  PROVE  QueueInv'
BY DEF QueueInv, InputOrdered, InboxOrdered, WorkOrdered, CurOrdered, Workable, Belongs

\* A request the router receives is younger than all the units have.
LEMMA RouterReceiveQueue == TypeOK /\ QueueInv /\ RouterReceive => QueueInv'
<1> SUFFICES ASSUME TypeOK, QueueInv, RouterReceive PROVE QueueInv'
  OBVIOUS
<1>1. PICK x : req' = Append(req, x)
  BY DEF RouterReceive
<1>2. /\ Len(req') = Len(req) + 1 /\ Len(req) \in Nat
      /\ \A i \in 1..Len(req) : req'[i] = req[i]
  <2> DEFINE R == [body : Requests, known : BOOLEAN]
  <2>1. req \in Seq(R)
    BY DEF TypeOK, RouterTypes
  <2> HIDE DEF R
  <2>. QED BY <1>1, <2>1
<1>3. UNCHANGED <<inbox, ipc, ival, work, wpc, cur>>
  BY DEF RouterReceive, inputVars, workerVars
<1>4. \A i, u : Belongs(i, u) => Belongs(i, u)' /\ i < Len(req') /\ req'[i] = req[i]
  BY <1>2 DEF Belongs
<1>. QED BY <1>2, <1>3, <1>4
     DEF QueueInv, InputOrdered, InboxOrdered, WorkOrdered, CurOrdered, Workable

\* A request the router pushes is younger than all its unit has.
LEMMA RouterAppendQueue == TypeOK /\ QueueInv /\ RouterAppend => QueueInv'
<1> SUFFICES ASSUME TypeOK, QueueInv, RouterAppend PROVE QueueInv'
  OBVIOUS
<1> DEFINE n == Len(req)
           v == req[n].body.unit
<1>1. UNCHANGED <<req, ipc, ival, work, wpc, cur>> /\ rpc = "append" /\ rpc' = "idle"
      /\ inbox' = [inbox EXCEPT ![v] = Append(inbox[v], n)]
  BY DEF RouterAppend, workerVars
<1>2. inbox \in [Units -> Seq(Nat)] /\ n \in Nat
  BY DEF TypeOK, InputTypes, RouterTypes
<1>3. ASSUME NEW u \in Units
      PROVE  /\ \A k \in DOMAIN inbox'[u] : \/ k \in DOMAIN inbox[u] /\ inbox'[u][k] = inbox[u][k]
                                            \/ /\ u = v /\ inbox'[u][k] = n
                                               /\ k = Len(inbox[u]) + 1
             /\ inbox[u] \in Seq(Nat)
  <2>1. inbox[u] \in Seq(Nat)
    BY <1>2
  <2>2. inbox'[u] = IF u = v THEN Append(inbox[u], n) ELSE inbox[u]
    BY <1>1, <1>2
  <2> HIDE DEF n, v
  <2>. QED BY <1>2, <2>1, <2>2
<1>4. v \in Units => Belongs(n, v)
  BY <1>1, <1>2 DEF Belongs, QueueInv, InboxOrdered, Units
<1> HIDE DEF n, v
<1>5. ASSUME NEW u \in Units PROVE InboxOrdered(u)'
  <2>1. \A k \in DOMAIN inbox[u] : inbox[u][k] < n
    BY <1>1 DEF QueueInv, InboxOrdered, n
  <2>2. Increasing(inbox[u]) /\ \A k \in DOMAIN inbox[u] : Belongs(inbox[u][k], u)
    BY DEF QueueInv, InboxOrdered
  <2>3. Increasing(inbox'[u])
    BY <1>2, <1>3, <2>1, <2>2 DEF Increasing
  <2>4. \A k \in DOMAIN inbox'[u] : Belongs(inbox'[u][k], u)
    BY <1>3, <1>4, <2>2
  <2>. QED BY <1>1, <2>3, <2>4 DEF InboxOrdered, Belongs
<1>6. ASSUME NEW u \in Units PROVE WorkOrdered(u)'
  <2>1. /\ Increasing(work[u]) /\ AllBelow(work[u], inbox[u])
        /\ \A k \in DOMAIN work[u] : Workable(work[u][k], u) /\ work[u][k] < n
    BY <1>1 DEF QueueInv, WorkOrdered, n
  <2>2. ASSUME NEW j \in DOMAIN work[u], NEW k \in DOMAIN inbox'[u]
        PROVE  work[u][j] < inbox'[u][k]
    <3>1. CASE k \in DOMAIN inbox[u] /\ inbox'[u][k] = inbox[u][k]
      BY <2>1, <3>1 DEF AllBelow
    <3>2. CASE inbox'[u][k] = n
      BY <2>1, <3>2
    <3>. QED BY <1>3, <3>1, <3>2
  <2>3. work' = work /\ req' = req /\ rpc' = "idle"
    BY <1>1
  <2>4. AllBelow(work[u], inbox'[u])
    BY <2>2, Zenon DEF AllBelow
  <2>5. \A k \in DOMAIN work[u] : Workable(work[u][k], u)'
    BY <2>1, <2>3 DEF Workable, Belongs
  <2>. QED BY <2>1, <2>3, <2>4, <2>5 DEF WorkOrdered
<1>7. ASSUME NEW u \in Units PROVE CurOrdered(u)'
  BY <1>1, <1>3 DEF QueueInv, CurOrdered, Workable, Belongs, n
<1>8. InputOrdered'
  BY <1>1, <1>3 DEF QueueInv, InputOrdered, Belongs, n, Units
<1>. QED BY <1>5, <1>6, <1>7, <1>8 DEF QueueInv

\* The first request of an inbox is younger than all that left it.
LEMMA InboxHead ==
  ASSUME TypeOK, QueueInv, NEW u \in Units, inbox[u] # <<>>
  PROVE  LET h == Head(inbox[u])
             t == Tail(inbox[u])
         IN /\ h \in Nat /\ t \in Seq(Nat) /\ Increasing(t)
            /\ 1 \in DOMAIN inbox[u] /\ h = inbox[u][1]
            /\ Belongs(h, u)
            /\ \A k \in DOMAIN t : k + 1 \in DOMAIN inbox[u] /\ t[k] = inbox[u][k + 1] /\ h < t[k]
            /\ \A k \in DOMAIN work[u] : work[u][k] < h
            /\ wpc[u] # "idle" => cur[u] < h
            /\ u = "Cancel" /\ ipc # "idle" => ival < h
            /\ rpc = "append" => h < Len(req)
<1> DEFINE h == Head(inbox[u])
           t == Tail(inbox[u])
<1>1. inbox[u] \in Seq(Nat) /\ work[u] \in Seq(Nat) /\ cur[u] \in Nat
  BY DEF TypeOK, InputTypes, WorkerTypes
<1>2. 1 \in DOMAIN inbox[u] /\ h = inbox[u][1] /\ h \in Nat
  BY <1>1
<1>3. Increasing(inbox[u]) /\ Belongs(h, u)
  BY <1>2 DEF QueueInv, InboxOrdered
<1>4. /\ t \in Seq(Nat) /\ Increasing(t)
      /\ \A k \in DOMAIN t : k + 1 \in DOMAIN inbox[u] /\ t[k] = inbox[u][k + 1] /\ h < t[k]
  BY <1>1, <1>3, TailShape
<1>5. /\ \A k \in DOMAIN work[u] : work[u][k] < h
      /\ wpc[u] # "idle" => cur[u] < h
      /\ u = "Cancel" /\ ipc # "idle" => ival < h
      /\ rpc = "append" => h < Len(req)
  BY <1>2 DEF QueueInv, InputOrdered, WorkOrdered, InboxOrdered, CurOrdered, AllBelow
<1>. QED BY <1>2, <1>3, <1>4, <1>5

\* The oldest input of a unit is taken out of its inbox.
LEMMA TakenFromInbox ==
  ASSUME TypeOK, QueueInv, NEW v \in Units, inbox[v] # <<>>,
         inbox' = [inbox EXCEPT ![v] = Tail(inbox[v])], UNCHANGED <<req, rpc>>
  PROVE  /\ \A u \in Units : \A k \in DOMAIN inbox'[u] :
              /\ \E j \in DOMAIN inbox[u] : inbox'[u][k] = inbox[u][j]
              /\ u = v => Head(inbox[v]) < inbox'[u][k]
         /\ \A u \in Units : InboxOrdered(u)'
<1>1. inbox \in [Units -> Seq(Nat)]
  BY DEF TypeOK, InputTypes
<1>2. ASSUME NEW u \in Units
      PROVE /\ Increasing(inbox'[u])
            /\ \A k \in DOMAIN inbox'[u] :
                 /\ \E j \in DOMAIN inbox[u] : inbox'[u][k] = inbox[u][j]
                 /\ u = v => Head(inbox[v]) < inbox'[u][k]
  <2>1. CASE u = v
    <3>1. inbox'[u] = Tail(inbox[u])
      BY <1>1, <2>1
    <3>2. /\ Increasing(Tail(inbox[u]))
          /\ \A k \in DOMAIN Tail(inbox[u]) :
               /\ k + 1 \in DOMAIN inbox[u] /\ Tail(inbox[u])[k] = inbox[u][k + 1]
               /\ Head(inbox[v]) < Tail(inbox[u])[k]
      BY <2>1, InboxHead
    <3>. QED BY <3>1, <3>2
  <2>2. CASE u # v
    BY <1>1, <2>2 DEF QueueInv, InboxOrdered
  <2>. QED BY <2>1, <2>2
<1>3. ASSUME NEW u \in Units PROVE InboxOrdered(u)'
  <2>1. InboxOrdered(u)
    BY DEF QueueInv
  <2>2. ASSUME NEW k \in DOMAIN inbox'[u]
        PROVE  /\ Belongs(inbox'[u][k], u)
               /\ rpc = "append" => Len(req) > 0 /\ inbox'[u][k] < Len(req)
    <3>1. PICK j \in DOMAIN inbox[u] : inbox'[u][k] = inbox[u][j]
      BY <1>2
    <3>. QED BY <2>1, <3>1 DEF InboxOrdered
  <2>3. rpc = "append" => Len(req) > 0
    BY <2>1 DEF InboxOrdered
  <2>. QED BY <1>2, <2>2, <2>3 DEF InboxOrdered, Belongs
<1>. QED BY <1>2, <1>3

\* An input thread takes a request and drops it, or keeps it in hand.
LEMMA TakenQueue ==
  ASSUME TypeOK, QueueInv, NEW v \in Units, inbox[v] # <<>>,
         inbox' = [inbox EXCEPT ![v] = Tail(inbox[v])],
         UNCHANGED <<req, rpc, work, wpc, cur>>,
         \/ UNCHANGED <<ipc, ival>>
         \/ /\ v = "Cancel" /\ ival' = Head(inbox[v])
            /\ ipc' \in {"get", "push"} => req[ival'].body.side \in Sides
  PROVE  QueueInv'
<1>1. ASSUME NEW u \in Units
      PROVE  \A k \in DOMAIN inbox'[u] : \E j \in DOMAIN inbox[u] : inbox'[u][k] = inbox[u][j]
  BY TakenFromInbox
<1>2. ASSUME NEW u \in Units PROVE WorkOrdered(u)'
  <2>1. WorkOrdered(u)
    BY DEF QueueInv
  <2>2. AllBelow(work[u], inbox'[u])
    BY <1>1, <2>1 DEF WorkOrdered, AllBelow
  <2>. QED BY <2>1, <2>2 DEF WorkOrdered, Workable, Belongs
<1>3. ASSUME NEW u \in Units PROVE CurOrdered(u)'
  <2>1. CurOrdered(u)
    BY DEF QueueInv
  <2>2. ASSUME wpc[u] # "idle"
        PROVE  /\ \A k \in DOMAIN inbox'[u] : cur[u] < inbox'[u][k]
               /\ u = "Cancel" /\ ipc' # "idle" => cur[u] < ival'
    BY <1>1, <2>1, <2>2, InboxHead DEF CurOrdered
  <2>. QED BY <2>1, <2>2 DEF CurOrdered, Workable, Belongs
<1>4. InputOrdered'
  <2>1. InputOrdered
    BY DEF QueueInv
  <2>2. CASE UNCHANGED <<ipc, ival>>
    BY <1>1, <2>1, <2>2 DEF InputOrdered, Belongs, Units
  <2>3. CASE v = "Cancel" /\ ival' = Head(inbox[v])
             /\ (ipc' \in {"get", "push"} => req[ival'].body.side \in Sides)
    <3>1. \A k \in DOMAIN inbox'["Cancel"] : Head(inbox[v]) < inbox'["Cancel"][k]
      BY <2>3, TakenFromInbox
    <3>. QED BY <2>3, <3>1, InboxHead DEF InputOrdered, Belongs
  <2>. QED BY <2>2, <2>3
<1>. QED BY <1>2, <1>3, <1>4, TakenFromInbox DEF QueueInv

\* What was older than everything in a queue may join it at its end: the queue
\* of the worker after a younger request leaves the inbox or the input thread.
LEMMA QueuedForWorker ==
  ASSUME TypeOK, QueueInv, NEW v \in Units, NEW i \in Nat, Workable(i, v),
         \A k \in DOMAIN work[v] : work[v][k] < i,
         wpc[v] # "idle" => cur[v] < i,
         rpc = "append" => i < Len(req),
         work' = [work EXCEPT ![v] = Append(work[v], i)],
         UNCHANGED <<req, rpc, wpc, cur>>,
         \A u \in Units : \A k \in DOMAIN inbox'[u] :
            /\ \E j \in DOMAIN inbox[u] : inbox'[u][k] = inbox[u][j]
            /\ u = v => i < inbox'[u][k],
         \A u \in Units : InboxOrdered(u)',
         ipc' # "idle" => ipc' = ipc /\ ival' = ival /\ v = "New"
  PROVE  QueueInv'
<1>1. work \in [Units -> Seq(Nat)]
  BY DEF TypeOK, WorkerTypes
<1>2. ASSUME NEW u \in Units
      PROVE /\ Increasing(work'[u])
            /\ \A k \in DOMAIN work'[u] :
                 \/ k \in DOMAIN work[u] /\ work'[u][k] = work[u][k]
                 \/ u = v /\ work'[u][k] = i
  <2>1. CASE u = v
    BY <1>1, <2>1, AppendShape DEF QueueInv, WorkOrdered
  <2>2. CASE u # v
    BY <1>1, <2>2 DEF QueueInv, WorkOrdered
  <2>. QED BY <2>1, <2>2
<1>3. ASSUME NEW u \in Units PROVE WorkOrdered(u)'
  <2>1. WorkOrdered(u)
    BY DEF QueueInv
  <2>2. AllBelow(work'[u], inbox'[u])
    BY <1>2, <2>1 DEF WorkOrdered, AllBelow
  <2>3. \A k \in DOMAIN work'[u] : Workable(work'[u][k], u)
    BY <1>2, <2>1 DEF WorkOrdered
  <2>4. rpc = "append" => \A k \in DOMAIN work'[u] : work'[u][k] < Len(req)
    BY <1>2, <2>1 DEF WorkOrdered
  <2>. QED BY <1>2, <2>2, <2>3, <2>4 DEF WorkOrdered, Workable, Belongs
<1>4. ASSUME NEW u \in Units PROVE CurOrdered(u)'
  <2>1. CurOrdered(u)
    BY DEF QueueInv
  <2>. QED BY <1>2, <2>1 DEF CurOrdered, Workable, Belongs
<1>5. InputOrdered'
  <2>1. InputOrdered
    BY DEF QueueInv
  <2>2. ipc' # "idle" => work'["Cancel"] = work["Cancel"]
    BY <1>1 DEF Units
  <2>. QED BY <2>1, <2>2 DEF InputOrdered, Belongs, Units
<1>. QED BY <1>3, <1>4, <1>5 DEF QueueInv

\* NewOrder::onInput keeps the requests of its unit in arrival order.
LEMMA NewOrderOnInputQueue == TypeOK /\ QueueInv /\ NewOrderOnInput => QueueInv'
<1> SUFFICES ASSUME TypeOK, QueueInv, NewOrderOnInput PROVE QueueInv'
  OBVIOUS
<1> DEFINE i == Head(inbox["New"])
           r == req[i].body
<1>1. /\ "New" \in Units /\ inbox["New"] # <<>>
      /\ inbox' = [inbox EXCEPT !["New"] = Tail(inbox["New"])]
      /\ UNCHANGED <<req, rpc, ipc, ival, wpc, cur>>
  BY DEF NewOrderOnInput, Units, routerVars
<1>2. CASE work' = work
  BY <1>1, <1>2, TakenQueue
<1>3. CASE work' # work
  <2>1. r.fault # "missing" /\ r.side # "Unsupported"
        /\ work' = [work EXCEPT !["New"] = Append(work["New"], i)]
    BY <1>3 DEF NewOrderOnInput
  <2>2. Belongs(i, "New") /\ i \in Nat
    BY <1>1, InboxHead
  <2>3. r \in Request
    BY <2>2, ReceivedRequests DEF Belongs
  <2>4. Workable(i, "New")
    BY <2>1, <2>2, <2>3 DEF Workable, Request
  <2>5. /\ \A k \in DOMAIN work["New"] : work["New"][k] < i
        /\ wpc["New"] # "idle" => cur["New"] < i
        /\ rpc = "append" => i < Len(req)
    BY <1>1, InboxHead
  <2>6. \A u \in Units : \A k \in DOMAIN inbox'[u] :
          /\ \E j \in DOMAIN inbox[u] : inbox'[u][k] = inbox[u][j]
          /\ u = "New" => i < inbox'[u][k]
    BY <1>1, TakenFromInbox
  <2>7. \A u \in Units : InboxOrdered(u)'
    BY <1>1, TakenFromInbox
  <2> HIDE DEF i
  <2>. QED BY <1>1, <2>1, <2>2, <2>4, <2>5, <2>6, <2>7, QueuedForWorker
<1>. QED BY <1>2, <1>3

\* Cancel::onInput keeps the requests of its unit in arrival order.
LEMMA CancelInputQueue == TypeOK /\ QueueInv /\ CancelInput => QueueInv'
<1> SUFFICES ASSUME TypeOK, QueueInv, CancelInput PROVE QueueInv'
  OBVIOUS
<1> USE DEF Units
<1>1. CASE CancelOnInput
  <2> DEFINE i == Head(inbox["Cancel"])
             r == req[i].body
  <2>1. /\ inbox["Cancel"] # <<>> /\ ipc = "idle"
        /\ inbox' = [inbox EXCEPT !["Cancel"] = Tail(inbox["Cancel"])]
        /\ UNCHANGED <<req, rpc, work, wpc, cur>>
    BY <1>1 DEF CancelOnInput, routerVars, workerVars
  <2>2. r \in Request
    BY <2>1, InboxHead, ReceivedRequests DEF Belongs
  <2>3. \/ UNCHANGED <<ipc, ival>>
        \/ ival' = i /\ ipc' = "dead"
        \/ ival' = i /\ r.side # "Unsupported"
    BY <1>1 DEF CancelOnInput
  <2>4. r.side # "Unsupported" => r.side \in Sides
    BY <2>2 DEF Request
  <2> HIDE DEF i
  <2>5. \/ UNCHANGED <<ipc, ival>>
        \/ ival' = i /\ (ipc' \in {"get", "push"} => req[ival'].body.side \in Sides)
    BY <2>3, <2>4
  <2>. QED BY <2>1, <2>5, TakenQueue DEF i
<1>2. CASE CancelGetOrder
  <2>1. /\ ipc = "get" /\ UNCHANGED <<req, rpc, inbox, work, wpc, cur>>
        /\ ipc' = "idle" \/ ival' = ival
    BY <1>2 DEF CancelGetOrder, routerVars, workerVars
  <2>2. InputOrdered'
    BY <2>1 DEF QueueInv, InputOrdered, Belongs
  <2>3. ASSUME NEW u \in Units PROVE CurOrdered(u)'
    BY <2>1 DEF QueueInv, CurOrdered, Workable, Belongs
  <2>. QED BY <2>1, <2>2, <2>3 DEF QueueInv, InboxOrdered, WorkOrdered, Workable, Belongs
<1>3. CASE CancelPush
  <2>1. /\ ipc = "push" /\ ipc' = "idle" /\ UNCHANGED <<req, rpc, inbox, wpc, cur>>
        /\ work' = [work EXCEPT !["Cancel"] = Append(work["Cancel"], ival)]
    BY <1>3 DEF CancelPush, routerVars
  <2>2. /\ Workable(ival, "Cancel") /\ ival \in Nat
        /\ \A k \in DOMAIN work["Cancel"] : work["Cancel"][k] < ival
        /\ \A k \in DOMAIN inbox["Cancel"] : ival < inbox["Cancel"][k]
        /\ wpc["Cancel"] # "idle" => cur["Cancel"] < ival
        /\ rpc = "append" => ival < Len(req)
    BY <2>1 DEF QueueInv, InputOrdered, CurOrdered, Workable, TypeOK, InputTypes
  <2>3. \A u \in Units : InboxOrdered(u)'
    BY <2>1 DEF QueueInv, InboxOrdered, Belongs
  <2>4. \A u \in Units : \A k \in DOMAIN inbox'[u] :
          /\ \E j \in DOMAIN inbox[u] : inbox'[u][k] = inbox[u][j]
          /\ u = "Cancel" => ival < inbox'[u][k]
    BY <2>1, <2>2
  <2>. QED BY <2>1, <2>2, <2>3, <2>4, QueuedForWorker
<1>. QED BY <1>1, <1>2, <1>3 DEF CancelInput

\* What a worker takes from m_internal_queue is older than all that stays there.
LEMMA WorkerPopQueue ==
  ASSUME TypeOK, QueueInv, NEW v \in Units, WorkerPop(v)
  PROVE  QueueInv'
<1> DEFINE i == Head(work[v])
<1>1. /\ work[v] # <<>> /\ wpc[v] = "idle" /\ work \in [Units -> Seq(Nat)]
      /\ wpc \in [Units -> WorkerPoints] /\ cur \in [Units -> Nat]
      /\ UNCHANGED <<req, rpc, inbox, ipc, ival>>
      /\ work' = [work EXCEPT ![v] = Tail(work[v])]
      /\ cur' = [cur EXCEPT ![v] = i] /\ wpc' = [wpc EXCEPT ![v] = "empty"]
  BY DEF WorkerPop, TypeOK, WorkerTypes, routerVars, inputVars, GoTo
<1>2. /\ work'[v] = Tail(work[v]) /\ cur'[v] = i /\ wpc'[v] = "empty"
      /\ \A u \in Units : u # v => work'[u] = work[u] /\ cur'[u] = cur[u] /\ wpc'[u] = wpc[u]
  BY <1>1
<1>3. work[v] \in Seq(Nat) /\ WorkOrdered(v) /\ 1 \in DOMAIN work[v] /\ work[v][1] = i
  BY <1>1 DEF QueueInv
<1>4. Increasing(work[v])
  BY <1>3 DEF WorkOrdered
<1>5. /\ Increasing(Tail(work[v]))
      /\ \A k \in DOMAIN Tail(work[v]) : /\ k + 1 \in DOMAIN work[v]
                                         /\ Tail(work[v])[k] = work[v][k + 1]
                                         /\ i < Tail(work[v])[k]
  BY <1>1, <1>3, <1>4, TailShape
<1>6. ASSUME NEW u \in Units PROVE WorkOrdered(u)'
  <2>1. CASE u = v
    <3>1. \A k \in DOMAIN work'[u] : \E j \in DOMAIN work[u] : work'[u][k] = work[u][j]
      BY <1>2, <1>5, <2>1
    <3>2. AllBelow(work'[u], inbox[u])
      BY <1>3, <2>1, <3>1 DEF WorkOrdered, AllBelow
    <3>3. \A k \in DOMAIN work'[u] : /\ Workable(work'[u][k], u)
                                     /\ rpc = "append" => work'[u][k] < Len(req)
      BY <1>3, <2>1, <3>1 DEF WorkOrdered
    <3>. QED BY <1>1, <1>2, <1>5, <2>1, <3>2, <3>3 DEF WorkOrdered, Workable, Belongs
  <2>2. CASE u # v
    <3>1. WorkOrdered(u) /\ work'[u] = work[u]
      BY <1>2, <2>2 DEF QueueInv
    <3>. QED BY <1>1, <3>1 DEF WorkOrdered, Workable, Belongs
  <2>. QED BY <2>1, <2>2
<1>7. ASSUME NEW u \in Units PROVE CurOrdered(u)'
  <2>1. CASE u = v
    <3>1. /\ Workable(i, v) /\ \A k \in DOMAIN inbox[v] : i < inbox[v][k]
          /\ rpc = "append" => i < Len(req)
      BY <1>3 DEF WorkOrdered, AllBelow
    <3>2. v = "Cancel" /\ ipc # "idle" => i < ival
      BY <1>3 DEF QueueInv, InputOrdered
    <3>3. \A k \in DOMAIN work'[v] : i < work'[v][k]
      BY <1>2, <1>5
    <3>4. cur'[u] = i /\ u = v
      BY <1>2, <2>1
    <3> HIDE DEF i
    <3>. QED BY <1>1, <3>1, <3>2, <3>3, <3>4 DEF CurOrdered, Workable, Belongs
  <2>2. CASE u # v
    <3>1. CurOrdered(u) /\ work'[u] = work[u] /\ cur'[u] = cur[u] /\ wpc'[u] = wpc[u]
      BY <1>2, <2>2 DEF QueueInv
    <3>. QED BY <1>1, <3>1 DEF CurOrdered, Workable, Belongs
  <2>. QED BY <2>1, <2>2
<1>8. InputOrdered'
  <2>1. InputOrdered
    BY DEF QueueInv
  <2>2. \A k \in DOMAIN work'["Cancel"] : \E j \in DOMAIN work["Cancel"] :
           work'["Cancel"][k] = work["Cancel"][j]
    <3>1. CASE v = "Cancel"
      BY <1>2, <1>5, <3>1
    <3>2. CASE v # "Cancel"
      BY <1>2, <3>2 DEF Units
    <3>. QED BY <3>1, <3>2
  <2>. QED BY <1>1, <2>1, <2>2 DEF InputOrdered, Belongs
<1>9. \A u \in Units : InboxOrdered(u)'
  BY <1>1 DEF QueueInv, InboxOrdered, Belongs
<1>. QED BY <1>6, <1>7, <1>8, <1>9 DEF QueueInv

\* Every step keeps the requests in arrival order in every queue.
LEMMA QueueStep == TypeOK /\ QueueInv /\ [Next]_vars => QueueInv'
<1> SUFFICES ASSUME TypeOK, QueueInv, [Next]_vars PROVE QueueInv'
  OBVIOUS
<1>1. ASSUME NEW u \in Units, Worker(u), ~ WorkerPop(u) PROVE QueueInv'
  <2>1. wpc \in [Units -> WorkerPoints] /\ cur \in [Units -> Nat]
    BY DEF TypeOK, WorkerTypes
  <2>2. /\ UNCHANGED <<req, rpc, inbox, ipc, ival, work>>
        /\ \A w \in Units : wpc'[w] # "idle" => wpc[w] # "idle" /\ cur'[w] = cur[w]
    <3> USE DEF routerVars, inputVars, GoTo
    <3>1. CASE LockSpin(u)
      BY <2>1, <3>1 DEF LockSpin
    <3>2. CASE LockSet(u)
      BY <2>1, <3>2 DEF LockSet
    <3>3. CASE WorkerReport(u)
      BY <2>1, <3>3 DEF WorkerReport
    <3>4. CASE NewOrderHolds
      BY <2>1, <3>4 DEF NewOrderHolds, NewOrderCheck, NewOrderFill, NewOrderUnmap,
         NewOrderRest, NewOrderMap, NewOrderUnlock, UnlockThenReport
    <3>5. CASE CancelHolds
      BY <2>1, <3>5 DEF CancelHolds, CancelCheck, CancelErase, UnlockThenReport
    <3>. QED BY <1>1, <3>1, <3>2, <3>3, <3>4, <3>5 DEF Worker
  <2>. QED BY <2>2, QueueFrame
<1>2. CASE UNCHANGED vars
  BY <1>2, QueueFrame DEF vars, routerVars, inputVars, workerVars
<1>. QED BY <1>1, <1>2, RouterReceiveQueue, RouterAppendQueue, NewOrderOnInputQueue,
        CancelInputQueue, WorkerPopQueue DEF Next

-----------------------------------------------------------------------------
(* The first ticket holds the lock *)

\* Two units cannot both have seen their ticket first: a request belongs to one.
LEMMA FirstUnique ==
  ASSUME OrderInv, NEW u \in Units, NEW v \in Units,
         wpc[u] \in HoldsLock \cup {"flag", "set"}, wpc[v] \in HoldsLock \cup {"flag", "set"}
  PROVE  u = v
<1>1. cur[u] = Head(tickets) /\ cur[v] = Head(tickets)
  BY DEF OrderInv, LockInv, FirstServed
<1>2. wpc[u] # "idle" /\ wpc[v] # "idle"
  BY DEF HoldsLock
<1>3. Belongs(cur[u], u) /\ Belongs(cur[v], v)
  BY <1>2 DEF OrderInv, QueueInv, CurOrdered, Workable
<1>. QED BY <1>1, <1>3 DEF Belongs

\* A step that leaves the lock alone.
LEMMA LockFrame ==
  ASSUME TypeOK, LockInv, UNCHANGED <<tickets, locked, applied>>,
         Len(req') \in Nat, Len(req) <= Len(req'),
         \A u \in Units : wpc'[u] \in HoldsLock <=> wpc[u] \in HoldsLock,
         \A u \in Units : wpc'[u] \in HoldsLock \cup {"flag", "set"} =>
            /\ cur'[u] = cur[u]
            /\ \/ wpc[u] \in HoldsLock \cup {"flag", "set"}
               \/ tickets # <<>> /\ Head(tickets) = cur[u]
  PROVE  LockInv'
<1>0. Len(req) \in Nat
  BY DEF TypeOK, RouterTypes
<1>1. TicketsOrdered'
  BY <1>0 DEF LockInv, TicketsOrdered
<1>2. \A u \in Units : FirstServed(u)'
  BY DEF LockInv, FirstServed
<1>3. FlagMeansHeld'
  BY DEF LockInv, FlagMeansHeld
<1>4. ServedBefore'
  BY <1>0 DEF LockInv, ServedBefore
<1>. QED BY <1>1, <1>2, <1>3, <1>4 DEF LockInv

\* finish() of a request that no worker has in hand.
LEMMA FinishKeeps ==
  ASSUME TypeOK, LockInv, NEW i \in Nat, Finish(i),
         \A u \in Units : wpc[u] # "idle" => cur[u] # i,
         UNCHANGED <<req, wpc, cur, applied>>
  PROVE  LockInv'
<1>1. tickets \in Seq(Nat) /\ Increasing(tickets) /\ tickets' = Finished(tickets, i)
      /\ locked' = locked
  BY DEF TypeOK, LockTypes, LockInv, TicketsOrdered, Finish
<1>2. /\ tickets' \in Seq(Nat) /\ Increasing(tickets')
      /\ \A k \in DOMAIN tickets' : \/ k \in DOMAIN tickets /\ tickets'[k] = tickets[k]
                                    \/ k + 1 \in DOMAIN tickets /\ tickets'[k] = tickets[k + 1]
      /\ tickets # <<>> /\ Head(tickets) # i => tickets' # <<>> /\ tickets'[1] = tickets[1]
  BY <1>1, FinishedShape
<1>3. TicketsOrdered'
  BY <1>2 DEF LockInv, TicketsOrdered
<1>4. ASSUME NEW u \in Units, wpc[u] \in HoldsLock \cup {"flag", "set"}
      PROVE  tickets # <<>> /\ Head(tickets) = cur[u] /\ Head(tickets) # i
  BY <1>4 DEF LockInv, FirstServed, HoldsLock
<1>5. \A u \in Units : FirstServed(u)'
  <2>1. tickets # <<>> /\ Head(tickets) # i => tickets' # <<>> /\ Head(tickets') = Head(tickets)
    BY <1>1, <1>2
  <2>. QED BY <1>4, <2>1 DEF FirstServed
<1>6. FlagMeansHeld'
  BY <1>1 DEF LockInv, FlagMeansHeld
<1>7. ServedBefore'
  <2>1. /\ Increasing(applied) /\ \A j \in DOMAIN applied : applied[j] \in 1..Len(req)
        /\ \A j \in DOMAIN applied, k \in DOMAIN tickets :
             IF locked /\ k = 1 THEN applied[j] <= tickets[k] ELSE applied[j] < tickets[k]
    BY DEF LockInv, ServedBefore
  <2>2. ASSUME NEW j \in DOMAIN applied, NEW k \in DOMAIN tickets'
        PROVE  IF locked /\ k = 1 THEN applied[j] <= tickets'[k] ELSE applied[j] < tickets'[k]
    <3>1. k \in Nat /\ k >= 1 /\ k + 1 # 1
      BY <1>2
    <3>2. CASE k \in DOMAIN tickets /\ tickets'[k] = tickets[k]
      BY <2>1, <3>2
    <3>3. CASE k + 1 \in DOMAIN tickets /\ tickets'[k] = tickets[k + 1]
      <4>1. applied[j] < tickets[k + 1]
        BY <2>1, <3>1, <3>3
      <4>2. applied[j] \in Nat /\ tickets[k + 1] \in Nat
        BY <1>1, <2>1, <3>3
      <4>. QED BY <3>3, <4>1, <4>2
    <3>. QED BY <1>2, <3>2, <3>3
  <2>. QED BY <1>1, <2>1, <2>2 DEF ServedBefore
<1>. QED BY <1>3, <1>5, <1>6, <1>7 DEF LockInv

\* The MarketRouter draws a ticket.
LEMMA RouterReceiveLock == TypeOK /\ OrderInv /\ RouterReceive => LockInv'
<1> SUFFICES ASSUME TypeOK, OrderInv, RouterReceive PROVE LockInv'
  OBVIOUS
<1> DEFINE n == Len(req) + 1
<1>1. /\ Len(req') = Len(req) + 1 /\ Len(req) \in Nat
      /\ UNCHANGED <<locked, wpc, cur, applied>>
      /\ tickets' = tickets \/ tickets' = Append(tickets, n)
  <2> DEFINE R == [body : Requests, known : BOOLEAN]
  <2>1. req \in Seq(R) /\ \E x : req' = Append(req, x)
    BY DEF TypeOK, RouterTypes, RouterReceive
  <2>2. Len(req') = Len(req) + 1 /\ Len(req) \in Nat
    <3> HIDE DEF R
    <3>. QED BY <2>1
  <2>. QED BY <2>2 DEF RouterReceive, workerVars
<1>2. CASE tickets' = tickets
  BY <1>1, <1>2, LockFrame DEF OrderInv
<1>3. CASE tickets' = Append(tickets, n)
  <2>1. /\ tickets \in Seq(Nat) /\ Increasing(tickets) /\ n \in Nat
        /\ \A k \in DOMAIN tickets : tickets[k] \in 1..Len(req) /\ tickets[k] < n
    BY <1>1 DEF TypeOK, LockTypes, OrderInv, LockInv, TicketsOrdered
  <2>2. /\ tickets' \in Seq(Nat) /\ Increasing(tickets') /\ tickets' # <<>>
        /\ \A k \in DOMAIN tickets' :
             \/ k \in DOMAIN tickets /\ tickets'[k] = tickets[k]
             \/ k = Len(tickets) + 1 /\ tickets'[k] = n
    BY <1>3, <2>1, AppendShape
  <2>3. TicketsOrdered'
    BY <1>1, <2>1, <2>2 DEF TicketsOrdered
  <2>4. \A u \in Units : FirstServed(u)'
    <3>1. tickets # <<>> => Head(tickets') = Head(tickets)
      BY <1>3, <2>1
    <3>. QED BY <1>1, <2>2, <3>1 DEF OrderInv, LockInv, FirstServed
  <2>5. FlagMeansHeld'
    BY <1>1 DEF OrderInv, LockInv, FlagMeansHeld
  <2>6. ServedBefore'
    <3>1. /\ Increasing(applied) /\ \A j \in DOMAIN applied : applied[j] \in 1..Len(req)
          /\ \A j \in DOMAIN applied, k \in DOMAIN tickets :
               IF locked /\ k = 1 THEN applied[j] <= tickets[k] ELSE applied[j] < tickets[k]
      BY DEF OrderInv, LockInv, ServedBefore
    <3>2. ASSUME NEW j \in DOMAIN applied, NEW k \in DOMAIN tickets'
          PROVE  IF locked /\ k = 1 THEN applied[j] <= tickets'[k] ELSE applied[j] < tickets'[k]
      <4>1. applied[j] < n
        BY <1>1, <3>1
      <4>2. applied[j] \in Nat
        BY <3>1
      <4>3. n \in Nat
        BY <2>1
      <4> HIDE DEF n
      <4>4. CASE tickets'[k] = n
        BY <4>1, <4>2, <4>3, <4>4
      <4>5. CASE k \in DOMAIN tickets /\ tickets'[k] = tickets[k]
        BY <3>1, <4>5
      <4>. QED BY <2>2, <4>4, <4>5
    <3>. QED BY <1>1, <3>1, <3>2 DEF ServedBefore
  <2>. QED BY <2>3, <2>4, <2>5, <2>6 DEF LockInv
<1>. QED BY <1>1, <1>2, <1>3

\* unlock() by the worker that holds the QueueMutex.
LEMMA UnlockStep ==
  ASSUME TypeOK, OrderInv, NEW v \in Units, wpc[v] \in HoldsLock, Unlock,
         wpc'[v] \in {"report", "idle"},
         \A u \in Units \ {v} : wpc'[u] = wpc[u],
         UNCHANGED <<req, applied>>
  PROVE  LockInv'
<1>1. /\ tickets \in Seq(Nat) /\ Increasing(tickets) /\ tickets # <<>>
      /\ tickets' = Tail(tickets) /\ locked' = FALSE /\ locked
  BY DEF TypeOK, LockTypes, OrderInv, LockInv, TicketsOrdered, FirstServed, FlagMeansHeld, Unlock
<1>2. /\ tickets' \in Seq(Nat) /\ Increasing(tickets')
      /\ \A k \in DOMAIN tickets' : /\ k + 1 \in DOMAIN tickets
                                    /\ tickets'[k] = tickets[k + 1]
  BY <1>1, TailShape
<1>3. \A u \in Units : wpc'[u] \notin HoldsLock \cup {"flag", "set"}
  <2>1. "report" \notin HoldsLock \cup {"flag", "set"} /\ "idle" \notin HoldsLock \cup {"flag", "set"}
    BY DEF HoldsLock
  <2>2. \A u \in Units \ {v} : wpc[u] \notin HoldsLock \cup {"flag", "set"}
    BY FirstUnique
  <2>. QED BY <2>1, <2>2
<1>4. TicketsOrdered'
  BY <1>2 DEF OrderInv, LockInv, TicketsOrdered
<1>5. \A u \in Units : FirstServed(u)'
  BY <1>3 DEF FirstServed
<1>6. FlagMeansHeld'
  BY <1>1, <1>3 DEF FlagMeansHeld
<1>7. ServedBefore'
  <2>1. ASSUME NEW j \in DOMAIN applied, NEW k \in DOMAIN tickets'
        PROVE  applied[j] < tickets'[k]
    <3>1. k \in Nat /\ k >= 1 /\ k + 1 \in DOMAIN tickets /\ tickets'[k] = tickets[k + 1]
      BY <1>2
    <3>. QED BY <3>1 DEF OrderInv, LockInv, ServedBefore
  <2>. QED BY <1>1, <2>1 DEF OrderInv, LockInv, ServedBefore
<1>. QED BY <1>4, <1>5, <1>6, <1>7 DEF LockInv

\* lock() sets m_lock: the worker has the first ticket and nobody holds the QueueMutex.
LEMMA LockSetStep ==
  ASSUME TypeOK, OrderInv, NEW v \in Units, LockSet(v)
  PROVE  LockInv'
<1>1. /\ tickets \in Seq(Nat) /\ Increasing(tickets) /\ tickets # <<>>
      /\ Head(tickets) = cur[v] /\ wpc[v] = "set" /\ applied \in Seq(Nat)
      /\ cur[v] \in Nat
  BY DEF LockSet, TypeOK, LockTypes, HistoryTypes, WorkerTypes, OrderInv, LockInv,
         TicketsOrdered, FirstServed
<1>2. /\ UNCHANGED <<req, tickets, cur>> /\ locked' = TRUE
      /\ applied' = Append(applied, cur[v]) /\ wpc'[v] = "cs"
      /\ \A u \in Units \ {v} : wpc'[u] = wpc[u]
  BY DEF LockSet, routerVars, GoTo, TypeOK, WorkerTypes
<1>3. 1 \in DOMAIN tickets /\ tickets[1] = cur[v]
  BY <1>1
<1>4. ~ locked
  <2>1. \A u \in Units : wpc[u] \notin HoldsLock
    <3>1. "set" \notin HoldsLock
      BY DEF HoldsLock
    <3>. QED BY <1>1, <3>1, FirstUnique
  <2>. QED BY <2>1 DEF OrderInv, LockInv, FlagMeansHeld
<1>5. \A j \in DOMAIN applied : applied[j] < cur[v]
  BY <1>3, <1>4 DEF OrderInv, LockInv, ServedBefore
<1>6. Increasing(applied)
  BY DEF OrderInv, LockInv, ServedBefore
<1>7. /\ Increasing(applied')
      /\ \A k \in DOMAIN applied' :
           \/ k \in DOMAIN applied /\ applied'[k] = applied[k]
           \/ applied'[k] = cur[v]
  BY <1>1, <1>2, <1>5, <1>6, AppendShape
<1>8. TicketsOrdered'
  BY <1>2 DEF OrderInv, LockInv, TicketsOrdered
<1>9. \A u \in Units : FirstServed(u)'
  BY <1>1, <1>2 DEF OrderInv, LockInv, FirstServed
<1>10. FlagMeansHeld'
  BY <1>2 DEF FlagMeansHeld, HoldsLock
<1>11. ServedBefore'
  <2>1. \A k \in DOMAIN tickets : k = 1 \/ cur[v] < tickets[k]
    BY <1>1, <1>3 DEF Increasing
  <2>2. \A k \in DOMAIN tickets : tickets[k] \in 1..Len(req)
    BY DEF OrderInv, LockInv, TicketsOrdered
  <2>3. \A j \in DOMAIN applied : applied[j] \in 1..Len(req)
    BY DEF OrderInv, LockInv, ServedBefore
  <2>4. \A j \in DOMAIN applied' : applied'[j] \in 1..Len(req) /\ applied'[j] <= cur[v]
    <3>1. cur[v] \in 1..Len(req)
      BY <1>3, <2>2
    <3>2. ASSUME NEW j \in DOMAIN applied'
          PROVE  applied'[j] \in 1..Len(req) /\ applied'[j] <= cur[v]
      <4>1. CASE j \in DOMAIN applied /\ applied'[j] = applied[j]
        <5>1. applied[j] \in 1..Len(req) /\ applied[j] < cur[v]
          BY <1>5, <2>3, <4>1
        <5>. QED BY <1>1, <4>1, <5>1
      <4>2. CASE applied'[j] = cur[v]
        BY <1>1, <3>1, <4>2
      <4>. QED BY <1>7, <4>1, <4>2
    <3>. QED BY <3>2
  <2>5. ASSUME NEW j \in DOMAIN applied', NEW k \in DOMAIN tickets
        PROVE  IF k = 1 THEN applied'[j] <= tickets[k] ELSE applied'[j] < tickets[k]
    BY <1>1, <1>3, <2>1, <2>2, <2>4
  <2>. QED BY <1>2, <1>7, <2>4, <2>5 DEF ServedBefore
<1>. QED BY <1>8, <1>9, <1>10, <1>11 DEF LockInv

\* A worker that takes, gives back or waits for nothing.
LEMMA WorkerKeepsLock ==
  ASSUME TypeOK, OrderInv, NEW v \in Units, UNCHANGED <<req, tickets, locked, applied>>,
         \A u \in Units \ {v} : wpc'[u] = wpc[u] /\ cur'[u] = cur[u],
         \/ wpc[v] \notin HoldsLock /\ wpc'[v] \notin HoldsLock \cup {"flag", "set"}
         \/ wpc[v] \in HoldsLock /\ wpc'[v] \in HoldsLock /\ cur'[v] = cur[v]
         \/ /\ wpc[v] \notin HoldsLock /\ wpc'[v] \in {"flag", "set"} /\ cur'[v] = cur[v]
            /\ tickets # <<>> /\ Head(tickets) = cur[v]
  PROVE  LockInv'
<1>1. Len(req) \in Nat
  BY DEF TypeOK, RouterTypes
<1>2. "flag" \notin HoldsLock /\ "set" \notin HoldsLock
  BY DEF HoldsLock
<1>3. \A u \in Units : wpc'[u] \in HoldsLock <=> wpc[u] \in HoldsLock
  BY <1>2
<1>4. \A u \in Units : wpc'[u] \in HoldsLock \cup {"flag", "set"} =>
        /\ cur'[u] = cur[u]
        /\ \/ wpc[u] \in HoldsLock \cup {"flag", "set"}
           \/ tickets # <<>> /\ Head(tickets) = cur[u]
  BY <1>2
<1>. QED BY <1>1, <1>3, <1>4, LockFrame DEF OrderInv

\* No worker has in hand what an input thread is about to take.
LEMMA HeadIsNobodys ==
  ASSUME TypeOK, QueueInv, NEW v \in Units, inbox[v] # <<>>
  PROVE  /\ Head(inbox[v]) \in Nat
         /\ \A u \in Units : wpc[u] # "idle" => cur[u] # Head(inbox[v])
<1> DEFINE i == Head(inbox[v])
<1>1. i \in Nat /\ Belongs(i, v) /\ (wpc[v] # "idle" => cur[v] < i) /\ cur[v] \in Nat
  BY InboxHead DEF TypeOK, WorkerTypes
<1> HIDE DEF i
<1>2. ASSUME NEW u \in Units, wpc[u] # "idle" PROVE cur[u] # i
  <2>1. Belongs(cur[u], u)
    BY <1>2 DEF QueueInv, CurOrdered, Workable
  <2>. QED BY <1>1, <1>2, <2>1 DEF Belongs
<1>. QED BY <1>1, <1>2 DEF i

\* What the router and the input threads do to the lock: nothing, or finish()
\* of a request that no worker has in hand.
LEMMA InputFrame ==
  ASSUME TypeOK, OrderInv, RouterAppend \/ NewOrderOnInput \/ CancelInput
  PROVE  /\ UNCHANGED <<req, wpc, cur, applied>>
         /\ \/ UNCHANGED lockVars
            \/ \E i \in Nat : Finish(i) /\ \A u \in Units : wpc[u] # "idle" => cur[u] # i
<1>1. UNCHANGED <<req, wpc, cur, applied>>
  BY DEF RouterAppend, NewOrderOnInput, CancelInput, CancelOnInput, CancelGetOrder, CancelPush,
         routerVars, workerVars
<1>4. CASE NewOrderOnInput
  <2> DEFINE i == Head(inbox["New"])
  <2>1. Finish(i) \/ UNCHANGED lockVars
    BY <1>4 DEF NewOrderOnInput
  <2>2. i \in Nat /\ \A u \in Units : wpc[u] # "idle" => cur[u] # i
    BY <1>4, HeadIsNobodys DEF NewOrderOnInput, Units, OrderInv
  <2> HIDE DEF i
  <2>. QED BY <1>1, <2>1, <2>2
<1>5. CASE CancelOnInput
  <2> DEFINE i == Head(inbox["Cancel"])
  <2>1. Finish(i) \/ UNCHANGED lockVars
    BY <1>5 DEF CancelOnInput
  <2>2. i \in Nat /\ \A u \in Units : wpc[u] # "idle" => cur[u] # i
    BY <1>5, HeadIsNobodys DEF CancelOnInput, Units, OrderInv
  <2> HIDE DEF i
  <2>. QED BY <1>1, <2>1, <2>2
<1>6. CASE CancelGetOrder
  <2>1. Finish(ival) \/ UNCHANGED lockVars
    BY <1>6 DEF CancelGetOrder
  <2>2. ival \in Nat /\ \A u \in Units : wpc[u] # "idle" => cur[u] # ival
    <3>1. ival \in Nat /\ Belongs(ival, "Cancel")
      BY <1>6 DEF CancelGetOrder, TypeOK, InputTypes, OrderInv, QueueInv, InputOrdered
    <3>2. ASSUME NEW u \in Units, wpc[u] # "idle" PROVE cur[u] # ival
      <4>1. CurOrdered(u)
        BY DEF OrderInv, QueueInv
      <4>2. CASE u = "Cancel"
        BY <1>6, <3>1, <3>2, <4>1, <4>2 DEF CurOrdered, CancelGetOrder
      <4>3. CASE u # "Cancel"
        BY <3>1, <3>2, <4>1, <4>3 DEF CurOrdered, Workable, Belongs
      <4>. QED BY <4>2, <4>3
    <3>. QED BY <3>1, <3>2
  <2>. QED BY <1>1, <2>1, <2>2
<1>7. CASE RouterAppend \/ CancelPush
  BY <1>1, <1>7 DEF RouterAppend, CancelPush
<1>. QED BY <1>1, <1>4, <1>5, <1>6, <1>7 DEF CancelInput

\* The router's push and the input threads leave the lock as it is, or give a ticket back.
LEMMA InputLock ==
  ASSUME TypeOK, OrderInv, RouterAppend \/ NewOrderOnInput \/ CancelInput
  PROVE  LockInv'
<1>1. Len(req) \in Nat
  BY DEF TypeOK, RouterTypes
<1>2. CASE UNCHANGED lockVars
  BY <1>1, <1>2, InputFrame, LockFrame DEF lockVars, OrderInv
<1>. QED BY <1>2, InputFrame, FinishKeeps DEF OrderInv

\* What a worker does to the lock: it takes it, gives it back, or neither.
Keeps(v) ==
  /\ UNCHANGED <<req, tickets, locked, applied>>
  /\ \A u \in Units \ {v} : wpc'[u] = wpc[u] /\ cur'[u] = cur[u]
  /\ \/ wpc[v] \notin HoldsLock /\ wpc'[v] \notin HoldsLock \cup {"flag", "set"}
     \/ wpc[v] \in HoldsLock /\ wpc'[v] \in HoldsLock /\ cur'[v] = cur[v]
     \/ /\ wpc[v] \notin HoldsLock /\ wpc'[v] \in {"flag", "set"} /\ cur'[v] = cur[v]
        /\ tickets # <<>> /\ Head(tickets) = cur[v]

GivesBack(v) ==
  /\ wpc[v] \in HoldsLock /\ Unlock /\ wpc'[v] \in {"report", "idle"}
  /\ \A u \in Units \ {v} : wpc'[u] = wpc[u]
  /\ UNCHANGED <<req, applied>>

\* What no step of a worker changes.
LEMMA WorkerFrame ==
  ASSUME TypeOK, OrderInv, NEW v \in Units, Worker(v)
  PROVE  LockSet(v) \/ GivesBack(v) \/ Keeps(v)
<1> USE DEF GoTo, HoldsLock
<1>0. wpc \in [Units -> WorkerPoints] /\ cur \in [Units -> Nat]
  BY DEF TypeOK, WorkerTypes
<1>1. CASE WorkerPop(v)
  BY <1>0, <1>1 DEF WorkerPop, Keeps, routerVars, lockVars
<1>2. CASE LockSpin(v)
  <2>1. /\ UNCHANGED <<req, tickets, locked, applied, cur>> /\ wpc[v] \notin HoldsLock
        /\ \A u \in Units \ {v} : wpc'[u] = wpc[u]
        /\ wpc'[v] \in {"empty", "front", "dead", "flag", "set"}
    BY <1>0, <1>2 DEF LockSpin, routerVars, lockVars
  <2>2. wpc'[v] \in {"flag", "set"} => tickets # <<>> /\ Head(tickets) = cur[v]
    BY <1>0, <1>2 DEF LockSpin, OrderInv, LockInv, FirstServed
  <2>. QED BY <2>1, <2>2 DEF Keeps
<1>4. CASE WorkerReport(v)
  BY <1>0, <1>4 DEF WorkerReport, Keeps, routerVars, lockVars
<1>5. CASE v = "New" /\ NewOrderHolds
  BY <1>0, <1>5 DEF NewOrderHolds, NewOrderCheck, NewOrderFill, NewOrderUnmap, NewOrderRest,
     NewOrderMap, NewOrderUnlock, UnlockThenReport, routerVars, lockVars, Keeps, GivesBack
<1>6. CASE v = "Cancel" /\ CancelHolds
  BY <1>0, <1>6 DEF CancelHolds, CancelCheck, CancelErase, UnlockThenReport, routerVars,
     lockVars, Keeps, GivesBack
<1>. QED BY <1>1, <1>2, <1>4, <1>5, <1>6 DEF Worker

\* Every step of a worker keeps the invariant of the lock.
LEMMA WorkerLock == ASSUME TypeOK, OrderInv, NEW v \in Units, Worker(v) PROVE LockInv'
<1>1. CASE Keeps(v)
  BY <1>1, WorkerKeepsLock DEF Keeps
<1>2. CASE GivesBack(v)
  BY <1>2, UnlockStep DEF GivesBack
<1>. QED BY <1>1, <1>2, WorkerFrame, LockSetStep

-----------------------------------------------------------------------------
(* The inductive invariant, and what follows *)

\* The inductive invariant: types and arrival order together.
LEMMA InvariantHolds == Spec => [](TypeOK /\ OrderInv)
<1>1. Init => TypeOK /\ OrderInv
  <2> SUFFICES ASSUME Init PROVE TypeOK /\ OrderInv
    OBVIOUS
  <2>1. TypeOK
    <3>1. RouterTypes
      <4> DEFINE R == [body : Requests, known : BOOLEAN]
      <4>1. <<>> \in Seq(R)
        OBVIOUS
      <4>2. req = <<>> /\ rpc = "idle"
        BY DEF Init
      <4>3. rpc \in {"idle", "append"}
        BY <4>2
      <4>4. req \in Seq(R)
        <5> HIDE DEF R
        <5>. QED BY <4>1, <4>2
      <4>. QED BY <4>3, <4>4 DEF RouterTypes
    <3>5. LockTypes /\ HistoryTypes
      <4>1. /\ tickets = <<>> /\ locked = FALSE /\ applied = <<>> /\ open = {}
            /\ <<>> \in Seq(Nat)
        BY DEF Init
      <4>. QED BY <4>1 DEF LockTypes, HistoryTypes
    <3>6. InputTypes
      <4>1. inbox = [u \in Units |-> <<>>] /\ ipc = "idle" /\ ival = 0 /\ <<>> \in Seq(Nat)
        BY DEF Init
      <4>2. inbox \in [Units -> Seq(Nat)]
        BY <4>1, Zenon
      <4>. QED BY <4>1, <4>2 DEF InputTypes
    <3>2. WorkerTypes /\ NoteTypes
      <4>1. /\ work = [u \in Units |-> <<>>] /\ wpc = [u \in Units |-> "idle"]
            /\ cur = [u \in Units |-> 0] /\ left = 0 /\ note = [u \in Units |-> "none"]
            /\ <<>> \in Seq(Nat) /\ 0 \in Nat /\ "idle" \in WorkerPoints
        BY DEF Init, WorkerPoints
      <4>2. work \in [Units -> Seq(Nat)] /\ wpc \in [Units -> WorkerPoints]
            /\ cur \in [Units -> Nat]
        BY <4>1, Zenon
      <4>3. left \in 0..MaxQty
        BY <4>1, BoundsAssumption
      <4>4. NoteTypes
        BY <4>1 DEF NoteTypes
      <4>. QED BY <4>2, <4>3, <4>4 DEF WorkerTypes
    <3>3. BookTypes
      BY DEF Init, BookTypes
    <3>4. ReplyTypes
      BY DEF Init, ReplyTypes
    <3>. QED BY <3>1, <3>2, <3>3, <3>4, <3>5, <3>6 DEF TypeOK
  <2>2. QueueInv
    BY DEF Init, QueueInv, InputOrdered, InboxOrdered, WorkOrdered, CurOrdered, Increasing,
       AllBelow
  <2>3. LockInv
    BY DEF Init, LockInv, TicketsOrdered, FirstServed, FlagMeansHeld, ServedBefore, Increasing,
       HoldsLock
  <2>. QED BY <2>1, <2>2, <2>3 DEF OrderInv
<1>2. TypeOK /\ OrderInv /\ [Next]_vars => (TypeOK /\ OrderInv)'
  <2> SUFFICES ASSUME TypeOK, OrderInv, [Next]_vars PROVE (TypeOK /\ OrderInv)'
    OBVIOUS
  <2>1. TypeOK'
    BY TypeStep
  <2>2. QueueInv'
    BY QueueStep DEF OrderInv
  <2>3. LockInv'
    <3>1. CASE UNCHANGED vars
      <4>1. Len(req) \in Nat
        BY DEF TypeOK, RouterTypes
      <4>. QED BY <3>1, <4>1, LockFrame
           DEF OrderInv, vars, routerVars, lockVars, workerVars
    <3>. QED BY <3>1, RouterReceiveLock, InputLock, WorkerLock DEF Next
  <2>. QED BY <2>1, <2>2, <2>3 DEF OrderInv
<1>. QED BY <1>1, <1>2, PTL DEF Spec

\* Every variable has its type, for every set of requests.
THEOREM TypeCorrect == Spec => []TypeOK
BY InvariantHolds, PTL

\* Every queue a request passes through keeps arrival order, and the first
\* ticket alone holds the lock.
THEOREM OrderKept == Spec => []OrderInv
BY InvariantHolds, PTL

\* One worker at a time changes the book, although lock() tests the ticket
\* queue and the flag, and sets the flag, in separate unsynchronised steps.
THEOREM BookExclusion == Spec => []MutualExclusion
<1>1. OrderInv => MutualExclusion
  BY FirstUnique DEF MutualExclusion
<1>. QED BY <1>1, InvariantHolds, PTL

\* Requests reach the book in the order the MarketRouter received them.
THEOREM ArrivalOrder == Spec => []InArrivalOrder
<1>1. OrderInv => InArrivalOrder
  BY DEF OrderInv, LockInv, ServedBefore, Increasing, InArrivalOrder
<1>. QED BY <1>1, InvariantHolds, PTL

-----------------------------------------------------------------------------
(* The market implements the ticket lock *)

HolderFacts ==
  /\ \A u \in Units : wpc[u] \in HoldsLock => Holder = cur[u] /\ cur[u] # 0
  /\ (\A u \in Units : wpc[u] \notin HoldsLock) => Holder = 0

\* The holder is the request of the one worker between lock() and unlock().
LEMMA HolderIs == OrderInv => HolderFacts
<1> SUFFICES ASSUME OrderInv PROVE HolderFacts
  OBVIOUS
<1>1. ASSUME NEW u \in Units, wpc[u] \in HoldsLock PROVE Holder = cur[u] /\ cur[u] # 0
  <2> DEFINE h == CHOOSE v \in Units : wpc[v] \in HoldsLock
  <2>1. h \in Units /\ wpc[h] \in HoldsLock
    BY <1>1
  <2>2. h = u
    BY <1>1, <2>1, FirstUnique
  <2>3. Holder = cur[h]
    BY <1>1 DEF Holder
  <2>4. cur[u] # 0
    BY <1>1 DEF OrderInv, QueueInv, CurOrdered, Workable, Belongs, HoldsLock
  <2>. QED BY <2>2, <2>3, <2>4
<1>2. ASSUME \A u \in Units : wpc[u] \notin HoldsLock PROVE Holder = 0
  BY <1>2 DEF Holder
<1>. QED BY <1>1, <1>2 DEF HolderFacts

\* The same in the next state.
LEMMA HolderNext == OrderInv' => HolderFacts'
BY HolderIs, PTL

\* A step that moves no worker in or out of the lock keeps the holder.
LEMMA HolderSame ==
  ASSUME HolderFacts, HolderFacts',
         \A u \in Units : wpc'[u] \in HoldsLock <=> wpc[u] \in HoldsLock,
         \A u \in Units : wpc[u] \in HoldsLock => cur'[u] = cur[u]
  PROVE  Holder' = Holder
<1>1. CASE \E u \in Units : wpc[u] \in HoldsLock
  BY <1>1 DEF HolderFacts
<1>2. CASE \A u \in Units : wpc[u] \notin HoldsLock
  BY <1>2 DEF HolderFacts
<1>. QED BY <1>1, <1>2

\* finish() of a waiting request is a withdrawal, or nothing.
LEMMA FinishWithdraws ==
  ASSUME TypeOK, OrderInv, HolderFacts, HolderFacts', NEW i \in Nat, Finish(i),
         \A u \in Units : wpc[u] # "idle" => cur[u] # i,
         UNCHANGED <<req, wpc, cur, applied>>
  PROVE  Ticket!Withdraw \/ UNCHANGED Ticket!vars
<1>1. Holder' = Holder
  BY HolderSame
<1>2. tickets \in Seq(Nat) /\ Increasing(tickets) /\ tickets' = Finished(tickets, i)
      /\ \A k \in DOMAIN tickets : tickets[k] # 0
  BY DEF TypeOK, LockTypes, OrderInv, LockInv, TicketsOrdered, Finish
<1>3. CASE ~ \E k \in DOMAIN tickets : tickets[k] = i
  BY <1>1, <1>2, <1>3 DEF Finished, Ticket!vars
<1>4. CASE \E k \in DOMAIN tickets : tickets[k] = i
  <2>1. PICK p \in DOMAIN tickets : tickets[p] = i
    BY <1>4
  <2>2. \A j \in DOMAIN tickets : j > p => tickets[j] # i
    BY <1>2, <2>1 DEF Increasing
  <2> DEFINE k == LastAt(tickets, i)
  <2>3. k \in DOMAIN tickets /\ tickets[k] = i
    BY <2>1, <2>2 DEF LastAt
  <2>4. i # Holder
    <3>1. CASE \E u \in Units : wpc[u] \in HoldsLock
      BY <3>1 DEF HolderFacts, HoldsLock
    <3>2. CASE \A u \in Units : wpc[u] \notin HoldsLock
      BY <1>2, <2>3, <3>2 DEF HolderFacts
    <3>. QED BY <3>1, <3>2
  <2>5. tickets' = [j \in 1..(Len(tickets) - 1) |-> IF j < k THEN tickets[j] ELSE tickets[j + 1]]
    BY <1>2, <1>4, Zenon DEF Finished
  <2> HIDE DEF k
  <2>. QED BY <1>1, <2>3, <2>4, <2>5 DEF Ticket!Withdraw
<1>. QED BY <1>3, <1>4

\* unlock() is a Leave of the ticket lock.
LEMMA LeaveStep ==
  ASSUME OrderInv, HolderFacts, HolderFacts', NEW v \in Units, wpc[v] \in HoldsLock,
         wpc'[v] \in {"report", "idle"},
         \A u \in Units \ {v} : wpc'[u] = wpc[u], Unlock, UNCHANGED <<req, applied>>
  PROVE  Ticket!Leave
<1>1. Holder # 0
  BY DEF HolderFacts
<1>2. \A u \in Units : wpc'[u] \notin HoldsLock
  <2>1. \A u \in Units \ {v} : wpc[u] \notin HoldsLock
    BY FirstUnique
  <2>. QED BY <2>1 DEF HoldsLock
<1>3. Holder' = 0
  BY <1>2 DEF HolderFacts
<1>. QED BY <1>1, <1>3 DEF Ticket!Leave, Unlock

\* Every step of a market is a step of the ticket lock or a stutter.
LEMMA TicketStep ==
  TypeOK /\ OrderInv /\ OrderInv' /\ [Next]_vars => [Ticket!Next]_(Ticket!vars)
<1> SUFFICES ASSUME TypeOK, OrderInv, OrderInv', [Next]_vars
             PROVE  [Ticket!Next]_(Ticket!vars)
  OBVIOUS
<1>0. HolderFacts /\ HolderFacts'
  BY HolderIs, HolderNext
<1>1. CASE RouterReceive
  <2>1. UNCHANGED <<wpc, cur, applied>> /\ tickets' \in {tickets, Append(tickets, Len(req) + 1)}
    BY <1>1 DEF RouterReceive, workerVars
  <2>2. Len(req') = Len(req) + 1
    <3> DEFINE R == [body : Requests, known : BOOLEAN]
    <3>1. req \in Seq(R) /\ \E x : req' = Append(req, x)
      BY <1>1 DEF TypeOK, RouterTypes, RouterReceive
    <3> HIDE DEF R
    <3>. QED BY <3>1
  <2>3. Holder' = Holder
    BY <1>0, <2>1, HolderSame
  <2>. QED BY <2>1, <2>2, <2>3 DEF Ticket!Next, Ticket!Arrive
<1>2. CASE RouterAppend \/ NewOrderOnInput \/ CancelInput
  <2>1. UNCHANGED <<req, wpc, cur, applied>>
    BY <1>2, InputFrame
  <2>2. CASE UNCHANGED lockVars
    <3>1. Holder' = Holder
      BY <1>0, <2>1, HolderSame
    <3>. QED BY <2>1, <2>2, <3>1 DEF lockVars, Ticket!vars
  <2>. QED BY <1>0, <1>2, <2>1, <2>2, InputFrame, FinishWithdraws DEF Ticket!Next
<1>3. ASSUME NEW v \in Units, Worker(v) PROVE [Ticket!Next]_(Ticket!vars)
  <2>1. CASE LockSet(v)
    <3>1. /\ wpc[v] = "set" /\ wpc'[v] = "cs" /\ UNCHANGED <<req, tickets, cur>>
          /\ applied' = Append(applied, cur[v])
      BY <2>1 DEF LockSet, GoTo, routerVars, TypeOK, WorkerTypes
    <3>2. tickets # <<>> /\ Head(tickets) = cur[v]
      BY <3>1 DEF OrderInv, LockInv, FirstServed
    <3>3. \A u \in Units : wpc[u] \notin HoldsLock
      BY <3>1, FirstUnique DEF HoldsLock
    <3>4. Holder = 0 /\ Holder' = cur[v]
      BY <1>0, <3>1, <3>3 DEF HolderFacts, HoldsLock
    <3>. QED BY <3>1, <3>2, <3>4 DEF Ticket!Next, Ticket!Enter
  <2>2. CASE GivesBack(v)
    BY <1>0, <2>2, LeaveStep DEF GivesBack, Ticket!Next
  <2>3. CASE Keeps(v)
    <3>1. Holder' = Holder
      BY <1>0, <2>3, HolderSame DEF Keeps, HoldsLock
    <3>. QED BY <2>3, <3>1 DEF Keeps, Ticket!vars
  <2>. QED BY <1>3, <2>1, <2>2, <2>3, WorkerFrame
<1>4. CASE UNCHANGED vars
  <2>1. UNCHANGED <<req, tickets, wpc, cur, applied>>
    BY <1>4 DEF vars, routerVars, lockVars, workerVars
  <2>2. Holder' = Holder
    BY <1>0, <2>1, HolderSame
  <2>. QED BY <2>1, <2>2 DEF Ticket!vars
<1>. QED BY <1>1, <1>2, <1>3, <1>4 DEF Next

\* Whatever the threads do, requests are served as the abstract ticket lock
\* serves them: drawn in arrival order, withdrawn only while they wait, and
\* given the book first come, first served, one at a time.
THEOREM MarketImplementsTicketLock == Spec => ImplementsTicketLock
<1>1. Init => Ticket!Init
  BY DEF Init, Ticket!Init, Holder, HoldsLock
<1>. QED BY <1>1, TicketStep, InvariantHolds, PTL
     DEF Spec, ImplementsTicketLock, Ticket!Spec
=============================================================================
