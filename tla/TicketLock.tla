----------------------------- MODULE TicketLock -----------------------------
(***************************************************************************)
(* What a market promises about the order of its requests, without its     *)
(* threads: tickets are drawn in arrival order, a request may withdraw     *)
(* while it waits, and the book is given to the first ticket only, one at  *)
(* a time.  Market implements this specification.                          *)
(***************************************************************************)
EXTENDS Integers, Sequences

VARIABLES
  arrived,   \* number of the latest request
  queue,     \* the requests that wait, the one being served first
  holder,    \* the request being served, or 0
  served     \* history: the requests served, in order

vars == <<arrived, queue, holder, served>>

Init == arrived = 0 /\ queue = <<>> /\ holder = 0 /\ served = <<>>

\* A request arrives; one that is refused at the door takes no ticket.
Arrive == /\ arrived' = arrived + 1
          /\ queue' \in {queue, Append(queue, arrived + 1)}
          /\ UNCHANGED <<holder, served>>

\* A waiting request leaves without being served.
Withdraw == /\ \E k \in DOMAIN queue :
                 /\ queue[k] # holder
                 /\ queue' = [j \in 1..(Len(queue) - 1) |->
                                IF j < k THEN queue[j] ELSE queue[j + 1]]
            /\ UNCHANGED <<arrived, holder, served>>

Enter == /\ holder = 0 /\ queue # <<>>
         /\ holder' = Head(queue)
         /\ served' = Append(served, Head(queue))
         /\ UNCHANGED <<arrived, queue>>

Leave == /\ holder # 0
         /\ holder' = 0
         /\ queue' = Tail(queue)
         /\ UNCHANGED <<arrived, served>>

Next == Arrive \/ Withdraw \/ Enter \/ Leave

Spec == Init /\ [][Next]_vars
=============================================================================
