------------------------------ MODULE Lifecycle ------------------------------
(***************************************************************************)
(* The end of the server: Core polls its process units until a signal or   *)
(* the failure of one of them, stops them one after the other, and its     *)
(* destructor ends the threads that are left, while messages are still on  *)
(* their way between them.  Units, their worker threads and the threads of *)
(* their pools are threads with a queue; a market is one that starts,      *)
(* polls and stops three others.  What a unit does with a message is       *)
(* reduced to whom it hands it to, and QueueMutex to its tickets.          *)
(***************************************************************************)
EXTENDS Integers, FiniteSets, SequencesExt

CONSTANTS
  Kinds,        \* what clients send
  None,         \* no message
  MaxInputs     \* bound: messages read, and heartbeats found to be late

ASSUME BoundsAssumption == MaxInputs \in Nat

\* Faulty order: the output is stopped before the markets that use it.
UnitsOutputFirst == <<"input", "header", "router", "mrouter", "logon", "logout",
                      "heartbeat", "output", "market">>

\* In the order in which stop() ends them.
Units == <<"input", "header", "router", "mrouter", "logon", "logout", "heartbeat",
           "market", "output">>
Children == <<"neworder", "cancel", "event">>

\* What the destructors end after that: the members of Core backwards, those of
\* a market likewise, and of each unit its thread and then its pool.
Leftovers == <<"heartbeatPool", "logoutPool", "logonPool", "outputPool",
               "cancel", "neworder", "event", "eventPool">>

\* All that Core ends, in order.  The pool that removes clients is static.
Duties == Units \o Leftovers

MarketWorkers == {"neworderWorker", "cancelWorker"}
Workers == MarketWorkers \cup {"watch"}
Pools == {"logonPool", "logoutPool", "heartbeatPool", "outputPool", "eventPool", "removePool"}
Threads == ToSet(Duties) \cup ToSet(Children) \cup Workers \cup Pools

VARIABLES
  state,     \* of each thread, see States
  queue,     \* of each thread: its input, or the tasks of a pool
  hand,      \* the request a worker waits with, or processes
  tickets,   \* QueueMutex::m_queue
  locked,    \* an id map has been left locked by a thread that died
  failed,    \* units whose future holds an exception
  signalled, \* signal_run is FALSE
  duty,      \* which of its duties Core is at; zero while it polls
  child,     \* which of its children the market is stopping; zero before
  inputs,    \* their number so far
  late       \* history: <<from, to>> if a thread used what another had left

marketVars == <<hand, tickets, locked>>
coreVars == <<failed, signalled, duty, child>>
vars == <<state, queue, marketVars, coreVars, inputs, late>>

\* "idle" is a thread that found its queue empty after its last input, and
\* "busy" one that did not.  Asked to stop, it looks at its queue once more
\* ("drain") or has tested the queue and not the stop ("leave"); "ending" is a
\* unit that stops its worker, "stuck" a worker that waits for a lock.
States == {"idle", "busy", "drain", "leave", "ending", "stuck", "ended"}
Running(t) == state[t] \in {"idle", "busy", "drain"}

\* A message on its way to a client.
Answer == [id |-> 0, kind |-> "Answer"]

\* The thread from uses the threads in to, which may have ended: TCPInput is
\* destroyed before the leftovers, the queue of the output after its pool.
Use(from, to) ==
  late' = late \cup {<<from, t>> : t \in {u \in to : state[u] = "ended"}}
               \cup {<<from, "freed">> : t \in {u \in to :
                       \/ u = "input" /\ duty > Len(Units)
                       \/ u = "output" /\ duty > Len(Units) + 4}}

\* Each thread in the domain of given is handed its message.
Put(q, given) == [u \in DOMAIN q |-> IF u \in DOMAIN given THEN Append(q[u], given[u]) ELSE q[u]]

\* A thread is done with an input, of those that rest in q.
After(t, q) ==
  [state EXCEPT ![t] = IF @ = "drain" \/ t \in Pools THEN @ ELSE IF q = <<>> THEN "idle" ELSE "busy"]

\* Thread t takes the first of its queue, and hands on what it makes of it.
Handles(t, given) ==
  /\ queue' = Put([queue EXCEPT ![t] = Tail(@)], given)
  /\ state' = After(t, Tail(queue[t]))
  /\ Use(t, DOMAIN given)

Has(t) == Running(t) /\ queue[t] # <<>>

-----------------------------------------------------------------------------
(* Stopping a thread *)

\* Faulty onStop(): it joins a worker nobody has told to stop.
AskedUntold(t) ==
  CASE t \in Workers -> {state[t]}
    [] state[t] = "idle" -> IF t \in Pools THEN {"leave"} ELSE {"drain", "leave"}
    [] state[t] = "busy" -> {"drain"}
    [] OTHER -> {state[t]}

\* request_stop(), or m_terminate of a pool, which drops the tasks that wait.
Asked(t) ==
  CASE state[t] = "idle" -> IF t \in Pools THEN {"leave"} ELSE {"drain", "leave"}
    [] state[t] = "busy" -> {"drain"}
    [] OTHER -> {state[t]}

WorkerOf == [neworder |-> "neworderWorker", cancel |-> "cancelWorker", heartbeat |-> "watch"]

\* runtime() is over: a unit with a worker goes on to onStop().
RuntimeOver(t) ==
  IF t \in DOMAIN WorkerOf
  THEN \E s \in Asked(WorkerOf[t]) :
         state' = [state EXCEPT ![t] = "ending", ![WorkerOf[t]] = s]
  ELSE state' = [state EXCEPT ![t] = "ended"]

\* The loop of an AInputProcess, of a worker or of a pool ends.
Exit(t) ==
  /\ \/ state[t] = "leave"
     \/ state[t] = "drain" /\ queue[t] = <<>>
  /\ t # "market" /\ (t \in MarketWorkers => hand[t] = None)
  /\ RuntimeOver(t)
  /\ UNCHANGED <<queue, marketVars, coreVars, inputs, late>>

\* onStop() has joined the worker, and the thread of the unit ends.
EndUnit(u) ==
  /\ state[u] = "ending" /\ state[WorkerOf[u]] = "ended"
  /\ state' = [state EXCEPT ![u] = "ended"]
  /\ UNCHANGED <<queue, marketVars, coreVars, inputs, late>>

-----------------------------------------------------------------------------
(* MarketContainer and Core *)

\* status() of a child throws what its future holds; the other children go on.
MarketFails ==
  /\ Running("market") /\ child = 0 /\ failed \cap ToSet(Children) # {}
  /\ state' = [state EXCEPT !["market"] = "ended"]
  /\ failed' = failed \cup {"market"}
  /\ UNCHANGED <<queue, marketVars, signalled, duty, child, inputs, late>>

\* stop() of the children in turn, each joined before the next is asked.
MarketStops ==
  /\ state["market"] \in {"drain", "leave"}
  /\ child > 0 => state[Children[child]] = "ended"
  /\ IF child < Len(Children)
     THEN /\ child' = child + 1
          /\ \E s \in Asked(Children[child + 1]) :
               state' = [state EXCEPT ![Children[child + 1]] = s]
     ELSE state' = [state EXCEPT !["market"] = "ended"] /\ UNCHANGED child
  /\ UNCHANGED <<queue, marketVars, failed, signalled, duty, inputs, late>>

Signal ==
  /\ ~signalled /\ signalled' = TRUE
  /\ UNCHANGED <<state, queue, marketVars, failed, duty, child, inputs, late>>

\* The loop of start() sees the signal, or the exception of a unit, after which
\* the destructor calls stop(); each thread is joined before the next is asked.
StopNext ==
  /\ IF duty = 0 THEN signalled \/ "market" \in failed
     ELSE duty <= Len(Duties) /\ state[Duties[duty]] = "ended"
  /\ duty' = duty + 1
  /\ IF duty < Len(Duties)
     THEN \E s \in Asked(Duties[duty + 1]) : state' = [state EXCEPT ![Duties[duty + 1]] = s]
     ELSE UNCHANGED state
  /\ UNCHANGED <<queue, marketVars, failed, signalled, child, inputs, late>>

-----------------------------------------------------------------------------
(* Messages on their way *)

\* TCPInput reads a message.
Read(kind) ==
  /\ Running("input") /\ inputs < MaxInputs /\ inputs' = inputs + 1
  /\ queue' = Put(queue, [header |-> [id |-> inputs + 1, kind |-> kind]])
  /\ Use("input", {"header"})
  /\ UNCHANGED <<state, marketVars, coreVars>>

Handler == [Logon |-> "logon", Logout |-> "logout", HeartBeat |-> "heartbeat",
            Limit |-> "mrouter", Market |-> "mrouter", Cancel |-> "mrouter"]

ASSUME KindsAssumption == Kinds \subseteq DOMAIN Handler

\* Whom a thread hands its inputs or the results of its tasks to.
Next1 == [header |-> "router", logon |-> "logonPool", logout |-> "logoutPool",
          heartbeat |-> "heartbeatPool", event |-> "eventPool", output |-> "outputPool"]
Answering == {"logonPool", "logoutPool", "heartbeatPool", "eventPool"}

\* An input is handed on.
Pass(t) ==
  /\ Has(t)
  /\ LET m == Head(queue[t])
         v == IF t = "router" THEN Handler[m.kind] ELSE Next1[t]
     IN Handles(t, [u \in {v} |-> m])
  /\ UNCHANGED <<marketVars, coreVars, inputs>>

\* An input is refused, or a task ends.  A Reject and a HeartBeat have no
\* answer, nor has a report whose client is gone.
Reply(t) ==
  /\ Has(t)
  /\ \E answered \in IF t \in {"header", "mrouter"} THEN {{"output"}} ELSE SUBSET {"output"} :
       Handles(t, [u \in answered |-> Answer])
  /\ UNCHANGED <<marketVars, coreVars, inputs>>

\* An answer is sent, or its client is found gone and removed.
SendAnswer ==
  /\ Has("outputPool")
  /\ \E gone \in SUBSET {"removePool"} : Handles("outputPool", [u \in gone |-> Answer])
  /\ UNCHANGED <<marketVars, coreVars, inputs>>

\* A removed client is taken out of the selector of TCPInput.
Removed ==
  /\ queue["removePool"] # <<>>
  /\ queue' = [queue EXCEPT !["removePool"] = Tail(@)] /\ Use("removePool", {"input"})
  /\ UNCHANGED <<state, marketVars, coreVars, inputs>>

\* The heartbeat of a client is late.
Watch ==
  /\ Running("watch") /\ inputs < MaxInputs /\ inputs' = inputs + 1
  /\ queue' = Put(queue, [output |-> Answer]) /\ Use("watch", {"output"})
  /\ UNCHANGED <<state, marketVars, coreVars>>

-----------------------------------------------------------------------------
(* The market *)

UnitOf(m) == IF m.kind = "Cancel" THEN "cancel" ELSE "neworder"

\* Faulty allow(): the ticket is put in front of those that wait.
TicketInFront ==
  LET m == Head(queue["mrouter"])
  IN /\ Has("mrouter")
     /\ tickets' = <<m.id>> \o tickets
     /\ Handles("mrouter", [u \in {UnitOf(m)} |-> m])
     /\ UNCHANGED <<hand, locked, coreVars, inputs>>

\* MarketRouter draws the ticket of a request and pushes it to its unit.
Ticket ==
  LET m == Head(queue["mrouter"])
  IN /\ Has("mrouter")
     /\ tickets' = Append(tickets, m.id)
     /\ Handles("mrouter", [u \in {UnitOf(m)} |-> m])
     /\ UNCHANGED <<hand, locked, coreVars, inputs>>

\* A refusal gives the ticket back, with finish().
Refuse(u) ==
  /\ Has(u)
  /\ tickets' = RemoveFirst(tickets, Head(queue[u]).id)
  /\ Handles(u, [output |-> Answer])
  /\ UNCHANGED <<hand, locked, coreVars, inputs>>

\* An order goes on to the worker.
OrderAccepted ==
  LET m == Head(queue["neworder"])
  IN /\ Has("neworder") /\ m.kind = "Limit" /\ Handles("neworder", [neworderWorker |-> m])
     /\ UNCHANGED <<marketVars, coreVars, inputs>>

\* So does one whose type has been refused.
OrderUnsupported ==
  LET m == Head(queue["neworder"])
  IN /\ Has("neworder") /\ m.kind = "Market"
     /\ tickets' = RemoveFirst(tickets, m.id)
     /\ Handles("neworder", [neworderWorker |-> m, output |-> Answer])
     /\ UNCHANGED <<hand, locked, coreVars, inputs>>

\* A cancel goes on to the worker, and is acknowledged if others are before it.
CancelAccepted ==
  LET m == Head(queue["cancel"])
  IN /\ Has("cancel")
     /\ IF queue["cancelWorker"] # <<>> \/ Head(tickets) # m.id
        THEN Handles("cancel", [cancelWorker |-> m, output |-> Answer])
        ELSE Handles("cancel", [cancelWorker |-> m])
     /\ UNCHANGED <<marketVars, coreVars, inputs>>

\* The order to cancel is gone, or its side unknown: the thread of the unit
\* throws, with a map locked or not, and its ticket stays.
CancelThrows ==
  /\ Has("cancel")
  /\ queue' = [queue EXCEPT !["cancel"] = Tail(@)]
  /\ locked' \in {locked, TRUE} /\ failed' = failed \cup {"cancel"}
  /\ RuntimeOver("cancel")
  /\ UNCHANGED <<hand, tickets, signalled, duty, child, inputs, late>>

\* A worker takes a request, and waits in QueueMutex::lock() for its ticket.
Begin(w) ==
  /\ Has(w) /\ hand[w] = None
  /\ hand' = [hand EXCEPT ![w] = Head(queue[w])]
  /\ queue' = [queue EXCEPT ![w] = Tail(@)]
  /\ state' = [state EXCEPT ![w] = IF @ = "drain" THEN @ ELSE "busy"]
  /\ UNCHANGED <<tickets, locked, coreVars, inputs, late>>

HasTurn(w) == hand[w] # None /\ tickets # <<>> /\ Head(tickets) = hand[w].id

\* The request is answered, and the fills of an order are reported to OBEvent.
Serve(w) ==
  /\ Running(w) /\ HasTurn(w)
  /\ tickets' = Tail(tickets) /\ hand' = [hand EXCEPT ![w] = None]
  /\ \E filled \in IF w = "neworderWorker" THEN SUBSET {"event"} ELSE {{}} :
       LET given == [u \in {"output"} \cup filled |-> IF u = "event" THEN hand[w] ELSE Answer]
       IN queue' = Put(queue, given) /\ Use(w, DOMAIN given)
  /\ state' = After(w, queue[w])
  /\ UNCHANGED <<locked, coreVars, inputs>>

\* The id map the request changes may be the one that was left locked.
Block(w) ==
  /\ Running(w) /\ HasTurn(w) /\ locked
  /\ state' = [state EXCEPT ![w] = "stuck"]
  /\ UNCHANGED <<queue, marketVars, coreVars, inputs, late>>

-----------------------------------------------------------------------------

\* All units have been started, in the reverse order.
Init ==
  /\ state = [t \in Threads |-> "idle"] /\ queue = [t \in Threads |-> <<>>]
  /\ hand = [w \in MarketWorkers |-> None] /\ tickets = <<>> /\ locked = FALSE
  /\ failed = {} /\ signalled = FALSE /\ duty = 0 /\ child = 0
  /\ inputs = 0 /\ late = {}

Work ==
  \/ MarketFails \/ MarketStops \/ StopNext
  \/ \E t \in Threads : Exit(t)
  \/ \E u \in DOMAIN WorkerOf : EndUnit(u)
  \/ \E t \in DOMAIN Next1 \cup {"router"} : Pass(t)
  \/ \E t \in Answering \cup {"header", "router", "mrouter"} : Reply(t)
  \/ SendAnswer \/ Removed \/ Watch
  \/ Ticket \/ OrderAccepted \/ OrderUnsupported \/ CancelAccepted \/ CancelThrows
  \/ \E u \in {"neworder", "cancel"} : Refuse(u)
  \/ \E w \in MarketWorkers : Begin(w) \/ Serve(w) \/ Block(w)

Next == Work \/ Signal \/ \E k \in Kinds : Read(k)

\* Every thread is scheduled; their work is finite, so that fairness of all of
\* them is that of each.  Nobody has to send a message or a signal.
Spec == Init /\ [][Next]_vars /\ WF_vars(Work)

-----------------------------------------------------------------------------
(* Properties *)

Messages == [id : 0..MaxInputs, kind : Kinds \cup {"Answer"}]

\* Every variable has its type, and tickets are in the order they were drawn.
TypeOK ==
  /\ state \in [Threads -> States]
  /\ queue \in [Threads -> Seq(Messages)]
  /\ hand \in [MarketWorkers -> Messages \cup {None}]
  /\ \A i, j \in DOMAIN tickets : i < j => tickets[i] < tickets[j]
  /\ failed \subseteq {"cancel", "market"} /\ signalled \in BOOLEAN /\ locked \in BOOLEAN
  /\ duty \in 0..(Len(Duties) + 1) /\ child \in 0..Len(Children)
  /\ inputs \in 0..MaxInputs
  /\ late \subseteq Threads \X (Threads \cup {"freed"})

\* Somebody will serve or withdraw the ticket of request id.
Owned(id) ==
  \/ \E w \in MarketWorkers : hand[w] # None /\ hand[w].id = id
  \/ \E t \in {"neworder", "cancel"} \cup MarketWorkers :
       Running(t) /\ \E k \in DOMAIN queue[t] : queue[t][k].id = id

\* A worker waits for ever: its ticket was given back, one before it has nobody
\* left to use it, or the thread that died holds the lock it needs.
Stuck == \E w \in MarketWorkers :
  /\ hand[w] # None
  /\ \/ state[w] = "stuck"
     \/ hand[w].id \notin ToSet(tickets)
     \/ \E i, j \in DOMAIN tickets :
          i < j /\ tickets[j] = hand[w].id /\ ~Owned(tickets[i])

Done == duty > Len(Duties)

\* A signal, or the death of a unit, ends the server: every join returns, unless
\* a worker of the market waits for a ticket or a lock nobody gives back.
ServerEnds == signalled \/ failed # {} ~> Done \/ Stuck

\* While the server stops without a failure, nobody is handed anything once it
\* has ended, but for what the pools, which are ended last, still answer, and
\* removed clients.
OnlyPoolsAreLate ==
  failed = {} => late \subseteq
    ({"logonPool", "logoutPool", "heartbeatPool", "eventPool"} \X {"output"})
      \cup {<<"eventPool", "freed">>, <<"removePool", "input">>, <<"removePool", "freed">>}
=============================================================================
