------------------------------ MODULE Session ------------------------------
(***************************************************************************)
(* The sessions of the server's clients: the TCPInput thread that accepts  *)
(* and reads sockets, HeaderValidation and Router, the Logon, Logout and   *)
(* HeartBeat handlers, the pool of TCPOutput that numbers and sends every  *)
(* answer, and ClientStore, whose own pool takes removed clients out of    *)
(* the list and closes them.  All of them share one InternalClient per     *)
(* connection and lock none of its fields.                                 *)
(*                                                                         *)
(* The other end is the client of the functional tests: one counter, moved *)
(* by every message it sends or receives.  Markets are reduced to the      *)
(* reports they append to the output queue.                                *)
(***************************************************************************)
EXTENDS Integers, FiniteSets, SequencesExt

CONSTANTS
  Clients,      \* connections; each logs in under an id of its own
  None,         \* no connection
  Bodies,       \* what clients may send: a set of Body records
  Workers,      \* threads of the TCPOutput pool (PU_NETOUT_TP_SIZE)
  MaxSent,      \* bound: messages a client sends
  MaxEvents     \* bound: fills of resting orders, reported unasked

\* Echo is a HeartBeat that carries the id of the TestRequest it answers; Other
\* is a type the server knows but takes from nobody.
Kinds == {"Logon", "Logout", "HeartBeat", "Echo", "TestRequest", "Order", "Reject", "Other"}

\* fault: what refuses the message: buildHeader, HeaderValidation or the parser
\* of its handler.
Body == [kind : Kinds, fault : {"none", "parse", "header", "body"}]
Message == [kind : Kinds, fault : {"none", "parse", "header", "body"}, num : Nat]

Answers == {"Logon", "Logout", "HeartBeat", "TestRequest", "Report", "Reject"}

ASSUME BodiesAssumption == Bodies \subseteq Body
ASSUME ClientsAssumption == None \notin Clients
ASSUME WorkersAssumption == IsFiniteSet(Workers)
ASSUME BoundsAssumption == MaxSent \in Nat /\ MaxEvents \in Nat

VARIABLES
  conn,      \* InternalClient: its socket (open), m_logged_in, m_should_dc,
             \* m_seq_num, m_hb_info.TestRequest (test)
  store,     \* ClientStore::m_clients
  selector,  \* Selector::m_clients: the clients with an entry of their own
  reuses,    \* the client whose entry was still there under the descriptor that
             \* accept() gave to each, if any
  edge,      \* an event of the edge-triggered epoll has not been taken yet
  ready,     \* the client TCPInput took from pull() and has not processed yet
  queue,     \* input of each unit, with the queue of its thread pool if it has one
  out,       \* input of TCPOutput, with the queue of its pool
  worker,    \* threads of that pool: where they are, and the answer in hand
  removing,  \* queue of m_tp_onremove
  closing,   \* the client m_tp_onremove is about to tell the callbacks of
  up,        \* FALSE once a signal or undefined behaviour ended the process
  peer,      \* the clients' end: connection, counter, and what they wait for
  toServer, toClient,   \* bytes on their way
  filled,    \* number of fills so far, for MaxEvents
  strayed,   \* history: clients whose numbering two threads or one read mixed up
  gone,      \* history: clients that closed, sent Logout, or failed the heartbeat
  doubled    \* history: a client was taken out of the list a second time

serverVars == <<conn, store, selector, reuses, edge, ready, queue, out, worker, removing,
                closing, up>>
peerVars == <<peer, toServer, toClient>>
historyVars == <<filled, strayed, gone, doubled>>
vars == <<serverVars, peerVars, historyVars>>

Units == {"header", "router", "logon", "logout", "heartbeat", "market"}
Jobs == [from : Clients, msg : Message]
Off == [state |-> "off", seq |-> 0, sent |-> 0, login |-> FALSE, waits |-> FALSE,
        asked |-> FALSE]
Free == [pc |-> "idle", to |-> None, kind |-> "none", num |-> 0]

-----------------------------------------------------------------------------
(* InternalClient, ClientStore and the queues *)

\* nextSeqNumber()
Next1(c) == [conn EXCEPT ![c].seq = @ + 1]

\* login() and setSeqNumber() of an accepted Logon.
LoggedIn(c, num) == [conn EXCEPT ![c].logged = TRUE, ![c].seq = num + 1]

\* Faulty: the counter is taken back by one, not cleared.
DisconnectedBack(c) == [conn EXCEPT ![c].logged = FALSE, ![c].dc = FALSE, ![c].seq = @ - 1]

\* disconnect() clears what shouldDisconnect(true) set one line before.
Disconnected(c) == [conn EXCEPT ![c].logged = FALSE, ![c].dc = FALSE, ![c].seq = 0]

\* removeClient(): the fields now, the list and the socket in m_tp_onremove.
RemoveClient(c) == conn' = Disconnected(c) /\ removing' = Append(removing, c)

Answer(c, kind) == out' = Append(out, [to |-> c, kind |-> kind])

\* Selector::erase(): the entries with the descriptor of c; closed sockets share
\* the descriptor -1.
SameFD(c) == {d \in selector : d = c \/ (~conn[c].open /\ ~conn[d].open)}

Pop(u) == queue' = [queue EXCEPT ![u] = Tail(@)]
Forward(u, v) == queue' = [queue EXCEPT ![u] = Tail(@), ![v] = Append(@, Head(queue[u]))]

-----------------------------------------------------------------------------
(* TCPInput *)

\* A closed socket has an entry of the selector left under its descriptor, which
\* the kernel may give to the next one: unless an open socket has it already.
Leftover(d) == /\ d \in selector /\ ~conn[d].open
               /\ \A e \in Clients : conn[e].open => reuses[e] # d

\* A connection is accepted: newClientSocket() and Selector::client(), whose
\* emplace() does nothing where the map still has an entry of the descriptor.
Accept(c) ==
  /\ up /\ peer[c].state = "off" /\ ready = None
  /\ peer' = [peer EXCEPT ![c].state = "on"]
  /\ conn' = [conn EXCEPT ![c].open = TRUE]
  /\ store' = Append(store, c)
  /\ \/ selector' = selector \cup {c} /\ UNCHANGED reuses
     \/ /\ UNCHANGED selector
        /\ \E d \in Clients : Leftover(d) /\ reuses' = [reuses EXCEPT ![c] = d]
  /\ UNCHANGED <<edge, ready, queue, out, worker, removing, closing, up, toServer,
                 toClient, historyVars>>

\* The client under whose name the entry of the descriptor of c was made.
Entry(c) == IF reuses[c] = None THEN c ELSE reuses[c]

\* pull(): epoll reports an edge while there is something to read.  at() throws
\* when the descriptor has no entry: the unit ends, and the server with it.
Pull(c) ==
  /\ up /\ ready = None /\ conn[c].open /\ edge[c]
  /\ toServer[c] # <<>> \/ peer[c].state = "closed"
  /\ \/ Entry(c) \in selector /\ ready' = Entry(c) /\ UNCHANGED up
     \/ Entry(c) \notin selector /\ up' = FALSE /\ UNCHANGED ready
  /\ edge' = [edge EXCEPT ![c] = FALSE]
  /\ UNCHANGED <<conn, store, selector, reuses, queue, out, worker, removing, closing,
                 peerVars, historyVars>>

\* The client is not in the store: its socket is dropped.
ReadUnknown ==
  /\ up /\ ready # None /\ ready \notin ToSet(store)
  /\ conn' = [conn EXCEPT ![ready].open = FALSE]
  /\ selector' = selector \ SameFD(ready)
  /\ ready' = None
  /\ UNCHANGED <<store, reuses, edge, queue, out, worker, removing, closing, up,
                 peerVars, historyVars>>

\* Its socket was closed since pull(), or the other end closed it.
ReadEnd ==
  /\ up /\ ready # None /\ ready \in ToSet(store)
  /\ ~conn[ready].open \/ toServer[ready] = <<>>
  /\ RemoveClient(ready)
  /\ ready' = None
  /\ UNCHANGED <<store, selector, reuses, edge, queue, out, worker, closing, up,
                 peerVars, historyVars>>

\* receive() takes all there is as one message.  Two messages that arrived
\* together fail the checksum, so that neither is seen and one is counted.
ReadData ==
  LET data == toServer[ready]
  IN /\ up /\ ready # None /\ ready \in ToSet(store) /\ conn[ready].open /\ data # <<>>
     /\ conn' = IF conn[ready].logged THEN Next1(ready) ELSE conn
     /\ toServer' = [toServer EXCEPT ![ready] = <<>>]
     /\ IF Len(data) = 1 /\ data[1].fault # "parse"
        THEN /\ queue' = [queue EXCEPT !["header"] = Append(@, [from |-> ready, msg |-> data[1]])]
             /\ UNCHANGED out
        ELSE Answer(ready, "Reject") /\ UNCHANGED queue
     /\ strayed' = IF Len(data) > 1 THEN strayed \cup {ready} ELSE strayed
     /\ ready' = None
     /\ UNCHANGED <<store, selector, reuses, edge, worker, removing, closing, up, peer,
                    toClient, filled, gone, doubled>>

-----------------------------------------------------------------------------
(* HeaderValidation and Router *)

\* A client that is logged in has to send the number TCPInput counted it under.
NumberRefused(c, num) == conn[c].logged /\ num # conn[c].seq - 1

ValidateHeader ==
  LET job == Head(queue["header"])
  IN /\ up /\ queue["header"] # <<>>
     /\ IF job.msg.fault = "header" \/ NumberRefused(job.from, job.msg.num)
        THEN Pop("header") /\ Answer(job.from, "Reject")
        ELSE Forward("header", "router") /\ UNCHANGED out
     /\ UNCHANGED <<conn, store, selector, reuses, edge, ready, worker, removing,
                    closing, up, peerVars, historyVars>>

Handler == [Logon |-> "logon", Logout |-> "logout", HeartBeat |-> "heartbeat",
            Echo |-> "heartbeat", TestRequest |-> "heartbeat", Order |-> "market"]

\* Only Logon is open to everybody; a Reject is only logged, and what nobody
\* handles is refused.
Route ==
  LET job == Head(queue["router"])
      kind == job.msg.kind
      open == kind = "Logon" \/ conn[job.from].logged
  IN /\ up /\ queue["router"] # <<>>
     /\ \/ /\ open /\ kind \in DOMAIN Handler
           /\ Forward("router", Handler[kind]) /\ UNCHANGED out
        \/ open /\ kind = "Reject" /\ Pop("router") /\ UNCHANGED out
        \/ /\ ~open \/ kind = "Other"
           /\ Pop("router") /\ Answer(job.from, "Reject")
     /\ UNCHANGED <<conn, store, selector, reuses, edge, ready, worker, removing,
                    closing, up, peerVars, historyVars>>

-----------------------------------------------------------------------------
(* Logon, Logout and HeartBeat *)

Logon ==
  LET job == Head(queue["logon"])
      c == job.from
  IN /\ up /\ queue["logon"] # <<>>
     /\ Pop("logon")
     /\ IF job.msg.fault = "body" \/ conn[c].logged
        THEN Answer(c, "Reject") /\ UNCHANGED conn
        ELSE Answer(c, "Logon") /\ conn' = LoggedIn(c, job.msg.num)
     /\ UNCHANGED <<store, selector, reuses, edge, ready, worker, removing, closing, up,
                    peerVars, historyVars>>

\* The session ends once TCPOutput sees m_should_dc.
Logout ==
  LET job == Head(queue["logout"])
      c == job.from
  IN /\ up /\ queue["logout"] # <<>>
     /\ Pop("logout")
     /\ IF job.msg.fault = "body"
        THEN Answer(c, "Reject") /\ UNCHANGED conn
        ELSE Answer(c, "Logout") /\ conn' = [conn EXCEPT ![c].dc = TRUE]
     /\ UNCHANGED <<store, selector, reuses, edge, ready, worker, removing, closing, up,
                    peerVars, historyVars>>

\* processHeartBeat and processTestRequest: while a TestRequest is open only
\* its echo counts as a heartbeat.
HeartBeat ==
  LET job == Head(queue["heartbeat"])
      c == job.from
      refused == job.msg.fault = "body" \/ (job.msg.kind = "HeartBeat" /\ conn[c].test)
  IN /\ up /\ queue["heartbeat"] # <<>>
     /\ Pop("heartbeat")
     /\ Answer(c, IF refused THEN "Reject" ELSE "HeartBeat")
     /\ conn' = IF refused \/ job.msg.kind = "TestRequest" THEN conn
                ELSE [conn EXCEPT ![c].test = FALSE]
     /\ UNCHANGED <<store, selector, reuses, edge, ready, worker, removing, closing, up,
                    peerVars, historyVars>>

\* handle(), for a client whose period has passed since its last heartbeat: it
\* is asked once, and removed when a period passes again.  Time is not counted:
\* the period may pass before any step.
CheckHeartBeat(c) ==
  /\ up /\ c \in ToSet(store) /\ ~conn[c].dc /\ conn[c].logged
  /\ IF ~conn[c].test
     THEN /\ Answer(c, "TestRequest")
          /\ conn' = [conn EXCEPT ![c].test = TRUE]
          /\ UNCHANGED <<removing, gone>>
     ELSE RemoveClient(c) /\ gone' = gone \cup {c} /\ UNCHANGED out
  /\ UNCHANGED <<store, selector, reuses, edge, ready, queue, worker, closing, up,
                 peerVars, filled, strayed, doubled>>

-----------------------------------------------------------------------------
(* Markets *)

\* An order is answered by its market.
MarketAnswers ==
  /\ up /\ queue["market"] # <<>> /\ Pop("market")
  /\ Answer(Head(queue["market"]).from, "Report")
  /\ UNCHANGED <<conn, store, selector, reuses, edge, ready, worker, removing, closing,
                 up, peerVars, historyVars>>

\* A resting order of a client that is logged in is filled: OBEvent finds the
\* client in the store.
MarketFills(c) ==
  /\ up /\ filled < MaxEvents /\ filled' = filled + 1
  /\ c \in ToSet(store) /\ conn[c].logged
  /\ Answer(c, "Report")
  /\ UNCHANGED <<conn, store, selector, reuses, edge, ready, queue, worker, removing,
                 closing, up, peerVars, strayed, gone, doubled>>

-----------------------------------------------------------------------------
(* TCPOutput: a task of its pool for each answer *)

At(w, pc) == worker' = [worker EXCEPT ![w].pc = pc]

\* Faulty: the answer to a client that is not logged in is numbered like any other.
SendNumberAlike(w) ==
  /\ up /\ worker[w].pc = "idle" /\ out # <<>>
  /\ out' = Tail(out)
  /\ worker' = [worker EXCEPT ![w] = [pc |-> "count", to |-> Head(out).to, kind |-> Head(out).kind,
                                      num |-> conn[Head(out).to].seq]]
  /\ UNCHANGED <<conn, store, selector, reuses, edge, ready, queue, removing, closing,
                 up, peerVars, historyVars>>

\* The task starts; getSeqNumber(), after one more step for a client that is
\* not logged in.
SendNumber(w) ==
  LET c == Head(out).to
      counted == IF conn[c].logged THEN conn ELSE Next1(c)
  IN /\ up /\ worker[w].pc = "idle" /\ out # <<>>
     /\ out' = Tail(out)
     /\ conn' = counted
     /\ worker' = [worker EXCEPT ![w] = [pc |-> "count", to |-> c, kind |-> Head(out).kind,
                                         num |-> counted[c].seq]]
     /\ UNCHANGED <<store, selector, reuses, edge, ready, queue, removing, closing, up,
                    peerVars, historyVars>>

\* nextSeqNumber() on an unprotected counter: an increment made by another
\* thread since then may be lost.
SendCount(w) ==
  LET c == worker[w].to
      num == worker[w].num
  IN /\ up /\ worker[w].pc = "count"
     /\ \E seq \in {conn[c].seq, num} : conn' = [conn EXCEPT ![c].seq = seq + 1]
     /\ strayed' = IF conn[c].seq # num THEN strayed \cup {c} ELSE strayed
     /\ At(w, "send")
     /\ UNCHANGED <<store, selector, reuses, edge, ready, queue, out, removing, closing,
                    up, peerVars, filled, gone, doubled>>

\* The socket is open here: the bytes leave.  Once the other end has closed they
\* are lost, or send() fails and the client is removed, or it raises SIGPIPE,
\* which nothing handles.
Send(w) ==
  LET c == worker[w].to
      sent == [kind |-> worker[w].kind, num |-> worker[w].num]
  IN /\ up /\ worker[w].pc = "send" /\ conn[c].open
     /\ \/ /\ toClient' = IF peer[c].state = "closed" THEN toClient
                          ELSE [toClient EXCEPT ![c] = Append(@, sent)]
           /\ UNCHANGED <<conn, removing, up>>
        \/ /\ peer[c].state = "closed"
           /\ \/ RemoveClient(c) /\ UNCHANGED up
              \/ up' = FALSE /\ UNCHANGED <<conn, removing>>
           /\ UNCHANGED toClient
     /\ At(w, "check")
     /\ UNCHANGED <<store, selector, reuses, edge, ready, queue, out, closing, peer,
                    toServer, filled, strayed, gone, doubled>>

\* The socket is closed already: the client is removed, once more.
SendClosed(w) ==
  /\ up /\ worker[w].pc = "send" /\ ~conn[worker[w].to].open
  /\ RemoveClient(worker[w].to)
  /\ worker' = [worker EXCEPT ![w] = Free]
  /\ UNCHANGED <<store, selector, reuses, edge, ready, queue, out, closing, up,
                 peerVars, historyVars>>

\* Faulty: any answer ends the session.
SendCheckAlways(w) ==
  LET c == worker[w].to
  IN /\ up /\ worker[w].pc = "check"
     /\ worker' = [worker EXCEPT ![w] = Free]
     /\ conn' = [Disconnected(c) EXCEPT ![c].open = FALSE]
     /\ removing' = Append(removing, c)
     /\ UNCHANGED <<store, selector, reuses, edge, ready, queue, out, closing, up,
                    peerVars, filled, strayed, gone, doubled>>

\* After any answer, a client that should disconnect is closed and removed.
SendCheck(w) ==
  LET c == worker[w].to
  IN /\ up /\ worker[w].pc = "check"
     /\ worker' = [worker EXCEPT ![w] = Free]
     /\ IF conn[c].dc
        THEN /\ conn' = [Disconnected(c) EXCEPT ![c].open = FALSE]
             /\ removing' = Append(removing, c)
        ELSE UNCHANGED <<conn, removing>>
     /\ UNCHANGED <<store, selector, reuses, edge, ready, queue, out, closing, up,
                    peerVars, filled, strayed, gone, doubled>>

-----------------------------------------------------------------------------
(* m_tp_onremove *)

\* The list is searched for the client.  When it is not there erase(end()) is
\* undefined: the list loses its last element, or the process ends.
RemoveErase ==
  LET c == Head(removing)
  IN /\ up /\ removing # <<>> /\ closing = None
     /\ removing' = Tail(removing) /\ closing' = c
     /\ IF c \in ToSet(store)
        THEN store' = RemoveFirst(store, c) /\ UNCHANGED <<up, doubled>>
        ELSE /\ doubled' = TRUE
             /\ \/ store # <<>> /\ store' = Front(store) /\ UNCHANGED up
                \/ up' = FALSE /\ UNCHANGED store
     /\ UNCHANGED <<conn, selector, reuses, edge, ready, queue, out, worker, peerVars,
                    filled, strayed, gone>>

\* Faulty: the selector keeps the closed socket.
RemoveNotifyKeeps ==
  /\ up /\ closing # None
  /\ conn' = [conn EXCEPT ![closing].open = FALSE]
  /\ closing' = None
  /\ UNCHANGED <<store, selector, reuses, edge, ready, queue, out, worker, removing, up,
                 peerVars, historyVars>>

\* The callback of TCPInput closes the socket, and then takes it, and with it
\* every other closed socket, out of the selector.
RemoveNotify ==
  /\ up /\ closing # None
  /\ conn' = [conn EXCEPT ![closing].open = FALSE]
  /\ selector' = {c \in selector : conn'[c].open}
  /\ closing' = None
  /\ UNCHANGED <<store, reuses, edge, ready, queue, out, worker, removing, up, peerVars,
                 historyVars>>

-----------------------------------------------------------------------------
(* The client's end *)

\* Send(): a client that is not logged in waits for the answer to what it sent.
PeerSend(c) ==
  /\ up /\ peer[c].state = "on" /\ peer[c].sent < MaxSent /\ ~peer[c].waits
  /\ \E b \in Bodies :
       /\ b.kind = "Echo" => peer[c].asked
       /\ toServer' = [toServer EXCEPT ![c] =
                         Append(@, [kind |-> b.kind, fault |-> b.fault, num |-> peer[c].seq])]
       /\ peer' = [peer EXCEPT ![c].seq = @ + 1, ![c].sent = @ + 1,
                               ![c].waits = ~peer[c].login,
                               ![c].asked = @ /\ b.kind # "Echo"]
       /\ gone' = IF b.kind = "Logout" THEN gone \cup {c} ELSE gone
  /\ edge' = [edge EXCEPT ![c] = TRUE]
  /\ UNCHANGED <<conn, store, selector, reuses, ready, queue, out, worker, removing,
                 closing, up, toClient, filled, strayed, doubled>>

\* Receive()
PeerReceive(c) ==
  LET m == Head(toClient[c])
  IN /\ up /\ peer[c].state = "on" /\ toClient[c] # <<>>
     /\ toClient' = [toClient EXCEPT ![c] = Tail(@)]
     /\ peer' = [peer EXCEPT ![c].seq = @ + 1, ![c].waits = FALSE,
                             ![c].login = @ \/ m.kind = "Logon",
                             ![c].asked = @ \/ m.kind = "TestRequest"]
     /\ UNCHANGED <<serverVars, toServer, historyVars>>

\* The client closes its socket, of its own or because the server did; what it
\* has not read is lost.
PeerClose(c) ==
  /\ up /\ peer[c].state = "on"
  /\ peer' = [peer EXCEPT ![c] = [Off EXCEPT !.state = "closed"]]
  /\ toClient' = [toClient EXCEPT ![c] = <<>>]
  /\ edge' = [edge EXCEPT ![c] = TRUE]
  /\ gone' = gone \cup {c}
  /\ UNCHANGED <<conn, store, selector, reuses, ready, queue, out, worker, removing,
                 closing, up, toServer, filled, strayed, doubled>>

-----------------------------------------------------------------------------

Init ==
  /\ conn = [c \in Clients |-> [open |-> FALSE, logged |-> FALSE, dc |-> FALSE, seq |-> 0,
                                test |-> FALSE]]
  /\ store = <<>> /\ selector = {} /\ reuses = [c \in Clients |-> None]
  /\ edge = [c \in Clients |-> FALSE] /\ ready = None
  /\ queue = [u \in Units |-> <<>>] /\ out = <<>>
  /\ worker = [w \in Workers |-> Free]
  /\ removing = <<>> /\ closing = None /\ up = TRUE
  /\ peer = [c \in Clients |-> Off]
  /\ toServer = [c \in Clients |-> <<>>] /\ toClient = [c \in Clients |-> <<>>]
  /\ filled = 0
  /\ strayed = {} /\ gone = {} /\ doubled = FALSE

Input == ReadUnknown \/ ReadEnd \/ ReadData \/ \E c \in Clients : Accept(c) \/ Pull(c)
Handlers == ValidateHeader \/ Route \/ Logon \/ Logout \/ HeartBeat \/ MarketAnswers
Output(w) == SendNumber(w) \/ SendCount(w) \/ Send(w) \/ SendClosed(w) \/ SendCheck(w)
Removal == RemoveErase \/ RemoveNotify
Peer(c) == PeerSend(c) \/ PeerReceive(c) \/ PeerClose(c)

Next == \/ Input \/ Handlers \/ Removal
        \/ \E w \in Workers : Output(w)
        \/ \E c \in Clients : CheckHeartBeat(c) \/ MarketFills(c) \/ Peer(c)

Spec == Init /\ [][Next]_vars

-----------------------------------------------------------------------------
(* Properties *)

ConnTypes == conn \in [Clients -> [open : BOOLEAN, logged : BOOLEAN, dc : BOOLEAN, seq : Nat,
                                   test : BOOLEAN]]
StoreTypes == /\ store \in Seq(Clients) /\ selector \subseteq Clients
              /\ reuses \in [Clients -> Clients \cup {None}]
              /\ removing \in Seq(Clients) /\ closing \in Clients \cup {None}
QueueTypes == /\ queue \in [Units -> Seq(Jobs)]
              /\ out \in Seq([to : Clients, kind : Answers])
              /\ worker \in [Workers -> [pc : {"idle", "count", "send", "check"},
                                         to : Clients \cup {None},
                                         kind : Answers \cup {"none"}, num : Nat]]
PeerTypes == /\ peer \in [Clients -> [state : {"off", "on", "closed"}, seq : Nat, sent : 0..MaxSent,
                                      login : BOOLEAN, waits : BOOLEAN, asked : BOOLEAN]]
             /\ toServer \in [Clients -> Seq(Message)]
             /\ toClient \in [Clients -> Seq([kind : Answers, num : Nat])]

\* Every variable has its type; no counter falls below zero.
TypeOK == /\ ConnTypes /\ StoreTypes /\ QueueTypes /\ PeerTypes
          /\ edge \in [Clients -> BOOLEAN] /\ ready \in Clients \cup {None}
          /\ up \in BOOLEAN /\ doubled \in BOOLEAN /\ filled \in 0..MaxEvents
          /\ strayed \cup gone \subseteq Clients

\* Nothing of the client is on its way or in anybody's hands.
Quiet(c) ==
  /\ toServer[c] = <<>> /\ toClient[c] = <<>> /\ ready # c
  /\ \A u \in Units : \A k \in DOMAIN queue[u] : queue[u][k].from # c
  /\ \A k \in DOMAIN out : out[k].to # c
  /\ \A w \in Workers : worker[w].to # c
  /\ c \notin ToSet(removing) /\ closing # c

\* Both ends count the same messages: whenever nothing is on its way the two
\* counters are equal, so that the next message of either is accepted by the
\* other, unless two threads counted at once or one read took two messages.
CountersAgree ==
  \A c \in Clients \ strayed :
    up /\ conn[c].open /\ peer[c].state = "on" /\ Quiet(c) => conn[c].seq = peer[c].seq

\* Between two removals the store and the open sockets are the same connections,
\* as long as no client was removed twice, and the selector has them all, but for
\* those that were accepted on a descriptor whose old entry was still there.
StoreIsSelector ==
  up /\ ~doubled /\ removing = <<>> /\ closing = None =>
    /\ ToSet(store) = {c \in Clients : conn[c].open}
    /\ selector = {c \in ToSet(store) : reuses[c] = None}

\* A session stays open until its client logs out or closes its socket, or the
\* heartbeat gives it up, as long as no client was removed twice.
SessionKept ==
  up /\ ~doubled => \A c \in Clients \ gone : peer[c].state = "on" => c \in ToSet(store)

\* The same, whatever happens to the other clients.
SessionStaysOpen ==
  up => \A c \in Clients \ gone : peer[c].state = "on" => c \in ToSet(store)
=============================================================================
