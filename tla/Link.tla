-------------------------------- MODULE Link --------------------------------
(***************************************************************************)
(* The FIX session between a back and the server: the units of the back    *)
(* with the one counter they share, the other end as a client of the       *)
(* server meets it, and the orders of the GUI.  The threads of the server  *)
(* are the module Session; here it handles what it reads in one step and   *)
(* sends what it has to say in another.                                    *)
(***************************************************************************)
EXTENDS Integers, FiniteSets, SequencesExt

CONSTANTS
  Orders,    \* ids of the orders of the user
  None,
  FirstNum,  \* the number typed in the login form
  MaxNum,    \* bound: numbers either end may give
  MaxBeats,  \* bound: heartbeats of the back
  MaxAsks    \* bound: TestRequests of the server

ASSUME NumbersAssumption == FirstNum \in Nat /\ MaxNum \in Nat /\ FirstNum < MaxNum
ASSUME BoundsAssumption == MaxBeats \in Nat /\ MaxAsks \in Nat

VARIABLES
  user,      \* User: m_seqnum and m_login
  builder,   \* what FrontManager left for FixBuilder
  output,    \* input of TcpOutput
  sender,    \* TcpOutput: the message it has numbered
  unit,      \* input of the other units
  core,      \* Core: running, Execution has thrown, or gone
  account,   \* InternalClient of the server: m_logged_in, m_seq_num, TestRequest, socket
  answers,   \* input of the TCPOutput of the server
  book,      \* what became of each order in its market
  toServer, toBack,   \* bytes on their way
  toGui,     \* messages for the GUI, and whether an event of its epoll is pending
  gui,       \* logged on; and what OrderHistoric shows of each order
  beats, asks,
  crossed,   \* history: a message was numbered or read before the one ahead of it was checked
  strayed,   \* history: two messages were read as one, or two threads moved the counter
  refused    \* history: a number was refused

backVars == <<user, builder, output, sender, unit, core, beats>>
fixServerVars == <<account, answers, book, asks>>
wires == <<toServer, toBack>>
guiVars == <<toGui, gui>>
historyVars == <<crossed, strayed, refused>>
vars == <<backVars, fixServerVars, wires, guiVars, historyVars>>

Msg(kind, order) == [kind |-> kind, order |-> order, num |-> 0]
Numbered(m, num) == [m EXCEPT !.num = num]
Idle == [pc |-> "idle", msg |-> Msg("none", None)]
Alive == core # "gone"

-----------------------------------------------------------------------------
(* The GUI *)

\* onSubmit() of OrderExecution; authValidation() lets the order through.
Submit(o) ==
  /\ Alive /\ gui.in /\ gui.rows[o] = "none"
  /\ gui' = [gui EXCEPT !.rows[o] = "sent"]
  /\ builder' = Append(builder, Msg("Order", o))
  /\ UNCHANGED <<user, output, sender, unit, core, beats, fixServerVars, wires, toGui, historyVars>>

ToGui(kind, o) == toGui' = [bytes |-> Append(toGui.bytes, Msg(kind, o)), edge |-> TRUE]

\* BackManager reads one message for each event of its epoll.  An event of an
\* order that is not listed is dropped.
GuiReads ==
  LET m == Head(toGui.bytes)
  IN /\ toGui.edge /\ toGui.bytes # <<>>
     /\ toGui' = [bytes |-> Tail(toGui.bytes), edge |-> FALSE]
     /\ gui' = CASE m.kind = "Logon" -> [gui EXCEPT !.in = TRUE]
                 [] m.kind = "ExecNew" -> [gui EXCEPT !.rows[m.order] = "listed"]
                 [] m.kind = "ExecEvent" ->
                      [gui EXCEPT !.rows[m.order] = IF @ = "listed" THEN "filled" ELSE @]
     /\ UNCHANGED <<backVars, fixServerVars, wires, historyVars>>

-----------------------------------------------------------------------------
(* FixBuilder and TcpOutput *)

\* buildLogon() starts the numbers anew; buildOrderSingle()
Build ==
  LET m == Head(builder)
  IN /\ Alive /\ builder # <<>>
     /\ builder' = Tail(builder)
     /\ output' = Append(output, m)
     /\ user' = IF m.kind = "Logon" THEN [user EXCEPT !.seq = FirstNum] ELSE user
     /\ UNCHANGED <<sender, unit, core, beats, fixServerVars, wires, guiVars, historyVars>>

\* One more step of the counter before the login.
NextNumber == IF user.login THEN user.seq ELSE user.seq + 1

\* onInput() takes a message and gives it its number.
OutNumber ==
  LET num == NextNumber
  IN /\ Alive /\ sender.pc = "idle" /\ output # <<>> /\ num < MaxNum
     /\ output' = Tail(output)
     /\ user' = [user EXCEPT !.seq = num]
     /\ sender' = [pc |-> "count", msg |-> Numbered(Head(output), num)]
     /\ crossed' = (crossed \/ toBack # <<>> \/ unit["header"] # <<>>)
     /\ UNCHANGED <<builder, unit, core, beats, fixServerVars, wires, guiVars, strayed, refused>>

\* nextSeqNumber(), unprotected: TcpInput moves the counter, and AuthHandler sets
\* it, in threads of their own, and one of the two changes may be lost.
OutCount ==
  /\ Alive /\ sender.pc = "count"
  /\ \E seq \in {user.seq, sender.msg.num} : user' = [user EXCEPT !.seq = seq + 1]
  /\ strayed' = (strayed \/ user.seq # sender.msg.num)
  /\ sender' = [sender EXCEPT !.pc = "send"]
  /\ UNCHANGED <<builder, output, unit, core, beats, fixServerVars, wires, guiVars, crossed, refused>>

\* isOpen() tells nothing of the other end: once that has closed, SIGPIPE ends
\* the back.
OutSend ==
  /\ Alive /\ sender.pc = "send"
  /\ sender' = Idle
  /\ \/ toServer' = (IF account.open THEN Append(toServer, sender.msg) ELSE toServer) /\ UNCHANGED core
     \/ ~account.open /\ core' = "gone" /\ UNCHANGED toServer
  /\ UNCHANGED <<user, builder, output, unit, beats, fixServerVars, toBack, guiVars, historyVars>>

-----------------------------------------------------------------------------
(* TcpInput, HeaderValidation and Router *)

Counted == IF user.login THEN [user EXCEPT !.seq = @ + 1] ELSE user

\* receive() takes all there is as one message, which then fails the checksum.
Receive ==
  /\ Alive /\ toBack # <<>> /\ user.seq < MaxNum
  /\ toBack' = <<>>
  /\ user' = Counted
  /\ IF Len(toBack) = 1
     THEN unit' = [unit EXCEPT !["header"] = Append(@, toBack[1])] /\ UNCHANGED <<output, strayed>>
     ELSE output' = Append(output, Msg("Reject", None)) /\ strayed' = TRUE /\ UNCHANGED unit
  /\ crossed' = (crossed \/ unit["header"] # <<>>)
  /\ UNCHANGED <<builder, sender, core, beats, fixServerVars, toServer, guiVars, refused>>

\* Faulty: the number is compared with the counter itself.
RefusedBySeq(m) == user.login /\ m.num # user.seq

\* verifyUserSpecific(): the counter has been moved for this message, and may
\* have been moved since.
RefusedByNumber(m) == user.login /\ m.num # user.seq - 1

ValidateHeader ==
  LET m == Head(unit["header"])
  IN /\ Alive /\ unit["header"] # <<>>
     /\ IF RefusedByNumber(m)
        THEN /\ unit' = [unit EXCEPT !["header"] = Tail(@)]
             /\ output' = Append(output, Msg("Reject", None)) /\ refused' = TRUE
        ELSE /\ unit' = [unit EXCEPT !["header"] = Tail(@), !["router"] = Append(@, m)]
             /\ UNCHANGED <<output, refused>>
     /\ UNCHANGED <<user, builder, sender, core, beats, fixServerVars, wires, guiVars, crossed, strayed>>

Handler == [Logon |-> "auth", TestRequest |-> "heartbeat", HeartBeat |-> "heartbeat",
            Ack |-> "execution", Fill |-> "execution", Refusal |-> "execution"]

\* Faulty: what is no logon and no report is taken for a heartbeat.
RoutedAnywhere(m, rest) ==
  LET u == IF m.kind \in DOMAIN Handler THEN Handler[m.kind] ELSE "heartbeat"
  IN [rest EXCEPT ![u] = Append(@, m)]

\* A Reject is only logged.
Routed(m, rest) ==
  IF m.kind = "Reject" THEN rest ELSE [rest EXCEPT ![Handler[m.kind]] = Append(@, m)]

Route ==
  /\ Alive /\ unit["router"] # <<>>
  /\ unit' = Routed(Head(unit["router"]), [unit EXCEPT !["router"] = Tail(@)])
  /\ UNCHANGED <<user, builder, output, sender, core, beats, fixServerVars, wires, guiVars,
                 historyVars>>

-----------------------------------------------------------------------------
(* Auth, HeartBeat and Execution *)

Done(u) == unit' = [unit EXCEPT ![u] = Tail(@)]

\* Faulty: the number of the answer is kept.
LoggedOnAt(num) == [seq |-> num, login |-> TRUE]

\* setSeqNumber() and login()
LoggedOn(num) == [seq |-> num + 1, login |-> TRUE]

\* handleLogon()
HandleLogon ==
  /\ Alive /\ unit["auth"] # <<>> /\ Done("auth")
  /\ user' = LoggedOn(Head(unit["auth"]).num)
  /\ ToGui("Logon", None)
  /\ UNCHANGED <<builder, output, sender, core, beats, fixServerVars, wires, gui, historyVars>>

\* Faulty: a heartbeat answers the request, without its id.
EchoOfPlain == Msg("HeartBeat", None)

Echo == Msg("Echo", None)

\* handleTestRequest() echoes the id of the request; handleHeartBeat() only logs.
HandleHeartBeat ==
  /\ Alive /\ unit["heartbeat"] # <<>> /\ Done("heartbeat")
  /\ output' = IF Head(unit["heartbeat"]).kind = "TestRequest" THEN Append(output, Echo) ELSE output
  /\ UNCHANGED <<user, builder, sender, core, beats, fixServerVars, wires, guiVars, historyVars>>

\* heartbeatLoop(): the period passes.
Beat ==
  /\ Alive /\ user.login /\ beats < MaxBeats /\ beats' = beats + 1
  /\ output' = Append(output, Msg("HeartBeat", None))
  /\ UNCHANGED <<user, builder, sender, unit, core, fixServerVars, wires, guiVars, historyVars>>

\* Faulty: the type of the report is not looked at.
ReportAny(m) == IF m.kind = "Fill" THEN core' = "thrown" /\ UNCHANGED toGui
                ELSE ToGui("ExecNew", m.order) /\ UNCHANGED core

\* Faulty: only fills are looked for.
ReportFills(m) ==
  IF m.kind = "Fill" THEN core' = "thrown" /\ UNCHANGED toGui ELSE UNCHANGED <<core, toGui>>

\* treatNewOrder(): the report of a fill has no Price, whose value() throws and
\* ends the unit; the report of a refused order is dropped.
Report(m) ==
  \/ m.kind = "Ack" /\ ToGui("ExecNew", m.order) /\ UNCHANGED core
  \/ m.kind = "Fill" /\ core' = "thrown" /\ UNCHANGED toGui
  \/ m.kind = "Refusal" /\ UNCHANGED <<core, toGui>>

Execute ==
  /\ core = "run" /\ unit["execution"] # <<>> /\ Done("execution")
  /\ Report(Head(unit["execution"]))
  /\ UNCHANGED <<user, builder, output, sender, beats, fixServerVars, wires, gui, historyVars>>

\* start() polls the units, finds the exception and returns; the process ends.
CoreReturns ==
  /\ core = "thrown" /\ core' = "gone"
  /\ UNCHANGED <<user, builder, output, sender, unit, beats, fixServerVars, wires, guiVars,
                 historyVars>>

-----------------------------------------------------------------------------
(* The server *)

ServerRefuses(a, m) == IF a.login THEN m.num # a.seq - 1 ELSE m.kind # "Logon"

Reply(kind, o) == answers' = Append(answers, Msg(kind, o))

\* One message, from TCPInput to its handler and what that appends to the output.
ServerReads ==
  LET m == toServer[1]
      a == [account EXCEPT !.seq = IF account.login THEN @ + 1 ELSE @]
      refusal == Len(toServer) > 1 \/ ServerRefuses(a, m)
                 \/ (m.kind = "Logon" /\ a.login) \/ (m.kind = "HeartBeat" /\ a.test)
  IN /\ account.open /\ toServer # <<>> /\ account.seq < MaxNum
     /\ toServer' = <<>>
     /\ strayed' = (strayed \/ Len(toServer) > 1)
     /\ refused' = (refused \/ (Len(toServer) = 1 /\ ServerRefuses(a, m)))
     /\ \/ refusal /\ account' = a /\ Reply("Reject", None) /\ UNCHANGED book
        \/ /\ ~refusal
           /\ \/ /\ m.kind = "Logon" /\ Reply("Logon", None)
                 /\ account' = [a EXCEPT !.login = TRUE, !.seq = m.num + 1]
                 /\ UNCHANGED book
              \/ /\ m.kind = "Order" /\ account' = a
                 /\ \E k \in {"Ack", "Refusal"} :
                      Reply(k, m.order) /\ book' = [book EXCEPT ![m.order] = k]
              \/ /\ m.kind \in {"HeartBeat", "Echo"} /\ Reply("HeartBeat", None)
                 /\ account' = [a EXCEPT !.test = FALSE]
                 /\ UNCHANGED book
              \/ m.kind = "Reject" /\ account' = a /\ UNCHANGED <<answers, book>>
     /\ UNCHANGED <<backVars, asks, toBack, guiVars, crossed>>

\* The answer is numbered, counted and sent.
ServerSends ==
  LET num == IF account.login THEN account.seq ELSE account.seq + 1
  IN /\ account.open /\ answers # <<>> /\ num < MaxNum
     /\ answers' = Tail(answers)
     /\ account' = [account EXCEPT !.seq = num + 1]
     /\ toBack' = Append(toBack, Numbered(Head(answers), num))
     /\ crossed' = (crossed \/ toServer # <<>> \/ sender.pc # "idle")
     /\ UNCHANGED <<backVars, book, asks, toServer, guiVars, strayed, refused>>

\* The order is filled by another client: a report without being asked.
ServerFills(o) ==
  /\ account.open /\ account.login /\ book[o] = "Ack"
  /\ book' = [book EXCEPT ![o] = "Fill"]
  /\ Reply("Fill", o)
  /\ UNCHANGED <<backVars, account, asks, wires, guiVars, historyVars>>

\* Nothing is under way between the two: what is arrives within a period.
Quiet ==
  /\ builder = <<>> /\ output = <<>> /\ sender.pc = "idle" /\ answers = <<>>
  /\ toServer = <<>> /\ toBack = <<>> /\ \A u \in DOMAIN unit : unit[u] = <<>>

\* A period passes without a heartbeat of the client, who is asked for one, and
\* removed after another period.
ServerAsks ==
  /\ account.open /\ account.login /\ ~account.test /\ asks < MaxAsks /\ Quiet
  /\ asks' = asks + 1 /\ account' = [account EXCEPT !.test = TRUE]
  /\ Reply("TestRequest", None)
  /\ UNCHANGED <<backVars, book, wires, guiVars, historyVars>>

ServerRemoves ==
  /\ account.open /\ account.login /\ account.test /\ Quiet
  /\ account' = [account EXCEPT !.open = FALSE]
  /\ UNCHANGED <<backVars, answers, book, asks, wires, guiVars, historyVars>>

\* The back is gone.
ServerLosesBack ==
  /\ account.open /\ ~Alive
  /\ account' = [account EXCEPT !.open = FALSE]
  /\ UNCHANGED <<backVars, answers, book, asks, wires, guiVars, historyVars>>

-----------------------------------------------------------------------------

Units == {"header", "router", "auth", "heartbeat", "execution"}

\* The GUI has sent its Logon.
Init ==
  /\ user = [seq |-> 1, login |-> FALSE]
  /\ builder = <<Msg("Logon", None)>> /\ output = <<>> /\ sender = Idle
  /\ unit = [u \in Units |-> <<>>] /\ core = "run"
  /\ account = [login |-> FALSE, seq |-> 0, test |-> FALSE, open |-> TRUE]
  /\ answers = <<>> /\ book = [o \in Orders |-> "none"]
  /\ toServer = <<>> /\ toBack = <<>>
  /\ toGui = [bytes |-> <<>>, edge |-> FALSE]
  /\ gui = [in |-> FALSE, rows |-> [o \in Orders |-> "none"]]
  /\ beats = 0 /\ asks = 0
  /\ crossed = FALSE /\ strayed = FALSE /\ refused = FALSE

BackSteps ==
  \/ Build \/ OutNumber \/ OutCount \/ OutSend \/ Receive \/ ValidateHeader \/ Route
  \/ HandleLogon \/ HandleHeartBeat \/ Execute \/ CoreReturns
ServerSteps == ServerReads \/ ServerSends \/ ServerLosesBack

Next ==
  \/ BackSteps \/ ServerSteps \/ GuiReads \/ Beat \/ ServerAsks \/ ServerRemoves
  \/ \E o \in Orders : Submit(o) \/ ServerFills(o)

\* The threads of the back, of the server and of the GUI are scheduled; nobody
\* has to order, to fill an order, or to wait for a heartbeat.
Fairness == WF_vars(BackSteps) /\ WF_vars(ServerSteps) /\ WF_vars(GuiReads)

Spec == Init /\ [][Next]_vars /\ Fairness

-----------------------------------------------------------------------------

TypeOK ==
  /\ user \in [seq : 0..MaxNum + 1, login : BOOLEAN]
  /\ account \in [login : BOOLEAN, seq : 0..MaxNum + 1, test : BOOLEAN, open : BOOLEAN]
  /\ core \in {"run", "thrown", "gone"} /\ sender.pc \in {"idle", "count", "send"}
  /\ book \in [Orders -> {"none", "Ack", "Refusal", "Fill"}]
  /\ gui \in [in : BOOLEAN, rows : [Orders -> {"none", "sent", "listed", "filled"}]]
  /\ DOMAIN unit = Units
  /\ \A u \in {"auth", "heartbeat", "execution"} :
       \A m \in ToSet(unit[u]) : m.kind \in DOMAIN Handler /\ Handler[m.kind] = u

\* Back and server count the same messages: their counters are equal whenever
\* nothing is under way, the messages that crossed and were refused included.
CountersAgree ==
  Alive /\ account.open /\ Quiet /\ user.login /\ ~strayed => user.seq = account.seq

\* A number is refused only after messages have crossed: one counter for both
\* directions works for a dialogue.
RefusedIfCrossed == refused => crossed \/ strayed

\* A back that has what is sent to it within a period is not removed, unless
\* its answer was refused for its number.
RemovedIfRefused == ~account.open /\ core = "run" => refused \/ strayed

\* The GUI lists an order only if the market has taken it, and only orders of
\* its user.
ListedIsPlaced ==
  \A o \in Orders : gui.rows[o] \in {"listed", "filled"} => book[o] \in {"Ack", "Fill"}

\* What keeps an order from the market, or its report from the list: messages that
\* crossed or ran together, the end of the back or of its session, a message of the
\* GUI's epoll that waits for the next one, and the bound of the numbers.
Hindered ==
  \/ crossed \/ strayed \/ core # "run" \/ ~account.open
  \/ toGui.bytes # <<>> /\ ~toGui.edge
  \/ user.seq >= MaxNum - 1 \/ account.seq >= MaxNum - 1

\* An order that is not hindered reaches the market, and the GUI lists it if the market
\* takes it.  If the market refuses it the back drops the report (Execution.cpp:43), and
\* it is never listed: see ListedIsPlaced.
OrderListed ==
  \A o \in Orders :
    /\ gui.rows[o] = "sent" ~> book[o] # "none" \/ Hindered
    /\ book[o] \in {"Ack", "Fill"} ~> gui.rows[o] \in {"listed", "filled"} \/ Hindered

\* An order that is filled is shown as filled.
FillShown == \A o \in Orders :
  book[o] = "Fill" ~>
    gui.rows[o] = "filled" \/ crossed \/ strayed \/ (toGui.bytes # <<>> /\ ~toGui.edge)
=============================================================================
