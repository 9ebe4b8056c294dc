-------------------------------- MODULE Login --------------------------------
(***************************************************************************)
(* A login: the GUIs, the initiator and the backs it forks, from the first *)
(* click to the logon at the FIX server, and the end of a GUI.             *)
(***************************************************************************)
EXTENDS LoginScreen, Initiator, BackStart

vars == <<hostVars, screenVars, initiatorVars, backStartVars>>

Init == HostInit /\ ScreenInit /\ InitiatorInit /\ BackStartInit

\* No GUI has been closed while its login was under way.
Patient == \A g \in Guis : screen[g].stage # "aborted"

InterfaceStep(g) == Interface(g) /\ UNCHANGED <<initiatorVars, backStartVars>>
ManagersStep(g) == Managers(g) /\ UNCHANGED <<initiatorVars, backStartVars>>
\* Bound: once a GUI was closed early, nobody tries a second time.
UserStep(g) ==
  /\ User(g) /\ (Patient \/ screen'[g].tries \in {screen[g].tries, 1})
  /\ UNCHANGED <<initiatorVars, backStartVars>>

FrontHandlerStep == FrontHandler /\ UNCHANGED <<screenVars, backStartVars>>
FrontPoolStep == FrontPool /\ UNCHANGED <<screenVars, backStartVars>>
BackHandlerStep == BackHandler /\ UNCHANGED <<screenVars, backStartVars>>
BackPoolStep == IdentifyBack /\ UNCHANGED <<screenVars, backStartVars>>
RemoveStep == RemoveSession /\ UNCHANGED <<screenVars, backStartVars>>

MainStep(b) == Main(b) /\ UNCHANGED <<screenVars, initiatorVars>>
GreeterStep(b) == Greeter(b) /\ UNCHANGED <<screenVars, initiatorVars>>
ServerStep(b) == LoggedOn(b) /\ UNCHANGED <<screenVars, initiatorVars>>

\* A step of a thread of one of the programs.
Threads ==
  \/ FrontHandlerStep \/ FrontPoolStep \/ BackHandlerStep \/ BackPoolStep \/ RemoveStep
  \/ \E g \in Guis :
       InterfaceStep(g) \/ ManagersStep(g) \/ MainStep(g) \/ GreeterStep(g) \/ ServerStep(g)

Next == Threads \/ \E g \in Guis : UserStep(g)

\* Every thread is scheduled.  As each message is read once, no thread can go on
\* for ever, and fairness of all is that of each.  No user has to click or quit.
Fairness == WF_vars(Threads)

Spec == Init /\ [][Next]_vars /\ Fairness

-----------------------------------------------------------------------------

TypeOK == HostTypes /\ ScreenTypes /\ InitiatorTypes /\ BackStartTypes

\* The account is set connected for the first message in the pool, whose
\* session does not say so yet.
Taken(g, r) == /\ login = "marked" /\ Head(tasks).of = g
               /\ r \in Rows(Head(tasks).msg.key, Head(tasks).msg.name)

\* The session of g is identified with the account.
Bears(g, r) == session[g] # None /\ session[g].key = Key[r]

\* g uses the account, until FrontHandler has seen it end.
Holds(g, r) == Taken(g, r) \/ (Bears(g, r) /\ closed[g] = "no")

\* The session of g was closed before it was identified, so that close() had no
\* key to free the account with.
LeftBy(g, r) == Bears(g, r) /\ closed[g] = "unnamed"

Keeps(g, r) == Holds(g, r) \/ LeftBy(g, r)

\* A session of the account was closed twice, as a send() to a GUI that has closed
\* makes FrontHandler remove its session again.
FreedTwice(r) == \E g \in Guis : Bears(g, r) /\ closed[g] = "twice"

\* An account is set connected as long as one GUI, and never two, uses it: the
\* SELECT and the two UPDATEs are transactions of two threads.  A GUI that ends
\* before its session is identified leaves the account its login takes connected
\* for ever, and to nobody else.  Nor is it freed if its two names differ, since
\* close() looks for the name of the FIX server.  Nothing is said of an account a
\* session of which was closed twice: another GUI may have taken it in between.
AccountHeldOnce == \A r \in Accounts : ~FreedTwice(r) =>
  /\ (\E g \in Guis : Keeps(g, r)) => r \in connected
  /\ r \in connected /\ ServerName[r] = ClientName[r] => \E g \in Guis : Keeps(g, r)
  /\ \A g, h \in Guis : Keeps(g, r) /\ Keeps(h, r) => g = h

\* A back has been given to the session of a GUI that had ended, as a GUI may
\* take the account of another one while the session of that is still listed.
Misdirected == \E g \in Guis :
  screen[g].stage = "gone" /\ session[g] # None /\ session[g].socket \notin {None, g}

\* A GUI connects to the back its own session forked, though the initiator
\* finds the session by the key only and every token is the same; as long as no
\* GUI was closed in the middle of its login and no back was given to one that
\* had ended, which leaves two sessions or two backs of one key.
OwnBack == Patient /\ ~Misdirected => \A g, b \in Guis : dialed[b] = g => b = g

\* A user the GUI lets in is known everywhere: the back has validated the GUI
\* and been answered by the server, the session is identified and the account
\* connected; with the exceptions of OwnBack.
InMeansAll == Patient /\ ~Misdirected => \A g \in Guis : screen[g].stage = "in" =>
  /\ auth[g].valid /\ auth[g].shaken /\ logon[g] = "answered" /\ proc[g] = "running"
  /\ session[g].key = ApiKey[g]
  /\ up => \E r \in connected : Key[r] = ApiKey[g]

\* What a login may wait for without end: the initiator or its BackHandler died
\* of an exception, the back was given to another session, a signal was emitted
\* before its slot was connected, or messages that came together were read as one.
Hindered(g) ==
  \/ back = "dead" \/ g \in lost
  \/ \E h \in Guis \ {g} : session[h] # None /\ session[h].socket = g
  \/ \E d \in Directions : Unread(d, g)

\* A login that nothing hinders ends: the user is in, or may try again; as long
\* as no GUI was closed in the middle of its login.
LoginEnds == \A g \in Guis :
  screen[g].stage \in {"connecting", "asked"} ~>
    screen[g].stage \in {"form", "in", "gone"} \/ ~Patient \/ Hindered(g)

\* A back that was told to end does not: it waits for a token, in accept() for a
\* GUI that will not connect, or in the join of the heartbeat for a logon.
Hangs(b) ==
  /\ proc[b] = "told"
  /\ \/ /\ main[b] = "wait" /\ ~auth[b].valid
        /\ \/ greeter[b] = "none" /\ ~Readable("initiatorToBack", b)
           \/ greeter[b] = "accept" /\ dialed[b] = None
     \/ main[b] = "stop" /\ logon[b] # "answered"


\* A GUI that has been identified receives the port and the token of its back,
\* unless what was sent to it was lost or left unread.
IdentifiedGetsToken == \A g \in Guis :
  screen[g].stage = "named" ~>
    screen[g].stage # "named" \/ ~up \/ g \in lost \/ \E d \in Directions : Unread(d, g)
=============================================================================
