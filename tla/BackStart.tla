------------------------------ MODULE BackStart ------------------------------
(***************************************************************************)
(* The back process from its start to its end: main(), the thread of       *)
(* InitiatorManager, which gets the token and accepts the GUI, and the     *)
(* thread of FrontManager, which validates it.  The FIX session itself is  *)
(* the module Link; here the FIX server accepts a Logon.                   *)
(***************************************************************************)
EXTENDS Host

VARIABLES
  main,     \* where main() is
  token,    \* FrontManager::m_token
  greeter,  \* the thread that accepts the GUI and then reads it
  auth,     \* m_auth and m_handshake
  logon     \* the Logon of the user: none, asked, or answered by the server

backStartVars == <<main, token, greeter, auth, logon>>

\* A back is forked.
Forked(b) == proc[b] \in {"running", "told"}

\* The process ends; its sockets close.
Exit(w, b) == End(End(w, "backToInitiator", b), "backToScreen", b)

\* send() to the GUI.  Once that has closed, SIGPIPE may end the process.
ToGui(b, m) ==
  \/ wire' = Put(wire, "backToScreen", b, m) /\ UNCHANGED proc
  \/ /\ ~wire["backToScreen"][b].open
     /\ wire' = Exit(wire, b)
     /\ proc' = [proc EXCEPT ![b] = "gone"]

-----------------------------------------------------------------------------
(* main() *)

\* A SIGTERM that comes before setup_signal_handler() ends the process.
KilledEarly(b) ==
  /\ proc[b] = "told" /\ main[b] = "start"
  /\ wire' = Exit(wire, b) /\ proc' = [proc EXCEPT ![b] = "gone"]
  /\ UNCHANGED <<backStartVars, dialed>>

\* InitiatorManager::connect(): the back listens before it tells its port.
Connect(b) ==
  /\ Forked(b) /\ main[b] = "start"
  /\ main' = [main EXCEPT ![b] = "wait"]
  /\ wire' = Put(wire, "backToInitiator", b,
                 [type |-> "BackToInitiatorAuth", key |-> ApiKey[b], port |-> b])
  /\ UNCHANGED <<token, greeter, auth, logon, proc, dialed>>

\* wait_frontend() looks at m_auth only, and at no signal.
FrontendThere(b) ==
  /\ Forked(b) /\ main[b] = "wait" /\ auth[b].valid
  /\ main' = [main EXCEPT ![b] = "dial"]
  /\ UNCHANGED <<token, greeter, auth, logon, hostVars>>

\* Core(): connected to the FIX server.
Initialize(b) ==
  /\ Forked(b) /\ main[b] = "dial"
  /\ main' = [main EXCEPT ![b] = "core"]
  /\ ToGui(b, [type |-> "Status", status |-> "Initialize"])
  /\ UNCHANGED <<token, greeter, auth, logon, dialed>>

\* start(): the units run.
Start(b) ==
  /\ Forked(b) /\ main[b] = "core"
  /\ main' = [main EXCEPT ![b] = "run"]
  /\ ToGui(b, [type |-> "Status", status |-> "Running"])
  /\ UNCHANGED <<token, greeter, auth, logon, dialed>>

\* The loop of start() ends on a signal.
Stop(b) ==
  /\ proc[b] = "told" /\ main[b] = "run"
  /\ main' = [main EXCEPT ![b] = "stop"]
  /\ ToGui(b, [type |-> "Status", status |-> "Stop"])
  /\ UNCHANGED <<token, greeter, auth, logon, dialed>>

\* stop() joins the thread of the heartbeat, which first waits for the logon.
Joined(b) ==
  /\ proc[b] = "told" /\ main[b] = "stop" /\ logon[b] = "answered"
  /\ wire' = Exit(wire, b) /\ proc' = [proc EXCEPT ![b] = "gone"]
  /\ UNCHANGED <<backStartVars, dialed>>

-----------------------------------------------------------------------------
(* The other threads *)

\* setupToken() is entered.
SetupToken(b) ==
  /\ Forked(b) /\ Reported("initiatorToBack", b) /\ ~AtEnd("initiatorToBack", b)
  /\ wire' = Take(wire, "initiatorToBack", b)
  /\ token' = [token EXCEPT ![b] = First("initiatorToBack", b).token]
  /\ greeter' = [greeter EXCEPT ![b] = "accept"]
  /\ UNCHANGED <<main, auth, logon, proc, dialed>>

\* accept() returns, and the thread that reads the GUI is started.
AcceptGui(b) ==
  /\ Forked(b) /\ greeter[b] = "accept" /\ dialed[b] # None
  /\ greeter' = [greeter EXCEPT ![b] = "read"]
  /\ UNCHANGED <<main, token, auth, logon, hostVars>>

\* Faulty: the message that shows the GUI is there counts as its handshake.
ValidateOnce(b) ==
  LET m == First("screenToBack", b)
      taken == Take(wire, "screenToBack", b)
  IN /\ Forked(b) /\ greeter[b] = "read"
     /\ Reported("screenToBack", b) /\ ~AtEnd("screenToBack", b)
     /\ auth' = [auth EXCEPT ![b] = [valid |-> TRUE, shaken |-> FALSE]]
     /\ wire' = IF m.type = "FrontToBackValidToken"
                THEN Put(taken, "backToScreen", b, [type |-> "BackToFrontValidToken"]) ELSE taken
     /\ logon' = IF m.type = "Logon" THEN [logon EXCEPT ![b] = "asked"] ELSE logon
     /\ UNCHANGED <<main, token, greeter, proc, dialed>>

\* authValidation() of the one message that is read; what comes after both is
\* for FixBuilder.
Validate(b) ==
  LET m == First("screenToBack", b)
      taken == Take(wire, "screenToBack", b)
      reject == Put(taken, "backToScreen", b, [type |-> "Reject"])
  IN /\ Forked(b) /\ greeter[b] = "read"
     /\ Reported("screenToBack", b) /\ ~AtEnd("screenToBack", b)
     /\ IF ~auth[b].valid
        THEN IF m.type = "FrontToBackValidToken" /\ m.token = token[b]
             THEN /\ auth' = [auth EXCEPT ![b].valid = TRUE]
                  /\ wire' = Put(taken, "backToScreen", b, [type |-> "BackToFrontValidToken"])
             ELSE UNCHANGED auth /\ wire' = reject
        ELSE IF ~auth[b].shaken
             THEN IF m.type = "HandShakeAuth"
                  THEN auth' = [auth EXCEPT ![b].shaken = TRUE] /\ wire' = taken
                  ELSE UNCHANGED auth /\ wire' = reject
             ELSE UNCHANGED auth /\ wire' = taken
     /\ logon' = IF auth[b].shaken /\ m.type = "Logon" THEN [logon EXCEPT ![b] = "asked"] ELSE logon
     /\ UNCHANGED <<main, token, greeter, proc, dialed>>

\* The server accepts the Logon, and handleLogon() tells the GUI.
LoggedOn(b) ==
  /\ Forked(b) /\ main[b] = "run" /\ logon[b] = "asked"
  /\ logon' = [logon EXCEPT ![b] = "answered"]
  /\ ToGui(b, [type |-> "Logon"])
  /\ UNCHANGED <<main, token, greeter, auth, dialed>>

-----------------------------------------------------------------------------

BackStartInit ==
  /\ main = [b \in Guis |-> "start"]
  /\ token = [b \in Guis |-> None]
  /\ greeter = [b \in Guis |-> "none"]
  /\ auth = [b \in Guis |-> [valid |-> FALSE, shaken |-> FALSE]]
  /\ logon = [b \in Guis |-> "none"]

Main(b) ==
  KilledEarly(b) \/ Connect(b) \/ FrontendThere(b) \/ Initialize(b) \/ Start(b) \/ Stop(b) \/ Joined(b)
Greeter(b) == SetupToken(b) \/ AcceptGui(b) \/ Validate(b)

BackStartTypes ==
  /\ main \in [Guis -> {"start", "wait", "dial", "core", "run", "stop"}]
  /\ greeter \in [Guis -> {"none", "accept", "read"}]
  /\ auth \in [Guis -> [valid : BOOLEAN, shaken : BOOLEAN]]
  /\ logon \in [Guis -> {"none", "asked", "answered"}]
=============================================================================
