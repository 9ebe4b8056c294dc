----------------------------- MODULE LoginScreen -----------------------------
(***************************************************************************)
(* The GUI while its user logs in: the dialog, in the thread of the        *)
(* interface, and the two managers whose threads read the initiator and    *)
(* the back.  A manager turns a message into a signal; a signal reaches    *)
(* the dialog only if its slot was connected when it was emitted, and then *)
(* waits in the event queue of the interface.                              *)
(***************************************************************************)
EXTENDS Host, Integers

CONSTANTS
  Typed,      \* of each GUI: the names its user may type
  MaxSubmits, \* bound: clicks on the button, per GUI
  Impatient   \* bound: GUIs that may be closed while their login, and no other, is under way

ASSUME BoundsAssumption == MaxSubmits \in Nat

VARIABLES
  screen,   \* stage of the dialog, clicks so far, name typed, back its socket goes to
  events,   \* signals queued for the interface
  lost      \* history: GUIs that emitted a signal nothing was connected to

screenVars == <<screen, events, lost>>

Stages == {"form", "connecting", "asked", "named", "linking", "trusted", "logon", "in", "gone", "aborted"}
Ended == {"gone", "aborted"}
Ready == Stages \ ({"connecting"} \cup Ended)

\* The signals whose slot is connected while the dialog is at a stage.  That of
\* Reject stays connected once the login is accepted.
Connected(stage) ==
  CASE stage = "connecting" -> {"connectionReady"}
    [] stage = "asked"      -> {"Reject", "InitiatorToFrontAuth"}
    [] stage = "named"      -> {"Reject", "InitiatorToFrontValidToken"}
    [] stage = "linking"    -> {"Reject", "BackToFrontValidToken"}
    [] stage = "trusted"    -> {"Reject", "Status"}
    [] stage \in {"logon", "in"} -> {"Reject", "Logon"}
    [] OTHER -> {}

\* emit
Emit(g, m) ==
  IF m.type \in Connected(screen[g].stage)
  THEN events' = [events EXCEPT ![g] = Append(@, m)] /\ UNCHANGED lost
  ELSE lost' = lost \cup {g} /\ UNCHANGED events

\* The slot of the oldest signal is run.
Slot(g, type) == events[g] # <<>> /\ Head(events[g]).type = type
Handled(g) == events' = [events EXCEPT ![g] = Tail(@)]
Goes(g, stage) == screen' = [screen EXCEPT ![g].stage = stage]

Identification(g, name) == [type |-> "FrontToInitiatorAuth", key |-> ApiKey[g], name |-> name]

-----------------------------------------------------------------------------
(* The thread of the interface *)

\* onSubmit(): the first click waits for the connection, later ones use it.
Submit(g, name) ==
  /\ screen[g].stage = "form" /\ screen[g].tries < MaxSubmits
  /\ IF screen[g].tries = 0
     THEN /\ screen' = [screen EXCEPT ![g] = [@ EXCEPT !.stage = "connecting", !.tries = 1, !.name = name]]
          /\ UNCHANGED wire
     ELSE /\ screen' = [screen EXCEPT ![g] = [@ EXCEPT !.stage = "asked", !.tries = screen[g].tries + 1, !.name = name]]
          /\ wire' = Put(wire, "toInitiator", g, Identification(g, name))
  /\ UNCHANGED <<events, lost, proc, dialed>>

\* sendIdentification()
SendIdentification(g) ==
  /\ Slot(g, "connectionReady") /\ Handled(g) /\ Goes(g, "asked")
  /\ wire' = Put(wire, "toInitiator", g, Identification(g, screen[g].name))
  /\ UNCHANGED <<lost, proc, dialed>>

ValidatedIdentification(g) ==
  /\ Slot(g, "InitiatorToFrontAuth") /\ Handled(g) /\ Goes(g, "named")
  /\ UNCHANGED <<lost, hostVars>>

\* The form may be filled again.
InvalidIdentification(g) ==
  /\ Slot(g, "Reject") /\ Handled(g) /\ Goes(g, "form")
  /\ UNCHANGED <<lost, hostVars>>

\* setTargetPort() tries again until something listens on the port, and holds
\* the interface meanwhile.
TokenAuth(g) ==
  LET m == Head(events[g])
  IN /\ Slot(g, "InitiatorToFrontValidToken")
     /\ proc[m.port] \in {"running", "told"} /\ dialed[m.port] = None
     /\ Handled(g)
     /\ screen' = [screen EXCEPT ![g].stage = "linking", ![g].back = m.port]
     /\ dialed' = [dialed EXCEPT ![m.port] = g]
     /\ wire' = Put(wire, "screenToBack", m.port, [type |-> "FrontToBackValidToken", token |-> m.token])
     /\ UNCHANGED <<lost, proc>>

TokenValidated(g) ==
  /\ Slot(g, "BackToFrontValidToken") /\ Handled(g) /\ Goes(g, "trusted")
  /\ wire' = Put(wire, "screenToBack", screen[g].back, [type |-> "HandShakeAuth"])
  /\ UNCHANGED <<lost, proc, dialed>>

\* Only Running asks for the logon; the other statuses move the progress bar.
BackNotifyStatus(g) ==
  /\ Slot(g, "Status") /\ Handled(g)
  /\ IF Head(events[g]).status = "Running"
     THEN /\ Goes(g, "logon")
          /\ wire' = Put(wire, "screenToBack", screen[g].back, [type |-> "Logon"])
     ELSE UNCHANGED <<screen, wire>>
  /\ UNCHANGED <<lost, proc, dialed>>

BackNotifyLogon(g) ==
  /\ Slot(g, "Logon") /\ Handled(g) /\ Goes(g, "in")
  /\ UNCHANGED <<lost, hostVars>>

\* The process ends, before its user has an answer or after; its sockets close.
Quit(g) ==
  /\ screen[g].stage \in Ready /\ screen[g].tries > 0
  /\ \/ screen[g].stage \in {"form", "in"}
     \/ g \in Impatient /\ \A h \in Guis \ {g} : screen[h].stage \in {"form", "in", "gone"}
  /\ Goes(g, IF screen[g].stage \in {"form", "in"} THEN "gone" ELSE "aborted")
  /\ events' = [events EXCEPT ![g] = <<>>]
  /\ LET left == End([wire EXCEPT !["toScreen"][g].open = FALSE], "toInitiator", g)
     IN wire' = IF screen[g].back # None
                THEN End([left EXCEPT !["backToScreen"][screen[g].back].open = FALSE],
                         "screenToBack", screen[g].back)
                ELSE left
  /\ UNCHANGED <<lost, proc, dialed>>

-----------------------------------------------------------------------------
(* The threads of InitiatorManager and BackManager *)

\* startConnection(): the socket is open and receiveLoop() runs.
InitiatorConnects(g) ==
  /\ screen[g].stage = "connecting" /\ events[g] = <<>>
  /\ wire' = Open(wire, g)
  /\ Emit(g, [type |-> "connectionReady"])
  /\ UNCHANGED <<screen, proc, dialed>>

\* receiveLoop() and onReceive()
InitiatorReceives(g) ==
  /\ screen[g].stage \in Ready /\ Reported("toScreen", g) /\ ~AtEnd("toScreen", g)
  /\ wire' = Take(wire, "toScreen", g)
  /\ Emit(g, First("toScreen", g))
  /\ UNCHANGED <<screen, proc, dialed>>

\* startConnection() and ipcReceived() of BackManager, which knows no Reject.
BackReceives(g) ==
  \E b \in Guis :
    /\ dialed[b] = g /\ screen[g].stage \notin Ended
    /\ Reported("backToScreen", b) /\ ~AtEnd("backToScreen", b)
    /\ wire' = Take(wire, "backToScreen", b)
    /\ IF First("backToScreen", b).type = "Reject" THEN UNCHANGED <<events, lost>>
                                                   ELSE Emit(g, First("backToScreen", b))
    /\ UNCHANGED <<screen, proc, dialed>>

-----------------------------------------------------------------------------

ScreenInit ==
  /\ screen = [g \in Guis |-> [stage |-> "form", tries |-> 0, name |-> None, back |-> None]]
  /\ events = [g \in Guis |-> <<>>]
  /\ lost = {}

Interface(g) ==
  \/ SendIdentification(g) \/ ValidatedIdentification(g) \/ InvalidIdentification(g)
  \/ TokenAuth(g) \/ TokenValidated(g) \/ BackNotifyStatus(g) \/ BackNotifyLogon(g)

Managers(g) == InitiatorConnects(g) \/ InitiatorReceives(g) \/ BackReceives(g)

User(g) == Quit(g) \/ \E name \in Typed[g] : Submit(g, name)

ScreenTypes ==
  /\ screen \in [Guis -> [stage : Stages, tries : 0..MaxSubmits, name : (UNION {Typed[g] : g \in Guis}) \cup {None},
                         back : Guis \cup {None}]]
  /\ lost \subseteq Guis
=============================================================================
