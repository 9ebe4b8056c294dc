------------------------------ MODULE Initiator ------------------------------
(***************************************************************************)
(* The initiator: the threads of FrontHandler and BackHandler, the pool of *)
(* one thread each of them gives its messages to, SessionManager with the  *)
(* pool that takes removed sessions out of its list, and the table of the  *)
(* accounts in the database.                                               *)
(***************************************************************************)
EXTENDS Host, SequencesExt

CONSTANTS
  Accounts,     \* rows of dev.client
  Key,          \* api key of each account
  ClientName,   \* name its user types
  ServerName    \* name it has on the FIX server

\* A key is a CHAR(36), the length of a UUID.  The table does not enforce that it
\* is unique, but findSession() relies on it.  A row whose key is NULL is found by
\* no query, and is left out.
ASSUME KeysAssumption ==
  \A r, s \in Accounts : Key[r] # None /\ (r # s => Key[r] # Key[s])

VARIABLES
  connected,   \* the accounts whose column connected is set
  session,     \* of each GUI: m_frontend (key, name), m_backend (socket, token, cmd)
  sessions,    \* SessionManager::m_session
  watched,     \* the GUIs in the Selector of FrontHandler
  front,       \* thread of FrontHandler: where it is, and the session it removes
  tasks,       \* pool of FrontHandler: messages with their session
  login,       \* its thread: how far the login of the first task is
  back,        \* thread of BackHandler: reading, or dead of an exception
  backTasks,   \* pool of BackHandler
  removing,    \* m_tp_onremove
  up,          \* FALSE once a signal or undefined behaviour ended the process
  closed       \* history: whether close() came before or after the session was
               \* identified, or twice

frontVars == <<sessions, watched, front, tasks, login>>
backVars == <<back, backTasks>>
initiatorVars == <<connected, session, frontVars, backVars, removing, up, closed>>

\* What a session may hold.
Sessions ==
  [key : {ApiKey[g] : g \in Guis} \cup {None}, name : {ServerName[r] : r \in Accounts} \cup {None},
   socket : Guis \cup {None}, token : {0, None}, cmd : BOOLEAN]
ASSUME SessionsAssumption == None \notin Sessions

NewSession == [key |-> None, name |-> None, socket |-> None, token |-> None, cmd |-> FALSE]

\* The row a SELECT or an UPDATE of the session finds.
Rows(key, name) == {r \in Accounts : Key[r] = key /\ ClientName[r] = name}

\* send() to a GUI.  Once it has closed, the bytes are lost and its reset shows
\* up as one more event, or SIGPIPE ends the process.
ToScreen(g, m) ==
  IF wire["toScreen"][g].open
  THEN wire' = Put(wire, "toScreen", g, m) /\ UNCHANGED up
  ELSE /\ wire' = [wire EXCEPT !["toInitiator"][g].edge = TRUE]
       /\ up' \in BOOLEAN

\* close() of the session of g.
CloseOf(g) ==
  closed' = [closed EXCEPT ![g] = IF @ # "no" THEN "twice"
                                  ELSE IF session[g].key = None THEN "unnamed" ELSE "named"]

-----------------------------------------------------------------------------
(* FrontHandler *)

\* A GUI that has connected is accepted: Selector::client() and newSession().
AcceptFront(g) ==
  /\ up /\ front.at = "loop" /\ g \notin watched /\ session[g] = None
  /\ wire["toInitiator"][g].open
  /\ watched' = watched \cup {g}
  /\ session' = [session EXCEPT ![g] = NewSession]
  /\ sessions' = Append(sessions, g)
  /\ UNCHANGED <<connected, front, tasks, login, backVars, removing, up, hostVars,
                 closed>>

\* process(): a message goes to the pool together with the session.  A null
\* session is dereferenced there.
FrontMessage(g) ==
  /\ up /\ front.at = "loop" /\ g \in watched
  /\ Reported("toInitiator", g) /\ ~AtEnd("toInitiator", g)
  /\ wire' = Take(wire, "toInitiator", g)
  /\ tasks' = Append(tasks, [of |-> g, msg |-> First("toInitiator", g)])
  /\ UNCHANGED <<connected, session, sessions, watched, front, login, backVars,
                 removing, up, proc, dialed, closed>>

\* Faulty: the account of the session stays connected.
FrontEndForgets(g) ==
  /\ up /\ front.at = "loop" /\ g \in watched
  /\ Reported("toInitiator", g) /\ AtEnd("toInitiator", g)
  /\ wire' = Take(wire, "toInitiator", g)
  /\ UNCHANGED connected
  /\ IF g \in ToSet(sessions)
     THEN front' = [at |-> "stop", of |-> g] /\ CloseOf(g) /\ UNCHANGED up
     ELSE up' = FALSE /\ UNCHANGED <<front, closed>>
  /\ UNCHANGED <<session, sessions, watched, tasks, login, backVars, removing, proc,
                 dialed>>

\* The end of the stream: removeSession(), whose close() frees the account.  The
\* session found is null, and dereferenced, if it has been removed already.
FrontEnd(g) ==
  /\ up /\ front.at = "loop" /\ g \in watched
  /\ Reported("toInitiator", g) /\ AtEnd("toInitiator", g)
  /\ wire' = Take(wire, "toInitiator", g)
  /\ IF g \in ToSet(sessions)
     THEN /\ connected' = connected \ Rows(session[g].key, session[g].name)
          /\ front' = [at |-> "stop", of |-> g]
          /\ CloseOf(g)
          /\ UNCHANGED up
     ELSE up' = FALSE /\ UNCHANGED <<connected, front, closed>>
  /\ UNCHANGED <<session, sessions, watched, tasks, login, backVars, removing, proc,
                 dialed>>


\* close(): the back of the session, if it has one, is told to end.
StopBack ==
  /\ up /\ front.at = "stop"
  /\ IF session[front.of].cmd
     THEN /\ proc' = [proc EXCEPT ![front.of] = IF @ = "running" THEN "told" ELSE @]
          /\ front' = [front EXCEPT !.at = "wait"]
          /\ UNCHANGED removing
     ELSE /\ removing' = Append(removing, front.of)
          /\ front' = [at |-> "loop", of |-> None]
          /\ UNCHANGED proc
  /\ UNCHANGED <<connected, session, sessions, watched, tasks, login, backVars, up,
                 wire, dialed, closed>>

\* waitpid() returns once the process is gone.
BackReaped ==
  /\ up /\ front.at = "wait" /\ proc[front.of] = "gone"
  /\ removing' = Append(removing, front.of)
  /\ front' = [at |-> "loop", of |-> None]
  /\ UNCHANGED <<connected, session, sessions, watched, tasks, login, backVars, up,
                 hostVars, closed>>

\* The removed session leaves the list, and then the two selectors.
RemoveSession ==
  LET g == Head(removing)
  IN /\ up /\ removing # <<>>
     /\ removing' = Tail(removing)
     /\ IF g \in ToSet(sessions)
        THEN sessions' = RemoveFirst(sessions, g) /\ UNCHANGED up
        ELSE \/ sessions # <<>> /\ sessions' = Front(sessions) /\ UNCHANGED up
             \/ up' = FALSE /\ UNCHANGED sessions
     /\ watched' = watched \ {g}
     /\ UNCHANGED <<connected, session, front, tasks, login, backVars, hostVars, closed>>

-----------------------------------------------------------------------------
(* identifyFrontend(), in the thread of the pool *)

Done == tasks' = Tail(tasks) /\ login' = "none"

\* Faulty: the column connected is not looked at.
LookUpOnly ==
  LET g == Head(tasks).of
      m == Head(tasks).msg
  IN /\ up /\ tasks # <<>> /\ login = "none"
     /\ IF session[g].key # None
        THEN Done /\ UNCHANGED <<wire, up>>
        ELSE IF Rows(m.key, m.name) = {}
             THEN Done /\ ToScreen(g, [type |-> "Reject"])
             ELSE login' = "found" /\ UNCHANGED <<tasks, wire, up>>
     /\ UNCHANGED <<connected, session, sessions, watched, front, backVars, removing,
                    proc, dialed, closed>>

\* login(): the SELECT.  A session that is identified is not looked up again.
LookUp ==
  LET g == Head(tasks).of
      m == Head(tasks).msg
      rows == Rows(m.key, m.name)
  IN /\ up /\ tasks # <<>> /\ login = "none"
     /\ IF session[g].key # None
        THEN Done /\ UNCHANGED <<wire, up>>
        ELSE IF rows = {} \/ rows \subseteq connected
             THEN Done /\ ToScreen(g, [type |-> "Reject"])
             ELSE login' = "found" /\ UNCHANGED <<tasks, wire, up>>
     /\ UNCHANGED <<connected, session, sessions, watched, front, backVars, removing,
                    proc, dialed, closed>>

\* Faulty: the account is noted by its key.
MarkConnectedKey ==
  /\ up /\ login = "found"
  /\ connected' = connected \cup {Head(tasks).msg.key}
  /\ login' = "marked"
  /\ UNCHANGED <<session, sessions, watched, front, tasks, backVars, removing, up,
                 hostVars, closed>>

\* login(): the UPDATE, in a transaction of its own.
MarkConnected ==
  /\ up /\ login = "found"
  /\ connected' = connected \cup Rows(Head(tasks).msg.key, Head(tasks).msg.name)
  /\ login' = "marked"
  /\ UNCHANGED <<session, sessions, watched, front, tasks, backVars, removing, up,
                 hostVars, closed>>

\* The session is identified, under the name of the FIX server, and the GUI told.
Identify ==
  LET g == Head(tasks).of
      m == Head(tasks).msg
      r == CHOOSE r \in Rows(m.key, m.name) : TRUE
  IN /\ up /\ login = "marked"
     /\ session' = [session EXCEPT ![g].key = m.key, ![g].name = ServerName[r]]
     /\ ToScreen(g, [type |-> "InitiatorToFrontAuth"])
     /\ login' = "named"
     /\ UNCHANGED <<connected, sessions, watched, front, tasks, backVars, removing,
                    proc, dialed, closed>>

\* buildShellBack() and Command::run()
ForkBack ==
  LET g == Head(tasks).of
  IN /\ up /\ login = "named"
     /\ session' = [session EXCEPT ![g].cmd = TRUE]
     /\ proc' = [proc EXCEPT ![g] = "running"]
     /\ Done
     /\ UNCHANGED <<connected, sessions, watched, front, backVars, removing, up, wire,
                    dialed, closed>>

-----------------------------------------------------------------------------
(* BackHandler *)

\* findSession(key) asks each session in turn for its key, and getApiKey()
\* throws when it has none.
Matches(key) == {i \in DOMAIN sessions : session[sessions[i]].key = key}
Unnamed == {i \in DOMAIN sessions : session[sessions[i]].key = None}
Earliest(S) == CHOOSE i \in S : \A j \in S : i <= j

\* process() of the authentication of a back.  The exception ends the thread,
\* which nobody polls; a null session is dereferenced.
BackMessage(b) ==
  LET m == First("backToInitiator", b)
      before(i) == {j \in Unnamed : j < i}
  IN /\ up /\ back = "loop"
     /\ Reported("backToInitiator", b) /\ ~AtEnd("backToInitiator", b)
     /\ wire' = Take(wire, "backToInitiator", b)
     /\ IF Matches(m.key) # {} /\ before(Earliest(Matches(m.key))) = {}
        THEN LET g == sessions[Earliest(Matches(m.key))]
             IN /\ session' = [session EXCEPT ![g].socket = b]
                /\ backTasks' = Append(backTasks, [of |-> g, port |-> m.port])
                /\ UNCHANGED <<back, up>>
        ELSE IF Unnamed # {}
             THEN back' = "dead" /\ UNCHANGED <<session, backTasks, up>>
             ELSE up' = FALSE /\ UNCHANGED <<session, backTasks, back>>
     /\ UNCHANGED <<connected, frontVars, removing, proc, dialed, closed>>

\* GenerateToken(): the static counter is never moved.
GenerateToken == 0

\* Faulty: the GUI is told of the back, and the back nothing.
IdentifyBackHalf ==
  LET g == Head(backTasks).of
  IN /\ up /\ backTasks # <<>>
     /\ backTasks' = Tail(backTasks)
     /\ session' = [session EXCEPT ![g].token = GenerateToken]
     /\ ToScreen(g, [type |-> "InitiatorToFrontValidToken", token |-> GenerateToken,
                     port |-> Head(backTasks).port])
     /\ UNCHANGED <<connected, frontVars, back, removing, proc, dialed, closed>>

\* identifyBackend(): the token goes to the back and, with its port, to the GUI.
IdentifyBack ==
  LET g == Head(backTasks).of
      told == Put(wire, "initiatorToBack", session[g].socket,
                  [type |-> "InitiatorToBackAuth", token |-> GenerateToken])
      token == [type |-> "InitiatorToFrontValidToken", token |-> GenerateToken,
                port |-> Head(backTasks).port]
  IN /\ up /\ backTasks # <<>>
     /\ backTasks' = Tail(backTasks)
     /\ session' = [session EXCEPT ![g].token = GenerateToken]
     /\ IF wire["toScreen"][g].open
        THEN wire' = Put(told, "toScreen", g, token) /\ UNCHANGED up
        ELSE wire' = [told EXCEPT !["toInitiator"][g].edge = TRUE] /\ up' \in BOOLEAN
     /\ UNCHANGED <<connected, frontVars, back, removing, proc, dialed, closed>>

-----------------------------------------------------------------------------

InitiatorInit ==
  /\ connected = {}
  /\ session = [g \in Guis |-> None] /\ sessions = <<>> /\ watched = {}
  /\ front = [at |-> "loop", of |-> None] /\ tasks = <<>> /\ login = "none"
  /\ back = "loop" /\ backTasks = <<>>
  /\ removing = <<>> /\ up = TRUE /\ closed = [g \in Guis |-> "no"]

FrontHandler ==
  \/ StopBack \/ BackReaped
  \/ \E g \in Guis : AcceptFront(g) \/ FrontMessage(g) \/ FrontEnd(g)
FrontPool == LookUp \/ MarkConnected \/ Identify \/ ForkBack
BackHandler == \E b \in Guis : BackMessage(b)

InitiatorTypes ==
  /\ connected \subseteq Accounts
  /\ sessions \in Seq(Guis) /\ watched \subseteq Guis /\ removing \in Seq(Guis)
  /\ front \in [at : {"loop", "stop", "wait"}, of : Guis \cup {None}]
  /\ login \in {"none", "found", "marked", "named"}
  /\ back \in {"loop", "dead"} /\ up \in BOOLEAN
  /\ session \in [Guis -> Sessions \cup {None}]
  /\ closed \in [Guis -> {"no", "unnamed", "named", "twice"}]
=============================================================================
