----------------------------- MODULE MCSession -----------------------------
(***************************************************************************)
(* Small instances of Session: what the clients send.                      *)
(***************************************************************************)
EXTENDS Session, TLC

CONSTANTS c1, c2, w1, w2

VARIABLE scenario    \* which of the three instances a behaviour belongs to

Sends(kind, fault) == [kind |-> kind, fault |-> fault]

\* A message for each way through the server; HeartBeat and TestRequest differ
\* only while a TestRequest of the server is open.
MCBodies == { Sends("Logon", "none"), Sends("Logout", "none"), Sends("Order", "none"),
              Sends("HeartBeat", "none"), Sends("Echo", "none"), Sends("Other", "none"),
              Sends("Reject", "none"), Sends("Order", "header") }

\* The messages that open, close and keep a session.
KeepBodies == { Sends("Logon", "none"), Sends("Logout", "none"), Sends("Echo", "none") }

\* A session: login, an order, logout.
SessionBodies == { Sends("Logon", "none"), Sends("Order", "none"), Sends("Logout", "none") }

\* The threads of the pool are alike.
WorkerSymmetry == Permutations(Workers)

\* "pool": two threads answer the messages that open, keep and close a session,
\* while a fill is reported.  "reads": one thread, three messages of all kinds,
\* which may be read together, two while a TestRequest is open.  "reuse": a second
\* client connects while the first one logs in and out or closes, perhaps on its
\* descriptor.
MCInit == Init /\ scenario \in {"pool", "reads", "reuse"}
MCNext == Next /\ UNCHANGED scenario
MCSpec == MCInit /\ [][MCNext]_<<vars, scenario>>

Sent(c) == {[kind |-> m.kind, fault |-> m.fault] : m \in ToSet(toServer[c])}

OneThread == Cardinality({w \in Workers : worker[w].pc # "idle"}) <= 1

InScenario ==
  /\ scenario = "pool" =>
       /\ peer[c1].sent <= 2 /\ Sent(c1) \subseteq KeepBodies
       /\ conn[c1].test /\ filled > 0 => peer[c1].sent <= 1
  /\ scenario = "reads" =>
       /\ filled = 0 /\ OneThread
       /\ conn[c1].test => peer[c1].sent <= 2
  /\ scenario = "reuse" =>
       /\ filled = 0 /\ OneThread /\ ~conn[c1].test /\ ~conn[c2].test
       /\ peer[c1].sent <= 2 /\ Sent(c1) \subseteq SessionBodies
       /\ peer[c2].sent <= 1 /\ Sent(c2) \subseteq SessionBodies
  /\ scenario # "reuse" => peer[c2].state = "off"

\* What follows undefined behaviour is not looked at.
WellDefined == up /\ ~doubled
=============================================================================
