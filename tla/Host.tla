-------------------------------- MODULE Host --------------------------------
(***************************************************************************)
(* What the three programs of the client share: the stream sockets between *)
(* them, their processes, and the ports they listen on.                    *)
(*                                                                         *)
(* Every socket is read through an edge-triggered Selector.  A reader is   *)
(* told once of what has arrived and takes one message of it: what came    *)
(* with it stays unread until more comes.                                  *)
(***************************************************************************)
EXTENDS Sequences

CONSTANTS
  Guis,     \* GUI processes; the back and the session of a GUI bear its name
  ApiKey,   \* of each GUI, in its configuration, and of its back, in its environment
  None

ASSUME NoneAssumption == None \notin Guis /\ \A g \in Guis : ApiKey[g] # None

VARIABLES
  wire,     \* what is sent and not read, by direction and by GUI
  proc,     \* the back processes
  dialed    \* the GUI whose connection waits at, or was accepted by, the port of a back

hostVars == <<wire, proc, dialed>>

Directions == {"toInitiator", "toScreen", "backToInitiator", "initiatorToBack",
               "screenToBack", "backToScreen"}

\* open: the reader has its end; ended: the writer has closed its own.
NewStream == [bytes |-> <<>>, edge |-> FALSE, open |-> TRUE, ended |-> FALSE]

\* A GUI connects to the initiator.
Open(w, g) == [w EXCEPT !["toInitiator"][g].open = TRUE, !["toScreen"][g].open = TRUE]

\* send() of the one end.  What nobody will read is lost.
Put(w, d, g, m) ==
  IF w[d][g].open
  THEN [w EXCEPT ![d][g].bytes = Append(@, m), ![d][g].edge = TRUE]
  ELSE w

\* pull() of the other end reports the stream once after each send().
Reported(d, g) == wire[d][g].edge /\ (wire[d][g].bytes # <<>> \/ wire[d][g].ended)

AtEnd(d, g) == wire[d][g].bytes = <<>>
First(d, g) == Head(wire[d][g].bytes)
Readable(d, g) == Reported(d, g) /\ ~AtEnd(d, g)

\* One message is read, or the end of the stream.
Take(w, d, g) ==
  [w EXCEPT ![d][g].bytes = IF @ = <<>> THEN @ ELSE Tail(@), ![d][g].edge = FALSE]

\* A writer closes its end.
End(w, d, g) == [w EXCEPT ![d][g].ended = TRUE, ![d][g].edge = TRUE]

\* Something arrived and will not be read until more arrives.
Unread(d, g) == wire[d][g].bytes # <<>> /\ ~wire[d][g].edge

HostInit ==
  /\ wire = [d \in Directions |-> [g \in Guis |->
               [NewStream EXCEPT !.open = d \notin {"toInitiator", "toScreen"}]]]
  /\ proc = [g \in Guis |-> "none"]
  /\ dialed = [g \in Guis |-> None]

HostTypes ==
  /\ \A d \in Directions, g \in Guis :
       /\ DOMAIN wire[d][g] = DOMAIN NewStream
       /\ wire[d][g].edge \in BOOLEAN /\ wire[d][g].open \in BOOLEAN /\ wire[d][g].ended \in BOOLEAN
  /\ proc \in [Guis -> {"none", "running", "told", "gone"}]
  /\ dialed \in [Guis -> Guis \cup {None}]
=============================================================================
