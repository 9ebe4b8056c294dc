------------------------------ MODULE MCLogin ------------------------------
(* Two GUIs of one account, or of two. *)
EXTENDS Login

CONSTANTS g1, g2, r1, right, wrong

MCApiKey == [g \in Guis |-> "key"]
MCKey == [r \in Accounts |-> "key"]
\* Only the GUI that is patient mistypes its name.
MCTyped == [g \in Guis |-> IF g = g1 THEN {right} ELSE {right, wrong}]
MCName == [r \in Accounts |-> right]

\* Each GUI has the account of its name.
MCOwnKey == [g \in Guis |-> g]
MCOwnName == [g \in Guis |-> {right}]
=============================================================================
