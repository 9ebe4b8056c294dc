------------------------------- MODULE MCLink -------------------------------
(* A back that logs on, orders, and keeps its session. *)
EXTENDS Link

CONSTANT o1
=============================================================================
