----------------------------- MODULE MCLifecycle -----------------------------
(***************************************************************************)
(* A small instance of Lifecycle: what clients send before the end.        *)
(***************************************************************************)
EXTENDS Lifecycle

MCKinds == {"HeartBeat", "Limit", "Market", "Cancel"}
=============================================================================
