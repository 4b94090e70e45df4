-------------------------- MODULE ClientSessionMC --------------------------
(* Model-checking instances of ClientSession. *)
EXTENDS ClientSession

=============================================================================
