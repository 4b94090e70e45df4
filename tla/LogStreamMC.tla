---------------------------- MODULE LogStreamMC ----------------------------
(* Model-checking instances of LogStream. *)
EXTENDS LogStream

=============================================================================
