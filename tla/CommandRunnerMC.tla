--------------------------- MODULE CommandRunnerMC ---------------------------
(* Model-checking instance of CommandRunner. *)
EXTENDS CommandRunner
CONSTANTS h1, h2
TwoHandlers == {h1, h2}
=============================================================================
