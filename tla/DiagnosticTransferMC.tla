------------------------ MODULE DiagnosticTransferMC ------------------------
(* Model-checking instance of CommandLineClient and DiagnosticTransfer. *)
EXTENDS CommandLineClient

Typed(n)    == [parses |-> TRUE, value |-> n, trailing |-> FALSE]
Followed(n) == [parses |-> TRUE, value |-> n, trailing |-> TRUE]
Unparsed    == [parses |-> FALSE, value |-> 0, trailing |-> TRUE]
With(option, text, action) == [option |-> option, number |-> text, action |-> action]

(* With 4-bit pids, 6-bit long longs and 7-bit unsigned longs: the numbers around *)
(* every bound, and 17 and -126, that become 1 and 2 when they are narrowed.   *)
MCNumbers ==
    {Typed(n) : n \in {-129, -128, -126, -32, -33, -1, 0, 1, 2, 3, 4, 7, 8, 17, 31, 32, 127, 128}}
    \cup {Followed(2), Unparsed}
MCCommandLines ==
    {With(option, Unparsed, "") : option \in {"none", "--diagnostic", "other"}}
    \cup {With("--control", text, action) : text \in MCNumbers, action \in {"term", "hup"}}
    \cup {With("--stream-log", text, "") : text \in MCNumbers}
=============================================================================
