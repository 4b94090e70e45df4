-------------------------- MODULE AgentLifecycleMC --------------------------
(* Model-checking instances of AgentLifecycle. *)
EXTENDS AgentLifecycle

CONSTANTS c1, c2

MCCalls == {c1, c2}

Number(minus, digits) == [minus |-> minus, digits |-> digits, text |-> "number"]
Name(size, found)     == [size |-> size, found |-> found, plain |-> TRUE]
Entry(key, value)     == [key |-> key, value |-> value]

\* Both ends of each range, the numbers a minus sign wraps into it, and names
\* of 6 and 7 characters, of the suffix alone, with the suffix inside and twice.
MCNumbers ==
    {Number(FALSE, d) : d \in {0, 99, 100, 60000, 60001, Word}}
    \cup {Number(TRUE, d) : d \in {0, 100, Word - 100}}
    \cup {[Number(FALSE, 500) EXCEPT !.text = t] : t \in {"prefix", "other"}}

MCNames == {Name(6, Npos), Name(7, Npos), Name(8, 0), Name(11, 3), Name(18, 3), Name(19, 3)}

MCAddresses ==
    {[LocalAddress EXCEPT !.port = Number(FALSE, p)] : p \in {0, 65535, 65536}}
    \cup {[LocalAddress EXCEPT !.host = FALSE], [LocalAddress EXCEPT !.colon = FALSE]}

MCEntries ==
    [key : {"skipped", "broken", "unknown"}]
    \cup {Entry("sample_interval_ms", n) : n \in MCNumbers}
    \cup {Entry("listen_address", a) : a \in MCAddresses}
    \cup {Entry("log_file", p) : p \in {"absolute", "relative"}}
    \cup {Entry("allowed_services", <<n>>) : n \in MCNames}
    \cup {Entry("allowed_services", <<>>), Entry("allowed_services", <<Name(11, 3), Name(6, Npos)>>)}

\* Every entry alone, and every two that differ in the key.
MCFiles ==
    {<<>>} \cup {<<e>> : e \in MCEntries}
    \cup {<<d, e>> : d \in {Entry("sample_interval_ms", Number(FALSE, 100)),
                             Entry("allowed_services", <<Name(7, Npos)>>)}, e \in MCEntries}

=============================================================================
