----------------------------- MODULE AgentConfig -----------------------------
(***************************************************************************)
(* AgentConfigLoader::Load: what a configuration file is turned into.        *)
(*                                                                         *)
(* A file is a sequence of lines.  Of a value the model keeps what the code   *)
(* looks at: of a number its sign, its digits and what follows them; of an    *)
(* address whether there is a colon, something before it, and the number      *)
(* after it; of a path whether it starts with a slash; of a service name its  *)
(* size, where ".service" is found first in it, and whether its characters    *)
(* are all admitted.  unsigned long and size_t wrap around at Word.          *)
(*                                                                         *)
(* An operator X_Y beside X is X with the defect Y: it is not part of the    *)
(* specification, and shows that a property is sensitive to it.             *)
(***************************************************************************)
EXTENDS Integers, Sequences

CONSTANTS Word,         \* 2^64
          ConfigFiles   \* the files a --config argument may name

Npos   == Word - 1
Suffix == 8             \* the size of ".service"

Numbers  == [minus : BOOLEAN, digits : Nat, text : {"number", "prefix", "other"}]
Names    == {name \in [size : 0..(Word - 1), found : 0..Npos, plain : BOOLEAN] :
                name.found = Npos \/ name.found + Suffix <= name.size}
Keys     == {"listen_address", "sample_interval_ms", "log_file",
             "diagnostic_directory", "allowed_services"}
Values(key) ==
    CASE key = "listen_address"     -> [colon : BOOLEAN, host : BOOLEAN, port : Numbers]
      [] key = "sample_interval_ms" -> Numbers
      [] key = "allowed_services"   -> Seq(Names)
      [] OTHER                      -> {"absolute", "relative"}

\* A line that is blank or a comment, one without "=", one with a key nobody
\* knows, and an entry.
IsLine(line) ==
    \/ line.key \in {"skipped", "broken", "unknown"}
    \/ line.key \in Keys /\ line.value \in Values(line.key)

ASSUME ConfigAssumption ==
    /\ Word \in Nat /\ Word > 65536
    /\ \A file \in ConfigFiles :
          /\ Len(file) \in Nat /\ DOMAIN file = 1..Len(file)
          /\ \A i \in DOMAIN file : IsLine(file[i])

-----------------------------------------------------------------------------
(* std::stoul reads a prefix and negates what a minus sign precedes; it throws *)
(* without a digit and when the digits do not fit.                          *)
Parses(n) == n.text = "number" /\ n.digits < Word
Stoul(n)  == IF n.minus /\ n.digits > 0 THEN Word - n.digits ELSE n.digits

IsValidAddress(address) ==
    /\ address.colon /\ address.host
    /\ Parses(address.port) /\ Stoul(address.port) > 0 /\ Stoul(address.port) <= 65535

IsValidInterval(n) == Parses(n) /\ Stoul(n) >= 100 /\ Stoul(n) <= 60000

\* name.size() - 8 in size_t.
SuffixPosition(name) == IF name.size < Suffix THEN name.size - Suffix + Word
                                              ELSE name.size - Suffix

IsValidServiceName_AnywhereInside(name) ==
    name.size > 0 /\ name.size <= 128 /\ name.found # Npos /\ name.plain

IsValidServiceName(name) ==
    /\ name.size > 0 /\ name.size <= 128
    /\ name.found = SuffixPosition(name)
    /\ name.plain

Accepted(line) ==
    /\ line.key \in {"skipped"} \cup Keys
    /\ line.key = "listen_address" => IsValidAddress(line.value)
    /\ line.key = "sample_interval_ms" => IsValidInterval(line.value)
    /\ line.key \in {"log_file", "diagnostic_directory"} => line.value = "absolute"
    /\ line.key = "allowed_services" =>
          \A i \in DOMAIN line.value : IsValidServiceName(line.value[i])

(* AgentConfig's initial values.                                            *)
SshService    == [size |-> 11, found |-> 3, plain |-> TRUE]
CronService   == [size |-> 12, found |-> 4, plain |-> TRUE]
LocalAddress  == [colon |-> TRUE, host |-> TRUE,
                  port |-> [minus |-> FALSE, digits |-> 50051, text |-> "number"]]
DefaultConfig ==
    [listen_address |-> LocalAddress, sample_interval |-> 1000,
     log_file |-> "absolute", diagnostic_directory |-> "absolute",
     allowed_services |-> <<SshService, CronService>>]

\* The lines of a file that assign a key; the last of them decides.
Entries(file, key) == {i \in DOMAIN file : file[i].key = key}
LastEntry(file, key) == CHOOSE i \in Entries(file, key) : \A j \in Entries(file, key) : j <= i
Value(file, key, default) ==
    IF Entries(file, key) = {} THEN default ELSE file[LastEntry(file, key)].value

Loads(file) == \A i \in DOMAIN file : Accepted(file[i])

Parsed(file) ==
    [listen_address       |-> Value(file, "listen_address", LocalAddress),
     sample_interval      |-> IF Entries(file, "sample_interval_ms") = {} THEN 1000
                              ELSE Stoul(file[LastEntry(file, "sample_interval_ms")].value),
     log_file             |-> Value(file, "log_file", "absolute"),
     diagnostic_directory |-> Value(file, "diagnostic_directory", "absolute"),
     allowed_services     |-> Value(file, "allowed_services", DefaultConfig.allowed_services)]

\* getline ends at an error as it does at the end of the file, so what Load
\* parses is the file or, when reading it fails, only its first lines.
Readable(file) == {[i \in 1..n |-> file[i]] : n \in 0..Len(file)}

-----------------------------------------------------------------------------
(* The name of a service is one that ends in ".service" (README.md:82-83).    *)
ServiceName(name) == name.plain /\ name.found + Suffix = name.size

(* The sizes for which size() - 8 is npos, which find returns for any name    *)
(* without ".service" in it.                                                *)
WrapsToNpos(name) == name.size = Suffix - 1

ValidConfig(c) ==
    /\ c.sample_interval \in Nat /\ c.sample_interval >= 100 /\ c.sample_interval <= 60000
    /\ c.log_file = "absolute" /\ c.diagnostic_directory = "absolute"
    /\ c.listen_address.colon /\ c.listen_address.host

=============================================================================
