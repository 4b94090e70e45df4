----------------------------- MODULE BundleStore -----------------------------
(***************************************************************************)
(* What the Agent promises the clients of its diagnostic bundles, with no    *)
(* mutex, no file and no tar in it: a creation happens at one moment or not  *)
(* at all, the store keeps the newest MaximumBundles bundles, and a download *)
(* is refused only for a bundle that is not stored at that moment.           *)
(* DiagnosticCollector implements it.                                       *)
(***************************************************************************)
EXTENDS Naturals, Sequences

CONSTANTS Creators,       \* calls that may create a bundle
          Downloads,      \* calls that may download one
          MaximumBundles, \* bundles stored at a time
          MaxId           \* bound: bundles are numbered up to this

VARIABLES up,        \* an Agent serves
          issued,    \* the highest number used so far, by any Agent
          stored,    \* the bundles that can be had, oldest first
          creating,  \* the creations in progress
          download,  \* "none", "asked", "found", "reading"
          wanted     \* the bundle a download is for

vars == <<up, issued, stored, creating, download, wanted>>

Members == {stored[i] : i \in DOMAIN stored}

Init ==
    /\ up = TRUE /\ issued = 0 /\ stored = <<>> /\ creating = {}
    /\ download = [d \in Downloads |-> "none"]
    /\ wanted = [d \in Downloads |-> 0]

-----------------------------------------------------------------------------
BeginCreate(c) ==
    /\ up /\ c \notin creating
    /\ creating' = creating \cup {c}
    /\ UNCHANGED <<up, issued, stored, download, wanted>>

(* The bundle gets a number no bundle had before, also of an earlier Agent,   *)
(* and displaces the oldest one when the store is full.                      *)
Store(c) ==
    /\ c \in creating /\ creating' = creating \ {c}
    /\ \E n \in (issued + 1)..MaxId :
          /\ issued' = n
          /\ stored' = Append(IF Len(stored) < MaximumBundles THEN stored ELSE Tail(stored), n)
    /\ UNCHANGED <<up, download, wanted>>

(* A creation that fails stores nothing and displaces nothing; its number may *)
(* be used up.                                                              *)
Fail(c) ==
    /\ c \in creating /\ creating' = creating \ {c}
    /\ issued' \in issued..MaxId
    /\ UNCHANGED <<up, stored, download, wanted>>

-----------------------------------------------------------------------------
Goto(d, where) == download' = [download EXCEPT ![d] = where]

Leave(d) == Goto(d, "none") /\ wanted' = [wanted EXCEPT ![d] = 0]

Ask(d, n) ==
    /\ up /\ download[d] = "none" /\ Goto(d, "asked")
    /\ wanted' = [wanted EXCEPT ![d] = n]
    /\ UNCHANGED <<up, issued, stored, creating>>

Find(d) ==
    /\ download[d] = "asked" /\ wanted[d] \in Members /\ Goto(d, "found")
    /\ UNCHANGED <<up, issued, stored, creating, wanted>>

(* The whole bundle is read from here on, even if it is displaced meanwhile.  *)
Open(d) ==
    /\ download[d] = "found" /\ Goto(d, "reading")
    /\ UNCHANGED <<up, issued, stored, creating, wanted>>

Missing(d) ==
    /\ download[d] \in {"asked", "found"} /\ wanted[d] \notin Members /\ Leave(d)
    /\ UNCHANGED <<up, issued, stored, creating>>

Finish(d) ==
    /\ download[d] = "reading" /\ Leave(d)
    /\ UNCHANGED <<up, issued, stored, creating>>

-----------------------------------------------------------------------------
(* The store does not survive its Agent, but no number is used again.         *)
Stop ==
    /\ up /\ up' = FALSE
    /\ issued' \in issued..MaxId
    /\ stored' = <<>> /\ creating' = {}
    /\ download' = [d \in Downloads |-> "none"]
    /\ wanted' = [d \in Downloads |-> 0]

Start ==
    /\ ~up /\ up' = TRUE
    /\ UNCHANGED <<issued, stored, creating, download, wanted>>

Next ==
    \/ \E c \in Creators : BeginCreate(c) \/ Store(c) \/ Fail(c)
    \/ \E d \in Downloads :
          \/ \E n \in 1..MaxId : Ask(d, n)
          \/ Find(d) \/ Open(d) \/ Missing(d) \/ Finish(d)
    \/ Stop \/ Start

Spec == Init /\ [][Next]_vars
=============================================================================
