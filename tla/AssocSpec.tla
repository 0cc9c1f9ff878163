----------------------------- MODULE AssocSpec -----------------------------
(***************************************************************************)
(* What an associative domain with index buffers promises: a set of        *)
(* indices, and the indices a buffer was given and still owes to it.       *)
(***************************************************************************)
CONSTANT Indices

VARIABLES domain, owed

specVars == <<domain, owed>>

Init == domain = {} /\ owed = {}

Add(i)    == domain' = domain \cup {i} /\ UNCHANGED owed
Remove(i) == domain' = domain \ {i} /\ UNCHANGED owed
Clear     == domain' = {} /\ UNCHANGED owed

(* A buffer may take an index, and may hand over what it owes: what is not *)
(* owed any more is in the domain.                                         *)
Buffered ==
  \E paid \in SUBSET owed, taken \in {{}} \cup {{i} : i \in Indices} :
    /\ domain' = domain \cup paid
    /\ owed' \in SUBSET (owed \cup taken)
    /\ (owed \cup taken) \ paid \subseteq owed'

Next == Clear \/ Buffered \/ \E i \in Indices : Add(i) \/ Remove(i)

Spec == Init /\ [][Next]_specVars
=============================================================================
