----------------------------- MODULE MCLRUCache -----------------------------
(* A small cache for TLC: more keys than entries, so that evictions happen. *)
EXTENDS LRUCache, TLC

CONSTANTS
    MaxUses,    \* bound on the history clock
    MaxMisses   \* bound on the miss counter

Bounded == clock <= MaxUses /\ count <= MaxMisses

Symmetry == Permutations(Keys) \cup Permutations(Values) \cup Permutations(Entries)
=============================================================================
