----------------------------- MODULE MCEventStore -----------------------------
(* Instances of EventStore for TLC: which types each filter matches, and the *)
(* symmetry of identities that no action tells apart.                        *)
EXTENDS EventStore, TLC

CONSTANTS a, b

AllTypes == [s \in Subs |-> Types]
OnlyA    == [s \in Subs |-> {a}]

SymProducers == Permutations(Producers)
=============================================================================
