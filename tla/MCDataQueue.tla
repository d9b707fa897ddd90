----------------------------- MODULE MCDataQueue -----------------------------
(* Instances of DataQueue for TLC: threads and values are interchangeable.   *)
EXTENDS DataQueue, TLC

Symmetry == Permutations(Producers) \cup Permutations(Consumers)
              \cup Permutations(Cleaners) \cup Permutations(Value)
=============================================================================
