----------------------------- MODULE MCSingleThread -----------------------------
(* An instance of SingleThread for TLC: elements are interchangeable.         *)
EXTENDS SingleThread, TLC

Symmetry == Permutations(Value) \cup Permutations(Element)
=============================================================================
