---------------------------- MODULE MCSafetyGate ----------------------------
(* Instances of SafetyGate for TLC. *)
EXTENDS SafetyGate, TLC

CONSTANTS s1, s2, c1, c2, t1, t2, t3, d1, d2

AllControlled == [s \in Servers |-> "controlled"]

\* Calls, tokens and demands are interchangeable.
Symmetry == Permutations(Calls) \cup Permutations(Tokens) \cup Permutations(Demands)
=============================================================================
