------------------------------ MODULE MCMissions ------------------------------
(* Instances of Missions for TLC. *)
EXTENDS Missions, TLC

CONSTANTS a1, a2, m1, m2, w1, w2, f1, f2, x, y

TestNeed == {{"test"}}
BothNeeds == {{"static", "test"}}
NoNeed == {{}}

Symmetry == Permutations(Agents) \cup Permutations(Missions) \cup Permutations(Spaces)
                \cup Permutations(Files) \cup Permutations(Contents)
=============================================================================
