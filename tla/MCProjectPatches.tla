-------------------------- MODULE MCProjectPatches --------------------------
(***************************************************************************)
(* An instance of ProjectPatches for TLC, in one of two settings.  Race:   *)
(* two patches of one file, two unrestricted processes and a steady        *)
(* policy, for claims, writes, edits, crashes and lapsed leases in every   *)
(* order.  Gate: one patch, one unrestricted and one controlled process,   *)
(* and an operator who changes the policy at any moment.                   *)
(***************************************************************************)
EXTENDS ProjectPatches, TLC

CONSTANTS s1, s2, s3, p1, p2, f1, a, b, t1

OneControlled == [s \in Servers |-> IF s = s3 THEN "controlled" ELSE "unrestricted"]

OpenTo(n) == [cap |-> "unrestricted", open |-> TRUE, files |-> n]
Shifting == {OpenTo(1), [OpenTo(1) EXCEPT !.cap = "controlled"],
             [OpenTo(1) EXCEPT !.cap = "read-only", !.open = FALSE]}
EitherPolicy == {OpenTo(2)} \cup Shifting

Works(s) == \E p \in Patches : work'[p].server = s

Race == policy' = policy /\ UNCHANGED gateVars /\ ~Works(s3)
        /\ \A p \in Patches : claim'[p].mode # "controlled"
Gated ==
    /\ policy' \in Shifting
    /\ \E p \in Patches : rows'[p].state = "absent"
    /\ \E s \in Servers \ {s3} : ~Works(s)

NextEither == Next /\ IF policy = OpenTo(2) THEN Race ELSE Gated

SpecEither == Init /\ [][NextEither]_vars

Symmetry == Permutations(Patches) \cup Permutations(Contents) \cup Permutations({s1, s2})
=============================================================================
