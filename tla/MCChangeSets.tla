---------------------------- MODULE MCChangeSets ----------------------------
(* Instances of ChangeSets for TLC. *)
EXTENDS ChangeSets, TLC

CONSTANTS s1, s2, p1, p2, f1, f2, e0, a, b, x, t1

AllControlled == [s \in Servers |-> "controlled"]
AllUnrestricted == [s \in Servers |-> "unrestricted"]

\* Decoding a content that is not UTF-8 gives some other text.
Replaced == [c \in Contents |-> IF c \in Binary THEN a ELSE c]
=============================================================================
