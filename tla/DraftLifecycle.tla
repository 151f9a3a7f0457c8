--------------------------- MODULE DraftLifecycle ---------------------------
(***************************************************************************)
(* What src/operation_store.py promises of a draft that may change the     *)
(* world ("never automatically replay writes"): it is executed at most     *)
(* once, only after it was claimed, and its history is honest.  Completed  *)
(* means that all of its effects happened, expired that none did; when     *)
(* nobody can tell, the draft is uncertain and stays so.                   *)
(*                                                                         *)
(* One call may settle several drafts at once (the store is swept on every *)
(* access), so a step moves every draft, most of them not at all.          *)
(***************************************************************************)
CONSTANT Drafts

VARIABLES
    phase,      \* phase[d]: where d is in its life
    effects     \* effects[d]: how much of d has happened in the world

Phases == {"absent", "open", "claimed", "completed", "failed", "uncertain", "expired"}
Extents == {"none", "some", "all"}

Init ==
    /\ phase = [d \in Drafts |-> "absent"]
    /\ effects = [d \in Drafts |-> "none"]

Moves(d, from, to) == phase[d] = from /\ phase'[d] = to /\ effects'[d] = effects[d]

Stay(d) == phase'[d] = phase[d] /\ effects'[d] = effects[d]

Create(d) == Moves(d, "absent", "open")
Claim(d) == Moves(d, "open", "claimed")
Expire(d) == Moves(d, "open", "expired")
Complete(d) == effects[d] = "all" /\ Moves(d, "claimed", "completed")
Fail(d) == Moves(d, "claimed", "failed")

\* The outcome of a claim (for writing, or only for a check) is unknown.
Lose(d) == Moves(d, "claimed", "uncertain") \/ Moves(d, "open", "uncertain")

\* Effects happen under a claim, or after its lease ran out under a slow call.
Effect(d) ==
    /\ phase[d] \in {"claimed", "uncertain"}
    /\ phase'[d] = phase[d]
    /\ effects[d] # "all"
    /\ effects'[d] \in {"some", "all"}

Next ==
    /\ phase' \in [Drafts -> Phases]
    /\ effects' \in [Drafts -> Extents]
    /\ \A d \in Drafts :
          \/ Stay(d) \/ Create(d) \/ Claim(d) \/ Expire(d)
          \/ Complete(d) \/ Fail(d) \/ Lose(d) \/ Effect(d)

Spec == Init /\ [][Next]_<<phase, effects>>
=============================================================================
