------------------------------- MODULE MCFiles -------------------------------
(***************************************************************************)
(* Instances of the two ways this program keeps data on disk: files that   *)
(* it replaces, and the database of drafts and outcomes (odd names are     *)
(* patches, even ones change sets).  They share nothing: a behaviour has   *)
(* one of them at work, its scope.                                         *)
(***************************************************************************)
EXTENDS AtomicFiles, OperationStore, TLC

VARIABLE scope

KindOfId == [i \in Ids |-> IF i % 2 = 1 THEN "patch" ELSE "changeset"]
OneOfEach == [k \in {"patch", "changeset"} |-> 1]

CallSymmetry == Permutations(Calls) \cup Permutations(Contents)

\* A replacement keeps a backup or insists on a content; a delete does both.
InitFiles ==
    /\ scope \in {"files", "store"}
    /\ Init /\ (scope = "store" => target = None /\ \E d \in Contents :
                call = [c \in Calls |-> NewCall("create", d, FALSE, NoContent)])
    /\ \A c \in Calls : call[c].op = "replace" => (call[c].backup <=> call[c].expected = NoContent)
    /\ InitStore

\* Other programs change the target while a call is at work.
FilesStep ==
    /\ scope = "files"
    /\ Next
    /\ call' = call => \E c \in Calls : call[c].step \notin Ended
    /\ UNCHANGED storeVars

StoreStep ==
    /\ scope = "store"
    /\ NextStore
    /\ UNCHANGED vars

NextFiles == UNCHANGED scope /\ (FilesStep \/ StoreStep)

SpecFiles == InitFiles /\ [][NextFiles]_<<scope, vars, storeVars>>
=============================================================================
