--------------------------- MODULE ProjectPatches ---------------------------
(***************************************************************************)
(* Staged project patches: src/project_workspace.py (begin, stage,         *)
(* preview, apply), the shared store they live in (PersistentDrafts of     *)
(* src/operation_store.py), the capsule check that may precede an apply    *)
(* (src/test_capsules.py) and the confirmation gate, by its contract       *)
(* (Grants).                                                               *)
(*                                                                         *)
(* Several server processes share one SQLite store.  Every                 *)
(* `with _patch_lock` block is one BEGIN IMMEDIATE transaction and one     *)
(* atomic action here: the cleanup of due rows at its start and the flush  *)
(* at its end included.  The writes of an apply and the run of a capsule   *)
(* happen between two transactions and are steps of their own.             *)
(*                                                                         *)
(* Abstractions.  A file's content is a model value and stands for its     *)
(* SHA-256.  `expires <= now` is a flag `due` that the environment may     *)
(* raise on any stored draft at any moment.  The retention of finished     *)
(* rows is not modelled: no operation reads them back by ID.  Of a capsule *)
(* result only the fingerprint that passed is kept: the guards treat every *)
(* other result alike.                                                     *)
(***************************************************************************)
EXTENDS Naturals, Sequences, FiniteSets

CONSTANTS
    Servers, Patches, Files, Contents, Tokens,
    Absent,         \* the content of a file that does not exist
    Capacity,       \* PersistentDrafts("patch", 24)
    Policies,       \* the operator's settings a run considers
    EnvMode,        \* VPS_GUARDIAN_MODE of each process
    NoToken, NoServer

Modes == {"read-only", "controlled", "unrestricted"}
Rank == [m \in Modes |-> CASE m = "read-only" -> 0
                           [] m = "controlled" -> 1
                           [] m = "unrestricted" -> 2]

\* cap: the mode cap; open: the project is under a managed root;
\* files: limits["project_patch_files"].
Policy == [cap : Modes, open : BOOLEAN, files : Nat]

Entry == [path : Files, base : Contents \cup {Absent}, cand : Contents]

Demands == [op : {"apply", "test"}, patch : Patches, listed : SUBSET (Nat \X Entry)]
NoDemand == [op |-> "none"]

\* The verdict of a draft no capsule has passed: no draft without files is tested.
NotPassed == {}

ASSUME PatchesAssumption ==
    /\ Absent \notin Contents
    /\ Capacity \in Nat
    /\ Policies \subseteq Policy
    /\ EnvMode \in [Servers -> Modes]
    /\ NoToken \notin Tokens
    /\ NoServer \notin Servers

VARIABLES
    policy,     \* the operator's current settings
    disk,       \* disk[f]: the live content of f
    rows,       \* rows[p]: the stored draft p
    work,       \* work[p]: the call that claimed p and is still running
    grant, live, redeemed,      \* the gate (see Grants)
    claim,      \* history: how the apply of p was authorised, and for what
    touched,    \* history: the entries of p that reached the disk
    moved,      \* history: the files changed by others while p is being applied
    passed      \* history: the candidate of p that its last check really passed,
                \* if p was not edited since

vars == <<policy, disk, rows, work, grant, live, redeemed, claim, touched, moved, passed>>
gateVars == <<grant, live, redeemed>>
history == <<claim, touched, moved, passed>>

Gate == INSTANCE Grants

\* "absent": no such row. The rows of the last four states have lost their payload.
States == {"absent", "staging", "testing", "applying",
           "completed", "failed", "uncertain", "expired"}

Row == [state : States, due : BOOLEAN, files : Seq(Entry),
        tested : SUBSET Entry]

\* kind: "apply" writes; a capsule check is "queued" until it holds the
\* machine-wide file lock, "capsule" while its container runs, "reported" after.
Work == [kind : {"none", "apply", "queued", "capsule", "reported"},
         server : Servers \cup {NoServer}, plan : Seq(Entry),
         next : Nat \ {0}, ok : BOOLEAN]

Claim == [mode : Modes, token : Tokens \cup {NoToken}, plan : Seq(Entry), promoted : BOOLEAN]

NoRow == [state |-> "absent", due |-> FALSE, files |-> <<>>, tested |-> NotPassed]
NoWork == [kind |-> "none", server |-> NoServer, plan |-> <<>>, next |-> 1, ok |-> TRUE]
NoClaim == [mode |-> "read-only", token |-> NoToken, plan |-> <<>>, promoted |-> FALSE]

TypeOK ==
    /\ policy \in Policy
    /\ disk \in [Files -> Contents \cup {Absent}]
    /\ rows \in [Patches -> Row]
    /\ work \in [Patches -> Work]
    /\ Gate!GrantsTypeOK
    /\ claim \in [Patches -> Claim]
    /\ touched \in [Patches -> SUBSET Nat]
    /\ moved \in [Patches -> SUBSET Files]
    /\ passed \in [Patches -> SUBSET Entry]

Init ==
    /\ policy \in Policies
    /\ disk \in [Files -> Contents \cup {Absent}]
    /\ rows = [p \in Patches |-> NoRow]
    /\ work = [p \in Patches |-> NoWork]
    /\ Gate!Init
    /\ claim = [p \in Patches |-> NoClaim]
    /\ touched = [p \in Patches |-> {}]
    /\ moved = [p \in Patches |-> {}]
    /\ passed = [p \in Patches |-> NotPassed]

-----------------------------------------------------------------------------
(* Helpers                                                                 *)

Stored(r) == r.state \in {"staging", "testing", "applying"}
Claimed(r) == r.state \in {"testing", "applying"}

\* Mutant: an interrupted apply counts as expired.
SweptForgiving(r) ==
    IF Stored(r) /\ r.due
    THEN [NoRow EXCEPT !.state = IF r.state = "testing" THEN "uncertain" ELSE "expired"]
    ELSE r

\* PersistentDrafts.cleanup: a due draft loses its payload; a claimed one was
\* interrupted with an unknown outcome, any other has merely expired.
Swept(r) ==
    IF Stored(r) /\ r.due
    THEN [NoRow EXCEPT !.state = IF Claimed(r) THEN "uncertain" ELSE "expired"]
    ELSE r

Cleaned == [p \in Patches |-> Swept(rows[p])]

StoredIn(rs) == {p \in Patches : Stored(rs[p])}

SafetyMode(s) == IF Rank[EnvMode[s]] <= Rank[policy.cap] THEN EnvMode[s] ELSE policy.cap

\* _patch_policy_error finds nothing.
Admitted(files) == policy.open /\ Len(files) <= policy.files

\* An entry staged for path f replaces the one already there, at the end.
Without(files, f) ==
    IF \E i \in 1..Len(files) : files[i].path = f
    THEN LET i == CHOOSE i \in 1..Len(files) : files[i].path = f
         IN  SubSeq(files, 1, i - 1) \o SubSeq(files, i + 1, Len(files))
    ELSE files

\* test_capsules._fingerprint: order-insensitive.
Fingerprint(files) == {files[i] : i \in 1..Len(files)}

\* The parameters apply and test bind their tokens to: the ordered list of
\* files, and the sorted fingerprint.
ApplyDemand(p, files) ==
    [op |-> "apply", patch |-> p, listed |-> {<<i, files[i]>> : i \in 1..Len(files)}]
TestDemand(p, files) ==
    [op |-> "test", patch |-> p, listed |-> {<<0, e>> : e \in Fingerprint(files)}]

Unchanged(files) == \A i \in 1..Len(files) : disk[files[i].path] = files[i].base

Ready(r) == r.state = "staging" /\ r.files # <<>>

\* The commit of a transaction: its effect, or a rollback (storage_errors).
Commit(saved, rs) == rows' = IF saved THEN rs ELSE rows

-----------------------------------------------------------------------------
(* The gate inside a patch transaction                                     *)

\* Mutant: any token this process still remembers will do.
AuthorisedByAny(s, t, d) ==
    \/ /\ SafetyMode(s) = "unrestricted"
       /\ t = NoToken
       /\ UNCHANGED gateVars
    \/ /\ SafetyMode(s) = "controlled"
       /\ t \in Tokens
       /\ Gate!Redeem(s, t, grant[t], {})

\* request_authorization lets the call through: unrestricted ignores the
\* token, controlled consumes one issued by this process for this demand.
Authorised(s, t, d) ==
    \/ /\ SafetyMode(s) = "unrestricted"
       /\ t = NoToken
       /\ UNCHANGED gateVars
    \/ /\ SafetyMode(s) = "controlled"
       /\ t \in Tokens
       /\ Gate!Redeem(s, t, d, {})

\* preview, or apply or test called without a token: the reply carries one.
RequestToken(s, p, t) ==
    LET r == Cleaned[p] IN
    /\ Ready(r) /\ Admitted(r.files)
    /\ SafetyMode(s) = "controlled"
    /\ \E d \in {ApplyDemand(p, r.files), TestDemand(p, r.files)} :
           Gate!Issue(s, t, d, {})
    /\ \E saved \in BOOLEAN : Commit(saved, Cleaned)
    /\ UNCHANGED <<policy, disk, work, history>>

\* A token is presented and consumed, yet nothing is claimed: it belongs to
\* another demand, a file or its path changed after staging, another capsule
\* check is running, or the claim could not be committed.
SpendToken(s, p, t) ==
    LET r == Cleaned[p] IN
    /\ Ready(r) /\ Admitted(r.files)
    /\ SafetyMode(s) = "controlled"
    /\ t \in live[s]
    /\ \/ Gate!Lose(s, {t})
       \/ \E d \in {ApplyDemand(p, r.files), TestDemand(p, r.files)} :
              Gate!Redeem(s, t, d, {})
    /\ \E saved \in BOOLEAN : Commit(saved, Cleaned)
    /\ UNCHANGED <<policy, disk, work, history>>

-----------------------------------------------------------------------------
(* Drafting                                                                *)

\* Any tool call that only reads the store, or is refused by it.
Browse ==
    /\ rows' = Cleaned
    /\ UNCHANGED <<policy, disk, work, gateVars, history>>

Begin(p) ==
    /\ rows[p].state = "absent"
    /\ policy.open
    /\ Cardinality(StoredIn(Cleaned)) < Capacity
    /\ rows' = [Cleaned EXCEPT ![p] = [NoRow EXCEPT !.state = "staging"]]
    /\ UNCHANGED <<policy, disk, work, gateVars, history>>

\* Mutant: the verdict on the previous candidate is kept.
StageEntryStale(p, f, c) ==
    LET r == Cleaned[p]
        files == Append(Without(r.files, f), [path |-> f, base |-> disk[f], cand |-> c])
    IN  /\ r.state = "staging"
        /\ Admitted(r.files)
        /\ Len(files) <= policy.files
        /\ rows' = [Cleaned EXCEPT ![p] = [r EXCEPT !.files = files]]
        /\ passed' = [passed EXCEPT ![p] = NotPassed]
        /\ UNCHANGED <<policy, disk, work, gateVars, claim, touched, moved>>

\* Record the live content as the baseline of the new entry; whatever a
\* capsule found out about the previous candidate no longer counts.
StageEntry(p, f, c) ==
    LET r == Cleaned[p]
        files == Append(Without(r.files, f), [path |-> f, base |-> disk[f], cand |-> c])
    IN  /\ r.state = "staging"
        /\ Admitted(r.files)
        /\ Len(files) <= policy.files
        /\ rows' = [Cleaned EXCEPT ![p] = [r EXCEPT !.files = files, !.tested = NotPassed]]
        /\ passed' = [passed EXCEPT ![p] = NotPassed]
        /\ UNCHANGED <<policy, disk, work, gateVars, claim, touched, moved>>

StageFileChange(p, f, c) == StageEntry(p, f, c)

StageLineEdit(p, f, c) == disk[f] # Absent /\ StageEntry(p, f, c)

-----------------------------------------------------------------------------
(* Applying                                                                *)

Claiming(p, state) == [Cleaned EXCEPT ![p].state = state, ![p].due = FALSE]

\* Mutant: the baselines are not compared before the writes.
ApplyClaimUnchecked(s, p, t, promoted) ==
    LET r == Cleaned[p] IN
    /\ Ready(r) /\ Admitted(r.files)
    /\ promoted => r.tested = Fingerprint(r.files)
    /\ Authorised(s, t, ApplyDemand(p, r.files))
    /\ rows' = Claiming(p, "applying")
    /\ work' = [work EXCEPT ![p] = [NoWork EXCEPT !.kind = "apply", !.server = s,
                                                  !.plan = r.files]]
    /\ claim' = [claim EXCEPT ![p] = [mode |-> SafetyMode(s), token |-> t,
                                      plan |-> r.files, promoted |-> promoted]]
    /\ UNCHANGED <<policy, disk, touched, moved, passed>>

ApplyClaim(s, p, t, promoted) ==
    LET r == Cleaned[p] IN
    /\ Ready(r) /\ Admitted(r.files)
    /\ promoted => r.tested = Fingerprint(r.files)
    /\ Authorised(s, t, ApplyDemand(p, r.files))
    /\ Unchanged(r.files)
    /\ rows' = Claiming(p, "applying")
    /\ work' = [work EXCEPT ![p] = [NoWork EXCEPT !.kind = "apply", !.server = s,
                                                  !.plan = r.files]]
    /\ claim' = [claim EXCEPT ![p] = [mode |-> SafetyMode(s), token |-> t,
                                      plan |-> r.files, promoted |-> promoted]]
    /\ UNCHANGED <<policy, disk, touched, moved, passed>>

\* Everyone whose apply is running sees file f change under it.
Disturb(f, others) ==
    moved' = [q \in Patches |-> IF q \in others /\ work[q].kind = "apply"
                                THEN moved[q] \cup {f} ELSE moved[q]]

\* atomic_write_file of the next entry: it is attempted even after a failure,
\* and an error may be reported after the file was replaced (a failed fsync).
Write(p) ==
    LET w == work[p]  e == w.plan[w.next] IN
    /\ w.kind = "apply"
    /\ w.next <= Len(w.plan)
    /\ \E replaced, reported \in BOOLEAN :
          /\ reported => replaced
          /\ work' = [work EXCEPT ![p].next = @ + 1, ![p].ok = @ /\ reported]
          /\ IF replaced
             THEN /\ disk' = [disk EXCEPT ![e.path] = e.cand]
                  /\ touched' = [touched EXCEPT ![p] = @ \cup {w.next}]
                  /\ Disturb(e.path, Patches \ {p})
             ELSE UNCHANGED <<disk, touched, moved>>
    /\ UNCHANGED <<policy, rows, gateVars, claim, passed>>

\* Mutant: failed writes are ignored.
ApplyFinishBlind(p) ==
    LET w == work[p] IN
    /\ w.kind = "apply"
    /\ w.next > Len(w.plan)
    /\ \E saved \in BOOLEAN :
          Commit(saved, IF Stored(Cleaned[p])
                        THEN [Cleaned EXCEPT ![p] = [NoRow EXCEPT !.state = "completed"]]
                        ELSE Cleaned)
    /\ work' = [work EXCEPT ![p] = NoWork]
    /\ moved' = [moved EXCEPT ![p] = {}]
    /\ UNCHANGED <<policy, disk, gateVars, claim, touched, passed>>

\* The outcome is stored if the draft still is; the payload goes either way.
ApplyFinish(p) ==
    LET w == work[p]
        outcome == IF w.ok THEN "completed" ELSE "failed"
    IN  /\ w.kind = "apply"
        /\ w.next > Len(w.plan)
        /\ \E saved \in BOOLEAN :
              Commit(saved, IF Stored(Cleaned[p])
                            THEN [Cleaned EXCEPT ![p] = [NoRow EXCEPT !.state = outcome]]
                            ELSE Cleaned)
        /\ work' = [work EXCEPT ![p] = NoWork]
        /\ moved' = [moved EXCEPT ![p] = {}]
        /\ UNCHANGED <<policy, disk, gateVars, claim, touched, passed>>

-----------------------------------------------------------------------------
(* The capsule check                                                       *)

Testing(w) == w.kind \in {"queued", "capsule", "reported"}

\* _check_lock admits one check per process.
CheckLockFree(s) == \A q \in Patches : ~(Testing(work[q]) /\ work[q].server = s)

TestClaim(s, p, t) ==
    LET r == Cleaned[p] IN
    /\ Ready(r) /\ Admitted(r.files)
    /\ Authorised(s, t, TestDemand(p, r.files))
    /\ CheckLockFree(s)
    /\ rows' = [Claiming(p, "testing") EXCEPT ![p].tested = NotPassed]
    /\ work' = [work EXCEPT ![p] = [NoWork EXCEPT !.kind = "queued", !.server = s,
                                                  !.plan = r.files]]
    /\ passed' = [passed EXCEPT ![p] = NotPassed]
    /\ UNCHANGED <<policy, disk, claim, touched, moved>>

\* The file lock admits one capsule per machine.
CapsuleStart(p) ==
    /\ work[p].kind = "queued"
    /\ \A q \in Patches : work[q].kind # "capsule"
    /\ work' = [work EXCEPT ![p].kind = "capsule"]
    /\ UNCHANGED <<policy, disk, rows, gateVars, history>>

\* The file lock is taken, or the snapshot, the candidates or the container
\* failed: nothing passed.
CapsuleError(p) ==
    /\ work[p].kind \in {"queued", "capsule"}
    /\ work' = [work EXCEPT ![p].kind = "reported", ![p].ok = FALSE]
    /\ UNCHANGED <<policy, disk, rows, gateVars, history>>

\* _apply_candidates refuses a changed baseline; then the container decides.
CapsuleRun(p) ==
    /\ work[p].kind = "capsule"
    /\ Unchanged(work[p].plan)
    /\ work' = [work EXCEPT ![p].kind = "reported"]
    /\ passed' = [passed EXCEPT ![p] = Fingerprint(work[p].plan)]
    /\ UNCHANGED <<policy, disk, rows, gateVars, claim, touched, moved>>

TestFinish(p) ==
    LET w == work[p]  r == Cleaned[p]
        result == IF w.ok THEN Fingerprint(w.plan) ELSE NotPassed
    IN  /\ w.kind = "reported"
        /\ \E saved \in BOOLEAN :
              Commit(saved,
                     IF r.state = "testing" /\ Fingerprint(r.files) = Fingerprint(w.plan)
                     THEN [Cleaned EXCEPT ![p] = [r EXCEPT !.state = "staging",
                                                  !.due = FALSE, !.tested = result]]
                     ELSE Cleaned)
        /\ work' = [work EXCEPT ![p] = NoWork]
        /\ UNCHANGED <<policy, disk, gateVars, history>>

-----------------------------------------------------------------------------
(* The world around the store                                              *)

\* expires_at passes: 24 hours of a draft, 120 seconds of a claim.
Lapse(p) ==
    /\ Stored(rows[p]) /\ ~rows[p].due
    /\ rows' = [rows EXCEPT ![p].due = TRUE]
    /\ UNCHANGED <<policy, disk, work, gateVars, history>>

\* Expiry of a token, or its eviction by the requests of other tools.
LoseToken(s, t) ==
    /\ t \in live[s]
    /\ Gate!Lose(s, {t})
    /\ UNCHANGED <<policy, disk, rows, work, history>>

\* A process dies with the calls it was serving and its pending tokens.
Crash(s) ==
    /\ Gate!Lose(s, live[s])
    /\ work' = [p \in Patches |-> IF work[p].server = s THEN NoWork ELSE work[p]]
    /\ moved' = [p \in Patches |-> IF work[p].server = s THEN {} ELSE moved[p]]
    /\ UNCHANGED <<policy, disk, rows, claim, touched, passed>>

OperatorSets(x) ==
    /\ policy' = x
    /\ UNCHANGED <<disk, rows, work, gateVars, history>>

\* Somebody else edits, creates or deletes a project file.
Edit(f, c) ==
    /\ disk[f] # c
    /\ disk' = [disk EXCEPT ![f] = c]
    /\ Disturb(f, Patches)
    /\ UNCHANGED <<policy, rows, work, gateVars, claim, touched, passed>>

Progress(p) ==
    \/ Write(p)
    \/ ApplyFinish(p)
    \/ CapsuleStart(p)
    \/ CapsuleError(p)
    \/ CapsuleRun(p)
    \/ TestFinish(p)

Next ==
    \/ Browse
    \/ \E p \in Patches :
          \/ Begin(p)
          \/ \E f \in Files, c \in Contents : StageFileChange(p, f, c) \/ StageLineEdit(p, f, c)
          \/ Progress(p)
          \/ Lapse(p)
          \/ \E s \in Servers, t \in Tokens : RequestToken(s, p, t) \/ SpendToken(s, p, t)
          \/ \E s \in Servers, t \in Tokens \cup {NoToken} :
                \/ \E promoted \in BOOLEAN : ApplyClaim(s, p, t, promoted)
                \/ TestClaim(s, p, t)
    \/ \E s \in Servers : Crash(s) \/ \E t \in Tokens : LoseToken(s, t)
    \/ \E x \in Policies : OperatorSets(x)
    \/ \E f \in Files, c \in Contents \cup {Absent} : Edit(f, c)

Spec == Init /\ [][Next]_vars

\* A thread that holds a claim runs on unless its process dies, time passes,
\* and tools that open the store keep being called.
FairSpec ==
    /\ Spec
    /\ WF_vars(Browse)
    /\ \A p \in Patches : WF_vars(Progress(p)) /\ WF_vars(Lapse(p))

-----------------------------------------------------------------------------
(* Properties                                                              *)

WasClaimed(p) == claim[p].plan # <<>>

\* History never claims more than happened: a completed patch replaced every
\* file of the plan it was claimed with, and a patch that is still a draft, or
\* expired as one, was never claimed for writing and touched no file.
OutcomeTruthful ==
    \A p \in Patches :
        /\ rows[p].state = "completed" =>
              WasClaimed(p) /\ touched[p] = 1..Len(claim[p].plan)
        /\ rows[p].state = "failed" => WasClaimed(p)
        /\ rows[p].state \in {"absent", "staging", "testing", "expired"} =>
              ~WasClaimed(p) /\ touched[p] = {}

\* In controlled mode the plan an apply writes is, entry for entry, the one a
\* token was issued for; that token can neither be presented again nor have
\* authorised another patch; and a read-only process never claims.
AppliedAsReviewed ==
    \A p \in Patches : WasClaimed(p) =>
        /\ claim[p].mode # "read-only"
        /\ claim[p].mode = "controlled" =>
              /\ grant[claim[p].token] = ApplyDemand(p, claim[p].plan)
              /\ \A s \in Servers : claim[p].token \notin live[s]
              /\ \A q \in Patches \ {p} : claim[q].token # claim[p].token

\* A stored capsule verdict belongs to the files staged now, and a promoted
\* patch wrote the candidate that its last capsule check, run after the last
\* edit, really passed.
TestedIsCurrent ==
    \A p \in Patches :
        /\ rows[p].tested # NotPassed =>
              rows[p].tested = Fingerprint(rows[p].files) /\ rows[p].tested = passed[p]
        /\ claim[p].promoted => Fingerprint(claim[p].plan) = passed[p]

\* Once claimed for writing, a patch is never drafted, tested or claimed
\* again, whatever crashes, lapses or fails to commit.
NeverReplayed ==
    [][\A p \in Patches : WasClaimed(p) =>
           /\ claim'[p] = claim[p]
           /\ rows'[p].state \notin {"absent", "staging", "testing"}]_vars

\* A draft leaves the store only when its own time has come or its own apply
\* has finished, never to make room or through another patch's call.
NeverEvicted ==
    [][\A p \in Patches : Stored(rows[p]) /\ ~Stored(rows'[p]) =>
           \/ rows[p].due
           \/ work[p].kind = "apply" /\ work'[p].kind = "none"]_vars

\* A write lands on the baseline that was reviewed, unless somebody changed
\* that very file after the claim: the window between the fingerprint check
\* and the write is the only one.
OverwriteOnlyInWindow ==
    [][\A p \in Patches : \A i \in touched'[p] \ touched[p] :
           LET e == claim[p].plan[i] IN
               disk[e.path] = e.base \/ e.path \in moved[p]]_vars

\* Nothing is lost to somebody else's call: neither a draft nor a file.
NothingLost == NeverEvicted /\ OverwriteOnlyInWindow

\* No claim stays open for ever: an outcome is stored, or the lease runs out
\* and the next call to the store marks it uncertain.
ClaimResolves ==
    \A p \in Patches : Claimed(rows[p]) ~> ~Claimed(rows[p])

\* The drafts of the store live the life promised by DraftLifecycle: a draft
\* that is staged or being checked is open, one being applied is claimed.
Phase(r) == CASE r.state \in {"staging", "testing"} -> "open"
              [] r.state = "applying" -> "claimed"
              [] OTHER -> r.state

Extent(p) == CASE touched[p] = {} -> "none"
               [] touched[p] # {} /\ touched[p] = 1..Len(claim[p].plan) -> "all"
               [] OTHER -> "some"

Lifecycle == INSTANCE DraftLifecycle WITH
    Drafts <- Patches,
    phase <- [p \in Patches |-> Phase(rows[p])],
    effects <- [p \in Patches |-> Extent(p)]
ImplementsLifecycle == Lifecycle!Spec
=============================================================================
