----------------------------- MODULE ChangeSets -----------------------------
(***************************************************************************)
(* src/changeset.py: Nginx change sets.  Up to three configuration files   *)
(* are staged, confirmed once, written one after the other, validated with *)
(* `nginx -t`, reloaded and health-checked; the first step that fails      *)
(* stops the rest and rolls every file of the set back, the files that     *)
(* were never written included.                                            *)
(*                                                                         *)
(* The drafts live in the store of src/operation_store.py: a `with _lock`  *)
(* block is one transaction and one action, the sweep at its start and the *)
(* flush at its end included.  Everything between the claim and the stored *)
(* outcome happens outside of it, one step at a time.  The gate is used by *)
(* its contract (Grants).                                                  *)
(*                                                                         *)
(* Abstractions.  A content stands for its bytes and its SHA-256.  nginx   *)
(* rejects a configuration with a Bad content.  Text cannot hold a Binary  *)
(* content: a rollback writes back what decoding made of it.  Of the       *)
(* service only the kind of configuration an apply made it load is kept.   *)
(***************************************************************************)
EXTENDS Naturals, Sequences, FiniteSets

CONSTANTS
    Servers, Sets, Files, Contents, Tokens,
    Absent,         \* a file that does not exist
    Empty,          \* the content b""
    Bad,            \* contents nginx rejects
    Binary,         \* contents that are not UTF-8
    Decoded,        \* [Contents -> Contents]: decode(errors="replace"), encoded again
    Capacity,       \* PersistentDrafts("changeset", 32)
    Budgets,        \* the values of limits["changeset_files"]
    Mode,           \* get_safety_mode() of each process
    NoToken, NoServer

\* MAX_FILES_PER_CHANGESET
MaxFiles == 3

ASSUME ChangesAssumption ==
    /\ Absent \notin Contents
    /\ Empty \in Contents \ Binary
    /\ Decoded \in [Contents -> Contents]
    /\ \A c \in Contents \ Binary : Decoded[c] = c
    /\ Capacity \in Nat
    /\ Budgets \subseteq Nat
    /\ Mode \in [Servers -> {"read-only", "controlled", "unrestricted"}]
    /\ NoToken \notin Tokens
    /\ NoServer \notin Servers

VARIABLES
    budget,     \* get_runtime_budget()["limits"]["changeset_files"]
    disk,       \* disk[f]: the live content of f
    rows,       \* rows[p]: the stored change set p
    reading,    \* reading[p]: a stage_file_change of p that has read its file
    work,       \* work[p]: the apply of p that is under way
    grant, live, redeemed,      \* the gate (see Grants)
    claim,      \* history: the plan p was claimed with, and by which token
    touched,    \* history: the entries of p whose candidate reached the disk
    moved,      \* history: the files others changed while p is being applied
    loaded      \* history: what the reloads of p, while it is being applied, made
                \* nginx load

vars == <<budget, disk, rows, reading, work, grant, live, redeemed, claim, touched, moved, loaded>>
gateVars == <<grant, live, redeemed>>
history == <<claim, touched, moved, loaded>>

\* What may be staged: non-empty text.
Candidates == Contents \ (Binary \cup {Empty})

Entry == [path : Files, original : Contents, existed : BOOLEAN,
          baseline : Contents \cup {Absent}, cand : Candidates]

\* A token is bound to the ordered paths, baselines and candidates.
Reviewed(e) == <<e.path, e.baseline, e.cand>>
Demands == [set : Sets,
            listed : SUBSET (Nat \X (Files \X (Contents \cup {Absent}) \X Candidates))]
NoDemand == [set |-> "none"]

Gate == INSTANCE Grants

States == {"absent", "staging", "applying",
           "completed", "rolled_back", "failed", "uncertain", "expired"}
Phases == {"none", "write", "validate", "reload", "health", "undo", "report"}

Row == [state : States, due : BOOLEAN, files : Seq(Entry)]
Reading == [path : Files, seen : Contents, cand : Candidates]
Work == [phase : Phases, server : Servers \cup {NoServer}, plan : Seq(Entry),
         next : Nat, ok : BOOLEAN, restored : BOOLEAN]
Claim == [token : Tokens \cup {NoToken}, mode : {"none", "controlled", "unrestricted"},
          plan : Seq(Entry)]

NoRow == [state |-> "absent", due |-> FALSE, files |-> <<>>]
NoReading == [path |-> "none"]
NoWork == [phase |-> "none", server |-> NoServer, plan |-> <<>>, next |-> 1,
           ok |-> FALSE, restored |-> TRUE]
NoClaim == [token |-> NoToken, mode |-> "none", plan |-> <<>>]

TypeOK ==
    /\ budget \in Nat
    /\ disk \in [Files -> Contents \cup {Absent}]
    /\ rows \in [Sets -> Row]
    /\ reading \in [Sets -> Reading \cup {NoReading}]
    /\ work \in [Sets -> Work]
    /\ Gate!GrantsTypeOK
    /\ claim \in [Sets -> Claim]
    /\ touched \in [Sets -> SUBSET Nat]
    /\ moved \in [Sets -> SUBSET Files]
    /\ loaded \in [Sets -> SUBSET {"new", "old", "mixed", "foreign"}]

Init ==
    /\ budget \in Budgets
    /\ disk \in [Files -> Contents \cup {Absent}]
    /\ rows = [p \in Sets |-> NoRow]
    /\ reading = [p \in Sets |-> NoReading]
    /\ work = [p \in Sets |-> NoWork]
    /\ Gate!Init
    /\ claim = [p \in Sets |-> NoClaim]
    /\ touched = [p \in Sets |-> {}]
    /\ moved = [p \in Sets |-> {}]
    /\ loaded = [p \in Sets |-> {}]

-----------------------------------------------------------------------------
(* The store                                                               *)

Stored(r) == r.state \in {"staging", "applying"}

\* PersistentDrafts.cleanup: what was claimed and not finished is uncertain.
Swept(r) ==
    IF Stored(r) /\ r.due
    THEN [NoRow EXCEPT !.state = IF r.state = "applying" THEN "uncertain" ELSE "expired"]
    ELSE r

Cleaned == [p \in Sets |-> Swept(rows[p])]

StoredIn(rs) == {p \in Sets : Stored(rs[p])}

\* The commit of a transaction: its effect, or a rollback.
Commit(saved, rs) == rows' = IF saved THEN rs ELSE rows

Browse ==
    /\ rows' = Cleaned
    /\ UNCHANGED <<budget, disk, reading, work, gateVars, history>>

-----------------------------------------------------------------------------
(* Drafting                                                                *)

Begin(p) ==
    /\ rows[p].state = "absent"
    /\ Cardinality(StoredIn(Cleaned)) < Capacity
    /\ rows' = [Cleaned EXCEPT ![p] = [NoRow EXCEPT !.state = "staging"]]
    /\ UNCHANGED <<budget, disk, reading, work, gateVars, history>>

\* stage_file_change reads the file before it takes the lock (of a change set
\* that is not a draft it reads it in vain).
StageRead(p, f, c) ==
    /\ rows[p].state = "staging"
    /\ reading' = [reading EXCEPT ![p] =
           [path |-> f, seen |-> IF disk[f] = Absent THEN Empty ELSE disk[f], cand |-> c]]
    /\ UNCHANGED <<budget, disk, rows, work, gateVars, history>>

\* item["files"].remove(existing)
Without(files, f) ==
    IF \E i \in 1..Len(files) : files[i].path = f
    THEN LET i == CHOOSE k \in 1..Len(files) : files[k].path = f
         IN  SubSeq(files, 1, i - 1) \o SubSeq(files, i + 1, Len(files))
    ELSE files

Staged(r, f) == \E i \in 1..Len(r.files) : r.files[i].path = f

\* Under the lock it looks whether the file exists, and takes the hash of what
\* it has read, which may be out of date, as the baseline.
StageCommit(p) ==
    LET r == Cleaned[p]  d == reading[p]
        existed == disk[d.path] # Absent
    IN  /\ d # NoReading
        /\ r.state = "staging"
        /\ Staged(r, d.path) \/ (Len(r.files) < MaxFiles /\ Len(r.files) < budget)
        /\ rows' = [Cleaned EXCEPT ![p].files =
               Append(Without(@, d.path),
                      [path |-> d.path, original |-> d.seen, existed |-> existed,
                       baseline |-> IF existed THEN d.seen ELSE Absent, cand |-> d.cand])]
        /\ reading' = [reading EXCEPT ![p] = NoReading]
        /\ UNCHANGED <<budget, disk, work, gateVars, history>>

-----------------------------------------------------------------------------
(* The gate inside a transaction                                           *)

\* _parameters
Demand(p, files) ==
    [set |-> p, listed |-> {<<i, Reviewed(files[i])>> : i \in 1..Len(files)}]

Authorised(s, t, d) ==
    \/ Mode[s] = "unrestricted" /\ t = NoToken /\ UNCHANGED gateVars
    \/ Mode[s] = "controlled" /\ t \in Tokens /\ Gate!Redeem(s, t, d, {})

\* preview, or apply without a token: the reply carries one.
RequestToken(s, p, t) ==
    LET r == Cleaned[p] IN
    /\ r.state = "staging"
    /\ r.files # <<>> \/ Len(r.files) <= budget
    /\ Mode[s] = "controlled"
    /\ Gate!Issue(s, t, Demand(p, r.files), {})
    /\ \E saved \in BOOLEAN : Commit(saved, Cleaned)
    /\ UNCHANGED <<budget, disk, reading, work, history>>

\* A token is consumed and nothing is claimed: it was issued for something
\* else, a file changed after staging, or the claim was not committed.
SpendToken(s, p, t) ==
    LET r == Cleaned[p] IN
    /\ r.state = "staging" /\ Len(r.files) <= budget
    /\ Mode[s] = "controlled"
    /\ t \in live[s]
    /\ Gate!Lose(s, {t}) \/ Gate!Redeem(s, t, Demand(p, r.files), {})
    /\ \E saved \in BOOLEAN : Commit(saved, Cleaned)
    /\ UNCHANGED <<budget, disk, reading, work, history>>

-----------------------------------------------------------------------------
(* Applying                                                                *)

Unchanged(files) == \A i \in 1..Len(files) : disk[files[i].path] = files[i].baseline

\* The claim; a file that is still being staged comes too late.  A change set
\* without files can be claimed too, but then systemctl is called for no
\* service, raises, and nobody stores an outcome.
ApplyClaim(s, p, t) ==
    LET r == Cleaned[p] IN
    /\ r.state = "staging" /\ Len(r.files) <= budget
    /\ Authorised(s, t, Demand(p, r.files))
    /\ Unchanged(r.files)
    /\ rows' = [Cleaned EXCEPT ![p].state = "applying", ![p].due = FALSE]
    /\ work' = IF r.files = <<>> THEN work
               ELSE [work EXCEPT ![p] = [NoWork EXCEPT !.phase = "write", !.server = s,
                                                       !.plan = r.files]]
    /\ claim' = [claim EXCEPT ![p] = [token |-> t, mode |-> Mode[s], plan |-> r.files]]
    /\ reading' = [reading EXCEPT ![p] = NoReading]
    /\ UNCHANGED <<budget, disk, touched, moved, loaded>>

\* Every other apply under way sees file f change.
Disturb(f, others) ==
    moved' = [q \in Sets |-> IF q \in others /\ work[q].phase # "none"
                             THEN moved[q] \cup {f} ELSE moved[q]]

\* Mutant: only the files before the failed one are rolled back.
AbandonWritten(p) == [work EXCEPT ![p].phase = "undo", ![p].next = work[p].next - 1]

\* The rest of the apply is skipped and the rollback begins with the last file.
Abandon(p) == [work EXCEPT ![p].phase = "undo", ![p].next = Len(work[p].plan)]

Proceed(p, ok, phase) ==
    work' = IF ok THEN [work EXCEPT ![p].phase = phase] ELSE Abandon(p)

\* Mutant: a failed write does not stop the apply.
WriteOn(p) ==
    LET w == work[p]  e == w.plan[w.next] IN
    /\ w.phase = "write"
    /\ \E replaced \in BOOLEAN :
          /\ work' = IF w.next < Len(w.plan) THEN [work EXCEPT ![p].next = @ + 1]
                     ELSE [work EXCEPT ![p].phase = "validate"]
          /\ IF replaced
             THEN /\ disk' = [disk EXCEPT ![e.path] = e.cand]
                  /\ touched' = [touched EXCEPT ![p] = @ \cup {w.next}]
                  /\ Disturb(e.path, Sets \ {p})
             ELSE UNCHANGED <<disk, touched, moved>>
    /\ UNCHANGED <<budget, rows, reading, gateVars, claim, loaded>>

\* atomic_write_file of the next candidate; it may fail after the replacement.
Write(p) ==
    LET w == work[p]  e == w.plan[w.next] IN
    /\ w.phase = "write"
    /\ \E replaced, reported \in BOOLEAN :
          /\ reported => replaced
          /\ IF reported /\ w.next < Len(w.plan)
             THEN work' = [work EXCEPT ![p].next = @ + 1]
             ELSE Proceed(p, reported, "validate")
          /\ IF replaced
             THEN /\ disk' = [disk EXCEPT ![e.path] = e.cand]
                  /\ touched' = [touched EXCEPT ![p] = @ \cup {w.next}]
                  /\ Disturb(e.path, Sets \ {p})
             ELSE UNCHANGED <<disk, touched, moved>>
    /\ UNCHANGED <<budget, rows, reading, gateVars, claim, loaded>>

Valid(config) == \A f \in Files : config[f] \notin Bad

\* nginx -t: it may be missing or time out, and it never accepts a bad file.
Validate(p) ==
    /\ work[p].phase = "validate"
    /\ \E ok \in BOOLEAN : (ok => Valid(disk)) /\ Proceed(p, ok, "reload")
    /\ UNCHANGED <<budget, disk, rows, reading, gateVars, history>>

\* How much of p the configuration on disk holds.
Mixture(p) ==
    LET plan == work[p].plan IN
    CASE moved[p] # {} -> "foreign"
      [] moved[p] = {} /\ \A i \in 1..Len(plan) : disk[plan[i].path] = plan[i].cand -> "new"
      [] moved[p] = {} /\ Unchanged(plan) /\
            \E i \in 1..Len(plan) : disk[plan[i].path] # plan[i].cand -> "old"
      [] OTHER -> "mixed"

\* systemctl reload: nginx keeps its configuration when the new one is not
\* valid, and may load the new one although the call failed or timed out.
Loads(p, taken) ==
    /\ taken => Valid(disk)
    /\ loaded' = IF taken THEN [loaded EXCEPT ![p] = @ \cup {Mixture(p)}] ELSE loaded

Reload(p) ==
    /\ work[p].phase = "reload"
    /\ \E ok, taken \in BOOLEAN :
          /\ ok => taken \/ ~Valid(disk)
          /\ Loads(p, taken)
          /\ Proceed(p, ok, "health")
    /\ UNCHANGED <<budget, disk, rows, reading, gateVars, claim, touched, moved>>

\* systemctl is-active
Health(p) ==
    /\ work[p].phase = "health"
    /\ \/ work' = [work EXCEPT ![p].phase = "report", ![p].ok = TRUE]
       \/ work' = Abandon(p)
    /\ UNCHANGED <<budget, disk, rows, reading, gateVars, history>>

\* What the rollback leaves in place of entry e.
Undone(e) == IF e.existed THEN Decoded[e.original] ELSE Absent

\* The rollback of one file, the last one first, written or not: a file that
\* existed is written, one that did not is removed if it is there.
Undo(p) ==
    LET w == work[p]  e == w.plan[w.next] IN
    /\ w.phase = "undo" /\ w.next > 0
    /\ \E replaced, reported \in BOOLEAN :
          /\ reported => replaced
          /\ ~e.existed => reported = replaced
          /\ ~e.existed /\ disk[e.path] = Absent => reported
          /\ work' = [work EXCEPT ![p].next = @ - 1, ![p].restored = @ /\ reported]
          /\ IF replaced
             THEN /\ disk' = [disk EXCEPT ![e.path] = Undone(e)]
                  /\ Disturb(e.path, Sets \ {p})
             ELSE UNCHANGED <<disk, moved>>
    /\ UNCHANGED <<budget, rows, reading, gateVars, claim, touched, loaded>>

\* The service is reloaded whatever the rollback achieved.
UndoReload(p) ==
    /\ work[p].phase = "undo" /\ work[p].next = 0
    /\ \E taken \in BOOLEAN : Loads(p, taken)
    /\ work' = [work EXCEPT ![p].phase = "report"]
    /\ UNCHANGED <<budget, disk, rows, reading, gateVars, claim, touched, moved>>

\* Mutant: whatever was not rolled back is a success.
OutcomeBlind(w) == IF w.restored THEN "rolled_back" ELSE "completed"

Outcome(w) == CASE w.ok -> "completed"
                [] ~w.ok /\ w.restored -> "rolled_back"
                [] OTHER -> "failed"

ApplyFinish(p) ==
    /\ work[p].phase = "report"
    /\ \E saved \in BOOLEAN :
          Commit(saved, IF Stored(Cleaned[p])
                        THEN [Cleaned EXCEPT ![p] = [NoRow EXCEPT !.state = Outcome(work[p])]]
                        ELSE Cleaned)
    /\ work' = [work EXCEPT ![p] = NoWork]
    /\ moved' = [moved EXCEPT ![p] = {}]
    /\ loaded' = [loaded EXCEPT ![p] = {}]
    /\ UNCHANGED <<budget, disk, reading, gateVars, claim, touched>>

-----------------------------------------------------------------------------
(* The world around the change sets                                        *)

Lapse(p) ==
    /\ Stored(rows[p]) /\ ~rows[p].due
    /\ rows' = [rows EXCEPT ![p].due = TRUE]
    /\ UNCHANGED <<budget, disk, reading, work, gateVars, history>>

LoseToken(s, t) ==
    /\ t \in live[s]
    /\ Gate!Lose(s, {t})
    /\ UNCHANGED <<budget, disk, rows, reading, work, history>>

Crash(s) ==
    /\ Gate!Lose(s, live[s])
    /\ work' = [p \in Sets |-> IF work[p].server = s THEN NoWork ELSE work[p]]
    /\ moved' = [p \in Sets |-> IF work[p].server = s THEN {} ELSE moved[p]]
    /\ loaded' = [p \in Sets |-> IF work[p].server = s THEN {} ELSE loaded[p]]
    /\ UNCHANGED <<budget, disk, rows, reading, claim, touched>>

HostChanges(b) ==
    /\ budget' = b
    /\ UNCHANGED <<disk, rows, reading, work, gateVars, history>>

\* Somebody else edits, creates or deletes a configuration file.
Edit(f, c) ==
    /\ disk[f] # c
    /\ disk' = [disk EXCEPT ![f] = c]
    /\ Disturb(f, Sets)
    /\ UNCHANGED <<budget, rows, reading, work, gateVars, claim, touched, loaded>>

Progress(p) ==
    \/ Write(p) \/ Validate(p) \/ Reload(p) \/ Health(p)
    \/ Undo(p) \/ UndoReload(p) \/ ApplyFinish(p)

Next ==
    \/ Browse
    \/ \E p \in Sets :
          \/ Begin(p)
          \/ \E f \in Files, c \in Candidates : StageRead(p, f, c)
          \/ StageCommit(p)
          \/ Progress(p)
          \/ Lapse(p)
          \/ \E s \in Servers, t \in Tokens : RequestToken(s, p, t) \/ SpendToken(s, p, t)
          \/ \E s \in Servers, t \in Tokens \cup {NoToken} : ApplyClaim(s, p, t)
    \/ \E s \in Servers : Crash(s) \/ \E t \in Tokens : LoseToken(s, t)
    \/ \E b \in Budgets : HostChanges(b)
    \/ \E f \in Files, c \in Contents \cup {Absent} : Edit(f, c)

Spec == Init /\ [][Next]_vars

\* A thread that holds a claim runs on unless its process dies, time passes,
\* and tools that open the store keep being called.
FairSpec ==
    /\ Spec
    /\ WF_vars(Browse)
    /\ \A p \in Sets : WF_vars(Progress(p)) /\ WF_vars(Lapse(p))

-----------------------------------------------------------------------------
(* Properties                                                              *)

\* What an apply writes is what was confirmed: the paths, baselines and
\* candidates of the plan are those its token was issued for, and the token
\* confirmed nothing else.  (All state is typed.)
ClaimedAsConfirmed ==
    /\ TypeOK
    /\ \A p \in Sets : claim[p].mode = "controlled" =>
           /\ grant[claim[p].token] = Demand(p, claim[p].plan)
           /\ \A s \in Servers : claim[p].token \notin live[s]
           /\ \A q \in Sets \ {p} : claim[q].token # claim[p].token

\* An apply about to record "rolled_back" has put every file of the set back to
\* the content it was reviewed against, unless somebody else changed that file
\* meanwhile.  That is the state that is stored and the flag of the reply, whose
\* status says so of a failed rollback as well.
RollbackRestores ==
    \A p \in Sets : work[p].phase = "report" /\ Outcome(work[p]) = "rolled_back" =>
        \A i \in 1..Len(work[p].plan) :
            LET e == work[p].plan[i] IN
                disk[e.path] = e.baseline \/ e.path \in moved[p]

\* What was written was confirmed, and an apply about to report "completed" or
\* "rolled_back" never made nginx run a mixture of its old and new files, and
\* one about to report "completed" made it run all of the new ones, foreign
\* changes apart.
ServedWhole ==
    /\ ClaimedAsConfirmed
    /\ \A p \in Sets : work[p].phase = "report" /\ Outcome(work[p]) # "failed" =>
          /\ "mixed" \notin loaded[p]
          /\ work[p].ok /\ moved[p] = {} => "new" \in loaded[p]

\* A write or a rollback destroys only content that was reviewed or written by
\* the set itself, unless that very file was changed after the claim.
OverwriteOnlyInWindow ==
    [][\A p \in Sets : work'[p] # work[p] => \A f \in Files : disk'[f] # disk[f] =>
           \/ f \in moved[p]
           \/ \E i \in 1..Len(claim[p].plan) :
                 LET e == claim[p].plan[i] IN e.path = f /\ disk[f] \in {e.baseline, e.cand}]_vars

\* A change set lives the life promised by DraftLifecycle; one that was rolled
\* back has failed.
Phase(r) == CASE r.state = "staging" -> "open"
              [] r.state = "applying" -> "claimed"
              [] r.state = "rolled_back" -> "failed"
              [] OTHER -> r.state

Extent(p) == CASE touched[p] = {} -> "none"
               [] touched[p] # {} /\ touched[p] = 1..Len(claim[p].plan) -> "all"
               [] OTHER -> "some"

Lifecycle == INSTANCE DraftLifecycle WITH
    Drafts <- Sets,
    phase <- [p \in Sets |-> Phase(rows[p])],
    effects <- [p \in Sets |-> Extent(p)]

\* Besides, nothing but what was reviewed or written by the set is overwritten,
\* and no claim stays open for ever: an outcome is stored, or the lease runs
\* out and the next call to the store marks it uncertain.
LifecycleResolves ==
    /\ Lifecycle!Spec
    /\ OverwriteOnlyInWindow
    /\ \A p \in Sets : rows[p].state = "applying" ~> rows[p].state # "applying"
=============================================================================
