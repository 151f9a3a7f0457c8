------------------------------- MODULE Missions -------------------------------
(***************************************************************************)
(* src/mission_tasks.py and src/mission_control.py: an operator assigns    *)
(* missions to agents, agents report and submit workspaces, the operator   *)
(* imports a workspace as a review, checks, approves and applies it.       *)
(*                                                                         *)
(* Every operation of the operator holds the administration lock of        *)
(* gateway.py, so no two of them overlap; but it changes several files one *)
(* after the other - review, ledger, feed - and may die, or fail, between  *)
(* two of them.  An operation is one action that chooses how far it gets.  *)
(* Only a test run and an apply, during which agents and other programs go *)
(* on, are several steps: `busy` then holds the lock.                      *)
(*                                                                         *)
(* Abstractions.  A workspace is imported at most once, so a review has    *)
(* the name of its workspace, and its digest says which workspace, files   *)
(* and mission it binds.  A mission may need static checks, isolated       *)
(* tests or both; each is one result here.  An operation that is given an  *)
(* old revision only refreshes.  A blocked mission is like a working one.  *)
(***************************************************************************)
EXTENDS Naturals, Sequences, FiniteSets

CONSTANTS
    Agents, Missions, Spaces,   \* agents, missions, workspaces
    Files, Contents,            \* production files and their contents
    Needs,          \* the required_checks that occur: sets of "static", "test"
    Phases,         \* the phases that agents report: "working", "needs_review"
    MaxActive,      \* MAX_ACTIVE_PER_AGENT
    MaxRevision,    \* bound on the revisions of a mission
    MaxMishaps,     \* bound on what goes wrong, see Mishap
    MaxDue,         \* bound on the missions that outlive their expiry
    None

VARIABLES
    live,       \* the agents whose identity and project are in order
    due,        \* the missions past their expiry
    stale,      \* the workspaces past theirs; a review expires with its workspace
    disk,       \* production
    space,      \* space[w]: the submitted workspace w
    typing,     \* typing[a]: a report_mission_progress of a between read and write
    mail,       \* mail[a][m]: the report of a about m
    ledger,     \* ledger[m]: the record of mission m
    feed,       \* feed[a][m]: the copy of it that a may read
    review,     \* review[w]: the record of the review of w
    busy,       \* the test run or the apply under way
    mishaps,    \* how many things went wrong so far
    history     \* history: see History

vars == <<live, due, stale, disk, space, typing, mail, ledger, feed, review, busy, mishaps,
          history>>
world == <<live, due, stale, disk>>
agentSide == <<space, typing, mail>>

Final == {"done", "cancelled", "expired"}
Open == {"queued", "working", "needs_review", "ready_to_apply", "verifying",
         "needs_attention"}

\* The files a workspace is about; a content may stand for the file's absence.
Plan == UNION {[s -> [base : Contents, cand : Contents]] : s \in (SUBSET Files) \ {{}}}
Space == [agent : Agents, files : Plan]
Report == [epoch : Nat, rev : Nat, phase : Phases, space : Spaces \cup {None}]
Draft == [mission : Missions, report : Report]

\* of: the review the results are about; inputs: what a passed test ran on.
Checks == [of : Spaces, static : {"none", "failed", "passed"},
           test : {"none", "running", "failed", "passed"},
           inputs : [Files -> Contents] \cup {None}]

Task == [state : Open \cup Final, rev : Nat, agent : Agents, epoch : Nat,
         needs : SUBSET {"static", "test"}, space : Spaces \cup {None},
         review : Spaces \cup {None}, rstate : {"none", "pending", "approved", "rejected",
         "applying", "completed", "uncertain", "superseded"}, checks : Checks \cup {None},
         verified : BOOLEAN, last : Report \cup {None}, error : BOOLEAN]

Review == [state : {"pending", "approved", "rejected", "applying", "completed", "uncertain",
           "superseded"}, agent : Agents, mission : Missions \cup {None}, files : Plan]

Busy == {[op |-> "idle"]}
    \cup [op : {"test"}, mission : Missions, inputs : [Files -> Contents]]
    \cup [op : {"apply"}, space : Spaces, todo : SUBSET Files]
Idle == [op |-> "idle"]

\* shown: what was approved; claimed: the reviews whose apply began; withdrawn:
\* those whose mission was cancelled or returned; passed: the passed tests and
\* their inputs; taken: the mission that began to import a workspace; acked: the
\* revision of the last report that took effect.
History == [shown : [Spaces -> Plan \cup {None}],
            claimed : SUBSET Spaces,
            withdrawn : SUBSET Spaces,
            passed : SUBSET (Spaces \X Missions \X [Files -> Contents]),
            taken : [Spaces -> Missions \cup {None}],
            acked : [Missions -> Nat]]

ASSUME MissionsAssumption ==
    /\ Needs \subseteq SUBSET {"static", "test"}
    /\ Phases \subseteq {"working", "needs_review"}
    /\ {MaxActive, MaxRevision, MaxMishaps, MaxDue} \subseteq Nat
    /\ None \notin Agents \cup Missions \cup Spaces \cup Contents
    /\ None \notin Plan /\ None \notin [Files -> Contents]
    /\ None \notin Space /\ None \notin Report /\ None \notin Draft
    /\ None \notin Checks /\ None \notin Task /\ None \notin Review

TypeOK ==
    /\ live \in SUBSET Agents
    /\ due \in SUBSET Missions
    /\ stale \in SUBSET Spaces
    /\ disk \in [Files -> Contents]
    /\ space \in [Spaces -> Space \cup {None}]
    /\ typing \in [Agents -> Draft \cup {None}]
    /\ mail \in [Agents -> [Missions -> Report \cup {None}]]
    /\ ledger \in [Missions -> Task \cup {None}]
    /\ feed \in [Agents -> [Missions -> Task \cup {None}]]
    /\ review \in [Spaces -> Review \cup {None}]
    /\ busy \in Busy
    /\ mishaps \in 0 .. MaxMishaps
    /\ history \in History

Init ==
    /\ live = Agents
    /\ due = {}
    /\ stale = {}
    /\ disk \in [Files -> Contents]
    /\ space = [w \in Spaces |-> None]
    /\ typing = [a \in Agents |-> None]
    /\ mail = [a \in Agents |-> [m \in Missions |-> None]]
    /\ ledger = [m \in Missions |-> None]
    /\ feed = [a \in Agents |-> [m \in Missions |-> None]]
    /\ review = [w \in Spaces |-> None]
    /\ busy = Idle
    /\ mishaps = 0
    /\ history = [shown |-> [w \in Spaces |-> None], claimed |-> {}, withdrawn |-> {},
                  passed |-> {}, taken |-> [w \in Spaces |-> None],
                  acked |-> [m \in Missions |-> 0]]

\* An export, an operation or a write that fails or is cut short, an edit by
\* others, an identity that comes or goes: MaxMishaps of these in a behaviour.
Mishap == mishaps < MaxMishaps /\ mishaps' = mishaps + 1
Smooth == UNCHANGED mishaps

-----------------------------------------------------------------------------
(* Definitions that a mistake in the code would lead to; each breaks one of  *)
(* the properties.                                                           *)

\* A production that looks right is enough.
CompletedAny(m) == LET w == ledger[m].review IN w # None /\ review[w] # None

\* An interrupted apply may be tried again.
SettledAgain(r) == IF r # None /\ r.state = "applying" THEN [r EXCEPT !.state = "approved"] ELSE r

\* The evidence is about the reviewed files only.
EvidentFiles(w) == \A f \in DOMAIN review[w].files : disk[f] = review[w].files[f].base

\* A review that another task has is taken.
FreeAny(r, m) == r.state = "pending"

\* A commit keeps the revision.
RevisedNot(t) == t

-----------------------------------------------------------------------------
(* Agents                                                                  *)

\* _baseline of every file.
Unmoved(files) == \A f \in DOMAIN files : disk[f] = files[f].base

\* _workspace with its baseline check: w is a's, valid and based on production.
Valid(a, w) ==
    /\ space[w] # None /\ w \notin stale
    /\ space[w].agent = a /\ a \in live
    /\ Unmoved(space[w].files)

\* A workspace is created, staged and submitted; from then on the tools leave
\* it alone.  One that changes nothing cannot be submitted.
Submit(a, w, cand) ==
    /\ a \in live /\ space[w] = None
    /\ \E f \in DOMAIN cand : cand[f] # disk[f]
    /\ space' = [space EXCEPT ![w] = [agent |-> a,
           files |-> [f \in DOMAIN cand |-> [base |-> disk[f], cand |-> cand[f]]]]]
    /\ Smooth
    /\ UNCHANGED <<world, typing, mail, ledger, feed, review, busy, history>>

\* The file of a workspace is the agent's: it may come to say something else.
Alter(w, f, c) ==
    /\ space[w] # None
    /\ f \in DOMAIN space[w].files /\ c # space[w].files[f].cand
    /\ space' = [space EXCEPT ![w].files[f].cand = c]
    /\ Mishap
    /\ UNCHANGED <<world, typing, mail, ledger, feed, review, busy, history>>

\* report_mission_progress reads the assignment and looks at the workspace ...
StartReport(a, m, phase, w) ==
    LET t == feed[a][m] IN
    /\ a \in live /\ typing[a] = None
    /\ t # None
    /\ t.review = None /\ t.state \notin Final /\ m \notin due
    /\ IF phase = "needs_review" THEN w # None /\ Valid(a, w) ELSE w = None
    /\ typing' = [typing EXCEPT ![a] = [mission |-> m, report |->
           [epoch |-> t.epoch, rev |-> t.rev, phase |-> phase, space |-> w]]]
    /\ Smooth
    /\ UNCHANGED <<world, space, mail, ledger, feed, review, busy, history>>

\* ... and writes the report; or fails.
SendReport(a) ==
    /\ typing[a] # None
    /\ \/ mail' = [mail EXCEPT ![a][typing[a].mission] = typing[a].report] /\ Smooth
       \/ UNCHANGED mail /\ Mishap
    /\ typing' = [typing EXCEPT ![a] = None]
    /\ UNCHANGED <<world, space, ledger, feed, review, busy, history>>

-----------------------------------------------------------------------------
(* Refresh                                                                 *)

\* _review: an apply that did not come back is uncertain.
Settled(r) == IF r # None /\ r.state = "applying" THEN [r EXCEPT !.state = "uncertain"] ELSE r

ShownAs == [pending |-> "needs_review", approved |-> "ready_to_apply", completed |-> "verifying",
            rejected |-> "needs_attention", uncertain |-> "needs_attention",
            superseded |-> "needs_attention"]

\* The report is new and was written for this assignment and revision.
Fits(m, r) ==
    LET t == ledger[m] IN r # None /\ r # t.last /\ r.epoch = t.epoch /\ r.rev = t.rev

Reported(m) == mail[ledger[m].agent][m]

Ongoing(m) == ledger[m].state \notin Final /\ m \notin due

\* The report takes effect.
Acknowledged(m) ==
    LET t == ledger[m]  r == Reported(m) IN
    /\ Ongoing(m) /\ t.agent \in live /\ t.review = None
    /\ Fits(m, r)
    /\ r.phase = "needs_review" => Valid(t.agent, r.space)

\* The identity or the review cannot be read.
Missing(m) ==
    LET t == ledger[m] IN t.agent \notin live \/ (t.review # None /\ review[t.review] = None)

Reconciled(m) ==
    LET t == ledger[m]
        r == Reported(m)
        now == Settled(review[t.review]).state
    IN  CASE t.state \in Final -> t
          [] t.state \notin Final /\ m \in due -> [t EXCEPT !.state = "expired"]
          [] Ongoing(m) /\ Missing(m) -> [t EXCEPT !.error = TRUE]
          [] Ongoing(m) /\ ~Missing(m) /\ t.review # None ->
                [t EXCEPT !.rstate = now, !.state = ShownAs[now], !.error = FALSE]
          [] Acknowledged(m) ->
                [t EXCEPT !.state = r.phase, !.space = r.space, !.last = r, !.error = FALSE]
          [] OTHER -> [t EXCEPT !.error = Fits(m, r)]

\* _refresh: what changed is saved under a new revision.
Refreshed(m) ==
    IF Reconciled(m) = ledger[m] THEN ledger[m]
    ELSE [Reconciled(m) EXCEPT !.rev = ledger[m].rev + 1]

\* The refresh of the missions of ms.  An export may fail, or be missed by an
\* operation that dies after the ledger was written.
Refreshing(ms) ==
    /\ \A m \in ms : Refreshed(m).rev <= MaxRevision
    /\ ledger' = [m \in Missions |-> IF m \in ms THEN Refreshed(m) ELSE ledger[m]]
    /\ \E sent \in SUBSET ms :
           /\ feed' = [a \in Agents |-> [m \in Missions |->
                  IF m \in sent /\ ledger[m].agent = a THEN Refreshed(m) ELSE feed[a][m]]]
           /\ IF sent = ms THEN Smooth ELSE Mishap
    /\ review' = [w \in Spaces |->
           IF \E m \in ms : ledger[m].review = w THEN Settled(review[w]) ELSE review[w]]
    /\ history' = [history EXCEPT !.acked = [m \in Missions |->
           IF m \in ms /\ Acknowledged(m) THEN Reported(m).rev ELSE @[m]]]

Known == {m \in Missions : ledger[m] # None}

\* list_mission_tasks and inspect_mission_task.
Refresh(ms) ==
    /\ busy = Idle
    /\ Refreshing(ms)
    /\ UNCHANGED <<world, agentSide, busy>>

-----------------------------------------------------------------------------
(* The operator's operations on a mission                                  *)

\* _current, when the operator has seen the latest revision.
Current(m) ==
    /\ busy = Idle
    /\ m \in Known /\ ledger[m].state \notin Final
    /\ Refreshed(m) = ledger[m]
    /\ ledger[m].rev < MaxRevision

Identified(m) == Current(m) /\ ledger[m].agent \in live

\* _save of a record: ledger first, then the feed, if that comes to pass.
Export(m, t) == [feed EXCEPT ![t.agent][m] = t]

Save(m, t) ==
    /\ ledger' = [ledger EXCEPT ![m] = t]
    /\ \/ feed' = Export(m, t) /\ Smooth
       \/ UNCHANGED feed /\ Mishap

Revised(t) == [t EXCEPT !.rev = @ + 1]

\* _commit after _current, whose refresh may have exported the record as it was.
Commit(m, t) ==
    /\ ledger' = [ledger EXCEPT ![m] = Revised(t)]
    /\ \/ feed' = Export(m, Revised(t)) /\ Smooth
       \/ feed' \in {feed, Export(m, ledger[m])} /\ Mishap

Load(a) == Cardinality({m \in Known : ledger[m].agent = a /\ ledger[m].state \notin Final})

Create(m, a, needs) ==
    /\ busy = Idle
    /\ ledger[m] = None /\ a \in live
    /\ Load(a) < MaxActive
    /\ Save(m, [state |-> "queued", rev |-> 1, agent |-> a, epoch |-> 0, needs |-> needs,
                space |-> None, review |-> None, rstate |-> "none", checks |-> None,
                verified |-> FALSE, last |-> None, error |-> FALSE])
    /\ UNCHANGED <<world, agentSide, review, busy, history>>

\* The old agent's copy goes first, then the ledger, then the new agent's copy.
Removed(m) == [feed EXCEPT ![ledger[m].agent][m] = None]

Reassign(m, a) ==
    LET t == ledger[m]
        new == [t EXCEPT !.agent = a, !.epoch = @ + 1, !.state = "queued", !.space = None,
                         !.last = None, !.rev = @ + 1]
    IN  /\ Current(m)
        /\ t.review = None /\ a # t.agent /\ a \in live
        /\ Load(a) < MaxActive
        /\ \/ feed' = Removed(m) /\ ledger' \in {ledger, [ledger EXCEPT ![m] = new]} /\ Mishap
           \/ /\ ledger' = [ledger EXCEPT ![m] = new]
              /\ feed' = [Removed(m) EXCEPT ![a][m] = new]
              /\ Smooth
        /\ UNCHANGED <<world, agentSide, review, busy, history>>

\* _import_review: the review there is, or a new one; written without its mission.
New(w) == [state |-> "pending", agent |-> space[w].agent, mission |-> None,
           files |-> space[w].files]

Imported(w) == IF review[w] = None THEN New(w) ELSE Settled(review[w])

\* A task takes only a pending review that no other task has.
Free(r, m) == r.state = "pending" /\ r.mission \in {None, m}

\* The review is written, then written again with its mission, then the ledger
\* is; the operation may end after each.
Import(m) ==
    LET t == ledger[m]  w == t.space IN
    /\ Identified(m)
    /\ t.state = "needs_review" /\ t.review = None /\ w # None
    /\ Valid(t.agent, w)
    /\ history' = IF Free(Imported(w), m) THEN [history EXCEPT !.taken[w] = m] ELSE history
    /\ \/ review' = [review EXCEPT ![w] = Imported(w)] /\ UNCHANGED <<ledger, feed>> /\ Mishap
       \/ /\ Free(Imported(w), m)
          /\ review' = [review EXCEPT ![w] = [Imported(w) EXCEPT !.mission = m]]
          /\ \/ UNCHANGED <<ledger, feed>> /\ Mishap
             \/ Commit(m, [t EXCEPT !.review = w, !.rstate = "pending", !.checks = None,
                                    !.verified = FALSE])
    /\ UNCHANGED <<world, agentSide, busy>>

\* import_mission_review, when no mission of the agent has the workspace.  When
\* one has, or the refresh changes one, that is an action Refresh.
StandaloneImport(a, w) ==
    /\ busy = Idle
    /\ \A m \in Known : ledger[m].agent = a => ledger[m].space # w /\ Refreshed(m) = ledger[m]
    /\ Valid(a, w)
    /\ review' = [review EXCEPT ![w] = Imported(w)]
    /\ Smooth
    /\ UNCHANGED <<world, agentSide, ledger, feed, busy, history>>

-----------------------------------------------------------------------------
(* Checks, tests, verification                                             *)

\* _assert_review_allowed, for a review that a mission has.
Allowed(w) ==
    LET m == review[w].mission  t == ledger[m] IN
    /\ t.state \notin Final /\ m \notin due
    /\ t.review = w /\ t.agent = review[w].agent
    /\ t.agent \in live

\* _review_live
ReviewLive(w) ==
    LET r == review[w] IN
    /\ r.mission # None => Allowed(w)
    /\ r.agent \in live /\ w \notin stale
    /\ Unmoved(r.files)

\* The checks of the review of t, begun anew when they were another's.
ChecksOf(t) ==
    IF t.checks # None /\ t.checks.of = t.review THEN t.checks
    ELSE [of |-> t.review, static |-> "none", test |-> "none", inputs |-> None]

Checkable(m) ==
    LET t == ledger[m] IN
    /\ Identified(m)
    /\ t.review # None /\ review[t.review].state \in {"pending", "approved"}
    /\ ReviewLive(t.review)

\* run_mission_task_check; what has passed is not parsed again.
Check(m) ==
    LET t == ledger[m] IN
    /\ Checkable(m)
    /\ \E result \in IF "static" \in t.needs /\ ChecksOf(t).static # "passed"
                     THEN {"failed", "passed"} ELSE {ChecksOf(t).static} :
           Commit(m, [t EXCEPT !.checks = [ChecksOf(t) EXCEPT !.static = result]])
    /\ UNCHANGED <<world, agentSide, review, busy, history>>

\* run_mission_task_tests: an older pass is put away, the tree is copied ...
TestStart(m) ==
    LET t == ledger[m] IN
    /\ Checkable(m) /\ "test" \in t.needs
    /\ t.rev + 1 < MaxRevision
    /\ Commit(m, [t EXCEPT !.checks = [ChecksOf(t) EXCEPT !.test = "running", !.inputs = None]])
    /\ busy' = [op |-> "test", mission |-> m, inputs |-> disk]
    /\ UNCHANGED <<world, agentSide, review, history>>

\* ... the container reports, and the inputs and the review are looked at again.
Conclusive(m) == disk = busy.inputs /\ ReviewLive(ledger[m].review)

TestEnd(pass) ==
    LET m == busy.mission  t == ledger[m] IN
    /\ busy.op = "test"
    /\ pass => Conclusive(m)
    /\ Save(m, Revised([t EXCEPT !.checks.test = IF pass THEN "passed" ELSE "failed",
                                 !.checks.inputs = IF pass THEN busy.inputs ELSE None]))
    /\ busy' = Idle
    /\ history' = IF pass THEN [history EXCEPT !.passed = @ \cup {<<t.review, m, busy.inputs>>}]
                  ELSE history
    /\ UNCHANGED <<world, agentSide, review>>

\* _verify: production is what the review of m, completely applied, says.
Completed(m) ==
    LET w == ledger[m].review IN w # None /\ review[w] # None /\ review[w].state = "completed"

Matches(m) ==
    LET files == review[ledger[m].review].files IN
    \A f \in DOMAIN files : disk[f] = files[f].cand

Verify(m) ==
    /\ Identified(m) /\ Completed(m)
    /\ Commit(m, [ledger[m] EXCEPT !.verified = Matches(m)])
    /\ UNCHANGED <<world, agentSide, review, busy, history>>

Finish(m) ==
    /\ Identified(m) /\ ledger[m].verified
    /\ Completed(m) /\ Matches(m)
    /\ Commit(m, [ledger[m] EXCEPT !.state = "done"])
    /\ UNCHANGED <<world, agentSide, review, busy, history>>

Cancel(m) ==
    LET t == ledger[m] IN
    /\ Current(m)
    /\ t.review # None =>
           review[t.review] # None /\ review[t.review].state \notin {"completed", "uncertain"}
    /\ Commit(m, [t EXCEPT !.state = "cancelled"])
    /\ history' = [history EXCEPT !.withdrawn = @ \cup
           {w \in Spaces : review[w] # None /\ review[w].mission = m}]
    /\ UNCHANGED <<world, agentSide, review, busy>>

\* return_mission_task: the review goes first; the ledger may not follow.
Withdrawn(r) == [r EXCEPT !.state = "superseded"]

Return(m) ==
    LET t == ledger[m]  w == t.review IN
    /\ Identified(m)
    /\ w # None /\ review[w].state \in {"pending", "approved", "rejected", "superseded"}
    /\ review' = [review EXCEPT ![w] = Withdrawn(@)]
    /\ \/ UNCHANGED <<ledger, feed>> /\ Mishap
       \/ Commit(m, [t EXCEPT !.review = None, !.rstate = "none", !.space = None,
                              !.checks = None, !.verified = FALSE, !.state = "working",
                              !.last = None])
    /\ history' = [history EXCEPT !.withdrawn = @ \cup {w}]
    /\ UNCHANGED <<world, agentSide, busy>>

-----------------------------------------------------------------------------
(* The operator's operations on a review                                   *)

\* What require_checks asks of the mission of w, its evidence aside ...
Covered(w) ==
    LET t == ledger[review[w].mission]  c == t.checks IN
    /\ c # None /\ c.of = w
    /\ "static" \in t.needs => c.static = "passed"
    /\ "test" \in t.needs => c.test = "passed"

\* ... and of the evidence: the tree is still what was tested.
Evident(w) ==
    LET t == ledger[review[w].mission] IN
    "test" \in t.needs => t.checks.inputs = disk /\ Unmoved(review[w].files)

Passes(w) == review[w].mission # None => Allowed(w) /\ Covered(w) /\ Evident(w)

\* Evidence that is stale is struck from the ledger, whatever else was asked.
Invalidate(w) ==
    LET m == review[w].mission IN
    /\ busy = Idle
    /\ review[w] # None /\ m # None
    /\ review[w].state \in {"pending", "approved"}
    /\ review[w].state = "pending" => ReviewLive(w)
    /\ Allowed(w) /\ Covered(w) /\ ~Evident(w)
    /\ ledger[m].rev < MaxRevision
    /\ Save(m, Revised([ledger[m] EXCEPT !.checks.test = "failed", !.checks.inputs = None]))
    /\ UNCHANGED <<world, agentSide, review, busy, history>>

Approve(w) ==
    /\ busy = Idle
    /\ review[w] # None /\ review[w].state = "pending"
    /\ ReviewLive(w) /\ Passes(w)
    /\ review' = [review EXCEPT ![w].state = "approved"]
    /\ history' = [history EXCEPT !.shown[w] = review[w].files]
    /\ Smooth
    /\ UNCHANGED <<world, agentSide, ledger, feed, busy>>

Reject(w) ==
    /\ busy = Idle
    /\ review[w] # None /\ review[w].state = "pending"
    /\ review' = [review EXCEPT ![w].state = "rejected"]
    /\ Smooth
    /\ UNCHANGED <<world, agentSide, ledger, feed, busy, history>>

\* apply_mission_review: the claim is written before the first file.
Claim(w) ==
    /\ busy = Idle
    /\ review[w] # None /\ review[w].state = "approved"
    /\ Passes(w) /\ ReviewLive(w)
    /\ review' = [review EXCEPT ![w].state = "applying"]
    /\ busy' = [op |-> "apply", space |-> w, todo |-> DOMAIN review[w].files]
    /\ history' = [history EXCEPT !.claimed = @ \cup {w}]
    /\ Smooth
    /\ UNCHANGED <<world, agentSide, ledger, feed>>

Candidate(w, f) == review[w].files[f].cand

\* One file: compared with its baseline and, if the plan changes it, written.
Write(f) ==
    LET w == busy.space IN
    /\ busy.op = "apply" /\ f \in busy.todo
    /\ disk[f] = review[w].files[f].base
    /\ disk' = [disk EXCEPT ![f] = Candidate(w, f)]
    /\ busy' = [busy EXCEPT !.todo = @ \ {f}]
    /\ Smooth
    /\ UNCHANGED <<live, due, stale, agentSide, ledger, feed, review, history>>

\* It moved, or the write failed, which may be after the file was replaced.
WriteFails(f) ==
    LET w == busy.space IN
    /\ busy.op = "apply" /\ f \in busy.todo
    /\ IF disk[f] # review[w].files[f].base THEN UNCHANGED disk /\ Smooth
       ELSE disk' \in {disk, [disk EXCEPT ![f] = Candidate(w, f)]} /\ Mishap
    /\ review' = [review EXCEPT ![w].state = "uncertain"]
    /\ busy' = Idle
    /\ UNCHANGED <<live, due, stale, agentSide, ledger, feed, history>>

Complete ==
    /\ busy.op = "apply" /\ busy.todo = {}
    /\ review' = [review EXCEPT ![busy.space].state = "completed"]
    /\ busy' = Idle
    /\ Smooth
    /\ UNCHANGED <<world, agentSide, ledger, feed, history>>

\* The operator's process ends during a test or an apply.
Crash ==
    /\ busy # Idle
    /\ busy' = Idle
    /\ Mishap
    /\ UNCHANGED <<world, agentSide, ledger, feed, review, history>>

\* _retain_linked_review
Retained(r) == r.mission # None /\ ledger[r.mission].state \notin Final /\ r.mission \notin due

Prunable(w) == w \in stale /\ Settled(review[w]).state # "uncertain" /\ ~Retained(review[w])

\* list_mission_reviews, which may end after the reviews of ws.
ListReviews(ws) ==
    /\ busy = Idle
    /\ \A w \in ws : review[w] # None
    /\ review' = [w \in Spaces |->
           IF w \notin ws THEN review[w] ELSE IF Prunable(w) THEN None ELSE Settled(review[w])]
    /\ Smooth
    /\ UNCHANGED <<world, agentSide, ledger, feed, busy, history>>

GetReview(w) ==
    /\ busy = Idle
    /\ review[w] # None
    /\ review' = [review EXCEPT ![w] = Settled(@)]
    /\ Smooth
    /\ UNCHANGED <<world, agentSide, ledger, feed, busy, history>>

-----------------------------------------------------------------------------
(* The world                                                               *)

SetLive(a) ==
    /\ live' = IF a \in live THEN live \ {a} ELSE live \cup {a}
    /\ Mishap
    /\ UNCHANGED <<due, stale, disk, agentSide, ledger, feed, review, busy, history>>

MissionDue(m) ==
    /\ m \in Known \ due /\ Cardinality(due) < MaxDue
    /\ due' = due \cup {m}
    /\ Smooth
    /\ UNCHANGED <<live, stale, disk, agentSide, ledger, feed, review, busy, history>>

SpaceStale(w) ==
    /\ space[w] # None /\ w \notin stale
    /\ stale' = stale \cup {w}
    /\ Smooth
    /\ UNCHANGED <<live, due, disk, agentSide, ledger, feed, review, busy, history>>

\* Other programs write to production.
Edit(f, c) ==
    /\ disk[f] # c
    /\ disk' = [disk EXCEPT ![f] = c]
    /\ Mishap
    /\ UNCHANGED <<live, due, stale, agentSide, ledger, feed, review, busy, history>>

Next ==
    \/ \E a \in Agents, w \in Spaces : \E s \in SUBSET Files : \E cand \in [s -> Contents] :
           Submit(a, w, cand)
    \/ \E w \in Spaces, f \in Files, c \in Contents : Alter(w, f, c)
    \/ \E a \in Agents, m \in Missions, phase \in Phases, w \in Spaces \cup {None} :
           StartReport(a, m, phase, w)
    \/ \E a \in Agents : SendReport(a) \/ SetLive(a)
    \/ \E ms \in SUBSET Known : Refresh(ms)
    \/ \E m \in Missions, a \in Agents, needs \in Needs : Create(m, a, needs)
    \/ \E m \in Missions, a \in Agents : Reassign(m, a)
    \/ \E m \in Missions : Import(m) \/ Check(m) \/ TestStart(m) \/ Verify(m) \/ Finish(m)
                           \/ Cancel(m) \/ Return(m) \/ MissionDue(m)
    \/ \E pass \in BOOLEAN : TestEnd(pass)
    \/ \E a \in Agents, w \in Spaces : StandaloneImport(a, w)
    \/ \E w \in Spaces : Invalidate(w) \/ Approve(w) \/ Reject(w) \/ Claim(w) \/ GetReview(w)
                         \/ SpaceStale(w)
    \/ \E f \in Files : Write(f) \/ WriteFails(f)
    \/ Complete \/ Crash
    \/ \E ws \in SUBSET Spaces : ListReviews(ws)
    \/ \E f \in Files, c \in Contents : Edit(f, c)

Spec == Init /\ [][Next]_vars

-----------------------------------------------------------------------------
(* Properties                                                              *)

Claims(w) == busy'.op = "apply" /\ busy'.space = w /\ busy' # busy /\ busy = Idle

\* An apply writes what was shown when the review was approved, whatever the
\* agent has done to its workspace since (apply_mission_review, 689-702).
AppliedAsReviewed ==
    [][\A f \in Files :
           busy.op = "apply" /\ disk'[f] # disk[f] /\ busy' # busy
           => disk'[f] = history.shown[busy.space][f].cand]_vars

\* A report takes effect once: one that lies in the mailbox does not come back
\* when the mission is returned or handed over (_refresh, 274-275).
NoReplay ==
    [][\A m \in Known :
           LET r == ledger'[m].last IN
           r # ledger[m].last /\ r # None => r.rev > history.acked[m]]_vars

\* A review is applied at most once, whatever became of the first attempt: a crash,
\* a failed write, a return, a listing (_review, 501; apply_mission_review, 678).
\* The review of a mission that was cancelled, or that was returned to the agent,
\* is not applied any more (_assert_review_allowed, return_mission_task, 727).
\* Nor does a report take effect twice (NoReplay).
AppliedOnce ==
    /\ NoReplay
    /\ [][\A w \in Spaces : Claims(w) => w \notin history.claimed \cup history.withdrawn]_vars

\* If its mission needs a test, a review is applied only to the tree on which that
\* test passed for this review and mission (_assert_review_allowed, 488-503);
\* and what it writes was shown (AppliedAsReviewed).
ChecksCover ==
    /\ AppliedAsReviewed
    /\ [][\A w \in Spaces :
           LET m == review[w].mission IN
           Claims(w) /\ m # None /\ "test" \in ledger[m].needs
           => <<w, m, disk>> \in history.passed]_vars

\* The review of a mission under way is never pruned, expired or not
\* (list_mission_reviews, 642; _retain_linked_review).
LinkedKept ==
    \A m \in Known :
        ledger[m].state \notin Final /\ ledger[m].review # None /\ m \notin due
        => review[ledger[m].review] # None

\* Whatever was reported, imported, interrupted and tried again, the review that
\* a mission names is its own: no two missions share one, and it stays (LinkedKept)
\* (import_mission_task_review, 471; _import_review, 610).
LinkAgrees ==
    /\ LinkedKept
    /\ \A m \in Known :
        LET w == ledger[m].review IN
        w # None /\ review[w] # None => review[w].mission = m /\ review[w].agent = ledger[m].agent

\* No agent but the assignee has a copy of the mission, after a handoff that was
\* interrupted at any point too (reassign_mission_task, 452-459).  A copy that has
\* the revision of the ledger says what the ledger says, and none has a later one,
\* though exports fail (get_mission_brief, 393-397; _save).
BriefHonest ==
    \A a \in Agents, m \in Missions :
        LET copy == feed[a][m] IN
        copy # None =>
            /\ ledger[m].agent = a
            /\ copy.rev <= ledger[m].rev
            /\ copy.rev = ledger[m].rev => copy = ledger[m]

\* A mission ends as done only when its review was approved and applied, after its
\* test passed (_verify, 667; finish_mission_task, 697-701); and all state is typed.
DoneWasApplied ==
    /\ TypeOK
    /\ \A m \in Known :
           LET w == ledger[m].review IN
           ledger[m].state = "done" =>
               /\ history.shown[w] # None /\ w \in history.claimed
               /\ "test" \in ledger[m].needs => \E d \in [Files -> Contents] : <<w, m, d>> \in history.passed

\* src/README.md, line 103: a workspace claimed by a task cannot be imported
\* through the standalone review flow to bypass task checks.  So a workspace that
\* a mission began to import is applied for that mission only.
TaskNeverBypassed ==
    [][\A w \in Spaces :
           Claims(w) /\ history.taken[w] # None => review[w].mission = history.taken[w]]_vars
=============================================================================
