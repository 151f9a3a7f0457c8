---------------------------- MODULE AgentJobsProofs ----------------------------
(***************************************************************************)
(* Proofs about agent jobs, for any number of jobs and calls, any plans,   *)
(* budgets and limits.                                                     *)
(***************************************************************************)
EXTENDS AgentJobs, TLAPS

Steps(j) == 1..Len(PlanOf[j])

\* The checks of a record are those of its plan, completed in order.
ChecksSound(j, r) ==
    /\ Len(r.checks) = Len(PlanOf[j])
    /\ r.next <= Len(PlanOf[j])
    /\ r.status = "running" => r.next < Len(PlanOf[j])
    /\ \A i \in Steps(j) :
          /\ r.checks[i].status = "completed" <=> i <= r.next
          /\ i > r.next + 1 => r.checks[i].status = "pending"
          /\ r.checks[i].ran \in {0, i}
          /\ r.checks[i].revision <= r.revision

\* The status of a record agrees with its restart.
StatusSound(j, r) ==
    /\ r.status = "absent" => r = Unborn(j)
    /\ r.status \in {"awaiting_confirmation", "action_running"} => r.action = "proposed"
    /\ r.status \in {"verification_pending", "verifying"} => r.action = "executed"
    /\ r.status \in {"awaiting_agent", "completed"} =>
          r.next = Len(PlanOf[j]) \/ (r.healthy /\ r.action = "executed")

Sound(j, r) == r \in Job /\ ChecksSound(j, r) /\ StatusSound(j, r)

RecordsSound == \A j \in Jobs : Sound(j, job[j])

\* What a call relies on: its lease is not newer than the job, and a run that
\* still has the lease is the run of the check that is due.
CallSound(c) ==
    call[c].kind # "idle" =>
        LET r == job[call[c].job] IN
        /\ call[c].job \in Jobs
        /\ 0 < call[c].lease /\ call[c].lease <= r.revision
        /\ call[c].kind = "check" /\ call[c].stage = "run" /\ Owns(c, "running") =>
              call[c].step = r.next + 1

Acts(c, j) == call[c].kind = "action" /\ call[c].job = j

\* A job in which a restart is under way has no other one, now or later, unless
\* that one was blocked.
ActionSound(c, j) ==
    Acts(c, j) =>
        /\ job[j].status \in {"action_running", "action_uncertain", "expired", "evicted"}
        /\ job[j].status = "action_running" => job[j].lease = call[c].lease
        /\ job[j].action # "none"
        /\ call[c].stage \in {"run", "ran"}
        /\ call[c].stage = "run" => restarts[j] = 0
        /\ call[c].stage = "ran" /\ call[c].outcome = "blocked" => restarts[j] = 0
        /\ call[c].stage = "ran" /\ call[c].outcome = "ok" => restarts[j] = 1
        /\ \A e \in Calls : Acts(e, j) => e = c

RestartSound(j) ==
    /\ restarts[j] <= 1
    /\ job[j].action = "none" \/ job[j].status = "awaiting_confirmation" => restarts[j] = 0
    /\ job[j].action = "executed" => restarts[j] = 1

\* Two jobs have a restart under way only when one has outlived its lease.
Exclusive ==
    \A j, k \in Jobs :
        j # k /\ job[j].status = "action_running" /\ job[k].status = "action_running" =>
            job[j].leaseDue \/ job[k].leaseDue

\* A client has seen every result up to its revision.
ViewSound(j) ==
    /\ Len(view[j].results) = Len(PlanOf[j])
    /\ view[j].revision <= job[j].revision
    /\ \A i \in Steps(j) : job[j].checks[i].revision <= view[j].revision =>
           view[j].results[i] = job[j].checks[i].revision

JobsInv ==
    /\ TypeOK
    /\ RecordsSound
    /\ \A c \in Calls : CallSound(c)
    /\ \A c \in Calls, j \in Jobs : ActionSound(c, j)
    /\ \A j \in Jobs : RestartSound(j)
    /\ Exclusive
    /\ \A j \in Jobs : ViewSound(j)

-----------------------------------------------------------------------------
(* The fields of updated records                                           *)

\* One lemma for each way to update a record, and for a call that claims.
LEMMA BumpFields ==
    ASSUME NEW r \in Job
    PROVE  /\ Bump(r) \in Job
           /\ Bump(r).status = r.status /\ Bump(r).revision = r.revision + 1
           /\ Bump(r).next = r.next /\ Bump(r).checks = r.checks
           /\ Bump(r).lease = r.lease /\ Bump(r).leaseDue = r.leaseDue /\ Bump(r).due = r.due
           /\ Bump(r).action = r.action /\ Bump(r).healthy = r.healthy
BY DEF Bump, Job

LEMMA ReleasedFields ==
    ASSUME NEW r \in Job
    PROVE  /\ Released(r) \in Job
           /\ Released(r).status = r.status /\ Released(r).revision = r.revision
           /\ Released(r).next = r.next /\ Released(r).checks = r.checks
           /\ Released(r).lease = 0 /\ Released(r).leaseDue = FALSE /\ Released(r).due = r.due
           /\ Released(r).action = r.action /\ Released(r).healthy = r.healthy
BY DEF Released, NoLease, Job

LEMMA FreedFields ==
    ASSUME NEW r \in Job
    PROVE  LET p == Bump(Released(r)) IN
           /\ p \in Job
           /\ p.status = r.status /\ p.revision = r.revision + 1
           /\ p.next = r.next /\ p.checks = r.checks
           /\ p.lease = 0 /\ p.leaseDue = FALSE /\ p.due = r.due
           /\ p.action = r.action /\ p.healthy = r.healthy
<1> DEFINE m == Released(r)
<1>1. /\ m \in Job
      /\ m.status = r.status /\ m.revision = r.revision
      /\ m.next = r.next /\ m.checks = r.checks
      /\ m.lease = 0 /\ m.leaseDue = FALSE /\ m.due = r.due
      /\ m.action = r.action /\ m.healthy = r.healthy
  BY ReleasedFields
<1> HIDE DEF m
<1> QED
  BY <1>1, BumpFields DEF m

LEMMA StatusFields ==
    ASSUME NEW r \in Job, NEW s \in Statuses
    PROVE  LET q == [r EXCEPT !.status = s] IN
           /\ q \in Job
           /\ q.status = s /\ q.revision = r.revision
           /\ q.next = r.next /\ q.checks = r.checks
           /\ q.lease = r.lease /\ q.leaseDue = r.leaseDue /\ q.due = r.due
           /\ q.action = r.action /\ q.healthy = r.healthy
BY DEF Job

LEMMA LeaseFields ==
    ASSUME NEW r \in Job, NEW s \in Statuses
    PROVE  LET q == Lease(r, s) IN
           /\ q \in Job
           /\ q.status = s /\ q.revision = r.revision + 1
           /\ q.next = r.next /\ q.checks = r.checks
           /\ q.lease = r.revision + 1 /\ q.leaseDue = FALSE /\ q.due = r.due
           /\ q.action = r.action /\ q.healthy = r.healthy
<1>1. Bump(r) \in Job
  BY BumpFields
<1> QED
  BY <1>1, BumpFields DEF Lease, Job

LEMMA ClaimedFields ==
    ASSUME NEW k \in Check
    PROVE  LET m == [k EXCEPT !.status = "running", !.attempts = @ + 1] IN
           m \in Check /\ m.status = "running" /\ m.revision = k.revision /\ m.ran = k.ran
<1> DEFINE m == [k EXCEPT !.status = "running", !.attempts = @ + 1]
           h == [k EXCEPT !.status = "running"]
<1>1. h \in Check
  BY DEF Check
<1>2. m = [h EXCEPT !.attempts = @ + 1]
  BY DEF Check
<1>3. m \in Check
  <2> HIDE DEF h
  <2> QED
    BY <1>1, <1>2 DEF Check
<1> QED
  BY <1>3 DEF Check

\* Each check of the plan has a record.
LEMMA CheckTyped ==
    ASSUME NEW j \in Jobs, NEW r, Sound(j, r), NEW i \in Steps(j)
    PROVE  r.checks[i] \in Check
BY JobsAssumption DEF Sound, ChecksSound, Job, Steps

-----------------------------------------------------------------------------
(* What a step keeps of a record r that becomes q                          *)

\* Revisions grow, a new result carries a new one, and a check that runs under
\* an old lease is the check that was due.
Keeps(j, r, q) ==
    /\ r.revision <= q.revision
    /\ \A i \in Steps(j) : q.checks[i].revision = r.checks[i].revision
                           \/ q.checks[i].revision > r.revision
    /\ q.status = "running" /\ q.lease <= r.revision =>
          r.status = "running" /\ r.lease = q.lease /\ r.next = q.next

\* No restart begins and none is concluded.
KeepsRestart(r, q) ==
    /\ r.status \in {"action_running", "action_uncertain", "expired", "evicted"} =>
          q.status \in {"action_running", "action_uncertain", "expired", "evicted"}
    /\ q.status = "action_running" =>
          r.status = "action_running" /\ q.lease = r.lease /\ (r.leaseDue => q.leaseDue)
    /\ q.action = r.action \/ (r.action = "none" /\ q.action = "proposed")
    /\ q.status = "awaiting_confirmation" =>
          r.status = "awaiting_confirmation" \/ r.action = "none"

\* A record is sound and follows from a sound one.
Moves(j, r, q) == Sound(j, q) /\ Keeps(j, r, q) /\ KeepsRestart(r, q)

\* A record that stays.
LEMMA MovesSame ==
    ASSUME NEW j, NEW r, Sound(j, r)
    PROVE  Moves(j, r, r)
BY DEF Moves, Keeps, KeepsRestart, Sound, ChecksSound, Job

\* Two updates in one transaction: a refresh and what the call stores.
LEMMA MovesTrans ==
    ASSUME NEW j \in Jobs, NEW r, NEW q, NEW p, Sound(j, r), Moves(j, r, q), Moves(j, q, p)
    PROVE  Moves(j, r, p)
<1>2. Sound(j, p)
  BY DEF Moves
<1>3. Keeps(j, r, p)
  <2>1. r.revision \in Nat /\ q.revision \in Nat /\ p.revision \in Nat
    BY DEF Moves, Sound, Job
  <2>2. p.lease \in Nat
    BY <1>2 DEF Sound, Job
  <2>3. ASSUME NEW i \in Steps(j)
        PROVE  /\ r.checks[i].revision \in Nat
               /\ q.checks[i].revision \in Nat
               /\ p.checks[i].revision \in Nat
    BY CheckTyped DEF Moves, Check
  <2> QED
    BY <2>1, <2>2, <2>3 DEF Moves, Keeps
<1>4. KeepsRestart(r, p)
  BY DEF Moves, KeepsRestart
<1> QED
  BY <1>2, <1>3, <1>4 DEF Moves

\* Only the flags, the lease, the revision and the status change.
LEMMA RefreshMoves ==
    ASSUME NEW j \in Jobs, NEW r, Sound(j, r)
    PROVE  /\ Moves(j, r, Refresh(r))
           /\ \/ Refresh(r) = r
              \/ /\ Refresh(r).status \in {"expired", "pending", "action_uncertain",
                                           "verification_pending"}
                 /\ r.status \notin FinalStates \cup Gone
                 /\ Refresh(r).revision = r.revision + 1
                 /\ r.status = "action_uncertain" => Refresh(r).status = "expired"
                 /\ Refresh(r).status = "expired" => r.due
           /\ Refresh(r).status \notin Leased \/ ~Refresh(r).leaseDue
           /\ Refresh(r).checks = r.checks
<1> DEFINE q == Refresh(r)
<1>1. r \in Job
  BY DEF Sound
<1>2. q \in Job
  <2>1. CASE r.status \notin FinalStates \cup Gone /\ r.due
    <3>1. [r EXCEPT !.status = "expired"] \in Job
      BY <1>1 DEF Job, Statuses, FinalStates
    <3> QED
      BY <2>1, <3>1, BumpFields DEF Refresh
  <2>2. CASE ~(r.status \notin FinalStates \cup Gone /\ r.due) /\ r.status \in Leased /\ r.leaseDue
    <3>1. AfterLease(r.status) \in Statuses
      BY <2>2 DEF AfterLease, Leased, Statuses
    <3>2. [r EXCEPT !.status = AfterLease(r.status)] \in Job
      BY <1>1, <3>1, StatusFields
    <3> QED
      BY <2>2, <3>2, BumpFields, ReleasedFields DEF Refresh
  <2> QED
    BY <1>1, <2>1, <2>2 DEF Refresh
<1>3. /\ q.checks = r.checks /\ q.next = r.next
      /\ q.action = r.action /\ q.healthy = r.healthy
  BY <1>1 DEF Refresh, Bump, Released, AfterLease, Job
<1>4. \/ q = r
      \/ q.status = "expired" /\ q.revision = r.revision + 1 /\ r.due
         /\ r.status \notin FinalStates \cup Gone
      \/ /\ q.revision = r.revision + 1 /\ q.lease = 0
         /\ \/ r.status = "running" /\ q.status = "pending"
            \/ r.status = "action_running" /\ q.status = "action_uncertain"
            \/ r.status = "verifying" /\ q.status = "verification_pending"
  BY <1>1 DEF Refresh, Bump, Released, AfterLease, Job, Leased, NoLease
<1>5. q.status \notin Leased \/ ~q.leaseDue
  BY <1>1 DEF Refresh, Bump, Released, AfterLease, Job, Leased, NoLease
<1> HIDE DEF q
<1>6. r.revision \in Nat /\ q.revision \in Nat
  BY <1>1, <1>2 DEF Job
<1>7. ChecksSound(j, q)
  <2>1. \A i \in Steps(j) : r.checks[i].revision \in Nat
    BY CheckTyped DEF Check
  <2> QED
    BY <1>3, <1>4, <1>6, <2>1 DEF Sound, ChecksSound
<1>8. StatusSound(j, q)
  BY <1>3, <1>4 DEF Sound, StatusSound
<1>9. Keeps(j, r, q) /\ KeepsRestart(r, q)
  BY <1>3, <1>4, <1>6 DEF Keeps, KeepsRestart
<1> QED
  BY <1>2, <1>3, <1>4, <1>5, <1>7, <1>8, <1>9 DEF Moves, Sound, q, FinalStates, Gone

-----------------------------------------------------------------------------
(* The records that the actions store                                      *)

\* A record with the same checks and a status other than "running".
LEMMA PlainKeeps ==
    ASSUME NEW j \in Jobs, NEW r, NEW q \in Job, Sound(j, r), StatusSound(j, q),
           q.checks = r.checks, q.next = r.next, r.revision <= q.revision,
           q.status # "running"
    PROVE  Sound(j, q) /\ Keeps(j, r, q)
<1>1. r.revision \in Nat /\ q.revision \in Nat
  BY DEF Sound, Job
<1>2. \A i \in Steps(j) : r.checks[i].revision \in Nat
  BY CheckTyped DEF Check
<1>3. ChecksSound(j, q)
  BY <1>1, <1>2 DEF Sound, ChecksSound
<1> QED
  BY <1>1, <1>2, <1>3 DEF Sound, Keeps

\* A job that is created takes the place of none.
LEMMA NewMoves ==
    ASSUME NEW j \in Jobs, NEW r, Sound(j, r), r.status = "absent"
    PROVE  Moves(j, r, NewJob(j))
<1> DEFINE n == Len(PlanOf[j])
           check == [status |-> "pending", attempts |-> 0, revision |-> 0, ran |-> 0]
<1>1. n \in Nat
  BY JobsAssumption
<1>2. check \in Check
  BY DEF Check
<1>3. [i \in 1..n |-> check] \in Seq(Check) /\ Len([i \in 1..n |-> check]) = n
  <2> HIDE DEF n, check
  <2> QED
    BY <1>1, <1>2
<1>4. NewJob(j) \in Job
  BY <1>3 DEF NewJob, NoLease, Job, Statuses
<1>5. ChecksSound(j, NewJob(j))
  <2>1. \A i \in Steps(j) : NewJob(j).checks[i] = check
    BY DEF NewJob, Steps
  <2>2. Len(NewJob(j).checks) = n
    BY <1>3 DEF NewJob
  <2>3. /\ NewJob(j).next = 0 /\ NewJob(j).status = "pending"
        /\ NewJob(j).revision = 1
    BY DEF NewJob
  <2>4. \A i \in Steps(j) : /\ NewJob(j).checks[i].status = "pending"
                            /\ NewJob(j).checks[i].ran = 0
                            /\ NewJob(j).checks[i].revision = 0
    BY <2>1
  <2>5. \A i \in Steps(j) : i \in Nat /\ 1 <= i
    BY <1>1 DEF Steps
  <2> QED
    BY <1>1, <2>2, <2>3, <2>4, <2>5 DEF ChecksSound
<1>6. StatusSound(j, NewJob(j))
  BY DEF StatusSound, NewJob
<1>7. r = Unborn(j)
  BY DEF Sound, StatusSound
<1>8. /\ r.revision = 0 /\ r.checks = NewJob(j).checks /\ r.action = "none"
  BY <1>7, <1>4 DEF Unborn, NewJob, Job
<1>9. Keeps(j, r, NewJob(j)) /\ KeepsRestart(r, NewJob(j))
  <2>1. NewJob(j).revision = 1 /\ NewJob(j).status = "pending" /\ NewJob(j).action = "none"
    BY DEF NewJob
  <2> QED
    BY <2>1, <1>8 DEF Keeps, KeepsRestart
<1> QED
  BY <1>4, <1>5, <1>6, <1>9 DEF Moves, Sound

LEMMA EvictMoves ==
    ASSUME NEW j \in Jobs, NEW r, Sound(j, r), r.status \in FinalStates
    PROVE  Moves(j, r, [r EXCEPT !.status = "evicted"])
<1> DEFINE q == [r EXCEPT !.status = "evicted"]
<1>1. q \in Job /\ q.status = "evicted" /\ q.revision = r.revision /\ q.next = r.next
      /\ q.checks = r.checks /\ q.lease = r.lease /\ q.action = r.action /\ q.healthy = r.healthy
  BY StatusFields DEF Sound, Statuses, Gone
<1> HIDE DEF q
<1>2. r.revision <= q.revision
  BY <1>1 DEF Job
<1>3. StatusSound(j, q)
  BY <1>1 DEF StatusSound
<1>4. KeepsRestart(r, q)
  BY <1>1 DEF KeepsRestart, FinalStates
<1> QED
  BY <1>1, <1>2, <1>3, <1>4, PlainKeeps DEF Moves, q

\* The records of cancel, finish and propose.
LEMMA CancelMoves ==
    ASSUME NEW j \in Jobs, NEW r, Sound(j, r),
           r.status \notin FinalStates \cup Gone \cup {"action_running", "action_uncertain"}
    PROVE  Moves(j, r, Bump(Released([r EXCEPT !.status = "cancelled"])))
<1> DEFINE p == [r EXCEPT !.status = "cancelled"]
           q == Bump(Released(p))
<1>0. p \in Job /\ p.status = "cancelled" /\ p.revision = r.revision /\ p.next = r.next
      /\ p.checks = r.checks /\ p.action = r.action /\ p.healthy = r.healthy
  <2>1. r \in Job /\ "cancelled" \in Statuses
    BY DEF Sound, Statuses, FinalStates
  <2> QED
    BY <2>1, StatusFields
<1> HIDE DEF p
<1>1. q \in Job /\ q.status = "cancelled" /\ q.revision = r.revision + 1 /\ q.next = r.next
      /\ q.checks = r.checks /\ q.action = r.action /\ q.healthy = r.healthy
  <2> DEFINE m == Released(p)
  <2>1. /\ m \in Job
        /\ m.status = p.status /\ m.revision = p.revision /\ m.next = p.next
        /\ m.checks = p.checks /\ m.action = p.action /\ m.healthy = p.healthy
    BY <1>0, ReleasedFields
  <2> HIDE DEF m
  <2> QED
    BY <1>0, <2>1, BumpFields DEF m
<1> HIDE DEF q
<1>2. r.revision <= q.revision
  BY <1>1 DEF Job, Sound
<1>3. StatusSound(j, q)
  BY <1>1 DEF StatusSound
<1>4. KeepsRestart(r, q)
  BY <1>1 DEF KeepsRestart, FinalStates, Gone
<1> QED
  BY <1>1, <1>2, <1>3, <1>4, PlainKeeps DEF Moves, q, p

LEMMA FinishMoves ==
    ASSUME NEW j \in Jobs, NEW r, Sound(j, r), r.status = "awaiting_agent"
    PROVE  Moves(j, r, Bump([r EXCEPT !.status = "completed"]))
<1> DEFINE p == [r EXCEPT !.status = "completed"]
           q == Bump(p)
<1>0. p \in Job /\ p.status = "completed" /\ p.revision = r.revision /\ p.next = r.next
      /\ p.checks = r.checks /\ p.action = r.action /\ p.healthy = r.healthy
  <2>1. r \in Job /\ "completed" \in Statuses
    BY DEF Sound, Statuses, FinalStates
  <2> QED
    BY <2>1, StatusFields
<1> HIDE DEF p
<1>1. q \in Job /\ q.status = "completed" /\ q.revision = r.revision + 1 /\ q.next = r.next
      /\ q.checks = r.checks /\ q.action = r.action /\ q.healthy = r.healthy
  BY <1>0, BumpFields
<1> HIDE DEF q
<1>2. r.revision <= q.revision
  BY <1>1 DEF Job, Sound
<1>3. StatusSound(j, q)
  BY <1>1 DEF StatusSound, Sound
<1>4. KeepsRestart(r, q)
  BY <1>1 DEF KeepsRestart
<1> QED
  BY <1>1, <1>2, <1>3, <1>4, PlainKeeps DEF Moves, q, p

LEMMA ProposeMoves ==
    ASSUME NEW j \in Jobs, NEW r, Sound(j, r), r.action = "none",
           r.status \in {"awaiting_agent", "needs_attention"}
    PROVE  Moves(j, r, Bump([r EXCEPT !.action = "proposed",
                                      !.status = "awaiting_confirmation"]))
<1> DEFINE p == [r EXCEPT !.action = "proposed", !.status = "awaiting_confirmation"]
           q == Bump(p)
<1>1. p \in Job /\ p.status = "awaiting_confirmation" /\ p.revision = r.revision
      /\ p.next = r.next /\ p.checks = r.checks /\ p.action = "proposed" /\ p.healthy = r.healthy
  BY DEF Sound, Job, Statuses
<1> HIDE DEF p
<1>2. q \in Job /\ q.status = "awaiting_confirmation" /\ q.revision = r.revision + 1
      /\ q.next = r.next /\ q.checks = r.checks /\ q.action = "proposed" /\ q.healthy = r.healthy
  BY <1>1, BumpFields
<1> HIDE DEF q
<1>3. r.revision <= q.revision
  BY <1>2 DEF Job, Sound
<1>4. StatusSound(j, q)
  BY <1>2 DEF StatusSound
<1>5. KeepsRestart(r, q)
  BY <1>2 DEF KeepsRestart
<1> QED
  BY <1>2, <1>3, <1>4, <1>5, PlainKeeps DEF Moves, q, p

\* A verification is claimed only after an executed restart, and commits so.
LEMMA VerifyMoves ==
    ASSUME NEW j \in Jobs, NEW r, Sound(j, r), r.status = "verification_pending"
    PROVE  Moves(j, r, Lease(r, "verifying"))
<1> DEFINE q == Lease(r, "verifying")
<1>1. q \in Job /\ q.status = "verifying" /\ q.revision = r.revision + 1 /\ q.next = r.next
      /\ q.checks = r.checks /\ q.action = r.action /\ q.healthy = r.healthy
  BY LeaseFields DEF Sound, Statuses, Leased
<1> HIDE DEF q
<1>2. r.revision <= q.revision
  BY <1>1 DEF Job, Sound
<1>3. StatusSound(j, q)
  BY <1>1 DEF StatusSound, Sound
<1>4. KeepsRestart(r, q)
  BY <1>1 DEF KeepsRestart
<1> QED
  BY <1>1, <1>2, <1>3, <1>4, PlainKeeps DEF Moves, q

LEMMA VerifiedMoves ==
    ASSUME NEW j \in Jobs, NEW r, Sound(j, r), r.status = "verifying", NEW healthy \in BOOLEAN
    PROVE  Moves(j, r, Bump([Released(r) EXCEPT
                                !.status = IF healthy THEN "awaiting_agent"
                                           ELSE "needs_attention",
                                !.healthy = healthy]))
<1> DEFINE s == IF healthy THEN "awaiting_agent" ELSE "needs_attention"
           p == [Released(r) EXCEPT !.status = s, !.healthy = healthy]
           q == Bump(p)
<1>1. Released(r) \in Job /\ s \in Statuses
  BY ReleasedFields DEF Sound, Statuses
<1>2. p \in Job /\ p.status = s /\ p.revision = r.revision
      /\ p.next = r.next /\ p.checks = r.checks /\ p.action = r.action /\ p.healthy = healthy
  <2> HIDE DEF s
  <2>1. p \in Job
    BY <1>1 DEF Job
  <2> QED
    BY <1>1, <2>1, ReleasedFields DEF Sound, Job
<1> HIDE DEF p
<1>3. q \in Job /\ q.status = s /\ q.revision = r.revision + 1
      /\ q.next = r.next /\ q.checks = r.checks /\ q.action = r.action /\ q.healthy = healthy
  BY <1>2, BumpFields
<1> HIDE DEF q
<1>4. r.revision <= q.revision
  BY <1>3 DEF Job, Sound
<1>5. r.action = "executed"
  BY DEF Sound, StatusSound
<1>6. StatusSound(j, q) /\ KeepsRestart(r, q) /\ q.status # "running"
  BY <1>3, <1>5 DEF StatusSound, KeepsRestart
<1> QED
  BY <1>3, <1>4, <1>6, PlainKeeps DEF Moves, q, p

\* The passing of time.
LEMMA DueMoves ==
    ASSUME NEW j \in Jobs, NEW r, Sound(j, r), r.status # "absent"
    PROVE  Moves(j, r, [r EXCEPT !.due = TRUE])
<1> DEFINE q == [r EXCEPT !.due = TRUE]
<1>1. q \in Job /\ q.status = r.status /\ q.revision = r.revision /\ q.next = r.next
      /\ q.checks = r.checks /\ q.lease = r.lease /\ q.leaseDue = r.leaseDue
      /\ q.action = r.action /\ q.healthy = r.healthy
  BY DEF Sound, Job
<1> HIDE DEF q
<1>2. r.revision \in Nat
  BY DEF Job, Sound
<1>3. ChecksSound(j, q) /\ StatusSound(j, q)
  BY <1>1 DEF Sound, ChecksSound, StatusSound
<1>4. Keeps(j, r, q) /\ KeepsRestart(r, q)
  BY <1>1, <1>2 DEF Keeps, KeepsRestart
<1> QED
  BY <1>1, <1>3, <1>4 DEF Moves, Sound, q

LEMMA LeaseDueMoves ==
    ASSUME NEW j \in Jobs, NEW r, Sound(j, r), r.status # "absent"
    PROVE  Moves(j, r, [r EXCEPT !.leaseDue = TRUE])
<1> DEFINE q == [r EXCEPT !.leaseDue = TRUE]
<1>1. q \in Job /\ q.status = r.status /\ q.revision = r.revision /\ q.next = r.next
      /\ q.checks = r.checks /\ q.lease = r.lease /\ q.leaseDue = TRUE
      /\ q.action = r.action /\ q.healthy = r.healthy
  BY DEF Sound, Job
<1> HIDE DEF q
<1>2. r.revision \in Nat
  BY DEF Job, Sound
<1>3. ChecksSound(j, q) /\ StatusSound(j, q)
  BY <1>1 DEF Sound, ChecksSound, StatusSound
<1>4. Keeps(j, r, q) /\ KeepsRestart(r, q)
  BY <1>1, <1>2 DEF Keeps, KeepsRestart
<1> QED
  BY <1>1, <1>3, <1>4 DEF Moves, Sound, q

\* Only the check that is due changes, and it completes when the job moves on.
LEMMA Rechecked ==
    ASSUME NEW j \in Jobs, NEW r, Sound(j, r), NEW q, NEW i \in Steps(j), i = r.next + 1,
           NEW k \in Check, q.checks = [r.checks EXCEPT ![i] = k],
           q.revision = r.revision + 1, q.next \in {r.next, i},
           k.status = "completed" <=> q.next = i,
           k.ran \in {0, i}, k.revision \in {r.checks[i].revision, r.revision + 1},
           q.status = "running" => q.next = r.next
    PROVE  /\ ChecksSound(j, q)
           /\ q.checks \in Seq(Check)
           /\ \A x \in Steps(j) : q.checks[x].revision = r.checks[x].revision
                                  \/ q.checks[x].revision > r.revision
<1>1. r \in Job /\ Len(PlanOf[j]) \in Nat /\ r.next \in Nat /\ r.revision \in Nat
  BY JobsAssumption DEF Sound, Job
<1>2. i <= Len(PlanOf[j])
  BY <1>1 DEF Steps
<1>3. q.checks \in Seq(Check) /\ Len(q.checks) = Len(r.checks)
      /\ \A x \in Steps(j) : q.checks[x] = IF x = i THEN k ELSE r.checks[x]
  BY <1>1 DEF Job, Sound, ChecksSound, Steps
<1>4. ASSUME NEW x \in Steps(j)
      PROVE  /\ q.checks[x].status = "completed" <=> x <= q.next
             /\ x > q.next + 1 => q.checks[x].status = "pending"
             /\ q.checks[x].ran \in {0, x}
             /\ q.checks[x].revision <= q.revision
             /\ \/ q.checks[x].revision = r.checks[x].revision
                \/ q.checks[x].revision > r.revision
  <2>1. /\ r.checks[x].status = "completed" <=> x <= r.next
        /\ x > r.next + 1 => r.checks[x].status = "pending"
        /\ r.checks[x].ran \in {0, x}
        /\ r.checks[x].revision <= r.revision
        /\ r.checks[x].revision \in Nat
        /\ x \in Nat
    BY <1>1, CheckTyped DEF Sound, ChecksSound, Check, Steps
  <2>2. CASE x = i
    BY <1>1, <1>3, <2>1, <2>2
  <2>3. CASE x # i
    BY <1>1, <1>3, <2>1, <2>3
  <2> QED
    BY <2>2, <2>3
<1>5. Len(q.checks) = Len(PlanOf[j]) /\ q.next <= Len(PlanOf[j])
      /\ (q.status = "running" => q.next < Len(PlanOf[j]))
  BY <1>1, <1>2, <1>3 DEF Sound, ChecksSound
<1> QED
  BY <1>3, <1>4, <1>5 DEF ChecksSound

\* A claimed check is the one after the last completed check.
LEMMA ClaimMoves ==
    ASSUME NEW j \in Jobs, NEW r, Sound(j, r), r.status \in {"pending", "needs_attention"},
           r.next + 1 <= Len(PlanOf[j])
    PROVE  LET i == r.next + 1
               q == [Lease(r, "running") EXCEPT !.checks[i].status = "running",
                                                !.checks[i].attempts = @ + 1]
           IN  /\ Moves(j, r, q)
               /\ q.revision = r.revision + 1 /\ q.lease = r.revision + 1
               /\ q.status = "running" /\ q.next = r.next
<1> DEFINE i == r.next + 1
           p == Lease(r, "running")
           q == [p EXCEPT !.checks[i].status = "running", !.checks[i].attempts = @ + 1]
           k == [r.checks[i] EXCEPT !.status = "running", !.attempts = @ + 1]
           b == q.checks
<1>1. r \in Job /\ "running" \in Statuses
  BY DEF Sound, Statuses, Leased
<1>2. /\ p \in Job
      /\ p.status = "running" /\ p.revision = r.revision + 1
      /\ p.next = r.next /\ p.checks = r.checks
      /\ p.lease = r.revision + 1 /\ p.leaseDue = FALSE
      /\ p.action = r.action /\ p.healthy = r.healthy
  BY <1>1, LeaseFields
<1>3. i \in Steps(j) /\ r.next \in Nat /\ r.revision \in Nat
  BY <1>1, JobsAssumption DEF Job, Steps
<1>4. r.checks[i] \in Check
  BY <1>3, CheckTyped
<1> HIDE DEF p, i
<1>5. k \in Check /\ k.status = "running" /\ k.revision = r.checks[i].revision
      /\ k.ran = r.checks[i].ran
  BY <1>4, ClaimedFields
<1>6. q = [p EXCEPT !.checks = b] /\ b = [r.checks EXCEPT ![i] = k]
  <2>1. /\ q = [p EXCEPT !.checks = q.checks]
        /\ q.checks = [p.checks EXCEPT ![i] = [p.checks[i] EXCEPT !.status = "running",
                                                                 !.attempts = @ + 1]]
    BY <1>2 DEF Job
  <2> QED
    BY <1>2, <2>1
<1> HIDE DEF q, b, k
<1>7. /\ q.status = "running" /\ q.revision = r.revision + 1
      /\ q.next = r.next /\ q.checks = b /\ q.lease = r.revision + 1
      /\ q.action = r.action /\ q.healthy = r.healthy
  BY <1>2, <1>6 DEF Job
<1>8. k.ran \in {0, i} /\ r.next # i
  BY <1>3, <1>5 DEF Sound, ChecksSound, i
<1>9. /\ ChecksSound(j, q)
      /\ q.checks \in Seq(Check)
      /\ \A x \in Steps(j) : q.checks[x].revision = r.checks[x].revision
                             \/ q.checks[x].revision > r.revision
  BY <1>3, <1>5, <1>6, <1>7, <1>8, Rechecked DEF i
<1>10. q \in Job
  BY <1>2, <1>6, <1>7, <1>9 DEF Job
<1>11. StatusSound(j, q) /\ KeepsRestart(r, q) /\ Keeps(j, r, q)
  BY <1>3, <1>7, <1>9 DEF StatusSound, KeepsRestart, Keeps
<1> QED
  BY <1>7, <1>9, <1>10, <1>11 DEF Moves, Sound, q, p, i

\* The claim that SpawnFails gives back.
LEMMA UnclaimMoves ==
    ASSUME NEW j \in Jobs, NEW r, Sound(j, r), r.status = "running"
    PROVE  LET i == r.next + 1 IN
           Moves(j, r, [Bump(Released(r)) EXCEPT !.status = "pending",
                                                 !.checks[i].status = "pending"])
<1> DEFINE i == r.next + 1
           p == Bump(Released(r))
           q == [p EXCEPT !.status = "pending", !.checks[i].status = "pending"]
           k == [r.checks[i] EXCEPT !.status = "pending"]
           b == q.checks
<1>1. r \in Job /\ "pending" \in Statuses /\ Released(r) \in Job
  BY ReleasedFields DEF Sound, Statuses
<1>2. /\ p \in Job /\ p.revision = r.revision + 1
      /\ p.next = r.next /\ p.checks = r.checks
      /\ p.action = r.action /\ p.healthy = r.healthy
  BY <1>1, FreedFields
<1>3. i \in Steps(j) /\ r.next \in Nat /\ r.revision \in Nat
  BY <1>1, JobsAssumption DEF Job, Steps, Sound, ChecksSound
<1>4. r.checks[i] \in Check
  BY <1>3, CheckTyped
<1> HIDE DEF p, i
<1>5. k \in Check /\ k.status = "pending" /\ k.revision = r.checks[i].revision
      /\ k.ran = r.checks[i].ran
  BY <1>4 DEF Check
<1>6. q = [p EXCEPT !.status = "pending", !.checks = b] /\ b = [r.checks EXCEPT ![i] = k]
  <2>1. /\ q = [p EXCEPT !.status = "pending", !.checks = q.checks]
        /\ q.checks = [p.checks EXCEPT ![i] = [p.checks[i] EXCEPT !.status = "pending"]]
    BY <1>2 DEF Job
  <2> QED
    BY <1>2, <2>1
<1> HIDE DEF q, b, k
<1>7. /\ q.status = "pending" /\ q.revision = r.revision + 1
      /\ q.next = r.next /\ q.checks = b
      /\ q.action = r.action /\ q.healthy = r.healthy
  BY <1>2, <1>6 DEF Job
<1>8. k.ran \in {0, i} /\ r.next # i
  BY <1>3, <1>5 DEF Sound, ChecksSound, i
<1>9. /\ ChecksSound(j, q)
      /\ q.checks \in Seq(Check)
      /\ \A x \in Steps(j) : q.checks[x].revision = r.checks[x].revision
                             \/ q.checks[x].revision > r.revision
  BY <1>3, <1>5, <1>6, <1>7, <1>8, Rechecked DEF i
<1>10. q \in Job
  BY <1>1, <1>2, <1>6, <1>7, <1>9 DEF Job
<1>11. StatusSound(j, q) /\ KeepsRestart(r, q) /\ Keeps(j, r, q)
  BY <1>3, <1>7, <1>9 DEF StatusSound, KeepsRestart, Keeps
<1> QED
  BY <1>9, <1>10, <1>11 DEF Moves, Sound, q, p, i

\* The result of the check that is due, as CheckCommit stores it.
LEMMA CommitMoves ==
    ASSUME NEW j \in Jobs, NEW r, Sound(j, r), r.status = "running", NEW ok \in BOOLEAN,
           NEW step, step = r.next + 1
    PROVE  LET i == r.next + 1
               done == IF ok THEN r.next + 1 ELSE r.next
               status == CASE ~ok -> "needs_attention"
                           [] ok /\ done = Len(PlanOf[j]) -> "awaiting_agent"
                           [] OTHER -> "pending"
           IN  Moves(j, r, [Bump(Released(r)) EXCEPT
                               !.status = status,
                               !.next = done,
                               !.checks[i].status = IF ok THEN "completed" ELSE "failed",
                               !.checks[i].revision = r.revision + 1,
                               !.checks[i].ran = step])
<1> DEFINE i == r.next + 1
           done == IF ok THEN r.next + 1 ELSE r.next
           s == CASE ~ok -> "needs_attention"
                  [] ok /\ done = Len(PlanOf[j]) -> "awaiting_agent"
                  [] OTHER -> "pending"
           t == IF ok THEN "completed" ELSE "failed"
           n == r.revision + 1
           p == Bump(Released(r))
           q == [p EXCEPT !.status = s, !.next = done, !.checks[i].status = t,
                          !.checks[i].revision = n, !.checks[i].ran = step]
           k == [r.checks[i] EXCEPT !.status = t, !.revision = n, !.ran = step]
           b == q.checks
<1>1. r \in Job /\ Released(r) \in Job
  BY ReleasedFields DEF Sound
<1>2. /\ p \in Job /\ p.revision = r.revision + 1
      /\ p.next = r.next /\ p.checks = r.checks
      /\ p.action = r.action /\ p.healthy = r.healthy
  BY <1>1, FreedFields
<1>3. i \in Steps(j) /\ r.next \in Nat /\ r.revision \in Nat
  BY <1>1, JobsAssumption DEF Job, Steps, Sound, ChecksSound
<1>4. r.checks[i] \in Check
  BY <1>3, CheckTyped
<1>5. /\ s \in {"needs_attention", "awaiting_agent", "pending"}
      /\ s = "awaiting_agent" => done = Len(PlanOf[j])
      /\ done \in {r.next, i} /\ done \in Nat
      /\ t \in {"completed", "failed"} /\ (t = "completed" <=> done = i)
      /\ n \in Nat
  BY <1>3
<1> HIDE DEF p, i, s, t, n, done
<1>6. k \in Check /\ k.status = t /\ k.revision = n /\ k.ran = step
  <2>1. step \in Nat
    BY <1>3
  <2> QED
    BY <1>4, <1>5, <2>1 DEF Check
<1>7. q = [p EXCEPT !.status = s, !.next = done, !.checks = b] /\ b = [r.checks EXCEPT ![i] = k]
  <2>1. q = [p EXCEPT !.status = s, !.next = done, !.checks = q.checks]
    <3> DEFINE p1 == [p EXCEPT !.status = s, !.next = done]
    <3>1. q = [p1 EXCEPT !.checks[i].status = t, !.checks[i].revision = n,
                         !.checks[i].ran = step]
      BY <1>2 DEF Job
    <3>2. p1 \in Job
      BY <1>2, <1>5 DEF Job, Statuses
    <3> HIDE DEF p1, q
    <3>3. q = [p1 EXCEPT !.checks = q.checks]
      BY <3>1, <3>2 DEF Job
    <3> QED
      BY <1>2, <3>3 DEF p1, Job
  <2>2. q.checks = [p.checks EXCEPT ![i] = [p.checks[i] EXCEPT !.status = t,
                                                   !.revision = n, !.ran = step]]
    BY <1>2 DEF Job
  <2> QED
    BY <1>2, <2>1, <2>2
<1> HIDE DEF q, b, k
<1>8. /\ q.status = s /\ q.revision = r.revision + 1
      /\ q.next = done /\ q.checks = b
      /\ q.action = r.action /\ q.healthy = r.healthy
  BY <1>2, <1>7 DEF Job
<1>9. k.ran \in {0, i}
  BY <1>3, <1>6 DEF i
<1>10. /\ ChecksSound(j, q)
       /\ q.checks \in Seq(Check)
       /\ \A x \in Steps(j) : q.checks[x].revision = r.checks[x].revision
                              \/ q.checks[x].revision > r.revision
  BY <1>3, <1>5, <1>6, <1>7, <1>8, <1>9, Rechecked DEF i, n
<1>11. q \in Job
  BY <1>2, <1>5, <1>7, <1>8, <1>10 DEF Job, Statuses
<1>12. StatusSound(j, q) /\ KeepsRestart(r, q) /\ Keeps(j, r, q)
  BY <1>3, <1>5, <1>8, <1>10 DEF StatusSound, KeepsRestart, Keeps
<1> QED
  BY <1>10, <1>11, <1>12 DEF Moves, Sound, q, p, i, s, t, n, done

\* A confirmed restart: it begins only from "awaiting_confirmation".
LEMMA ExecuteSound ==
    ASSUME NEW j \in Jobs, NEW r, Sound(j, r), r.status = "awaiting_confirmation"
    PROVE  LET q == Lease(r, "action_running") IN
           /\ Sound(j, q) /\ Keeps(j, r, q)
           /\ q.status = "action_running" /\ q.lease = r.revision + 1
           /\ q.revision = r.revision + 1 /\ q.action = "proposed" /\ ~q.leaseDue
<1> DEFINE q == Lease(r, "action_running")
<1>1. /\ q \in Job
      /\ q.status = "action_running" /\ q.revision = r.revision + 1
      /\ q.next = r.next /\ q.checks = r.checks
      /\ q.lease = r.revision + 1 /\ q.leaseDue = FALSE /\ q.due = r.due
      /\ q.action = r.action /\ q.healthy = r.healthy
  <2>1. r \in Job /\ "action_running" \in Statuses
    BY DEF Sound, Statuses, Leased
  <2> QED
    BY <2>1, LeaseFields
<1>2. r.action = "proposed" /\ r.revision \in Nat
  BY DEF Sound, StatusSound, Job
<1> HIDE DEF q
<1>3. StatusSound(j, q) /\ r.revision <= q.revision
  BY <1>1, <1>2 DEF StatusSound
<1> QED
  BY <1>1, <1>2, <1>3, PlainKeeps DEF q

\* What a restart leaves when its call still holds the lease.
LEMMA RecoverySound ==
    ASSUME NEW j \in Jobs, NEW r, Sound(j, r), r.status = "action_running",
           NEW outcome \in {"blocked", "ok", "error", "raised"}
    PROVE  LET q == Bump(AfterRecovery(Released(r), outcome)) IN
           /\ Sound(j, q) /\ Keeps(j, r, q)
           /\ q.action # "none"
           /\ q.status \in {"awaiting_confirmation", "verification_pending",
                            "needs_attention", "action_uncertain"}
           /\ q.status = "awaiting_confirmation" => outcome = "blocked"
           /\ q.action = "executed" <=> outcome = "ok"
<1> DEFINE h == Released(r)
           p == AfterRecovery(h, outcome)
           q == Bump(p)
<1>1. h \in Job /\ h.checks = r.checks /\ h.next = r.next /\ h.revision = r.revision
      /\ h.action = "proposed"
  BY ReleasedFields DEF Sound, StatusSound
<1> HIDE DEF h
<1>2. /\ p \in Job /\ p.checks = r.checks /\ p.next = r.next /\ p.revision = r.revision
      /\ \/ outcome = "blocked" /\ p.status = "awaiting_confirmation" /\ p.action = "proposed"
         \/ outcome = "ok" /\ p.status = "verification_pending" /\ p.action = "executed"
         \/ outcome = "error" /\ p.status = "needs_attention" /\ p.action = "failed"
         \/ outcome = "raised" /\ p.status = "action_uncertain" /\ p.action = "uncertain"
  <2>1. CASE outcome = "blocked"
    BY <1>1, <2>1 DEF AfterRecovery, Job, Statuses
  <2>2. CASE outcome = "ok"
    BY <1>1, <2>2 DEF AfterRecovery, Job, Statuses
  <2>3. CASE outcome = "error"
    BY <1>1, <2>3 DEF AfterRecovery, Job, Statuses
  <2>4. CASE outcome = "raised"
    BY <1>1, <2>4 DEF AfterRecovery, Job, Statuses
  <2> QED
    BY <2>1, <2>2, <2>3, <2>4
<1> HIDE DEF p
<1>3. q \in Job /\ q.checks = r.checks /\ q.next = r.next /\ q.revision = r.revision + 1
      /\ q.status = p.status /\ q.action = p.action
  BY <1>2, BumpFields
<1> HIDE DEF q
<1>4. StatusSound(j, q) /\ r.revision <= q.revision /\ q.status # "running"
  BY <1>2, <1>3 DEF StatusSound, Sound, Job
<1> QED
  BY <1>2, <1>3, <1>4, PlainKeeps DEF q, p, h

-----------------------------------------------------------------------------
(* What each part of the invariant needs of a step                         *)

AllMove == \A j \in Jobs : Moves(j, job[j], job'[j])

\* One record is stored, and the others stay.
LEMMA PutMoves ==
    ASSUME TypeOK, RecordsSound, NEW j \in Jobs, NEW q, Put(j, q), Moves(j, job[j], q)
    PROVE  job' \in [Jobs -> Job] /\ AllMove
<1>1. job'[j] = q /\ \A k \in Jobs \ {j} : job'[k] = job[k]
  BY DEF Put, TypeOK
<1>2. \A k \in Jobs : Moves(k, job[k], job[k])
  BY MovesSame DEF RecordsSound
<1>3. q \in Job
  BY DEF Moves, Sound
<1> QED
  BY <1>1, <1>2, <1>3 DEF AllMove, Put, TypeOK

LEMMA SameMoves ==
    ASSUME TypeOK, RecordsSound, UNCHANGED job
    PROVE  job' \in [Jobs -> Job] /\ AllMove
BY MovesSame DEF RecordsSound, AllMove, TypeOK

\* A record that is refreshed and then stored.
LEMMA FreshMoves ==
    ASSUME TypeOK, RecordsSound, NEW j \in Jobs, NEW q, Put(j, q), Moves(j, Fresh(j), q)
    PROVE  job' \in [Jobs -> Job] /\ AllMove
<1>1. Sound(j, job[j]) /\ Moves(j, job[j], Fresh(j))
  BY RefreshMoves DEF RecordsSound, Fresh
<1>2. Moves(j, job[j], q)
  BY <1>1, MovesTrans
<1> QED
  BY <1>2, PutMoves

LEMMA FreshSound ==
    ASSUME RecordsSound, NEW j \in Jobs
    PROVE  Sound(j, Fresh(j))
BY RefreshMoves DEF RecordsSound, Fresh, Moves

\* A call that goes on relies on the same.
LEMMA CallKept ==
    ASSUME TypeOK, NEW c \in Calls, CallSound(c), call'[c] = call[c],
           \A j \in Jobs : Sound(j, job'[j]) /\ Keeps(j, job[j], job'[j])
    PROVE  CallSound(c)'
<1> SUFFICES ASSUME call[c].kind # "idle"
             PROVE  CallSound(c)'
  BY DEF CallSound
<1> DEFINE j == call[c].job  r == job[j]  q == job'[j]
<1>1. /\ j \in Jobs
      /\ 0 < call[c].lease /\ call[c].lease <= r.revision
      /\ call[c].kind = "check" /\ call[c].stage = "run" /\ Owns(c, "running") =>
            call[c].step = r.next + 1
  BY DEF CallSound
<1>2. r.revision \in Nat /\ q.revision \in Nat /\ call[c].lease \in Nat /\ q.lease \in Nat
  BY <1>1 DEF TypeOK, Job, Call, Sound
<1>3. Keeps(j, r, q)
  BY <1>1
<1>4. call[c].lease <= q.revision
  BY <1>1, <1>2, <1>3 DEF Keeps
<1>5. ASSUME call[c].kind = "check", call[c].stage = "run", Owns(c, "running")'
      PROVE  call[c].step = q.next + 1
  <2>1. q.status = "running" /\ q.lease = call[c].lease
    BY <1>5 DEF Owns
  <2>2. r.status = "running" /\ r.lease = q.lease /\ r.next = q.next
    BY <1>1, <1>2, <1>3, <2>1 DEF Keeps
  <2>3. Owns(c, "running")
    BY <2>1, <2>2 DEF Owns
  <2> QED
    BY <1>1, <1>5, <2>2, <2>3
<1> QED
  BY <1>1, <1>4, <1>5 DEF CallSound

\* A restart under way goes on as it was.
LEMMA ActionKept ==
    ASSUME TypeOK, NEW c \in Calls, NEW j \in Jobs, ActionSound(c, j), call'[c] = call[c],
           \A e \in Calls : Acts(e, j)' => Acts(e, j),
           restarts'[j] = restarts[j], KeepsRestart(job[j], job'[j])
    PROVE  ActionSound(c, j)'
BY DEF ActionSound, Acts, KeepsRestart

\* What the record says of restarts stays true when none begins or is concluded.
LEMMA RestartKept ==
    ASSUME NEW j \in Jobs, RestartSound(j), restarts'[j] = restarts[j],
           KeepsRestart(job[j], job'[j])
    PROVE  RestartSound(j)'
BY DEF RestartSound, KeepsRestart

\* No restart begins.
LEMMA ExclusiveKept ==
    ASSUME Exclusive, \A j \in Jobs : KeepsRestart(job[j], job'[j])
    PROVE  Exclusive'
BY DEF Exclusive, KeepsRestart

\* New results carry new revisions, so nothing old is missed.
LEMMA ViewKept ==
    ASSUME TypeOK, NEW j \in Jobs, ViewSound(j), view'[j] = view[j], Sound(j, job[j]),
           Sound(j, job'[j]), Keeps(j, job[j], job'[j])
    PROVE  ViewSound(j)'
<1>1. view[j].revision \in Nat /\ job[j].revision \in Nat /\ job'[j].revision \in Nat
  BY DEF TypeOK, View, Job, Sound
<1>2. view'[j].revision <= job'[j].revision
  BY <1>1 DEF ViewSound, Keeps
<1>3. ASSUME NEW i \in Steps(j), job'[j].checks[i].revision <= view[j].revision
      PROVE  view[j].results[i] = job'[j].checks[i].revision
  <2>1. job'[j].checks[i].revision \in Nat
    BY CheckTyped DEF Check
  <2> QED
    BY <1>1, <1>3, <2>1 DEF ViewSound, Keeps
<1> QED
  BY <1>2, <1>3 DEF ViewSound

\* A step in which no restart begins, ends or is concluded, and nobody reads.
LEMMA QuietStep ==
    ASSUME JobsInv, job' \in [Jobs -> Job], AllMove, call' \in [Calls -> Call],
           budget' \in Budget, UNCHANGED <<view, restarts>>,
           \A c \in Calls : call'[c] = call[c] \/ (CallSound(c)' /\ call'[c].kind # "action")
    PROVE  JobsInv'
<1>1. TypeOK'
  BY DEF JobsInv, TypeOK
<1>2. RecordsSound'
  BY DEF AllMove, Moves, RecordsSound
<1>3. \A c \in Calls : CallSound(c)'
  <2> TAKE c \in Calls
  <2> QED
    BY CallKept DEF JobsInv, AllMove, Moves
<1>4. \A c \in Calls, j \in Jobs : ActionSound(c, j)'
  <2> TAKE c \in Calls, j \in Jobs
  <2>1. CASE call'[c] = call[c]
    <3>1. \A e \in Calls : Acts(e, j)' => Acts(e, j)
      BY DEF Acts
    <3> QED
      BY <2>1, <3>1, ActionKept DEF JobsInv, AllMove, Moves
  <2>2. CASE call'[c].kind # "action"
    BY <2>2 DEF ActionSound, Acts
  <2> QED
    BY <2>1, <2>2
<1>5. \A j \in Jobs : RestartSound(j)'
  BY RestartKept DEF JobsInv, AllMove, Moves
<1>6. Exclusive'
  BY ExclusiveKept DEF JobsInv, AllMove, Moves
<1>7. \A j \in Jobs : ViewSound(j)'
  BY ViewKept DEF JobsInv, AllMove, Moves, RecordsSound
<1> QED
  BY <1>1, <1>2, <1>3, <1>4, <1>5, <1>6, <1>7 DEF JobsInv

-----------------------------------------------------------------------------
(* The steps                                                               *)

LEMMA IdleCall ==
    Idle \in Call /\ Idle.kind = "idle"
BY DEF Idle, Call, NoLease

\* A call that ends relies on nothing.
LEMMA HangQuiet ==
    ASSUME TypeOK, NEW c \in Calls, Hang(c)
    PROVE  /\ call' \in [Calls -> Call]
           /\ \A e \in Calls : call'[e] = call[e] \/ (CallSound(e)' /\ call'[e].kind # "action")
           /\ call'[c].kind = "idle" /\ \A e \in Calls \ {c} : call'[e] = call[e]
<1>1. call' \in [Calls -> Call] /\ call'[c] = Idle /\ \A e \in Calls \ {c} : call'[e] = call[e]
  BY IdleCall DEF Hang, TypeOK
<1> QED
  BY <1>1, IdleCall DEF CallSound

\* A call that claims job j, and is due to run.
LEMMA BusyCall ==
    ASSUME NEW j \in Jobs, NEW r \in Job, NEW bg \in BOOLEAN,
           NEW kind \in {"check", "action", "verify"}, NEW stage \in {"claimed", "run"}
    PROVE  LET b == Busy(kind, stage, bg, j, r) IN
           /\ b \in Call /\ b.kind = kind /\ b.stage = stage /\ b.job = j
           /\ b.lease = r.revision + 1
<1> DEFINE b1 == [Idle EXCEPT !.kind = kind, !.stage = stage]
           b2 == [b1 EXCEPT !.detached = bg, !.job = j]
           b == [b2 EXCEPT !.lease = r.revision + 1]
<1>1. b1 \in Call /\ b1.kind = kind /\ b1.stage = stage
  BY IdleCall DEF Call
<1>2. Busy(kind, stage, bg, j, r) = b
  BY DEF Busy
<1> HIDE DEF b1
<1>3. b2 \in Call /\ b2.kind = kind /\ b2.stage = stage /\ b2.job = j
  BY <1>1 DEF Call
<1>4. r.revision + 1 \in Nat
  BY DEF Job
<1> HIDE DEF b2
<1>5. b \in Call /\ b.kind = kind /\ b.stage = stage /\ b.job = j /\ b.lease = r.revision + 1
  BY <1>3, <1>4 DEF Call
<1> HIDE DEF b
<1> QED
  BY <1>2, <1>5

LEMMA CreateKeeps ==
    ASSUME JobsInv, NEW j \in Jobs, Create(j)
    PROVE  JobsInv'
<1>1. job[j].status = "absent"
  BY DEF Create
<1>2. Moves(j, job[j], NewJob(j))
  BY <1>1, NewMoves DEF JobsInv, RecordsSound
<1>3. job' \in [Jobs -> Job] /\ AllMove
  <2>1. CASE Put(j, NewJob(j))
    BY <1>2, <2>1, PutMoves DEF JobsInv
  <2>2. ASSUME NEW v \in {k \in {h \in Jobs : Present(h)} : Fresh(k).status \in FinalStates},
               job' = [k \in Jobs |-> CASE k = j -> NewJob(j)
                                        [] k = v -> [Fresh(v) EXCEPT !.status = "evicted"]
                                        [] OTHER -> Fresh(k)]
        PROVE  job' \in [Jobs -> Job] /\ AllMove
    <3>1. v # j
      BY <1>1, <2>2 DEF Present, Gone
    <3>2. \A k \in Jobs : Moves(k, job[k], Fresh(k)) /\ Sound(k, Fresh(k)) /\ Sound(k, job[k])
      BY RefreshMoves, FreshSound DEF JobsInv, RecordsSound, Fresh
    <3>3. Moves(v, job[v], [Fresh(v) EXCEPT !.status = "evicted"])
      BY <2>2, <3>2, EvictMoves, MovesTrans
    <3>4. ASSUME NEW k \in Jobs
          PROVE  Moves(k, job[k], job'[k])
      <4>1. job'[k] = IF k = j THEN NewJob(j)
                      ELSE IF k = v THEN [Fresh(v) EXCEPT !.status = "evicted"] ELSE Fresh(k)
        BY <2>2, <3>1
      <4> QED
        BY <1>2, <3>2, <3>3, <4>1
    <3>5. \A k \in Jobs : job'[k] \in Job
      BY <3>4 DEF Moves, Sound
    <3> QED
      BY <2>2, <3>4, <3>5 DEF AllMove
  <2> QED
    BY <2>1, <2>2 DEF Create
<1> QED
  BY <1>3, QuietStep DEF Create, JobsInv, TypeOK

LEMMA ListKeeps ==
    ASSUME JobsInv, List
    PROVE  JobsInv'
<1>1. \A k \in Jobs : Moves(k, job[k], Fresh(k)) /\ Fresh(k) \in Job
  BY RefreshMoves DEF JobsInv, RecordsSound, Fresh, Moves, Sound
<1>2. job' \in [Jobs -> Job] /\ AllMove
  BY <1>1 DEF List, AllMove
<1> QED
  BY <1>2, QuietStep DEF List, JobsInv, TypeOK

\* The client has now seen the results of its revision and the later ones.
LEMMA GetKeeps ==
    ASSUME JobsInv, NEW j \in Jobs, Get(j)
    PROVE  JobsInv'
<1> DEFINE r == Fresh(j)  after == view[j].revision  n == Len(PlanOf[j])
           v == [revision |-> r.revision,
                 results |-> [i \in 1..n |->
                    IF r.checks[i].revision > after THEN r.checks[i].revision
                    ELSE view[j].results[i]]]
<1>0. TypeOK /\ RecordsSound /\ Sound(j, r) /\ Sound(j, job[j])
  BY FreshSound DEF JobsInv, RecordsSound
<1>1. job' \in [Jobs -> Job] /\ AllMove
  <2>1. Moves(j, r, r)
    BY <1>0, MovesSame
  <2> QED
    BY <1>0, <2>1, FreshMoves DEF Get
<1>2. r.checks = job[j].checks /\ Keeps(j, job[j], r)
  BY <1>0, RefreshMoves DEF Fresh, Moves
<1>3. n \in Nat /\ r.revision \in Nat /\ job[j].revision \in Nat /\ after \in Nat
  BY <1>0, JobsAssumption DEF Sound, Job, TypeOK, View
<1>4. \A i \in Steps(j) : r.checks[i].revision \in Nat /\ r.checks[i].revision <= r.revision
  BY <1>0, CheckTyped DEF Check, Sound, ChecksSound
<1>5. view[j].results \in Seq(Nat) /\ Len(view[j].results) = n /\ ViewSound(j)
  BY DEF JobsInv, TypeOK, View, ViewSound
<1>6. \A i \in Steps(j) : view[j].results[i] \in Nat
  BY <1>5 DEF Steps
<1>7. job'[j] = r
  BY <1>0 DEF Get, Put, TypeOK
<1>8. view' \in [Jobs -> View] /\ ViewSound(j)' /\ \A k \in Jobs \ {j} : view'[k] = view[k]
  <2>1. CASE after >= r.revision
    <3>1. view' = view
      BY <2>1 DEF Get
    <3>2. after <= r.revision
      BY <1>2, <1>3, <1>5 DEF Keeps, ViewSound
    <3>3. ViewSound(j)'
      BY <1>2, <1>3, <1>5, <1>7, <3>1, <3>2 DEF ViewSound
    <3> QED
      BY <1>0, <3>1, <3>3 DEF TypeOK
  <2>2. CASE ~(after >= r.revision)
    <3>1. view' = [view EXCEPT ![j] = v]
      BY <2>2 DEF Get
    <3>2. v.revision = r.revision /\ v.results \in Seq(Nat) /\ Len(v.results) = n
      BY <1>3, <1>4, <1>6 DEF Steps
    <3>3. \A i \in Steps(j) : v.results[i] = r.checks[i].revision
      <4> TAKE i \in Steps(j)
      <4>1. CASE r.checks[i].revision > after
        BY <4>1 DEF Steps
      <4>2. CASE ~(r.checks[i].revision > after)
        <5>1. r.checks[i].revision <= after
          BY <1>3, <1>4, <4>2
        <5>2. view[j].results[i] = r.checks[i].revision
          BY <1>2, <1>5, <5>1 DEF ViewSound
        <5> QED
          BY <4>2, <5>2 DEF Steps
      <4> QED
        BY <4>1, <4>2
    <3>4. v \in View
      BY <1>3, <3>2 DEF View
    <3> HIDE DEF v
    <3>5. view' \in [Jobs -> View] /\ view'[j] = v /\ \A k \in Jobs \ {j} : view'[k] = view[k]
      BY <1>0, <3>1, <3>4 DEF TypeOK
    <3>6. ViewSound(j)'
      BY <1>3, <1>7, <3>2, <3>3, <3>5 DEF ViewSound
    <3> QED
      BY <3>5, <3>6
  <2> QED
    BY <2>1, <2>2
<1>9. UNCHANGED <<call, budget, restarts>>
  BY DEF Get
<1>10. TypeOK' /\ RecordsSound'
  BY <1>0, <1>1, <1>8, <1>9 DEF TypeOK, AllMove, Moves, RecordsSound
<1>11. \A c \in Calls : CallSound(c)'
  BY <1>1, <1>9, CallKept DEF JobsInv, AllMove, Moves
<1>12. \A c \in Calls, k \in Jobs : ActionSound(c, k)'
  <2>1. \A e \in Calls, k \in Jobs : Acts(e, k)' => Acts(e, k)
    BY <1>9 DEF Acts
  <2> QED
    BY <1>1, <1>9, <2>1, ActionKept DEF JobsInv, AllMove, Moves
<1>13. (\A k \in Jobs : RestartSound(k)') /\ Exclusive'
  BY <1>1, <1>9, RestartKept, ExclusiveKept DEF JobsInv, AllMove, Moves
<1>14. \A k \in Jobs : ViewSound(k)'
  <2> TAKE k \in Jobs
  <2>1. CASE k # j
    BY <1>1, <1>8, <2>1, ViewKept DEF JobsInv, AllMove, Moves, RecordsSound
  <2> QED
    BY <1>8, <2>1
<1> QED
  BY <1>10, <1>11, <1>12, <1>13, <1>14 DEF JobsInv

\* A claim whose lease is the revision it stores.
LEMMA BeginQuiet ==
    ASSUME TypeOK, NEW c \in Calls, NEW j \in Jobs, NEW b \in Call,
           call' = [call EXCEPT ![c] = b], b.kind \in {"check", "verify"}, b.job = j,
           b.stage = "claimed" \/ b.kind = "verify", job'[j] \in Job,
           0 < b.lease, b.lease <= job'[j].revision
    PROVE  /\ call' \in [Calls -> Call]
           /\ \A e \in Calls : call'[e] = call[e] \/ (CallSound(e)' /\ call'[e].kind # "action")
<1>1. call' \in [Calls -> Call] /\ call'[c] = b /\ \A e \in Calls \ {c} : call'[e] = call[e]
  BY DEF TypeOK
<1>2. CallSound(c)'
  BY <1>1 DEF CallSound
<1> QED
  BY <1>1, <1>2

LEMMA AdvanceKeeps ==
    ASSUME JobsInv, NEW c \in Calls, NEW j \in Jobs, NEW bg \in BOOLEAN, Advance(c, j, bg)
    PROVE  JobsInv'
<1> DEFINE r == Fresh(j)  i == r.next + 1
           q == [Lease(r, "running") EXCEPT !.checks[i].status = "running",
                                            !.checks[i].attempts = @ + 1]
           b == Busy("check", "claimed", bg, j, r)
<1>1. TypeOK /\ RecordsSound /\ Sound(j, r) /\ r \in Job
  BY FreshSound DEF JobsInv, Sound
<1>2. Put(j, q) /\ call' = [call EXCEPT ![c] = b]
  BY DEF Advance
<1>3. Moves(j, r, q) /\ q.revision = r.revision + 1
  BY <1>1, ClaimMoves DEF Advance
<1>4. b \in Call /\ b.kind = "check" /\ b.stage = "claimed" /\ b.job = j
      /\ b.lease = r.revision + 1
  BY <1>1, BusyCall
<1> HIDE DEF q, b
<1>5. job' \in [Jobs -> Job] /\ AllMove
  BY <1>1, <1>2, <1>3, FreshMoves
<1>6. job'[j] = q /\ q \in Job /\ r.revision \in Nat
  BY <1>1, <1>2, <1>3 DEF Put, TypeOK, Moves, Sound, Job
<1>7. 0 < b.lease /\ b.lease <= job'[j].revision
  BY <1>3, <1>4, <1>6
<1>8. /\ call' \in [Calls -> Call]
      /\ \A e \in Calls : call'[e] = call[e] \/ (CallSound(e)' /\ call'[e].kind # "action")
  BY <1>1, <1>2, <1>4, <1>6, <1>7, BeginQuiet
<1> QED
  BY <1>1, <1>5, <1>8, QuietStep DEF Advance, TypeOK

LEMMA VerifyKeeps ==
    ASSUME JobsInv, NEW c \in Calls, NEW j \in Jobs, Verify(c, j)
    PROVE  JobsInv'
<1> DEFINE r == Fresh(j)
           q == Lease(r, "verifying")
           b == Busy("verify", "run", FALSE, j, r)
<1>1. TypeOK /\ RecordsSound /\ Sound(j, r) /\ r \in Job
  BY FreshSound DEF JobsInv, Sound
<1>2. Put(j, q) /\ call' = [call EXCEPT ![c] = b]
  BY DEF Verify
<1>3. Moves(j, r, q) /\ q.revision = r.revision + 1
  <2>1. "verifying" \in Statuses
    BY DEF Statuses, Leased
  <2> QED
    BY <1>1, <2>1, VerifyMoves, LeaseFields DEF Verify
<1>4. b \in Call /\ b.kind = "verify" /\ b.job = j /\ b.lease = r.revision + 1
  <2>1. ASSUME NEW bg \in BOOLEAN
        PROVE  LET x == Busy("verify", "run", bg, j, r) IN
               /\ x \in Call /\ x.kind = "verify" /\ x.stage = "run" /\ x.job = j
               /\ x.lease = r.revision + 1
    BY <1>1, BusyCall
  <2>2. FALSE \in BOOLEAN
    OBVIOUS
  <2> QED
    BY <2>1, <2>2
<1> HIDE DEF q, b
<1>5. job' \in [Jobs -> Job] /\ AllMove
  BY <1>1, <1>2, <1>3, FreshMoves
<1>6. job'[j] = q /\ q \in Job /\ r.revision \in Nat
  BY <1>1, <1>2, <1>3 DEF Put, TypeOK, Moves, Sound, Job
<1>7. 0 < b.lease /\ b.lease <= job'[j].revision
  BY <1>3, <1>4, <1>6
<1>8. /\ call' \in [Calls -> Call]
      /\ \A e \in Calls : call'[e] = call[e] \/ (CallSound(e)' /\ call'[e].kind # "action")
  BY <1>1, <1>2, <1>4, <1>6, <1>7, BeginQuiet
<1> QED
  BY <1>1, <1>5, <1>8, QuietStep DEF Verify, TypeOK

LEMMA SpawnFailsKeeps ==
    ASSUME JobsInv, NEW c \in Calls, SpawnFails(c)
    PROVE  JobsInv'
<1> DEFINE j == call[c].job  r == job[j]
<1>1. TypeOK /\ RecordsSound /\ j \in Jobs /\ Sound(j, r)
  BY DEF JobsInv, RecordsSound, CallSound, SpawnFails
<1>2. job' \in [Jobs -> Job] /\ AllMove
  <2>1. CASE Owns(c, "running")
    <3>1. r.status = "running"
      BY <2>1 DEF Owns
    <3>2. Moves(j, r, [Bump(Released(r)) EXCEPT !.status = "pending",
                                                !.checks[r.next + 1].status = "pending"])
      BY <1>1, <3>1, UnclaimMoves
    <3> QED
      BY <1>1, <2>1, <3>2, PutMoves DEF SpawnFails
  <2>2. CASE ~Owns(c, "running")
    BY <1>1, <2>2, SameMoves DEF SpawnFails
  <2> QED
    BY <2>1, <2>2
<1> QED
  BY <1>1, <1>2, HangQuiet, QuietStep DEF SpawnFails, TypeOK

LEMMA CheckStartKeeps ==
    ASSUME JobsInv, NEW c \in Calls, CheckStart(c)
    PROVE  JobsInv'
<1> DEFINE j == call[c].job  r == job[j]
<1>1. TypeOK /\ RecordsSound /\ j \in Jobs /\ Sound(j, r) /\ CallSound(c)
      /\ 0 < call[c].lease /\ call[c].lease <= r.revision
  BY DEF JobsInv, RecordsSound, CallSound, CheckStart
<1>2. job' \in [Jobs -> Job] /\ AllMove
  BY <1>1, SameMoves DEF CheckStart
<1>3. /\ call' \in [Calls -> Call]
      /\ \A e \in Calls : call'[e] = call[e] \/ (CallSound(e)' /\ call'[e].kind # "action")
  <2>1. CASE Owns(c, "running")
    <3>1. call' = [call EXCEPT ![c].stage = "run", ![c].step = r.next + 1]
      BY <2>1 DEF CheckStart
    <3>2. r.next + 1 \in Nat
      BY <1>1 DEF Sound, Job
    <3>3. call[c] \in Call
      BY <1>1 DEF TypeOK
    <3> DEFINE b == [call[c] EXCEPT !.stage = "run", !.step = r.next + 1]
    <3>4. call' = [call EXCEPT ![c] = b]
      BY <1>1, <3>1 DEF TypeOK
    <3>5. b \in Call /\ b.kind = call[c].kind /\ b.job = j /\ b.lease = call[c].lease
          /\ b.step = r.next + 1
      BY <3>2, <3>3 DEF Call
    <3> HIDE DEF b
    <3>6. call' \in [Calls -> Call] /\ call'[c] = b /\ \A e \in Calls \ {c} : call'[e] = call[e]
      BY <1>1, <3>4, <3>5 DEF TypeOK
    <3>7. CallSound(c)'
      BY <1>1, <3>5, <3>6 DEF CallSound, CheckStart
    <3>8. call'[c].kind # "action"
      BY <3>5, <3>6 DEF CheckStart
    <3> QED
      BY <3>6, <3>7, <3>8
  <2>2. CASE ~Owns(c, "running")
    BY <1>1, <2>2, HangQuiet DEF CheckStart
  <2> QED
    BY <2>1, <2>2
<1> QED
  BY <1>1, <1>2, <1>3, QuietStep DEF CheckStart, TypeOK

\* The run is the run of the check that is due, or its lease is gone.
LEMMA CheckCommitKeeps ==
    ASSUME JobsInv, NEW c \in Calls, NEW ok \in BOOLEAN, CheckCommit(c, ok)
    PROVE  JobsInv'
<1> DEFINE j == call[c].job  r == job[j]  i == r.next + 1
           done == IF ok THEN r.next + 1 ELSE r.next
           status == CASE ~ok -> "needs_attention"
                       [] ok /\ done = Len(PlanOf[j]) -> "awaiting_agent"
                       [] OTHER -> "pending"
           q == [Bump(Released(r)) EXCEPT !.status = status, !.next = done,
                     !.checks[i].status = IF ok THEN "completed" ELSE "failed",
                     !.checks[i].revision = r.revision + 1, !.checks[i].ran = call[c].step]
<1>1. TypeOK /\ RecordsSound /\ j \in Jobs /\ Sound(j, r) /\ CallSound(c)
  BY DEF JobsInv, RecordsSound, CallSound, CheckCommit
<1>2. job' \in [Jobs -> Job] /\ AllMove
  <2>1. CASE Owns(c, "running")
    <3>1. r.status = "running" /\ call[c].step = r.next + 1
      BY <1>1, <2>1 DEF Owns, CallSound, CheckCommit
    <3>2. Moves(j, r, q)
      BY <1>1, <3>1, CommitMoves
    <3>3. Put(j, q)
      BY <2>1 DEF CheckCommit
    <3> HIDE DEF q
    <3> QED
      BY <1>1, <3>2, <3>3, PutMoves
  <2>2. CASE ~Owns(c, "running")
    BY <1>1, <2>2, SameMoves DEF CheckCommit
  <2> QED
    BY <2>1, <2>2
<1> QED
  BY <1>1, <1>2, HangQuiet, QuietStep DEF CheckCommit, TypeOK

LEMMA VerifyCommitKeeps ==
    ASSUME JobsInv, NEW c \in Calls, NEW healthy \in BOOLEAN, VerifyCommit(c, healthy)
    PROVE  JobsInv'
<1> DEFINE j == call[c].job  r == job[j]
<1>1. TypeOK /\ RecordsSound /\ j \in Jobs /\ Sound(j, r)
  BY DEF JobsInv, RecordsSound, CallSound, VerifyCommit
<1>2. job' \in [Jobs -> Job] /\ AllMove
  <2>1. CASE Owns(c, "verifying")
    <3>1. r.status = "verifying"
      BY <2>1 DEF Owns
    <3> QED
      BY <1>1, <2>1, <3>1, VerifiedMoves, PutMoves DEF VerifyCommit
  <2>2. CASE ~Owns(c, "verifying")
    BY <1>1, <2>2, SameMoves DEF VerifyCommit
  <2> QED
    BY <2>1, <2>2
<1> QED
  BY <1>1, <1>2, HangQuiet, QuietStep DEF VerifyCommit, TypeOK

\* The steps of one job without a call.
LEMMA LoneKeeps ==
    ASSUME JobsInv, NEW j \in Jobs,
           Cancel(j) \/ Finish(j) \/ Propose(j) \/ LeaseLapses(j) \/ JobLapses(j)
    PROVE  JobsInv'
<1>1. TypeOK /\ RecordsSound /\ Sound(j, Fresh(j)) /\ Sound(j, job[j])
  BY FreshSound DEF JobsInv, RecordsSound
<1>2. job' \in [Jobs -> Job] /\ AllMove
  <2>1. CASE Cancel(j)
    BY <1>1, <2>1, CancelMoves, FreshMoves DEF Cancel
  <2>2. CASE Finish(j)
    BY <1>1, <2>2, FinishMoves, FreshMoves DEF Finish
  <2>3. CASE Propose(j)
    BY <1>1, <2>3, ProposeMoves, FreshMoves DEF Propose
  <2>4. CASE LeaseLapses(j)
    BY <1>1, <2>4, LeaseDueMoves, PutMoves DEF LeaseLapses, Leased
  <2>5. CASE JobLapses(j)
    BY <1>1, <2>5, DueMoves, PutMoves DEF JobLapses, Gone
  <2> QED
    BY <2>1, <2>2, <2>3, <2>4, <2>5
<1>3. UNCHANGED <<call, budget, view, restarts>>
  BY DEF Cancel, Finish, Propose, LeaseLapses, JobLapses
<1> QED
  BY <1>1, <1>2, <1>3, QuietStep DEF TypeOK

\* A restart begins only in a job that has had none, beside no other that still
\* holds its lease.
LEMMA ExecuteKeeps ==
    ASSUME JobsInv, NEW c \in Calls, NEW j \in Jobs, Execute(c, j)
    PROVE  JobsInv'
<1> DEFINE r == Fresh(j)
           q == Lease(r, "action_running")
           b == Busy("action", "run", FALSE, j, r)
<1>1. TypeOK /\ RecordsSound /\ Sound(j, r) /\ Sound(j, job[j]) /\ r \in Job
  BY FreshSound DEF JobsInv, RecordsSound, Sound
<1>2. r = job[j] /\ r.status = "awaiting_confirmation"
  BY <1>1, RefreshMoves DEF Execute, Fresh
<1>3. /\ Sound(j, q) /\ Keeps(j, r, q)
      /\ q.status = "action_running" /\ q.lease = r.revision + 1
      /\ q.revision = r.revision + 1 /\ q.action = "proposed" /\ ~q.leaseDue
  BY <1>1, <1>2, ExecuteSound
<1>4. b \in Call /\ b.kind = "action" /\ b.stage = "run" /\ b.job = j
      /\ b.lease = r.revision + 1
  <2>1. ASSUME NEW bg \in BOOLEAN
        PROVE  LET x == Busy("action", "run", bg, j, r) IN
               /\ x \in Call /\ x.kind = "action" /\ x.stage = "run" /\ x.job = j
               /\ x.lease = r.revision + 1
    BY <1>1, BusyCall
  <2>2. FALSE \in BOOLEAN
    OBVIOUS
  <2> QED
    BY <2>1, <2>2
<1>5. /\ Put(j, q) /\ call' = [call EXCEPT ![c] = b] /\ UNCHANGED <<budget, view, restarts>>
      /\ call[c].kind = "idle" /\ ~RecoveryBusy(j)
  BY DEF Execute
<1>6. q \in Job /\ r.revision \in Nat
  BY <1>1, <1>3 DEF Sound, Job
<1> HIDE DEF q, b, r
<1>7. /\ job' \in [Jobs -> Job] /\ job'[j] = q /\ \A k \in Jobs \ {j} : job'[k] = job[k]
      /\ call' \in [Calls -> Call] /\ call'[c] = b /\ \A e \in Calls \ {c} : call'[e] = call[e]
  BY <1>1, <1>4, <1>5, <1>6 DEF Put, TypeOK
<1>8. \A k \in Jobs : Sound(k, job'[k]) /\ Keeps(k, job[k], job'[k])
  <2>1. \A k \in Jobs : Moves(k, job[k], job[k])
    BY <1>1, MovesSame DEF RecordsSound
  <2> QED
    BY <1>2, <1>3, <1>7, <2>1 DEF Moves
<1>9. \A k \in Jobs \ {j} : KeepsRestart(job[k], job'[k])
  BY <1>1, <1>7, MovesSame DEF RecordsSound, Moves
<1>10. TypeOK' /\ RecordsSound'
  BY <1>1, <1>5, <1>7, <1>8 DEF TypeOK, RecordsSound
<1>11. \A e \in Calls : CallSound(e)'
  <2> TAKE e \in Calls
  <2>1. CASE e = c
    BY <1>3, <1>4, <1>6, <1>7, <2>1 DEF CallSound
  <2>2. CASE e # c
    BY <1>1, <1>7, <1>8, <2>2, CallKept DEF JobsInv
  <2> QED
    BY <2>1, <2>2
<1>12. \A e \in Calls : ~Acts(e, j)
  BY <1>2 DEF JobsInv, ActionSound
<1>13. \A e \in Calls, k \in Jobs : ActionSound(e, k)'
  <2> TAKE e \in Calls, k \in Jobs
  <2>1. CASE k = j
    <3>1. Acts(e, j)' => e = c
      BY <1>7, <1>12 DEF Acts
    <3>2. \A x \in Calls : Acts(x, j)' => x = c
      BY <1>7, <1>12 DEF Acts
    <3>3. restarts[j] = 0
      BY <1>2 DEF JobsInv, RestartSound
    <3> QED
      BY <1>3, <1>4, <1>5, <1>7, <2>1, <3>1, <3>2, <3>3 DEF ActionSound
  <2>2. CASE k # j
    <3>1. \A x \in Calls : Acts(x, k)' => x # c /\ Acts(x, k)
      BY <1>4, <1>7, <2>2 DEF Acts
    <3>2. CASE e = c
      BY <3>1, <3>2 DEF ActionSound
    <3>3. CASE e # c
      BY <1>1, <1>5, <1>7, <1>9, <2>2, <3>1, <3>3, ActionKept DEF JobsInv
    <3> QED
      BY <3>2, <3>3
  <2> QED
    BY <2>1, <2>2
<1>14. \A k \in Jobs : RestartSound(k)'
  <2> TAKE k \in Jobs
  <2>1. CASE k = j
    BY <1>2, <1>3, <1>5, <1>7, <2>1 DEF JobsInv, RestartSound
  <2>2. CASE k # j
    BY <1>5, <1>9, <2>2, RestartKept DEF JobsInv
  <2> QED
    BY <2>1, <2>2
<1>15. Exclusive'
  BY <1>5, <1>7 DEF JobsInv, Exclusive, RecoveryBusy
<1>16. \A k \in Jobs : ViewSound(k)'
  BY <1>1, <1>5, <1>8, ViewKept DEF JobsInv, RecordsSound
<1> QED
  BY <1>10, <1>11, <1>13, <1>14, <1>15, <1>16 DEF JobsInv

\* Only the one call of the job can restart its service, and it does so once.
LEMMA RunRecoveryKeeps ==
    ASSUME JobsInv, NEW c \in Calls, NEW outcome \in {"blocked", "ok", "error", "raised"},
           NEW restarted \in BOOLEAN, RunRecovery(c, outcome, restarted)
    PROVE  JobsInv'
<1> DEFINE j == call[c].job
           b == [call[c] EXCEPT !.stage = "ran", !.outcome = outcome]
<1>1. TypeOK /\ RecordsSound /\ j \in Jobs /\ CallSound(c) /\ call[c] \in Call
      /\ call[c].kind = "action" /\ call[c].stage = "run"
  BY DEF JobsInv, CallSound, RunRecovery, TypeOK
<1>2. Acts(c, j) /\ ActionSound(c, j) /\ restarts[j] = 0
  BY <1>1 DEF JobsInv, Acts, ActionSound
<1>3. b \in Call /\ b.kind = "action" /\ b.stage = "ran" /\ b.job = j
      /\ b.lease = call[c].lease /\ b.outcome = outcome
  BY <1>1 DEF Call
<1>4. call' = [call EXCEPT ![c] = b]
  BY <1>1 DEF RunRecovery, TypeOK
<1> HIDE DEF b
<1>5. call' \in [Calls -> Call] /\ call'[c] = b /\ \A e \in Calls \ {c} : call'[e] = call[e]
  BY <1>1, <1>3, <1>4 DEF TypeOK
<1>6. UNCHANGED <<job, budget, view>>
  BY DEF RunRecovery
<1>7. /\ restarts' \in [Jobs -> Nat] /\ restarts'[j] = (IF restarted THEN 1 ELSE 0)
      /\ \A k \in Jobs \ {j} : restarts'[k] = restarts[k]
  BY <1>1, <1>2 DEF RunRecovery, TypeOK
<1>8. TypeOK' /\ RecordsSound'
  BY <1>1, <1>5, <1>6, <1>7 DEF TypeOK, RecordsSound
<1>9. AllMove
  BY <1>1, <1>6, SameMoves
<1>10. \A e \in Calls : CallSound(e)'
  <2> TAKE e \in Calls
  <2>1. CASE e = c
    BY <1>1, <1>3, <1>5, <1>6, <2>1 DEF CallSound
  <2>2. CASE e # c
    BY <1>1, <1>5, <1>9, <2>2, CallKept DEF JobsInv, AllMove, Moves
  <2> QED
    BY <2>1, <2>2
<1>11. \A e \in Calls, k \in Jobs : Acts(e, k)' <=> Acts(e, k)
  BY <1>1, <1>3, <1>5 DEF Acts
<1>12. \A e \in Calls, k \in Jobs : ActionSound(e, k)'
  <2> TAKE e \in Calls, k \in Jobs
  <2>1. CASE e = c
    <3>1. CASE k = j
      <4>1. /\ outcome = "blocked" => ~restarted
            /\ outcome = "ok" => restarted
        BY DEF RunRecovery
      <4> QED
        BY <1>2, <1>3, <1>5, <1>6, <1>7, <1>11, <2>1, <3>1, <4>1 DEF ActionSound
    <3>2. CASE k # j
      BY <1>3, <1>5, <2>1, <3>2 DEF ActionSound, Acts
    <3> QED
      BY <3>1, <3>2
  <2>2. CASE e # c /\ k = j
    BY <1>2, <1>11, <2>2 DEF ActionSound
  <2>3. CASE e # c /\ k # j
    <3>1. KeepsRestart(job[k], job'[k])
      BY <1>9 DEF AllMove, Moves
    <3> QED
      BY <1>1, <1>5, <1>7, <1>11, <2>3, <3>1, ActionKept DEF JobsInv
  <2> QED
    BY <2>1, <2>2, <2>3
<1>13. \A k \in Jobs : RestartSound(k)'
  <2> TAKE k \in Jobs
  <2>1. CASE k = j
    BY <1>2, <1>6, <1>7, <2>1 DEF JobsInv, RestartSound, ActionSound
  <2>2. CASE k # j
    BY <1>6, <1>7, <2>2 DEF JobsInv, RestartSound
  <2> QED
    BY <2>1, <2>2
<1>14. Exclusive' /\ \A k \in Jobs : ViewSound(k)'
  BY <1>6 DEF JobsInv, Exclusive, ViewSound
<1> QED
  BY <1>8, <1>10, <1>12, <1>13, <1>14 DEF JobsInv

\* The outcome of a restart is stored by the one call that ran it.
LEMMA RecoveryCommitKeeps ==
    ASSUME JobsInv, NEW c \in Calls, RecoveryCommit(c)
    PROVE  JobsInv'
<1> DEFINE j == call[c].job  r == job[j]  o == call[c].outcome
           q == Bump(AfterRecovery(Released(r), o))
<1>1. TypeOK /\ RecordsSound /\ j \in Jobs /\ Sound(j, r) /\ call[c] \in Call
      /\ call[c].kind = "action" /\ call[c].stage = "ran"
      /\ o \in {"blocked", "ok", "error", "raised"}
  BY DEF JobsInv, CallSound, RecoveryCommit, TypeOK, Call, RecordsSound
<1>2. Hang(c) /\ UNCHANGED <<budget, view, restarts>>
  BY DEF RecoveryCommit
<1>3. CASE ~Owns(c, "action_running")
  <2>1. job' \in [Jobs -> Job] /\ AllMove
    BY <1>1, <1>3, SameMoves DEF RecoveryCommit
  <2> QED
    BY <1>1, <1>2, <2>1, HangQuiet, QuietStep DEF TypeOK
<1>4. CASE Owns(c, "action_running")
  <2>1. r.status = "action_running" /\ Put(j, q)
    BY <1>4 DEF Owns, RecoveryCommit
  <2>2. /\ Sound(j, q) /\ Keeps(j, r, q)
        /\ q.action # "none"
        /\ q.status \in {"awaiting_confirmation", "verification_pending",
                         "needs_attention", "action_uncertain"}
        /\ q.status = "awaiting_confirmation" => o = "blocked"
        /\ q.action = "executed" <=> o = "ok"
    BY <1>1, <2>1, RecoverySound
  <2>3. Acts(c, j) /\ ActionSound(c, j) /\ \A e \in Calls : Acts(e, j) => e = c
    BY <1>1 DEF JobsInv, Acts, ActionSound
  <2> HIDE DEF q
  <2>4. job' \in [Jobs -> Job] /\ job'[j] = q /\ \A k \in Jobs \ {j} : job'[k] = job[k]
    BY <1>1, <2>1, <2>2 DEF Put, TypeOK, Sound
  <2>5. /\ call' \in [Calls -> Call]
        /\ \A e \in Calls : call'[e] = call[e] \/ (CallSound(e)' /\ call'[e].kind # "action")
        /\ call'[c].kind = "idle" /\ \A e \in Calls \ {c} : call'[e] = call[e]
    BY <1>1, <1>2, HangQuiet
  <2>6. \A k \in Jobs : Sound(k, job'[k]) /\ Keeps(k, job[k], job'[k])
    <3>1. \A k \in Jobs : Moves(k, job[k], job[k])
      BY <1>1, MovesSame DEF RecordsSound
    <3> QED
      BY <2>2, <2>4, <3>1 DEF Moves
  <2>7. \A k \in Jobs \ {j} : KeepsRestart(job[k], job'[k])
    BY <1>1, <2>4, MovesSame DEF RecordsSound, Moves
  <2>8. TypeOK' /\ RecordsSound'
    BY <1>1, <1>2, <2>4, <2>5, <2>6 DEF TypeOK, RecordsSound
  <2>9. \A e \in Calls : CallSound(e)'
    <3> TAKE e \in Calls
    <3> QED
      BY <1>1, <2>5, <2>6, CallKept DEF JobsInv
  <2>10. \A e \in Calls, k \in Jobs : Acts(e, k)' => e # c /\ k # j /\ Acts(e, k)
    BY <2>3, <2>5 DEF Acts
  <2>11. \A e \in Calls, k \in Jobs : ActionSound(e, k)'
    <3> TAKE e \in Calls, k \in Jobs
    <3>1. CASE e = c \/ k = j
      BY <2>10, <3>1 DEF ActionSound
    <3>2. CASE e # c /\ k # j
      BY <1>1, <1>2, <2>5, <2>7, <2>10, <3>2, ActionKept DEF JobsInv
    <3> QED
      BY <3>1, <3>2
  <2>12. \A k \in Jobs : RestartSound(k)'
    <3> TAKE k \in Jobs
    <3>1. CASE k = j
      BY <1>1, <1>2, <2>2, <2>3, <2>4, <3>1 DEF JobsInv, RestartSound, ActionSound
    <3>2. CASE k # j
      BY <1>2, <2>7, <3>2, RestartKept DEF JobsInv
    <3> QED
      BY <3>1, <3>2
  <2>13. Exclusive'
    BY <2>2, <2>4 DEF JobsInv, Exclusive
  <2>14. \A k \in Jobs : ViewSound(k)'
    BY <1>1, <1>2, <2>6, ViewKept DEF JobsInv, RecordsSound
  <2> QED
    BY <2>8, <2>9, <2>11, <2>12, <2>13, <2>14 DEF JobsInv
<1> QED
  BY <1>3, <1>4

-----------------------------------------------------------------------------
(* The theorems                                                            *)

\* An empty store.
LEMMA JobsInit ==
    ASSUME Init
    PROVE  JobsInv
<1>1. \A j \in Jobs : Sound(j, Unborn(j)) /\ Unborn(j).status = "absent"
                      /\ Unborn(j).action = "none" /\ Unborn(j).revision = 0
                      /\ \A i \in Steps(j) : Unborn(j).checks[i].revision = 0
  <2> TAKE j \in Jobs
  <2> DEFINE n == Len(PlanOf[j])
             k == [status |-> "pending", attempts |-> 0, revision |-> 0, ran |-> 0]
             cs == [i \in 1..n |-> k]
             u == Unborn(j)
  <2>1. n \in Nat /\ k \in Check
    BY JobsAssumption DEF Check
  <2>2. cs \in Seq(Check) /\ Len(cs) = n /\ \A i \in Steps(j) : cs[i] = k
    <3> HIDE DEF k
    <3> QED
      BY <2>1 DEF Steps
  <2> DEFINE w == NewJob(j)
  <2>3. /\ w = [status |-> "pending", revision |-> 1, next |-> 0, checks |-> cs, lease |-> 0,
                leaseDue |-> FALSE, due |-> FALSE, action |-> "none", healthy |-> FALSE]
        /\ u = [w EXCEPT !.status = "absent", !.revision = 0]
    BY DEF Unborn, NewJob, NoLease
  <2> HIDE DEF cs, w, u
  <2>8. w \in Job
    BY <2>2, <2>3 DEF Job, Statuses
  <2>4. u \in Job
    BY <2>3, <2>8 DEF Job, Statuses, Gone
  <2>9. /\ u.status = "absent" /\ u.revision = 0 /\ u.next = 0 /\ u.checks = cs
        /\ u.action = "none"
    BY <2>3, <2>8 DEF Job
  <2>5. \A i \in Steps(j) : i \in Nat /\ i > 0
    BY <2>1 DEF Steps
  <2>6. ChecksSound(j, u)
    BY <2>1, <2>2, <2>9, <2>5 DEF ChecksSound
  <2>7. StatusSound(j, u)
    BY <2>9 DEF StatusSound, u
  <2> QED
    BY <2>2, <2>9, <2>4, <2>6, <2>7 DEF Sound, u
<1>2. \A j \in Jobs : job[j] = Unborn(j) /\ restarts[j] = 0
  BY DEF Init
<1>3. \A c \in Calls : call[c].kind = "idle"
  BY IdleCall DEF Init
<1>4. \A j \in Jobs : view[j] \in View /\ ViewSound(j)
  <2> TAKE j \in Jobs
  <2> DEFINE n == Len(PlanOf[j])  rs == [i \in 1..n |-> 0]
  <2>1. n \in Nat
    BY JobsAssumption
  <2>2. rs \in Seq(Nat) /\ Len(rs) = n /\ \A i \in Steps(j) : rs[i] = 0
    BY <2>1 DEF Steps
  <2>3. view[j] = [revision |-> 0, results |-> rs]
    BY DEF Init
  <2> HIDE DEF rs
  <2> QED
    BY <1>1, <1>2, <2>2, <2>3 DEF View, ViewSound
<1>5. TypeOK
  BY <1>1, <1>4, IdleCall, JobsAssumption DEF Init, TypeOK, Sound
<1>6. \A j \in Jobs : RestartSound(j)
  BY <1>1, <1>2 DEF RestartSound
<1>7. Exclusive
  BY <1>1, <1>2 DEF Exclusive
<1> QED
  BY <1>1, <1>2, <1>3, <1>4, <1>5, <1>6, <1>7
     DEF JobsInv, RecordsSound, CallSound, ActionSound, Acts

\* Every step of Next keeps the invariant, one lemma an action.
LEMMA JobsStep ==
    ASSUME JobsInv, [Next]_vars
    PROVE  JobsInv'
<1>1. CASE List
  BY <1>1, ListKeeps
<1>2. ASSUME NEW j \in Jobs,
             \/ Create(j) \/ Get(j) \/ Cancel(j) \/ Finish(j) \/ Propose(j)
             \/ LeaseLapses(j) \/ JobLapses(j)
      PROVE  JobsInv'
  BY <1>2, CreateKeeps, GetKeeps, LoneKeeps
<1>3. ASSUME NEW j \in Jobs, NEW c \in Calls,
             (\E bg \in BOOLEAN : Advance(c, j, bg)) \/ Execute(c, j) \/ Verify(c, j)
      PROVE  JobsInv'
  BY <1>3, AdvanceKeeps, ExecuteKeeps, VerifyKeeps
<1>4. ASSUME NEW c \in Calls,
             SpawnFails(c) \/ CheckStart(c) \/ RecoveryCommit(c)
      PROVE  JobsInv'
  BY <1>4, SpawnFailsKeeps, CheckStartKeeps, RecoveryCommitKeeps
<1>5. ASSUME NEW c \in Calls, NEW ok \in BOOLEAN, CheckCommit(c, ok) \/ VerifyCommit(c, ok)
      PROVE  JobsInv'
  BY <1>5, CheckCommitKeeps, VerifyCommitKeeps
<1>6. ASSUME NEW c \in Calls, NEW outcome \in {"blocked", "ok", "error", "raised"},
             NEW restarted \in BOOLEAN, RunRecovery(c, outcome, restarted)
      PROVE  JobsInv'
  BY <1>6, RunRecoveryKeeps
<1>7. ASSUME NEW c \in Calls, Vanish(c)
      PROVE  JobsInv'
  <2>1. job' \in [Jobs -> Job] /\ AllMove
    BY <1>7, SameMoves DEF JobsInv, Vanish
  <2> QED
    BY <1>7, <2>1, HangQuiet, QuietStep DEF Vanish, JobsInv, TypeOK
<1>8. ASSUME NEW b \in Budgets, HostChanges(b)
      PROVE  JobsInv'
  <2>1. job' \in [Jobs -> Job] /\ AllMove
    BY <1>8, SameMoves DEF JobsInv, HostChanges
  <2>2. budget' \in Budget
    BY <1>8, JobsAssumption DEF HostChanges
  <2> QED
    BY <1>8, <2>1, <2>2, QuietStep DEF HostChanges, JobsInv, TypeOK
<1>9. CASE UNCHANGED vars
  <2>1. job' \in [Jobs -> Job] /\ AllMove
    BY <1>9, SameMoves DEF JobsInv, vars
  <2> QED
    BY <1>9, <2>1, QuietStep DEF vars, JobsInv, TypeOK
<1> QED
  BY <1>1, <1>2, <1>3, <1>4, <1>5, <1>6, <1>7, <1>8, <1>9 DEF Next

\* Every record agrees with its plan and its restart, every call under way with
\* the record it claimed, and every client with what it has been sent, whatever
\* calls interleave, are lost or outlive their leases.
THEOREM JobsInvariant == Spec => []JobsInv
<1>1. Init => JobsInv
  BY JobsInit
<1>2. JobsInv /\ [Next]_vars => JobsInv'
  BY JobsStep
<1> QED
  BY <1>1, <1>2, PTL DEF Spec

\* No sequence of tool calls of execute_agent_recovery, interrupted, confirmed
\* again or run beside each other, restarts the service of a job twice; and two
\* restarts of different jobs overlap only when one has outlived its lease.
THEOREM JobsRestartsOnceAlone == Spec => []RestartsOnceAlone
<1>1. JobsInv => RestartsOnceAlone
  <2> SUFFICES ASSUME JobsInv
               PROVE  RestartsOnceAlone
    OBVIOUS
  <2>1. \A j \in Jobs : restarts[j] <= 1
    BY DEF JobsInv, RestartSound
  <2>2. ASSUME NEW c \in Calls, NEW e \in Calls, c # e,
               call[c].kind = "action", call[c].stage = "run",
               call[e].kind = "action", call[e].stage = "run"
        PROVE  \E d \in {c, e} : ~Owns(d, "action_running") \/ job[call[d].job].leaseDue
    <3> DEFINE j == call[c].job  k == call[e].job
    <3>1. j \in Jobs /\ k \in Jobs
      BY <2>2 DEF JobsInv, CallSound
    <3>2. j # k
      BY <2>2, <3>1 DEF JobsInv, ActionSound, Acts
    <3>3. ~(job[j].status = "action_running" /\ job[k].status = "action_running")
          \/ job[j].leaseDue \/ job[k].leaseDue
      BY <3>1, <3>2 DEF JobsInv, Exclusive
    <3> QED
      BY <3>3 DEF Owns
  <2> QED
    BY <2>1, <2>2 DEF RestartsOnceAlone
<1> QED
  BY <1>1, JobsInvariant, PTL

\* The checks of advance_agent_job complete in their order and with the result of
\* their own run, a job is only concluded so, and get_agent_job(after_revision)
\* leaves out no result, for plans of any length and any number of calls.
THEOREM JobsStepsInOrder == Spec => []StepsInOrder
<1>1. JobsInv => StepsInOrder
  <2> SUFFICES ASSUME JobsInv
               PROVE  StepsInOrder
    OBVIOUS
  <2>1. \A j \in Jobs : Sound(j, job[j]) /\ RestartSound(j) /\ ViewSound(j)
    BY DEF JobsInv, RecordsSound
  <2>2. \A j \in Jobs : \A i \in 1..Len(PlanOf[j]) :
           /\ job[j].checks[i].status = "completed" <=> i <= job[j].next
           /\ i > job[j].next + 1 => job[j].checks[i].status = "pending"
           /\ job[j].checks[i].ran \in {0, i}
    BY <2>1 DEF Sound, ChecksSound, Steps
  <2>3. FinishedProperly
    BY <2>1 DEF FinishedProperly, Sound, StatusSound, RestartSound
  <2>4. DeltaComplete
    BY <2>1 DEF DeltaComplete, Sound, ChecksSound, ViewSound, Steps
  <2> QED
    BY <2>2, <2>3, <2>4 DEF StepsInOrder, JobsInv
<1> QED
  BY <1>1, JobsInvariant, PTL

\* What may become of a record that is closed or may have been restarted.
Closes(r, q) ==
    /\ r.status \in FinalStates => q.status \in {r.status, "evicted"}
    /\ r.status \notin Gone /\ q.status = "evicted" => r.status \in FinalStates \/ r.due
    /\ r.status = "action_uncertain" => q.status \in {"action_uncertain", "expired", "evicted"}

\* Refreshing closes no closed job again, and a job is deleted only after it.
LEMMA FreshCloses ==
    ASSUME RecordsSound, NEW j \in Jobs
    PROVE  /\ Closes(job[j], Fresh(j))
           /\ Fresh(j).status \notin FinalStates \cup Gone \cup {"action_uncertain"} =>
                 job[j].status \notin FinalStates \cup Gone \cup {"action_uncertain"}
           /\ Fresh(j).status \in FinalStates => Closes(job[j], [Fresh(j) EXCEPT !.status = "evicted"])
<1>1. Sound(j, job[j])
  BY DEF RecordsSound
<1> DEFINE q == Fresh(j)
<1>2. \/ q = job[j]
      \/ /\ q.status \in {"expired", "pending", "action_uncertain", "verification_pending"}
         /\ job[j].status \notin FinalStates \cup Gone
         /\ job[j].status = "action_uncertain" => q.status = "expired"
         /\ q.status = "expired" => job[j].due
  BY <1>1, RefreshMoves DEF Fresh
<1>3. q \in Job
  BY <1>1, RefreshMoves DEF Fresh, Moves, Sound
<1> DEFINE e == [q EXCEPT !.status = "evicted"]
<1>4. e.status = "evicted"
  BY <1>3 DEF Job
<1> HIDE DEF q, e
<1>5. Closes(job[j], q)
  BY <1>2 DEF Closes, FinalStates, Gone
<1>6. q.status \notin FinalStates \cup Gone \cup {"action_uncertain"} =>
         job[j].status \notin FinalStates \cup Gone \cup {"action_uncertain"}
  BY <1>2 DEF FinalStates, Gone
<1>7. q.status \in FinalStates => Closes(job[j], e)
  BY <1>2, <1>4 DEF Closes, FinalStates, Gone
<1> QED
  BY <1>5, <1>6, <1>7 DEF q, e

\* A record stored by a call that found its job neither closed nor uncertain.
LEMMA OpenCloses ==
    ASSUME JobsInv, NEW j \in Jobs, NEW q, Put(j, q), q.status # "evicted",
           Fresh(j).status \notin FinalStates \cup Gone \cup {"action_uncertain"}
    PROVE  \A k \in Jobs : Closes(job[k], job'[k])
<1>1. job'[j] = q /\ \A k \in Jobs \ {j} : job'[k] = job[k]
  BY DEF Put, JobsInv, TypeOK
<1>2. job[j].status \notin FinalStates \cup Gone \cup {"action_uncertain"}
  BY FreshCloses DEF JobsInv
<1>3. Closes(job[j], q)
  BY <1>2 DEF Closes
<1> QED
  BY <1>1, <1>3 DEF Closes, FinalStates, Gone

\* The same of a call that still has its lease, and of the passing of time.
LEMMA LeasedCloses ==
    ASSUME JobsInv, NEW j \in Jobs, NEW q, Put(j, q),
           q.status = job[j].status \/ (q.status # "evicted" /\ job[j].status \in Leased)
    PROVE  \A k \in Jobs : Closes(job[k], job'[k])
<1>1. job'[j] = q /\ \A k \in Jobs \ {j} : job'[k] = job[k]
  BY DEF Put, JobsInv, TypeOK
<1>2. Closes(job[j], q)
  BY DEF Closes, Leased, FinalStates, Gone
<1> QED
  BY <1>1, <1>2 DEF Closes, FinalStates, Gone

\* A step that stores nothing.
LEMMA SameCloses ==
    ASSUME UNCHANGED job
    PROVE  \A k \in Jobs : Closes(job[k], job'[k])
BY DEF Closes, FinalStates, Gone

\* The same of every step, one case an action.
LEMMA ClosesStep ==
    ASSUME JobsInv, [Next]_vars
    PROVE  \A k \in Jobs : Closes(job[k], job'[k])
<1>0. RecordsSound /\ TypeOK /\ \A j \in Jobs : Fresh(j) \in Job /\ job[j] \in Job
  BY FreshSound DEF JobsInv, Sound, TypeOK
<1>1. CASE List
  BY <1>0, <1>1, FreshCloses DEF List
<1>2. ASSUME NEW j \in Jobs, Create(j)
      PROVE  \A k \in Jobs : Closes(job[k], job'[k])
  <2>1. Closes(job[j], NewJob(j))
    <3>1. NewJob(j).status = "pending"
      BY DEF NewJob
    <3> QED
      BY <1>2, <3>1 DEF Create, Closes, FinalStates, Gone
  <2>2. CASE Put(j, NewJob(j))
    BY <1>0, <2>1, <2>2, SameCloses DEF Put, TypeOK, Closes, FinalStates, Gone
  <2>3. ASSUME NEW v \in {k \in {h \in Jobs : Present(h)} : Fresh(k).status \in FinalStates},
               job' = [k \in Jobs |-> CASE k = j -> NewJob(j)
                                        [] k = v -> [Fresh(v) EXCEPT !.status = "evicted"]
                                        [] OTHER -> Fresh(k)]
        PROVE  \A k \in Jobs : Closes(job[k], job'[k])
    <3>1. v # j
      BY <1>2, <2>3 DEF Present, Gone, Create
    <3>2. \A k \in Jobs : job'[k] = IF k = j THEN NewJob(j)
                      ELSE IF k = v THEN [Fresh(v) EXCEPT !.status = "evicted"] ELSE Fresh(k)
      BY <2>3, <3>1
    <3> QED
      BY <1>0, <2>1, <2>3, <3>2, FreshCloses
  <2> QED
    BY <1>2, <2>2, <2>3 DEF Create
<1>3. ASSUME NEW j \in Jobs, Get(j)
      PROVE  \A k \in Jobs : Closes(job[k], job'[k])
  <2>1. job'[j] = Fresh(j) /\ \A k \in Jobs \ {j} : job'[k] = job[k]
    BY <1>0, <1>3 DEF Get, Put, TypeOK
  <2> QED
    BY <1>0, <2>1, FreshCloses DEF Closes, FinalStates, Gone
<1>4. ASSUME NEW j \in Jobs, Cancel(j)
      PROVE  \A k \in Jobs : Closes(job[k], job'[k])
  <2> DEFINE p == [Fresh(j) EXCEPT !.status = "cancelled"]
  <2>1. p \in Job /\ p.status = "cancelled"
    BY <1>0 DEF Job, Statuses, FinalStates
  <2> HIDE DEF p
  <2>2. Released(p) \in Job /\ Released(p).status = "cancelled"
    BY <2>1, ReleasedFields
  <2>3. Bump(Released(p)).status = "cancelled"
    BY <2>2, BumpFields
  <2>4. Put(j, Bump(Released(p)))
    BY <1>4 DEF Cancel, p
  <2> QED
    BY <1>4, <2>3, <2>4, OpenCloses DEF Cancel
<1>5. ASSUME NEW j \in Jobs, Finish(j)
      PROVE  \A k \in Jobs : Closes(job[k], job'[k])
  <2> DEFINE p == [Fresh(j) EXCEPT !.status = "completed"]
  <2>1. p \in Job /\ p.status = "completed"
    BY <1>0 DEF Job, Statuses, FinalStates
  <2> HIDE DEF p
  <2>2. Bump(p).status = "completed"
    BY <2>1, BumpFields
  <2>3. Put(j, Bump(p)) /\ Fresh(j).status = "awaiting_agent"
    BY <1>5 DEF Finish, p
  <2> QED
    BY <2>2, <2>3, OpenCloses DEF FinalStates, Gone
<1>6. ASSUME NEW j \in Jobs, Propose(j)
      PROVE  \A k \in Jobs : Closes(job[k], job'[k])
  <2> DEFINE p == [Fresh(j) EXCEPT !.action = "proposed", !.status = "awaiting_confirmation"]
  <2>1. p \in Job /\ p.status = "awaiting_confirmation"
    BY <1>0 DEF Job, Statuses
  <2> HIDE DEF p
  <2>2. Bump(p).status = "awaiting_confirmation"
    BY <2>1, BumpFields
  <2>3. Put(j, Bump(p)) /\ Fresh(j).status \in {"awaiting_agent", "needs_attention"}
    BY <1>6 DEF Propose, p
  <2> QED
    BY <2>2, <2>3, OpenCloses DEF FinalStates, Gone
<1>7. ASSUME NEW j \in Jobs, LeaseLapses(j) \/ JobLapses(j)
      PROVE  \A k \in Jobs : Closes(job[k], job'[k])
  <2>1. CASE LeaseLapses(j)
    <3>1. [job[j] EXCEPT !.leaseDue = TRUE].status = job[j].status
      BY <1>0 DEF Job
    <3> QED
      BY <2>1, <3>1, LeasedCloses DEF LeaseLapses
  <2>2. CASE JobLapses(j)
    <3>1. [job[j] EXCEPT !.due = TRUE].status = job[j].status
      BY <1>0 DEF Job
    <3> QED
      BY <2>2, <3>1, LeasedCloses DEF JobLapses
  <2> QED
    BY <1>7, <2>1, <2>2
<1>8. ASSUME NEW j \in Jobs, NEW c \in Calls, NEW bg \in BOOLEAN, Advance(c, j, bg)
      PROVE  \A k \in Jobs : Closes(job[k], job'[k])
  <2> DEFINE r == Fresh(j)
             q == [Lease(r, "running") EXCEPT !.checks[r.next + 1].status = "running",
                                              !.checks[r.next + 1].attempts = @ + 1]
  <2>1. q.status = "running"
    BY <1>0, <1>8, ClaimMoves, FreshSound DEF Advance
  <2>2. Put(j, q) /\ r.status \in {"pending", "needs_attention"}
    BY <1>8 DEF Advance
  <2> HIDE DEF q
  <2> QED
    BY <2>1, <2>2, OpenCloses DEF FinalStates, Gone
<1>9. ASSUME NEW j \in Jobs, NEW c \in Calls, Execute(c, j) \/ Verify(c, j)
      PROVE  \A k \in Jobs : Closes(job[k], job'[k])
  <2>1. ASSUME NEW s \in {"action_running", "verifying"}
        PROVE  Lease(Fresh(j), s).status = s
    <3>1. Fresh(j) \in Job /\ s \in Statuses
      BY <1>0 DEF Statuses, Leased
    <3> QED
      BY <3>1, LeaseFields
  <2>2. \E s \in {"action_running", "verifying"} : Put(j, Lease(Fresh(j), s))
    BY <1>9 DEF Execute, Verify
  <2>3. Fresh(j).status \in {"awaiting_confirmation", "verification_pending"}
    BY <1>9 DEF Execute, Verify
  <2> QED
    BY <2>1, <2>2, <2>3, OpenCloses DEF FinalStates, Gone
<1>10. ASSUME NEW c \in Calls, SpawnFails(c)
       PROVE  \A k \in Jobs : Closes(job[k], job'[k])
  <2> DEFINE j == call[c].job  r == job[j]  i == r.next + 1  p == Bump(Released(r))
             q == [p EXCEPT !.status = "pending", !.checks[i].status = "pending"]
  <2>1. j \in Jobs
    BY <1>10 DEF JobsInv, CallSound, SpawnFails
  <2>2. CASE Owns(c, "running")
    <3>1. p \in Job
      BY <1>0, <2>1, FreedFields
    <3> HIDE DEF p
    <3>2. q.status = "pending"
      BY <3>1 DEF Job
    <3>3. Put(j, q) /\ r.status = "running"
      BY <1>10, <2>2 DEF SpawnFails, Owns, p
    <3> HIDE DEF q
    <3> QED
      BY <2>1, <3>2, <3>3, LeasedCloses DEF Leased
  <2> QED
    BY <1>10, <2>2, SameCloses DEF SpawnFails
<1>11. ASSUME NEW c \in Calls, NEW ok \in BOOLEAN, CheckCommit(c, ok)
       PROVE  \A k \in Jobs : Closes(job[k], job'[k])
  <2> DEFINE j == call[c].job  r == job[j]  i == r.next + 1  p == Bump(Released(r))
             done == IF ok THEN r.next + 1 ELSE r.next
             status == CASE ~ok -> "needs_attention"
                         [] ok /\ done = Len(PlanOf[j]) -> "awaiting_agent"
                         [] OTHER -> "pending"
             q == [p EXCEPT !.status = status, !.next = done,
                     !.checks[i].status = IF ok THEN "completed" ELSE "failed",
                     !.checks[i].revision = r.revision + 1, !.checks[i].ran = call[c].step]
  <2>1. j \in Jobs
    BY <1>11 DEF JobsInv, CallSound, CheckCommit
  <2>2. CASE Owns(c, "running")
    <3>1. p \in Job /\ status # "evicted"
      BY <1>0, <2>1, FreedFields
    <3>2. Put(j, q) /\ r.status = "running"
      BY <1>11, <2>2 DEF CheckCommit, Owns
    <3> HIDE DEF p, status
    <3>3. q.status = status
      BY <3>1 DEF Job
    <3> HIDE DEF q
    <3> QED
      BY <2>1, <3>1, <3>2, <3>3, LeasedCloses DEF Leased
  <2> QED
    BY <1>11, <2>2, SameCloses DEF CheckCommit
<1>12. ASSUME NEW c \in Calls, NEW healthy \in BOOLEAN, VerifyCommit(c, healthy)
       PROVE  \A k \in Jobs : Closes(job[k], job'[k])
  <2> DEFINE j == call[c].job  r == job[j]
             s == IF healthy THEN "awaiting_agent" ELSE "needs_attention"
             p == [Released(r) EXCEPT !.status = s, !.healthy = healthy]
  <2>1. j \in Jobs
    BY <1>12 DEF JobsInv, CallSound, VerifyCommit
  <2>2. CASE Owns(c, "verifying")
    <3>1. Released(r) \in Job /\ s \in Statuses /\ s # "evicted"
      BY <1>0, <2>1, ReleasedFields DEF Statuses
    <3>2. Put(j, Bump(p)) /\ r.status = "verifying"
      BY <1>12, <2>2 DEF VerifyCommit, Owns
    <3> HIDE DEF s
    <3>3. p \in Job /\ p.status = s
      BY <3>1 DEF Job
    <3> HIDE DEF p
    <3>4. Bump(p).status # "evicted"
      BY <3>1, <3>3, BumpFields
    <3> QED
      BY <2>1, <3>2, <3>4, LeasedCloses DEF Leased
  <2> QED
    BY <1>12, <2>2, SameCloses DEF VerifyCommit
<1>13. ASSUME NEW c \in Calls, RecoveryCommit(c)
       PROVE  \A k \in Jobs : Closes(job[k], job'[k])
  <2> DEFINE j == call[c].job  r == job[j]
             q == Bump(AfterRecovery(Released(r), call[c].outcome))
  <2>1. j \in Jobs /\ call[c].outcome \in {"blocked", "ok", "error", "raised"}
    BY <1>13, <1>0 DEF JobsInv, CallSound, RecoveryCommit, TypeOK, Call
  <2>2. CASE Owns(c, "action_running")
    <3>1. Put(j, q) /\ r.status = "action_running"
      BY <1>13, <2>2 DEF RecoveryCommit, Owns
    <3>2. q.status # "evicted"
      BY <1>0, <2>1, <3>1, RecoverySound DEF RecordsSound
    <3> HIDE DEF q
    <3> QED
      BY <2>1, <3>1, <3>2, LeasedCloses DEF Leased
  <2> QED
    BY <1>13, <2>2, SameCloses DEF RecoveryCommit
<1>14. ASSUME NEW c \in Calls, CheckStart(c) \/ Vanish(c)
       PROVE  \A k \in Jobs : Closes(job[k], job'[k])
  BY <1>14, SameCloses DEF CheckStart, Vanish
<1>15. ASSUME NEW c \in Calls, NEW outcome, NEW restarted, RunRecovery(c, outcome, restarted)
       PROVE  \A k \in Jobs : Closes(job[k], job'[k])
  BY <1>15, SameCloses DEF RunRecovery
<1>16. ASSUME NEW b \in Budgets, HostChanges(b)
       PROVE  \A k \in Jobs : Closes(job[k], job'[k])
  BY <1>16, SameCloses DEF HostChanges
<1>17. CASE UNCHANGED vars
  BY <1>17, SameCloses DEF vars
<1> QED
  BY <1>1, <1>2, <1>3, <1>4, <1>5, <1>6, <1>7, <1>8, <1>9, <1>10, <1>11, <1>12, <1>13,
     <1>14, <1>15, <1>16, <1>17 DEF Next

\* No call revives a closed job, deletes an open one, or moves one whose restart
\* may have happened, whatever the store had in it and however full it was.
THEOREM JobsClosedForGood == Spec => ClosedForGood
<1>1. JobsInv /\ [Next]_vars =>
        [\A j \in Jobs :
          /\ job[j].status \in FinalStates => job'[j].status \in {job[j].status, "evicted"}
          /\ job[j].status \notin Gone /\ job'[j].status = "evicted" =>
                job[j].status \in FinalStates \/ job[j].due
          /\ job[j].status = "action_uncertain" =>
                job'[j].status \in {"action_uncertain", "expired", "evicted"}]_vars
  BY ClosesStep DEF Closes
<1> QED
  BY <1>1, JobsInvariant, PTL DEF Spec, ClosedForGood
=============================================================================
