---------------------------- MODULE MissionsProofs ----------------------------
(***************************************************************************)
(* Proofs about missions and their reviews, for any number of agents,      *)
(* missions, workspaces and files, any checks a mission may need, and any  *)
(* limits.                                                                 *)
(***************************************************************************)
EXTENDS Missions, TLAPS

-----------------------------------------------------------------------------
(* The inductive invariant                                                 *)

Begun == {"applying", "completed", "uncertain"}

\* The review of w is gone for good.
Gone(w) == review[w] = None /\ w \in stale

\* For the review of w and mission m a test has passed, if m needs one.
Tested(w, m) ==
    "test" \in ledger[m].needs => \E d \in [Files -> Contents] : <<w, m, d>> \in history.passed

\* A review is of its workspace; once approved it is as it was shown; and once
\* its apply has begun that is on record, with the test of its mission.
ReviewSound(w) ==
    LET r == review[w] IN
    r # None =>
        /\ space[w] # None /\ r.agent = space[w].agent
        /\ r.mission # None => ledger[r.mission] # None
        /\ r.state \in Begun \cup {"approved"} => history.shown[w] = r.files
        /\ r.state \in Begun => w \in history.claimed /\ (r.mission # None => Tested(w, r.mission))

\* What was claimed or withdrawn cannot be claimed: it is gone, or its state
\* or that of its mission forbids it.
SpaceSound(w) ==
    LET r == review[w] IN
    /\ w \in history.claimed => Gone(w) \/ (r # None /\ r.state \in Begun)
    /\ w \in history.withdrawn =>
          \/ Gone(w)
          \/ r # None /\ r.state = "superseded"
          \/ r # None /\ r.mission # None /\ ledger[r.mission].state \in Final

LinkSound(m) ==
    LET w == ledger[m].review IN
    w # None =>
        \/ Gone(w) /\ (ledger[m].state \in Final \/ m \in due)
        \/ review[w] # None /\ review[w].mission = m /\ review[w].agent = ledger[m].agent

EvidenceSound(m) ==
    LET c == ledger[m].checks IN
    c # None /\ c.test = "passed" => <<c.of, m, c.inputs>> \in history.passed

DoneSound(m) ==
    LET w == ledger[m].review IN
    ledger[m].state = "done" =>
        w # None /\ history.shown[w] # None /\ w \in history.claimed /\ Tested(w, m)

TaskSound(m) ==
    IF ledger[m] = None THEN history.acked[m] = 0
    ELSE /\ LinkSound(m) /\ EvidenceSound(m) /\ DoneSound(m)
         /\ history.acked[m] < ledger[m].rev

\* The copy of a mission.
CopySound(a, m) ==
    LET copy == feed[a][m] IN
    copy # None =>
        /\ ledger[m] # None /\ ledger[m].agent = a
        /\ copy.rev <= ledger[m].rev
        /\ copy.rev = ledger[m].rev => copy = ledger[m]

\* What a test run or an apply relies on.
BusySound ==
    /\ busy.op = "test" =>
          LET t == ledger[busy.mission] IN
          t # None /\ t.review # None /\ t.checks # None /\ t.checks.of = t.review
    /\ busy.op = "apply" =>
          LET r == review[busy.space] IN
          r # None /\ r.state = "applying" /\ busy.todo \subseteq DOMAIN r.files

MissionsInv ==
    /\ TypeOK
    /\ BusySound
    /\ \A w \in Spaces : ReviewSound(w) /\ SpaceSound(w)
    /\ \A m \in Missions : TaskSound(m)
    /\ \A a \in Agents, m \in Missions : CopySound(a, m)

-----------------------------------------------------------------------------
(* Updated records                                                         *)

RStates == {"none", "pending", "approved", "rejected", "applying", "completed", "uncertain",
            "superseded"}

\* Every single change of a mission's record gives such a record.
LEMMA TaskUpdates ==
    ASSUME NEW t \in Task
    PROVE  /\ \A x \in Open \cup Final : [t EXCEPT !.state = x] \in Task
           /\ \A x \in Nat : [t EXCEPT !.rev = x] \in Task
           /\ \A x \in Agents : [t EXCEPT !.agent = x] \in Task
           /\ \A x \in Nat : [t EXCEPT !.epoch = x] \in Task
           /\ \A x \in Spaces \cup {None} : [t EXCEPT !.space = x] \in Task
           /\ \A x \in Spaces \cup {None} : [t EXCEPT !.review = x] \in Task
           /\ \A x \in RStates : [t EXCEPT !.rstate = x] \in Task
           /\ \A x \in Checks \cup {None} : [t EXCEPT !.checks = x] \in Task
           /\ \A x \in BOOLEAN : [t EXCEPT !.verified = x] \in Task
           /\ \A x \in Report \cup {None} : [t EXCEPT !.last = x] \in Task
           /\ \A x \in BOOLEAN : [t EXCEPT !.error = x] \in Task
BY DEF Task, RStates

LEMMA HistoryUpdates ==
    ASSUME NEW h \in History
    PROVE  /\ \A x \in [Spaces -> Plan \cup {None}] : [h EXCEPT !.shown = x] \in History
           /\ \A x \in SUBSET Spaces : [h EXCEPT !.claimed = x] \in History
           /\ \A x \in SUBSET Spaces : [h EXCEPT !.withdrawn = x] \in History
           /\ \A x \in SUBSET (Spaces \X Missions \X [Files -> Contents]) :
                  [h EXCEPT !.passed = x] \in History
           /\ \A x \in [Spaces -> Missions \cup {None}] : [h EXCEPT !.taken = x] \in History
           /\ \A x \in [Missions -> Nat] : [h EXCEPT !.acked = x] \in History
BY DEF History

RState == {"pending", "approved", "rejected", "applying", "completed", "uncertain", "superseded"}

LEMMA ReviewUpdates ==
    ASSUME NEW r \in Review
    PROVE  /\ \A x \in RState : [r EXCEPT !.state = x] \in Review
           /\ \A x \in Missions \cup {None} : [r EXCEPT !.mission = x] \in Review
BY DEF Review, RState

LEMMA ChecksUpdates ==
    ASSUME NEW c \in Checks
    PROVE  /\ \A x \in {"none", "failed", "passed"} : [c EXCEPT !.static = x] \in Checks
           /\ \A x \in {"none", "running", "failed", "passed"} : [c EXCEPT !.test = x] \in Checks
           /\ \A x \in [Files -> Contents] \cup {None} : [c EXCEPT !.inputs = x] \in Checks
BY DEF Checks

-----------------------------------------------------------------------------
(* What a refresh makes of a review and of a mission                       *)

LEMMA SettledReview ==
    ASSUME NEW r \in Review \cup {None}
    PROVE  /\ Settled(r) \in Review \cup {None}
           /\ Settled(r) = None <=> r = None
           /\ r # None =>
                 /\ Settled(r).agent = r.agent /\ Settled(r).mission = r.mission
                 /\ Settled(r).files = r.files
                 /\ Settled(r).state \in RState \ {"applying"}
                 /\ Settled(r).state = IF r.state = "applying" THEN "uncertain" ELSE r.state
<1>1. CASE r # None /\ r.state = "applying"
  <2>1. PICK v : v = [r EXCEPT !.state = "uncertain"]
    OBVIOUS
  <2>2. r \in Review /\ Settled(r) = v
    BY <1>1, <2>1 DEF Settled
  <2>3. v \in Review
    BY <2>1, <2>2, ReviewUpdates DEF RState
  <2>4. v # None
    BY <2>3, MissionsAssumption
  <2>5. /\ v.agent = r.agent /\ v.mission = r.mission /\ v.files = r.files
        /\ v.state = "uncertain"
    BY <2>1, <2>2 DEF Review
  <2> QED BY <1>1, <2>2, <2>3, <2>4, <2>5 DEF RState
<1>2. CASE r # None /\ r.state # "applying"
  BY <1>2 DEF Settled, Review, RState
<1>3. CASE r = None
  BY <1>3 DEF Settled
<1> QED BY <1>1, <1>2, <1>3

\* What a refresh leaves as it is: all that is not told by a report or review.
Kin(u, t) ==
    /\ u.agent = t.agent /\ u.epoch = t.epoch /\ u.needs = t.needs /\ u.review = t.review
    /\ u.checks = t.checks /\ u.verified = t.verified

LEMMA ReconciledTask ==
    ASSUME TypeOK, NEW m \in Known, NEW t, t = ledger[m], NEW v, v = Reconciled(m)
    PROVE  /\ t \in Task /\ v \in Task /\ Kin(v, t) /\ v.rev = t.rev
           /\ t.state \in Final => v = t
           /\ v.state = "done" => t.state = "done"
           /\ v.last = IF Acknowledged(m) THEN Reported(m) ELSE t.last
<1>1. t \in Task /\ m \in Missions
  BY DEF TypeOK, Known
<1>2. CASE t.state \in Final
  BY <1>1, <1>2 DEF Reconciled, Kin, Acknowledged, Ongoing
<1>3. CASE t.state \notin Final /\ m \in due
  <2>1. v = [t EXCEPT !.state = "expired"]
    BY <1>3 DEF Reconciled, Ongoing, Acknowledged
  <2>2. v \in Task
    BY <1>1, <2>1, TaskUpdates DEF Final
  <2> QED BY <1>1, <1>3, <2>1, <2>2 DEF Kin, Task, Acknowledged, Ongoing
<1>4. CASE Ongoing(m) /\ Missing(m)
  <2>1. v = [t EXCEPT !.error = TRUE]
    BY <1>4 DEF Reconciled, Ongoing, Acknowledged, Missing
  <2>2. v \in Task
    BY <1>1, <2>1, TaskUpdates
  <2>3. ~Acknowledged(m)
    BY <1>4 DEF Acknowledged, Missing
  <2> QED BY <1>1, <1>4, <2>1, <2>2, <2>3 DEF Kin, Task, Ongoing
<1>5. CASE Ongoing(m) /\ ~Missing(m) /\ t.review # None
  <2>1. PICK now : now = Settled(review[t.review]).state
    OBVIOUS
  <2>2. review[t.review] \in Review
    BY <1>1, <1>5 DEF TypeOK, Missing, Task
  <2>3. now \in RState \ {"applying"}
    BY <2>1, <2>2, SettledReview, MissionsAssumption
  <2>4. ShownAs[now] \in Open
    BY <2>3 DEF RState, ShownAs, Open
  <2>5. PICK shown : shown = ShownAs[now]
    OBVIOUS
  <2>6. PICK a, b : a = [t EXCEPT !.rstate = now] /\ b = [a EXCEPT !.state = shown]
    OBVIOUS
  <2>7. PICK c : c = [b EXCEPT !.error = FALSE]
    OBVIOUS
  <2>8. v = [t EXCEPT !.rstate = now, !.state = ShownAs[now], !.error = FALSE]
    BY <1>5, <2>1 DEF Reconciled, Ongoing, Acknowledged, Missing
  <2>9. v = c
    BY <2>5, <2>6, <2>7, <2>8
  <2>10. a \in Task /\ b \in Task /\ c \in Task
    BY <1>1, <2>3, <2>4, <2>5, <2>6, <2>7, TaskUpdates DEF RStates, RState
  <2>11. ~Acknowledged(m)
    BY <1>5 DEF Acknowledged
  <2>12. /\ Kin(a, t) /\ a.rev = t.rev /\ a.last = t.last
         /\ Kin(b, a) /\ b.rev = a.rev /\ b.last = a.last /\ b.state = shown
         /\ Kin(c, b) /\ c.rev = b.rev /\ c.last = b.last /\ c.state = b.state
    BY <1>1, <2>6, <2>7, <2>10 DEF Kin, Task
  <2>13. shown # "done"
    BY <2>4, <2>5 DEF Open
  <2> QED BY <1>1, <1>5, <2>9, <2>10, <2>11, <2>12, <2>13 DEF Kin, Ongoing
<1>6. CASE Acknowledged(m)
  <2>1. PICK r : r = Reported(m)
    OBVIOUS
  <2>2. r # None /\ r \in Report
    <3>1. t.agent \in Agents
      BY <1>1 DEF Task
    <3>2. r \in Report \cup {None}
      BY <1>1, <2>1, <3>1 DEF Reported, TypeOK
    <3> QED BY <1>6, <2>1, <3>2 DEF Acknowledged, Fits
  <2>3. PICK a, b : a = [t EXCEPT !.state = r.phase] /\ b = [a EXCEPT !.space = r.space]
    OBVIOUS
  <2>4. PICK c, d : c = [b EXCEPT !.last = r] /\ d = [c EXCEPT !.error = FALSE]
    OBVIOUS
  <2>5. v = [t EXCEPT !.state = r.phase, !.space = r.space, !.last = r, !.error = FALSE]
    BY <1>6, <2>1 DEF Reconciled, Acknowledged, Ongoing, Missing
  <2>6. v = d
    BY <2>3, <2>4, <2>5
  <2>7. r.phase \in Open /\ r.space \in Spaces \cup {None}
    BY <2>2, MissionsAssumption DEF Report, Open
  <2>8. a \in Task /\ b \in Task /\ c \in Task /\ d \in Task
    BY <1>1, <2>2, <2>3, <2>4, <2>7, TaskUpdates
  <2>9. /\ Kin(a, t) /\ a.rev = t.rev /\ a.state = r.phase
        /\ Kin(b, a) /\ b.rev = a.rev /\ b.state = a.state
        /\ Kin(c, b) /\ c.rev = b.rev /\ c.state = b.state /\ c.last = r
        /\ Kin(d, c) /\ d.rev = c.rev /\ d.state = c.state /\ d.last = c.last
    BY <1>1, <2>3, <2>4, <2>8 DEF Kin, Task
  <2>10. r.phase # "done"
    BY <2>7 DEF Open
  <2> QED BY <1>1, <1>6, <2>1, <2>6, <2>8, <2>9, <2>10 DEF Kin, Acknowledged, Ongoing
<1>7. CASE /\ Ongoing(m) /\ ~Missing(m) /\ t.review = None /\ ~Acknowledged(m)
  <2>1. v = [t EXCEPT !.error = Fits(m, Reported(m))]
    BY <1>7 DEF Reconciled, Ongoing
  <2>2. PICK b \in BOOLEAN : v = [t EXCEPT !.error = b]
    <3>1. Fits(m, Reported(m)) \in BOOLEAN
      BY DEF Fits
    <3> QED BY <2>1, <3>1
  <2>3. v \in Task
    BY <1>1, <2>2, TaskUpdates
  <2> QED BY <1>1, <1>7, <2>2, <2>3 DEF Kin, Task, Ongoing
<1> QED BY <1>2, <1>3, <1>4, <1>5, <1>6, <1>7 DEF Ongoing

LEMMA RefreshedTask ==
    ASSUME TypeOK, NEW m \in Known, NEW t, t = ledger[m], NEW u, u = Refreshed(m)
    PROVE  /\ t \in Task /\ u \in Task /\ Kin(u, t)
           /\ u = t \/ u.rev = t.rev + 1
           /\ t.state \in Final => u = t
           /\ u.state = "done" => t.state = "done"
           /\ u.last = IF Acknowledged(m) THEN Reported(m) ELSE t.last
           /\ Acknowledged(m) => u.rev = t.rev + 1
<1>1. PICK v : v = Reconciled(m)
  OBVIOUS
<1>2. /\ t \in Task /\ v \in Task /\ Kin(v, t) /\ v.rev = t.rev
      /\ t.state \in Final => v = t
      /\ v.state = "done" => t.state = "done"
      /\ v.last = IF Acknowledged(m) THEN Reported(m) ELSE t.last
  BY <1>1, ReconciledTask
<1>3. Acknowledged(m) => v # t
  BY <1>2 DEF Acknowledged, Fits
<1>4. CASE v = t
  BY <1>1, <1>2, <1>3, <1>4 DEF Refreshed, Kin
<1>5. CASE v # t
  <2>1. PICK n : n = t.rev + 1
    OBVIOUS
  <2>2. n \in Nat
    BY <1>2, <2>1 DEF Task
  <2>3. u = [v EXCEPT !.rev = n]
    BY <1>1, <1>5, <2>1 DEF Refreshed
  <2>4. u \in Task
    BY <1>2, <2>2, <2>3, TaskUpdates
  <2>5. Kin(u, v) /\ u.rev = n /\ u.state = v.state /\ u.last = v.last
    BY <1>2, <2>3 DEF Kin, Task
  <2> QED BY <1>2, <1>5, <2>1, <2>4, <2>5 DEF Kin
<1> QED BY <1>4, <1>5

-----------------------------------------------------------------------------
(* What every step leaves true                                             *)

\* Nothing that was begun is undone.
Onward ==
    /\ stale \subseteq stale' /\ due \subseteq due'
    /\ \A w \in Spaces : space[w] # None => space'[w] # None /\ space'[w].agent = space[w].agent
    /\ \A m \in Missions : ledger[m] # None =>
           /\ ledger'[m] # None /\ ledger'[m].needs = ledger[m].needs
           /\ ledger[m].state \in Final => ledger'[m].state \in Final
    /\ history.claimed \subseteq history'.claimed
    /\ history.passed \subseteq history'.passed
    /\ \A w \in Spaces : history.shown[w] # None => history'.shown[w] # None

\* A review changes its state, but is neither approved nor claimed.
Keeps(w) ==
    LET r == review[w]  s == review'[w] IN
    \/ s = r
    \/ /\ r # None /\ s # None
       /\ s.agent = r.agent /\ s.files = r.files /\ s.mission = r.mission
       /\ \/ r.state \in Begun /\ s.state \in Begun
          \/ /\ r.state \notin Begun /\ s.state \notin Begun \cup {"approved"}
             /\ r.state = "superseded" => s.state = "superseded"

\* Or it comes to be, with or without its mission; is pruned; or taken by a mission.
Moves(w) ==
    LET r == review[w]  s == review'[w] IN
    \/ Keeps(w)
    \/ /\ r = None /\ s # None /\ w \notin stale
       /\ space[w] # None /\ s.agent = space[w].agent /\ s.state = "pending"
       /\ s.mission # None => ledger'[s.mission] # None
    \/ r # None /\ s = None /\ w \in stale /\ ~Retained(r)
    \/ /\ r # None /\ s # None
       /\ r.state = "pending" /\ s.state = "pending"
       /\ s.agent = r.agent /\ s.files = r.files
       /\ r.mission = None /\ ledger'[s.mission] # None

\* Or it is approved or claimed.
Steady(w) ==
    LET r == review[w]  s == review'[w] IN
    r # None /\ s # None /\ s.agent = r.agent /\ s.mission = r.mission

LEMMA ReviewStays ==
    ASSUME MissionsInv, Onward, NEW w \in Spaces, Moves(w), TypeOK',
           history'.shown[w] = history.shown[w]
    PROVE  ReviewSound(w)'
<1> DEFINE r == review[w]
<1> DEFINE s == review'[w]
<1> SUFFICES ASSUME s # None PROVE ReviewSound(w)'
  BY DEF ReviewSound
<1>1. ReviewSound(w)
  BY DEF MissionsInv
<1>2. s.state \in RState /\ s.mission \in Missions \cup {None}
  BY DEF TypeOK, Review, RState
<1>3. CASE Keeps(w)
  <2>1. r # None /\ s.agent = r.agent /\ s.files = r.files /\ s.mission = r.mission
    BY <1>3 DEF Keeps
  <2>2. space'[w] # None /\ s.agent = space'[w].agent
    BY <1>1, <2>1 DEF ReviewSound, Onward
  <2>3. s.mission # None => ledger'[s.mission] # None
    BY <1>1, <1>2, <2>1 DEF ReviewSound, Onward
  <2>4. s.state \in Begun \cup {"approved"} => history'.shown[w] = s.files
    BY <1>1, <1>3, <2>1 DEF ReviewSound, Keeps
  <2>5. s.state \in Begun => r.state \in Begun
    BY <1>3 DEF Keeps
  <2>6. ASSUME s.state \in Begun PROVE w \in history'.claimed
    BY <1>1, <2>1, <2>5, <2>6 DEF ReviewSound, Onward
  <2>7. PICK m : m = r.mission
    OBVIOUS
  <2>8. ASSUME s.state \in Begun, s.mission # None PROVE Tested(w, m)'
    <3>1. Tested(w, m) /\ ledger[m] # None
      BY <1>1, <2>1, <2>5, <2>7, <2>8 DEF ReviewSound
    <3>2. ledger'[m].needs = ledger[m].needs /\ history.passed \subseteq history'.passed
      BY <1>2, <2>1, <2>7, <2>8, <3>1 DEF Onward
    <3> QED BY <3>1, <3>2 DEF Tested
  <2>9. s.state \in Begun /\ s.mission # None => Tested(w, review[w].mission)'
    BY <2>1, <2>7, <2>8
  <2> QED BY <2>2, <2>3, <2>4, <2>6, <2>9 DEF ReviewSound
<1>4. CASE s.state = "pending"
  <2>1. space[w] # None /\ s.agent = space[w].agent /\ (s.mission # None => ledger'[s.mission] # None)
    <3>1. CASE Keeps(w)
      BY <1>1, <1>2, <3>1 DEF Keeps, ReviewSound, Onward
    <3> QED BY <1>1, <3>1 DEF Moves, ReviewSound
  <2>2. space'[w] # None /\ space'[w].agent = space[w].agent
    BY <2>1 DEF Onward
  <2> QED BY <1>4, <2>1, <2>2 DEF ReviewSound, Begun
<1> QED BY <1>3, <1>4 DEF Moves

LEMMA SpaceStays ==
    ASSUME MissionsInv, Onward, NEW w \in Spaces, Moves(w),
           w \in history'.claimed => w \in history.claimed,
           w \in history'.withdrawn => w \in history.withdrawn
    PROVE  SpaceSound(w)'
<1>1. SpaceSound(w)
  BY DEF MissionsInv
<1>2. ReviewSound(w) /\ review[w] \in Review \cup {None}
  BY DEF MissionsInv, TypeOK
<1>3. ASSUME Gone(w) PROVE Gone(w)'
  BY <1>3 DEF Gone, Moves, Keeps, Onward
<1>4. ASSUME ~Gone(w), review'[w] = None, review[w] # None PROVE Gone(w)'
  BY <1>4 DEF Gone, Moves, Keeps, Onward
<1>5. ASSUME w \in history'.claimed PROVE Gone(w)' \/ (review'[w] # None /\ review'[w].state \in Begun)
  <2>1. Gone(w) \/ (review[w] # None /\ review[w].state \in Begun)
    BY <1>1, <1>5 DEF SpaceSound
  <2> QED BY <1>3, <2>1 DEF Gone, Moves, Keeps, Begun, Onward
<1>6. ASSUME w \in history'.withdrawn
      PROVE  \/ Gone(w)'
             \/ review'[w] # None /\ review'[w].state = "superseded"
             \/ review'[w] # None /\ review'[w].mission # None /\ ledger'[review'[w].mission].state \in Final
  <2>1. \/ Gone(w)
        \/ review[w] # None /\ review[w].state = "superseded"
        \/ review[w] # None /\ review[w].mission # None /\ ledger[review[w].mission].state \in Final
    BY <1>1, <1>6 DEF SpaceSound
  <2>2. CASE review[w] # None /\ review[w].state = "superseded"
    BY <2>2 DEF Gone, Moves, Keeps, Begun, Onward
  <2>3. CASE review[w] # None /\ review[w].mission # None /\ ledger[review[w].mission].state \in Final
    <3>1. review[w].mission \in Missions /\ ledger[review[w].mission] # None
      BY <1>2, <2>3 DEF ReviewSound, Review
    <3>2. ledger'[review[w].mission].state \in Final
      BY <2>3, <3>1 DEF Onward
    <3> QED BY <2>3, <3>2 DEF Gone, Moves, Keeps, Onward
  <2> QED BY <1>3, <2>1, <2>2, <2>3
<1> QED BY <1>5, <1>6 DEF SpaceSound

\* The record of m changes, but not its link; if it is done now, it is so rightly.
TaskMoves(m) ==
    LET t == ledger[m]  u == ledger'[m] IN
    \/ u = t /\ history'.acked[m] = history.acked[m]
    \/ /\ t # None /\ u # None
       /\ u.review = t.review /\ u.agent = t.agent
       /\ u.state = "done" => t.state = "done" \/ DoneSound(m)'
       /\ EvidenceSound(m)'
       /\ history'.acked[m] < u.rev

LEMMA LinkStays ==
    ASSUME MissionsInv, Onward, NEW m \in Missions, ledger[m] # None, LinkSound(m),
           \A w \in Spaces : Moves(w) \/ Steady(w),
           ledger'[m].review = ledger[m].review, ledger'[m].agent = ledger[m].agent
    PROVE  LinkSound(m)'
<1> SUFFICES ASSUME ledger[m].review # None PROVE LinkSound(m)'
  BY DEF LinkSound
<1>1. PICK w : w = ledger[m].review
  OBVIOUS
<1>2. w \in Spaces
  BY <1>1 DEF MissionsInv, TypeOK, Task
<1>3. Moves(w) \/ Steady(w)
  BY <1>2
<1>4. CASE Gone(w) /\ (ledger[m].state \in Final \/ m \in due)
  BY <1>1, <1>3, <1>4 DEF LinkSound, Gone, Moves, Keeps, Steady, Onward
<1>5. CASE review[w] # None /\ review[w].mission = m /\ review[w].agent = ledger[m].agent
  <2>1. m # None
    BY MissionsAssumption
  <2>2. CASE Keeps(w)
    BY <1>1, <1>5, <2>2 DEF LinkSound, Keeps
  <2>3. CASE review'[w] = None /\ w \in stale /\ ~Retained(review[w])
    BY <1>1, <1>5, <2>1, <2>3 DEF LinkSound, Gone, Retained, Onward
  <2>4. CASE Steady(w)
    BY <1>1, <1>5, <2>4 DEF LinkSound, Steady
  <2> QED BY <1>3, <1>5, <2>1, <2>2, <2>3, <2>4 DEF Moves
<1> QED BY <1>1, <1>4, <1>5 DEF LinkSound

LEMMA TaskStays ==
    ASSUME MissionsInv, Onward, NEW m \in Missions, TaskMoves(m),
           \A w \in Spaces : Moves(w) \/ Steady(w)
    PROVE  TaskSound(m)'
<1>1. TaskSound(m)
  BY DEF MissionsInv
<1>2. CASE ledger[m] = None
  BY <1>1, <1>2 DEF TaskSound, TaskMoves
<1>3. CASE ledger[m] # None
  <2>1. LinkSound(m) /\ EvidenceSound(m) /\ DoneSound(m) /\ history.acked[m] < ledger[m].rev
    BY <1>1, <1>3 DEF TaskSound
  <2>2. ledger'[m] # None /\ ledger'[m].review = ledger[m].review /\ ledger'[m].agent = ledger[m].agent
    BY <1>3 DEF TaskMoves
  <2>3. LinkSound(m)'
    BY <1>3, <2>1, <2>2, LinkStays
  <2>4. EvidenceSound(m)'
    BY <2>1 DEF TaskMoves, EvidenceSound, Onward
  <2>5. DoneSound(m)'
    <3> SUFFICES ASSUME ledger'[m].state = "done", ~DoneSound(m)' PROVE DoneSound(m)'
      BY DEF DoneSound
    <3>1. PICK w : w = ledger[m].review
      OBVIOUS
    <3>2. ledger[m].state = "done"
      BY DEF TaskMoves
    <3>3. w # None /\ history.shown[w] # None /\ w \in history.claimed /\ Tested(w, m)
      BY <2>1, <3>1, <3>2 DEF DoneSound
    <3>4. w \in Spaces
      BY <1>3, <3>1, <3>3 DEF MissionsInv, TypeOK, Task
    <3>5. history'.shown[w] # None /\ w \in history'.claimed
      BY <3>3, <3>4 DEF Onward
    <3>6. Tested(w, m)'
      <4>1. ledger'[m].needs = ledger[m].needs /\ history.passed \subseteq history'.passed
        BY <1>3 DEF Onward
      <4> QED BY <3>3, <4>1 DEF Tested
    <3> QED BY <2>2, <3>1, <3>3, <3>5, <3>6 DEF DoneSound
  <2>6. history'.acked[m] < ledger'[m].rev
    BY <2>1 DEF TaskMoves
  <2> QED BY <2>2, <2>3, <2>4, <2>5, <2>6 DEF TaskSound
<1> QED BY <1>2, <1>3

\* A copy stays, goes, or is the record as it is now or was; a record changes its
\* revision with anything else, and its agent only when the copies went.
CopyMoves(a, m) ==
    LET old == feed[a][m]  copy == feed'[a][m] IN
    \/ copy = None
    \/ copy = ledger'[m] /\ ledger'[m].agent = a
    \/ /\ ledger[m] # None => /\ ledger'[m] # None /\ ledger'[m].agent = ledger[m].agent
                              /\ ledger'[m] = ledger[m] \/ ledger'[m].rev > ledger[m].rev
       /\ copy = old \/ (copy = ledger[m] /\ ledger[m].agent = a)

LEMMA CopyStays ==
    ASSUME MissionsInv, TypeOK', NEW a \in Agents, NEW m \in Missions, CopyMoves(a, m)
    PROVE  CopySound(a, m)'
<1> DEFINE copy == feed'[a][m]
<1> SUFFICES ASSUME copy # None PROVE CopySound(a, m)'
  BY DEF CopySound
<1>1. /\ ledger[m] \in Task \cup {None} /\ ledger'[m] \in Task \cup {None}
      /\ feed[a][m] \in Task \cup {None} /\ copy \in Task \cup {None}
  BY DEF MissionsInv, TypeOK
<1>2. \A t \in Task : t.rev \in Nat
  BY DEF Task
<1>3. CopySound(a, m)
  BY DEF MissionsInv
<1>4. CASE copy = ledger'[m] /\ ledger'[m].agent = a
  BY <1>1, <1>2, <1>4 DEF CopySound
<1>5. CASE /\ ledger[m] # None => /\ ledger'[m] # None /\ ledger'[m].agent = ledger[m].agent
                                  /\ ledger'[m] = ledger[m] \/ ledger'[m].rev > ledger[m].rev
           /\ copy = feed[a][m] \/ (copy = ledger[m] /\ ledger[m].agent = a)
  <2>1. ledger[m] # None /\ ledger[m].agent = a /\ copy.rev <= ledger[m].rev
        /\ (copy.rev = ledger[m].rev => copy = ledger[m])
    BY <1>1, <1>2, <1>3, <1>5 DEF CopySound
  <2> QED BY <1>1, <1>2, <1>5, <2>1 DEF CopySound
<1> QED BY <1>4, <1>5 DEF CopyMoves

\* All that a step may do to a review.
Handled(w) ==
    \/ /\ Moves(w)
       /\ history'.shown[w] = history.shown[w]
       /\ w \in history'.claimed => w \in history.claimed
       /\ w \in history'.withdrawn => w \in history.withdrawn \/ SpaceSound(w)'
    \/ Steady(w) /\ ReviewSound(w)' /\ SpaceSound(w)'

\* The invariant, when the contracts of a step are met.
LEMMA Stays ==
    ASSUME MissionsInv, TypeOK', BusySound', Onward,
           \A w \in Spaces : Handled(w),
           \A m \in Missions : TaskMoves(m) \/ TaskSound(m)',
           \A a \in Agents, m \in Missions : CopyMoves(a, m)
    PROVE  MissionsInv'
<1>1. ASSUME NEW w \in Spaces PROVE ReviewSound(w)'
  BY <1>1, ReviewStays DEF Handled
<1>2. ASSUME NEW w \in Spaces PROVE SpaceSound(w)'
  BY <1>2, SpaceStays DEF Handled
<1>3. ASSUME NEW m \in Missions PROVE TaskSound(m)'
  <2>1. \A w \in Spaces : Moves(w) \/ Steady(w)
    BY DEF Handled
  <2> QED BY <1>3, <2>1, TaskStays
<1>4. ASSUME NEW a \in Agents, NEW m \in Missions PROVE CopySound(a, m)'
  BY <1>4, CopyStays
<1> QED BY <1>1, <1>2, <1>3, <1>4 DEF MissionsInv

-----------------------------------------------------------------------------
(* Steps that change neither record nor review                             *)

LEMMA QuietStep ==
    ASSUME MissionsInv, TypeOK', BusySound',
           UNCHANGED <<ledger, feed, review, history>>,
           stale \subseteq stale', due \subseteq due',
           \A w \in Spaces : space[w] # None => space'[w] # None /\ space'[w].agent = space[w].agent
    PROVE  MissionsInv'
<1>1. Onward
  BY DEF Onward
<1>2. ASSUME NEW w \in Spaces PROVE Handled(w)
  BY DEF Handled, Moves, Keeps
<1>3. ASSUME NEW m \in Missions PROVE TaskMoves(m)
  BY DEF TaskMoves
<1>4. ASSUME NEW a \in Agents, NEW m \in Missions PROVE CopyMoves(a, m)
  BY DEF CopyMoves
<1> QED BY <1>1, <1>2, <1>3, <1>4, Stays

LEMMA SubmitStep ==
    ASSUME MissionsInv, NEW a \in Agents, NEW w \in Spaces, NEW s \in SUBSET Files,
           NEW cand \in [s -> Contents], Submit(a, w, cand)
    PROVE  MissionsInv'
<1> USE DEF Submit, Smooth, world
<1>1. PICK files : files = [f \in DOMAIN cand |-> [base |-> disk[f], cand |-> cand[f]]]
  OBVIOUS
<1>2. files \in Plan
  <2>1. s # {}
    OBVIOUS
  <2>2. files \in [s -> [base : Contents, cand : Contents]]
    BY <1>1 DEF MissionsInv, TypeOK
  <2> QED BY <2>1, <2>2 DEF Plan
<1>3. PICK x : x = [agent |-> a, files |-> files]
  OBVIOUS
<1>4. x \in Space
  BY <1>2, <1>3 DEF Space
<1>5. space' = [space EXCEPT ![w] = x]
  BY <1>1, <1>3
<1>6. TypeOK'
  BY <1>4, <1>5 DEF MissionsInv, TypeOK
<1>7. BusySound'
  BY DEF MissionsInv, BusySound
<1>8. \A v \in Spaces : space[v] # None => space'[v] # None /\ space'[v].agent = space[v].agent
  BY <1>5 DEF MissionsInv, TypeOK
<1> QED BY <1>6, <1>7, <1>8, QuietStep

LEMMA AlterStep ==
    ASSUME MissionsInv, NEW w \in Spaces, NEW f \in Files, NEW c \in Contents, Alter(w, f, c)
    PROVE  MissionsInv'
<1> USE DEF Alter, Mishap, world
<1>1. PICK x : x = space[w]
  OBVIOUS
<1>2. x \in Space
  BY <1>1 DEF MissionsInv, TypeOK
<1>3. PICK s \in SUBSET Files : s # {} /\ x.files \in [s -> [base : Contents, cand : Contents]]
  BY <1>2 DEF Space, Plan
<1>4. PICK p : p = x.files
  OBVIOUS
<1>5. PICK q : q = [p EXCEPT ![f].cand = c]
  OBVIOUS
<1>6. q \in [s -> [base : Contents, cand : Contents]]
  BY <1>1, <1>3, <1>4, <1>5
<1>7. q \in Plan
  BY <1>3, <1>6 DEF Plan
<1>8. PICK y : y = [x EXCEPT !.files = q]
  OBVIOUS
<1>9. y \in Space /\ y.agent = x.agent
  BY <1>2, <1>7, <1>8 DEF Space
<1>10. space' = [space EXCEPT ![w] = y]
  BY <1>1, <1>4, <1>5, <1>8
<1>11. TypeOK'
  <2>1. mishaps' \in 0 .. MaxMishaps
    BY MissionsAssumption DEF MissionsInv, TypeOK
  <2> QED BY <1>9, <1>10, <2>1 DEF MissionsInv, TypeOK
<1>12. BusySound'
  BY DEF MissionsInv, BusySound
<1>13. \A v \in Spaces : space[v] # None => space'[v] # None /\ space'[v].agent = space[v].agent
  <2>1. y # None /\ space \in [Spaces -> Space \cup {None}]
    BY <1>9, MissionsAssumption DEF MissionsInv, TypeOK
  <2>2. space'[w] = y /\ \A v \in Spaces : v # w => space'[v] = space[v]
    BY <1>10, <2>1
  <2> QED BY <1>1, <1>9, <2>1, <2>2
<1> QED BY <1>11, <1>12, <1>13, QuietStep

LEMMA StartReportStep ==
    ASSUME MissionsInv, NEW a \in Agents, NEW m \in Missions, NEW phase \in Phases,
           NEW w \in Spaces \cup {None}, StartReport(a, m, phase, w)
    PROVE  MissionsInv'
<1> USE DEF StartReport, Smooth, world
<1>1. PICK t : t = feed[a][m]
  OBVIOUS
<1>2. t \in Task
  BY <1>1 DEF MissionsInv, TypeOK
<1>3. PICK r : r = [epoch |-> t.epoch, rev |-> t.rev, phase |-> phase, space |-> w]
  OBVIOUS
<1>4. r \in Report
  BY <1>2, <1>3 DEF Report, Task
<1>5. PICK x : x = [mission |-> m, report |-> r]
  OBVIOUS
<1>6. x \in Draft
  BY <1>4, <1>5 DEF Draft
<1>7. typing' = [typing EXCEPT ![a] = x]
  BY <1>1, <1>3, <1>5
<1>8. TypeOK'
  BY <1>6, <1>7 DEF MissionsInv, TypeOK
<1>9. BusySound'
  BY DEF MissionsInv, BusySound
<1> QED BY <1>8, <1>9, QuietStep

LEMMA SendReportStep ==
    ASSUME MissionsInv, NEW a \in Agents, SendReport(a)
    PROVE  MissionsInv'
<1> USE DEF SendReport, Smooth, Mishap, world
<1>1. PICK x : x = typing[a]
  OBVIOUS
<1>2. x.mission \in Missions /\ x.report \in Report
  BY <1>1 DEF MissionsInv, TypeOK, Draft
<1>3. mail' = [mail EXCEPT ![a][x.mission] = x.report] \/ mail' = mail
  BY <1>1
<1>4. mail' \in [Agents -> [Missions -> Report \cup {None}]]
  <2>1. PICK box : box = [mail[a] EXCEPT ![x.mission] = x.report]
    OBVIOUS
  <2>2. box \in [Missions -> Report \cup {None}]
    BY <1>2, <2>1 DEF MissionsInv, TypeOK
  <2>3. mail' = [mail EXCEPT ![a] = box] \/ mail' = mail
    BY <1>3, <2>1
  <2> QED BY <2>2, <2>3 DEF MissionsInv, TypeOK
<1>5. typing' \in [Agents -> Draft \cup {None}]
  BY DEF MissionsInv, TypeOK
<1>6. mishaps' \in 0 .. MaxMishaps
  BY MissionsAssumption DEF MissionsInv, TypeOK
<1>7. TypeOK'
  BY <1>4, <1>5, <1>6 DEF MissionsInv, TypeOK
<1>8. BusySound'
  BY DEF MissionsInv, BusySound
<1> QED BY <1>7, <1>8, QuietStep

LEMMA WorldStep ==
    ASSUME MissionsInv,
           \/ \E a \in Agents : SetLive(a)
           \/ \E m \in Missions : MissionDue(m)
           \/ \E w \in Spaces : SpaceStale(w)
           \/ \E f \in Files, c \in Contents : Edit(f, c)
    PROVE  MissionsInv'
<1> USE DEF SetLive, MissionDue, SpaceStale, Edit, Smooth, Mishap, agentSide
<1>1. BusySound'
  BY DEF MissionsInv, BusySound
<1>2. mishaps' \in 0 .. MaxMishaps
  BY MissionsAssumption DEF MissionsInv, TypeOK
<1>3. TypeOK'
  BY <1>2 DEF MissionsInv, TypeOK
<1> QED BY <1>1, <1>3, QuietStep

LEMMA WriteStep ==
    ASSUME MissionsInv, NEW f \in Files, Write(f)
    PROVE  MissionsInv'
<1> USE DEF Write, Smooth, agentSide
<1>1. PICK w : w = busy.space
  OBVIOUS
<1>2. /\ w \in Spaces /\ busy.todo \in SUBSET Files
      /\ busy \in [op : {"apply"}, space : Spaces, todo : SUBSET Files]
  BY <1>1 DEF MissionsInv, TypeOK, Busy
<1>3. /\ review[w] # None /\ review[w].state = "applying"
      /\ busy.todo \subseteq DOMAIN review[w].files
  BY <1>1 DEF MissionsInv, BusySound
<1>4. Candidate(w, f) \in Contents
  <2>1. review[w].files \in Plan
    BY <1>2, <1>3 DEF MissionsInv, TypeOK, Review
  <2>2. PICK s \in SUBSET Files : review[w].files \in [s -> [base : Contents, cand : Contents]]
    BY <2>1 DEF Plan
  <2> QED BY <1>3, <2>2 DEF Candidate
<1>5. disk' \in [Files -> Contents]
  BY <1>1, <1>4 DEF MissionsInv, TypeOK
<1>6. PICK todo : todo = busy.todo \ {f}
  OBVIOUS
<1>7. busy' = [busy EXCEPT !.todo = todo]
  BY <1>6
<1>8. /\ busy' \in [op : {"apply"}, space : Spaces, todo : SUBSET Files]
      /\ busy'.space = w /\ busy'.todo = todo
  BY <1>1, <1>2, <1>6, <1>7
<1>9. TypeOK'
  BY <1>5, <1>8 DEF MissionsInv, TypeOK, Busy
<1>10. BusySound'
  BY <1>3, <1>6, <1>8 DEF BusySound
<1> QED BY <1>9, <1>10, QuietStep

LEMMA CrashStep ==
    ASSUME MissionsInv, Crash
    PROVE  MissionsInv'
<1> USE DEF Crash, Mishap, world, agentSide, Idle
<1>1. TypeOK'
  BY MissionsAssumption DEF MissionsInv, TypeOK, Busy
<1>2. BusySound'
  BY DEF BusySound
<1> QED BY <1>1, <1>2, QuietStep

-----------------------------------------------------------------------------
(* Steps that change a review and no record                                *)

LEMMA Restated ==
    ASSUME NEW r \in Review, NEW x \in RState, NEW s, s = [r EXCEPT !.state = x]
    PROVE  /\ s \in Review /\ s # None /\ s.state = x
           /\ s.agent = r.agent /\ s.mission = r.mission /\ s.files = r.files
<1>1. s \in Review
  BY ReviewUpdates
<1>2. s # None
  BY <1>1, MissionsAssumption
<1> QED BY <1>1, <1>2 DEF Review

LEMMA SettledKeeps ==
    ASSUME TypeOK, NEW w \in Spaces, review'[w] = Settled(review[w])
    PROVE  Keeps(w) /\ review'[w] \in Review \cup {None}
<1>1. PICK r, s : r = review[w] /\ s = Settled(r)
  OBVIOUS
<1>2. r \in Review \cup {None}
  BY <1>1 DEF TypeOK
<1>3. /\ s \in Review \cup {None}
      /\ s = None <=> r = None
      /\ r # None =>
            /\ s.agent = r.agent /\ s.mission = r.mission /\ s.files = r.files
            /\ s.state = IF r.state = "applying" THEN "uncertain" ELSE r.state
  BY <1>1, <1>2, SettledReview
<1>4. review'[w] = s
  BY <1>1
<1>5. CASE r = None \/ r.state # "applying"
  BY <1>1, <1>3, <1>4, <1>5 DEF Keeps, Settled
<1>6. CASE r # None /\ r.state = "applying"
  BY <1>1, <1>3, <1>4, <1>6 DEF Keeps, Begun
<1> QED BY <1>3, <1>4, <1>5, <1>6

\* What an import makes of the review there is, if any.
LEMMA ImportedReview ==
    ASSUME TypeOK, NEW w \in Spaces, space[w] # None, NEW x, x = Imported(w)
    PROVE  /\ x \in Review
           /\ review[w] = None => x.state = "pending" /\ x.agent = space[w].agent /\ x.mission = None
           /\ review[w] # None =>
                 /\ x = Settled(review[w])
                 /\ x.agent = review[w].agent /\ x.files = review[w].files
                 /\ x.mission = review[w].mission
                 /\ x.state = "pending" => review[w].state = "pending"
<1>1. CASE review[w] = None
  <2>1. space[w].agent \in Agents /\ space[w].files \in Plan
    BY DEF TypeOK, Space
  <2>2. x = [state |-> "pending", agent |-> space[w].agent, mission |-> None,
             files |-> space[w].files]
    BY <1>1 DEF Imported, New
  <2> QED BY <1>1, <2>1, <2>2 DEF Review
<1>2. CASE review[w] # None
  <2>1. PICK r : r = review[w]
    OBVIOUS
  <2>2. r \in Review /\ r # None /\ x = Settled(r)
    BY <1>2, <2>1 DEF TypeOK, Imported
  <2>3. /\ x \in Review /\ x.agent = r.agent /\ x.mission = r.mission /\ x.files = r.files
        /\ x.state = IF r.state = "applying" THEN "uncertain" ELSE r.state
    BY <2>2, SettledReview
  <2> QED BY <1>2, <2>1, <2>2, <2>3
<1> QED BY <1>1, <1>2

LEMMA ReviewStep ==
    ASSUME MissionsInv, TypeOK', BusySound',
           UNCHANGED <<stale, due, space, ledger, feed, history>>,
           \A w \in Spaces : Moves(w)
    PROVE  MissionsInv'
<1>1. Onward
  BY DEF Onward
<1>2. ASSUME NEW w \in Spaces PROVE Handled(w)
  BY DEF Handled
<1>3. ASSUME NEW m \in Missions PROVE TaskMoves(m)
  BY DEF TaskMoves
<1>4. ASSUME NEW a \in Agents, NEW m \in Missions PROVE CopyMoves(a, m)
  BY DEF CopyMoves
<1> QED BY <1>1, <1>2, <1>3, <1>4, Stays

LEMMA RejectStep ==
    ASSUME MissionsInv, NEW w \in Spaces, Reject(w)
    PROVE  MissionsInv'
<1> USE DEF Reject, Smooth, world, agentSide
<1>1. PICK r : r = review[w]
  OBVIOUS
<1>2. r \in Review /\ r # None /\ r.state = "pending"
  BY <1>1 DEF MissionsInv, TypeOK
<1>3. PICK s : s = [r EXCEPT !.state = "rejected"]
  OBVIOUS
<1>4. /\ s \in Review /\ s # None /\ s.state = "rejected"
      /\ s.agent = r.agent /\ s.mission = r.mission /\ s.files = r.files
  BY <1>2, <1>3, Restated DEF RState
<1>5. review' = [review EXCEPT ![w] = s]
  BY <1>1, <1>3
<1>6. TypeOK'
  BY <1>4, <1>5 DEF MissionsInv, TypeOK
<1>7. BusySound'
  BY DEF BusySound, Idle
<1>8. ASSUME NEW v \in Spaces PROVE Moves(v)
  BY <1>1, <1>2, <1>4, <1>5 DEF Moves, Keeps, Begun, MissionsInv, TypeOK
<1> QED BY <1>6, <1>7, <1>8, ReviewStep

\* An apply ends: the review goes from applying to what became of it.
LEMMA ApplyEnds ==
    ASSUME MissionsInv, busy.op = "apply", NEW x \in {"completed", "uncertain"},
           review' = [review EXCEPT ![busy.space].state = x],
           busy' = Idle, disk' \in [Files -> Contents], mishaps' \in 0 .. MaxMishaps,
           UNCHANGED <<live, due, stale, agentSide, ledger, feed, history>>
    PROVE  MissionsInv'
<1>1. PICK w : w = busy.space
  OBVIOUS
<1>2. w \in Spaces
  BY <1>1 DEF MissionsInv, TypeOK, Busy
<1>3. PICK r : r = review[w]
  OBVIOUS
<1>4. r \in Review /\ r # None /\ r.state = "applying"
  BY <1>1, <1>2, <1>3 DEF MissionsInv, TypeOK, BusySound
<1>5. PICK s : s = [r EXCEPT !.state = x]
  OBVIOUS
<1>6. /\ s \in Review /\ s # None /\ s.state = x
      /\ s.agent = r.agent /\ s.mission = r.mission /\ s.files = r.files
  BY <1>4, <1>5, Restated DEF RState
<1>7. review' = [review EXCEPT ![w] = s]
  BY <1>1, <1>3, <1>5
<1>8. TypeOK'
  BY <1>6, <1>7 DEF MissionsInv, TypeOK, agentSide, Idle, Busy
<1>9. BusySound'
  BY DEF BusySound, Idle
<1>10. ASSUME NEW v \in Spaces PROVE Moves(v)
  BY <1>2, <1>3, <1>4, <1>6, <1>7 DEF Moves, Keeps, Begun, MissionsInv, TypeOK
<1> QED BY <1>8, <1>9, <1>10, ReviewStep DEF agentSide

LEMMA WriteFailsStep ==
    ASSUME MissionsInv, NEW f \in Files, WriteFails(f)
    PROVE  MissionsInv'
<1> USE DEF WriteFails, Smooth, Mishap
<1>1. PICK w : w = busy.space
  OBVIOUS
<1>2. /\ w \in Spaces /\ review[w] # None
      /\ f \in DOMAIN review[w].files
  BY <1>1 DEF MissionsInv, BusySound, TypeOK, Busy
<1>3. Candidate(w, f) \in Contents
  <2>1. review[w].files \in Plan
    BY <1>2 DEF MissionsInv, TypeOK, Review
  <2>2. PICK s \in SUBSET Files : review[w].files \in [s -> [base : Contents, cand : Contents]]
    BY <2>1 DEF Plan
  <2> QED BY <1>2, <2>2 DEF Candidate
<1>4. disk' \in [Files -> Contents]
  BY <1>1, <1>3 DEF MissionsInv, TypeOK
<1>5. mishaps' \in 0 .. MaxMishaps
  BY MissionsAssumption DEF MissionsInv, TypeOK
<1>6. review' = [review EXCEPT ![busy.space].state = "uncertain"]
  OBVIOUS
<1> QED BY <1>4, <1>5, <1>6, ApplyEnds

LEMMA CompleteStep ==
    ASSUME MissionsInv, Complete
    PROVE  MissionsInv'
<1> USE DEF Complete, Smooth, world
<1>1. disk' \in [Files -> Contents] /\ mishaps' \in 0 .. MaxMishaps
  BY DEF MissionsInv, TypeOK
<1>2. review' = [review EXCEPT ![busy.space].state = "completed"]
  OBVIOUS
<1> QED BY <1>1, <1>2, ApplyEnds

LEMMA GetReviewStep ==
    ASSUME MissionsInv, NEW w \in Spaces, GetReview(w)
    PROVE  MissionsInv'
<1> USE DEF GetReview, Smooth, world, agentSide
<1>1. TypeOK
  BY DEF MissionsInv
<1>2. review'[w] = Settled(review[w]) /\ \A v \in Spaces : v # w => review'[v] = review[v]
  BY <1>1 DEF TypeOK
<1>3. Keeps(w) /\ review'[w] \in Review \cup {None}
  BY <1>1, <1>2, SettledKeeps
<1>4. TypeOK'
  BY <1>1, <1>2, <1>3 DEF TypeOK
<1>5. BusySound'
  BY DEF BusySound, Idle
<1>6. ASSUME NEW v \in Spaces PROVE Moves(v)
  BY <1>2, <1>3 DEF Moves, Keeps
<1> QED BY <1>4, <1>5, <1>6, ReviewStep

LEMMA ListReviewsStep ==
    ASSUME MissionsInv, NEW ws \in SUBSET Spaces, ListReviews(ws)
    PROVE  MissionsInv'
<1> USE DEF ListReviews, Smooth, world, agentSide
<1>1. TypeOK
  BY DEF MissionsInv
<1>2. ASSUME NEW w \in Spaces PROVE Moves(w) /\ review'[w] \in Review \cup {None}
  <2>1. CASE w \notin ws
    BY <1>1, <2>1 DEF Moves, Keeps, TypeOK
  <2>2. CASE w \in ws /\ Prunable(w)
    BY <2>2 DEF Moves, Prunable
  <2>3. CASE w \in ws /\ ~Prunable(w)
    <3>1. review'[w] = Settled(review[w])
      BY <2>3
    <3> QED BY <1>1, <3>1, SettledKeeps DEF Moves
  <2> QED BY <2>1, <2>2, <2>3
<1>3. review' \in [Spaces -> Review \cup {None}]
  <2>1. review' = [w \in Spaces |-> review'[w]]
    OBVIOUS
  <2> QED BY <1>2, <2>1
<1>4. TypeOK'
  BY <1>1, <1>3 DEF TypeOK
<1>5. BusySound'
  BY DEF BusySound, Idle
<1> QED BY <1>2, <1>4, <1>5, ReviewStep

LEMMA StandaloneImportStep ==
    ASSUME MissionsInv, NEW a \in Agents, NEW w \in Spaces, StandaloneImport(a, w)
    PROVE  MissionsInv'
<1> USE DEF StandaloneImport, Smooth, world, agentSide
<1>1. TypeOK
  BY DEF MissionsInv
<1>2. PICK x : x = Imported(w)
  OBVIOUS
<1>3. space[w] # None /\ w \notin stale
  BY DEF Valid
<1>4. /\ x \in Review
      /\ review[w] = None => x.state = "pending" /\ x.agent = space[w].agent /\ x.mission = None
      /\ review[w] # None => x = Settled(review[w])
  BY <1>1, <1>2, <1>3, ImportedReview
<1>5. x # None
  BY <1>4, MissionsAssumption
<1>6. review'[w] = x /\ \A v \in Spaces : v # w => review'[v] = review[v]
  BY <1>1, <1>2 DEF TypeOK
<1>7. TypeOK'
  BY <1>1, <1>2, <1>4 DEF TypeOK
<1>8. BusySound'
  BY DEF BusySound, Idle
<1>9. Moves(w)
  <2>1. CASE review[w] = None
    BY <1>3, <1>4, <1>5, <1>6, <2>1 DEF Moves
  <2>2. CASE review[w] # None
    BY <1>1, <1>4, <1>6, <2>2, SettledKeeps DEF Moves
  <2> QED BY <2>1, <2>2
<1>10. ASSUME NEW v \in Spaces PROVE Moves(v)
  BY <1>6, <1>9 DEF Moves, Keeps
<1> QED BY <1>7, <1>8, <1>10, ReviewStep

LEMMA ApproveStep ==
    ASSUME MissionsInv, NEW w \in Spaces, Approve(w)
    PROVE  MissionsInv'
<1> USE DEF Approve, Smooth, world, agentSide
<1>1. PICK r : r = review[w]
  OBVIOUS
<1>2. r \in Review /\ r # None /\ r.state = "pending"
  BY <1>1 DEF MissionsInv, TypeOK
<1>3. PICK s : s = [r EXCEPT !.state = "approved"]
  OBVIOUS
<1>4. /\ s \in Review /\ s # None /\ s.state = "approved"
      /\ s.agent = r.agent /\ s.mission = r.mission /\ s.files = r.files
  BY <1>2, <1>3, Restated DEF RState
<1>5. review'[w] = s /\ \A v \in Spaces : v # w => review'[v] = review[v]
  BY <1>1, <1>3 DEF MissionsInv, TypeOK
<1>6. r.files \in Plan /\ r.files # None
  BY <1>2, MissionsAssumption DEF Review
<1>7. PICK shown : shown = [history.shown EXCEPT ![w] = r.files]
  OBVIOUS
<1>8. history \in History /\ history' = [history EXCEPT !.shown = shown]
  BY <1>1, <1>7 DEF MissionsInv, TypeOK
<1>9. history.shown \in [Spaces -> Plan \cup {None}]
  BY <1>8 DEF History
<1>10. shown \in [Spaces -> Plan \cup {None}]
  BY <1>6, <1>7, <1>9
<1>11. /\ history' \in History
       /\ history'.shown = shown /\ history'.claimed = history.claimed
       /\ history'.withdrawn = history.withdrawn /\ history'.passed = history.passed
       /\ history'.acked = history.acked
  <2>1. history' \in History
    BY <1>8, <1>10, HistoryUpdates
  <2> QED BY <1>8, <2>1 DEF History
<1>12. shown[w] = r.files /\ \A v \in Spaces : v # w => shown[v] = history.shown[v]
  BY <1>7, <1>9
<1>13. TypeOK'
  <2>1. review' = [review EXCEPT ![w] = s]
    BY <1>1, <1>3
  <2>2. review' \in [Spaces -> Review \cup {None}]
    BY <1>4, <2>1 DEF MissionsInv, TypeOK
  <2> QED BY <1>11, <2>2 DEF MissionsInv, TypeOK
<1>14. BusySound'
  BY DEF BusySound, Idle
<1>15. Onward
  BY <1>6, <1>11, <1>12 DEF Onward
<1>16. ReviewSound(w)'
  <2>1. space[w] # None /\ r.agent = space[w].agent /\ (r.mission # None => ledger[r.mission] # None)
    BY <1>1, <1>2 DEF MissionsInv, ReviewSound
  <2> QED BY <1>4, <1>5, <1>11, <1>12, <2>1 DEF ReviewSound, Begun
<1>17. SpaceSound(w)'
  <2>1. SpaceSound(w)
    BY DEF MissionsInv
  <2>2. r.mission # None => ledger[r.mission].state \notin Final
    BY <1>1 DEF Passes, Allowed
  <2>3. w \notin history.claimed /\ w \notin history.withdrawn
    BY <1>1, <1>2, <2>1, <2>2 DEF SpaceSound, Gone, Begun
  <2> QED BY <1>11, <2>3 DEF SpaceSound
<1>18. ASSUME NEW v \in Spaces PROVE Handled(v)
  <2>1. CASE v = w
    BY <1>1, <1>2, <1>4, <1>5, <1>16, <1>17, <2>1 DEF Handled, Steady
  <2>2. CASE v # w
    BY <1>5, <1>11, <1>12, <2>2 DEF Handled, Moves, Keeps
  <2> QED BY <2>1, <2>2
<1>19. ASSUME NEW m \in Missions PROVE TaskMoves(m)
  BY <1>11 DEF TaskMoves
<1>20. ASSUME NEW a \in Agents, NEW m \in Missions PROVE CopyMoves(a, m)
  BY DEF CopyMoves
<1> QED BY <1>13, <1>14, <1>15, <1>18, <1>19, <1>20, Stays

\* What makes a claim possible: the review is as shown, fresh, and its test passed on
\* the tree as it is.
LEMMA ClaimSound ==
    ASSUME MissionsInv, NEW w \in Spaces, Claim(w)
    PROVE  /\ review[w] \in Review /\ review[w] # None
           /\ history.shown[w] = review[w].files
           /\ w \notin history.claimed /\ w \notin history.withdrawn
           /\ review[w].mission # None /\ "test" \in ledger[review[w].mission].needs
                 => <<w, review[w].mission, disk>> \in history.passed
<1>1. PICK r, m : r = review[w] /\ m = r.mission
  OBVIOUS
<1>2. r \in Review /\ r # None /\ r.state = "approved"
  BY <1>1 DEF MissionsInv, TypeOK, Claim
<1>3. ReviewSound(w) /\ SpaceSound(w)
  BY DEF MissionsInv
<1>4. m # None => ledger[m].state \notin Final
  BY <1>1 DEF Claim, Passes, Allowed
<1>5. w \notin history.claimed /\ w \notin history.withdrawn
  BY <1>1, <1>2, <1>3, <1>4 DEF SpaceSound, Gone, Begun
<1>6. history.shown[w] = r.files
  BY <1>1, <1>2, <1>3 DEF ReviewSound
<1>7. ASSUME m # None, "test" \in ledger[m].needs
      PROVE  <<w, m, disk>> \in history.passed
  <2>1. PICK c : c = ledger[m].checks
    OBVIOUS
  <2>2. c # None /\ c.of = w /\ c.test = "passed" /\ c.inputs = disk
    BY <1>1, <1>7, <2>1 DEF Claim, Passes, Covered, Evident
  <2>3. m \in Missions /\ ledger[m] # None
    BY <1>1, <1>2, <1>3, <1>7 DEF Review, ReviewSound
  <2>4. EvidenceSound(m)
    BY <2>3 DEF MissionsInv, TaskSound
  <2> QED BY <2>1, <2>2, <2>4 DEF EvidenceSound
<1> QED BY <1>1, <1>2, <1>5, <1>6, <1>7

LEMMA ClaimStep ==
    ASSUME MissionsInv, NEW w \in Spaces, Claim(w)
    PROVE  MissionsInv'
<1> USE DEF Claim, Smooth, world, agentSide
<1>1. PICK r : r = review[w]
  OBVIOUS
<1>2. /\ r \in Review /\ r # None /\ r.state = "approved"
      /\ history.shown[w] = r.files
      /\ w \notin history.withdrawn
      /\ r.mission # None /\ "test" \in ledger[r.mission].needs
            => <<w, r.mission, disk>> \in history.passed
  BY <1>1, ClaimSound
<1>3. PICK s : s = [r EXCEPT !.state = "applying"]
  OBVIOUS
<1>4. /\ s \in Review /\ s # None /\ s.state = "applying"
      /\ s.agent = r.agent /\ s.mission = r.mission /\ s.files = r.files
  BY <1>2, <1>3, Restated DEF RState
<1>5. review'[w] = s /\ \A v \in Spaces : v # w => review'[v] = review[v]
  BY <1>1, <1>3 DEF MissionsInv, TypeOK
<1>6. PICK claimed : claimed = history.claimed \cup {w}
  OBVIOUS
<1>7. history \in History /\ history' = [history EXCEPT !.claimed = claimed]
  BY <1>6 DEF MissionsInv, TypeOK
<1>8. claimed \in SUBSET Spaces
  BY <1>6, <1>7 DEF History
<1>9. /\ history' \in History
      /\ history'.shown = history.shown /\ history'.claimed = claimed
      /\ history'.withdrawn = history.withdrawn /\ history'.passed = history.passed
      /\ history'.acked = history.acked
  <2>1. history' \in History
    BY <1>7, <1>8, HistoryUpdates
  <2> QED BY <1>7, <2>1 DEF History
<1>10. PICK todo : todo = DOMAIN r.files
  OBVIOUS
<1>11. todo \in SUBSET Files
  <2>1. r.files \in Plan
    BY <1>2 DEF Review
  <2> QED BY <1>10, <2>1 DEF Plan
<1>12. busy' = [op |-> "apply", space |-> w, todo |-> todo]
  BY <1>1, <1>10
<1>13. TypeOK'
  <2>1. review' = [review EXCEPT ![w] = s]
    BY <1>1, <1>3
  <2>2. review' \in [Spaces -> Review \cup {None}]
    BY <1>4, <2>1 DEF MissionsInv, TypeOK
  <2>3. busy' \in Busy
    BY <1>11, <1>12 DEF Busy
  <2> QED BY <1>9, <2>2, <2>3 DEF MissionsInv, TypeOK
<1>14. BusySound'
  BY <1>4, <1>5, <1>10, <1>12 DEF BusySound
<1>15. Onward
  BY <1>6, <1>9 DEF Onward
<1>16. ReviewSound(w)'
  <2>1. space[w] # None /\ r.agent = space[w].agent /\ (r.mission # None => ledger[r.mission] # None)
    BY <1>1, <1>2 DEF MissionsInv, ReviewSound
  <2>2. r.mission # None => Tested(w, review[w].mission)'
    <3>1. PICK m : m = r.mission
      OBVIOUS
    <3>2. disk \in [Files -> Contents]
      BY DEF MissionsInv, TypeOK
    <3>3. r.mission # None => Tested(w, m)'
      BY <1>2, <1>9, <3>1, <3>2 DEF Tested
    <3> QED BY <1>4, <1>5, <3>1, <3>3
  <2> QED BY <1>2, <1>4, <1>5, <1>6, <1>9, <2>1, <2>2 DEF ReviewSound, Begun
<1>17. SpaceSound(w)'
  BY <1>2, <1>4, <1>5, <1>9 DEF SpaceSound, Begun
<1>18. ASSUME NEW v \in Spaces PROVE Handled(v)
  <2>1. CASE v = w
    BY <1>1, <1>2, <1>4, <1>5, <1>16, <1>17, <2>1 DEF Handled, Steady
  <2>2. CASE v # w
    BY <1>5, <1>6, <1>9, <2>2 DEF Handled, Moves, Keeps
  <2> QED BY <2>1, <2>2
<1>19. ASSUME NEW m \in Missions PROVE TaskMoves(m)
  BY <1>9 DEF TaskMoves
<1>20. ASSUME NEW a \in Agents, NEW m \in Missions PROVE CopyMoves(a, m)
  BY DEF CopyMoves
<1> QED BY <1>13, <1>14, <1>15, <1>18, <1>19, <1>20, Stays

-----------------------------------------------------------------------------
(* Steps that change the record of a mission, and its copy                 *)

\* All of a record but its revision.
Alike(u, t) ==
    /\ u.state = t.state /\ u.agent = t.agent /\ u.epoch = t.epoch /\ u.needs = t.needs
    /\ u.space = t.space /\ u.review = t.review /\ u.rstate = t.rstate /\ u.checks = t.checks
    /\ u.verified = t.verified /\ u.last = t.last /\ u.error = t.error

LEMMA RevisedTask ==
    ASSUME NEW t \in Task, NEW u, u = Revised(t)
    PROVE  u \in Task /\ u # None /\ u.rev = t.rev + 1 /\ Alike(u, t)
<1>1. PICK n : n = t.rev + 1
  OBVIOUS
<1>2. n \in Nat
  BY <1>1 DEF Task
<1>3. u = [t EXCEPT !.rev = n]
  BY <1>1 DEF Revised
<1>4. u \in Task
  BY <1>2, <1>3, TaskUpdates
<1>5. u # None
  BY <1>4, MissionsAssumption
<1> QED BY <1>1, <1>3, <1>4, <1>5 DEF Task, Alike

\* One copy is put in its place.
LEMMA PutCopy ==
    ASSUME NEW old \in [Agents -> [Missions -> Task \cup {None}]], NEW b \in Agents,
           NEW m \in Missions, NEW x \in Task \cup {None}, NEW copies,
           copies = [old EXCEPT ![b][m] = x]
    PROVE  /\ copies \in [Agents -> [Missions -> Task \cup {None}]]
           /\ \A a \in Agents, n \in Missions :
                 copies[a][n] = IF a = b /\ n = m THEN x ELSE old[a][n]
<1>1. PICK box : box = [old[b] EXCEPT ![m] = x]
  OBVIOUS
<1>2. /\ box \in [Missions -> Task \cup {None}]
      /\ \A n \in Missions : box[n] = IF n = m THEN x ELSE old[b][n]
  BY <1>1
<1>3. copies = [old EXCEPT ![b] = box]
  BY <1>1
<1> QED BY <1>2, <1>3

LEMMA ExportedCopies ==
    ASSUME TypeOK, NEW m \in Missions, NEW t \in Task, NEW copies, copies = Export(m, t)
    PROVE  /\ copies \in [Agents -> [Missions -> Task \cup {None}]]
           /\ \A a \in Agents, n \in Missions :
                 copies[a][n] = IF a = t.agent /\ n = m THEN t ELSE feed[a][n]
<1>1. PICK b : b = t.agent
  OBVIOUS
<1>2. b \in Agents /\ feed \in [Agents -> [Missions -> Task \cup {None}]]
  BY <1>1 DEF Task, TypeOK
<1>3. copies = [feed EXCEPT ![b][m] = t]
  BY <1>1 DEF Export
<1> QED BY <1>1, <1>2, <1>3, PutCopy

\* A commit keeps to the contract of records and copies.
LEMMA Committed ==
    ASSUME MissionsInv, NEW m \in Known, NEW t \in Task, Commit(m, t),
           t.agent = ledger[m].agent, t.rev = ledger[m].rev
    PROVE  /\ ledger' \in [Missions -> Task \cup {None}]
           /\ feed' \in [Agents -> [Missions -> Task \cup {None}]]
           /\ mishaps' \in 0 .. MaxMishaps
           /\ ledger'[m] \in Task /\ ledger'[m] # None /\ Alike(ledger'[m], t)
           /\ ledger'[m].rev = ledger[m].rev + 1
           /\ \A n \in Missions : n # m => ledger'[n] = ledger[n]
           /\ \A a \in Agents, n \in Missions : CopyMoves(a, n)
<1>1. m \in Missions /\ TypeOK /\ ledger[m] \in Task
  BY DEF Known, MissionsInv, TypeOK
<1>2. PICK u : u = Revised(t)
  OBVIOUS
<1>3. u \in Task /\ u # None /\ u.rev = t.rev + 1 /\ Alike(u, t)
  BY <1>2, RevisedTask
<1>4. ledger' = [ledger EXCEPT ![m] = u]
  BY <1>2 DEF Commit
<1>5. ledger'[m] = u /\ \A n \in Missions : n # m => ledger'[n] = ledger[n]
  BY <1>1, <1>4 DEF TypeOK
<1>6. ledger' \in [Missions -> Task \cup {None}]
  BY <1>1, <1>3, <1>4 DEF TypeOK
<1>7. mishaps' \in 0 .. MaxMishaps
  BY <1>1, MissionsAssumption DEF Commit, Smooth, Mishap, TypeOK
<1>8. feed' = feed \/ feed' = Export(m, u) \/ feed' = Export(m, ledger[m])
  BY <1>2 DEF Commit
<1>9. feed' \in [Agents -> [Missions -> Task \cup {None}]]
  BY <1>1, <1>3, <1>8, ExportedCopies DEF TypeOK
<1>10. ASSUME NEW a \in Agents, NEW n \in Missions
       PROVE  \/ feed'[a][n] = feed[a][n]
              \/ n = m /\ feed'[a][n] = u /\ u.agent = a
              \/ n = m /\ feed'[a][n] = ledger[m] /\ ledger[m].agent = a
  BY <1>1, <1>3, <1>8, ExportedCopies
<1>11. ledger[m].rev \in Nat /\ u.rev > ledger[m].rev /\ u.agent = ledger[m].agent
  BY <1>1, <1>3 DEF Task, Alike
<1>12. ASSUME NEW a \in Agents, NEW n \in Missions PROVE CopyMoves(a, n)
  <2>1. CASE n = m
    BY <1>3, <1>5, <1>10, <1>11, <2>1 DEF CopyMoves
  <2>2. CASE n # m
    BY <1>5, <1>10, <2>2 DEF CopyMoves
  <2> QED BY <2>1, <2>2
<1> QED BY <1>3, <1>5, <1>6, <1>7, <1>9, <1>12

LEMMA RecordStep ==
    ASSUME MissionsInv, NEW m \in Known, NEW t \in Task, Commit(m, t),
           t.agent = ledger[m].agent, t.rev = ledger[m].rev,
           t.review = ledger[m].review, t.needs = ledger[m].needs,
           t.state = ledger[m].state \/ (ledger[m].state \notin Final /\ DoneSound(m)'),
           EvidenceSound(m)',
           busy' \in Busy, BusySound',
           UNCHANGED <<world, agentSide, review>>,
           history' \in History, history'.shown = history.shown,
           history'.claimed = history.claimed, history'.acked = history.acked,
           history.passed \subseteq history'.passed,
           \A w \in Spaces : w \in history'.withdrawn => w \in history.withdrawn \/ SpaceSound(w)'
    PROVE  MissionsInv'
<1>1. m \in Missions /\ ledger[m] # None /\ ledger[m] \in Task
  BY DEF Known, MissionsInv, TypeOK
<1>2. /\ ledger' \in [Missions -> Task \cup {None}]
      /\ feed' \in [Agents -> [Missions -> Task \cup {None}]]
      /\ mishaps' \in 0 .. MaxMishaps
      /\ ledger'[m] # None /\ Alike(ledger'[m], t)
      /\ ledger'[m].rev = ledger[m].rev + 1
      /\ \A n \in Missions : n # m => ledger'[n] = ledger[n]
      /\ \A a \in Agents, n \in Missions : CopyMoves(a, n)
  BY Committed
<1>3. TypeOK'
  BY <1>2 DEF MissionsInv, TypeOK, world, agentSide
<1>4. Onward
  BY <1>1, <1>2 DEF Onward, Alike, world, agentSide
<1>5. ASSUME NEW w \in Spaces PROVE Handled(w)
  BY DEF Handled, Moves, Keeps
<1>6. history'.acked[m] < ledger'[m].rev
  <2>1. history.acked[m] < ledger[m].rev
    BY <1>1 DEF MissionsInv, TaskSound
  <2>2. history.acked[m] \in Nat /\ ledger[m].rev \in Nat
    BY <1>1 DEF MissionsInv, TypeOK, History, Task
  <2> QED BY <1>2, <2>1, <2>2
<1>7. ASSUME NEW n \in Missions PROVE TaskMoves(n)
  <2>1. CASE n = m
    BY <1>1, <1>2, <1>6, <2>1 DEF TaskMoves, Alike
  <2>2. CASE n # m
    BY <1>2, <2>2 DEF TaskMoves
  <2> QED BY <2>1, <2>2
<1> QED BY <1>2, <1>3, <1>4, <1>5, <1>7, Stays

\* Checks begun anew have passed nothing.
LEMMA ChecksOfTask ==
    ASSUME NEW t \in Task, t.review # None, NEW c, c = ChecksOf(t)
    PROVE  /\ c \in Checks /\ c # None /\ c.of = t.review
           /\ c.test = "passed" => c = t.checks
<1>1. CASE t.checks # None /\ t.checks.of = t.review
  BY <1>1, MissionsAssumption DEF ChecksOf, Task
<1>2. CASE ~(t.checks # None /\ t.checks.of = t.review)
  <2>1. c = [of |-> t.review, static |-> "none", test |-> "none", inputs |-> None]
    BY <1>2 DEF ChecksOf
  <2>2. t.review \in Spaces
    BY DEF Task
  <2>3. c \in Checks
    BY <2>1, <2>2 DEF Checks
  <2> QED BY <2>1, <2>3, MissionsAssumption
<1> QED BY <1>1, <1>2

LEMMA CheckStep ==
    ASSUME MissionsInv, NEW m \in Missions, Check(m)
    PROVE  MissionsInv'
<1> USE DEF Check, Checkable, Identified, Current
<1>1. PICK t : t = ledger[m]
  OBVIOUS
<1>2. m \in Known /\ t \in Task /\ t # None /\ t.review # None
  BY <1>1 DEF Known, MissionsInv, TypeOK
<1>3. PICK c : c = ChecksOf(t)
  OBVIOUS
<1>4. c \in Checks /\ c # None /\ c.of = t.review /\ (c.test = "passed" => c = t.checks)
  BY <1>2, <1>3, ChecksOfTask
<1>5. PICK x : /\ x \in {"failed", "passed"} \cup {c.static}
               /\ Commit(m, [t EXCEPT !.checks = [c EXCEPT !.static = x]])
  BY <1>1, <1>3
<1>6. PICK d, v : d = [c EXCEPT !.static = x] /\ v = [t EXCEPT !.checks = d]
  OBVIOUS
<1>7. d \in Checks /\ d # None /\ d.of = c.of /\ d.test = c.test /\ d.inputs = c.inputs
  <2>1. x \in {"none", "failed", "passed"}
    BY <1>4, <1>5 DEF Checks
  <2>2. d \in Checks
    BY <1>4, <1>6, <2>1, ChecksUpdates
  <2> QED BY <1>4, <1>6, <2>2, MissionsAssumption DEF Checks
<1>8. v \in Task
  BY <1>2, <1>6, <1>7, TaskUpdates
<1>9. /\ v.agent = t.agent /\ v.rev = t.rev /\ v.review = t.review /\ v.needs = t.needs
      /\ v.state = t.state /\ v.checks = d
  BY <1>2, <1>6, <1>8 DEF Task
<1>10. Commit(m, v)
  BY <1>5, <1>6
<1>11. Alike(ledger'[m], v)
  BY <1>1, <1>2, <1>8, <1>9, <1>10, Committed
<1>12. EvidenceSound(m)'
  <2>1. EvidenceSound(m)
    BY <1>1, <1>2 DEF MissionsInv, TaskSound
  <2>2. c.test = "passed" => <<c.of, m, c.inputs>> \in history.passed
    BY <1>1, <1>4, <2>1 DEF EvidenceSound
  <2> QED BY <1>7, <1>9, <1>11, <2>2 DEF EvidenceSound, Alike
<1>13. BusySound' /\ busy' \in Busy /\ history' \in History
  BY DEF BusySound, Idle, MissionsInv, TypeOK
<1> QED BY <1>1, <1>2, <1>8, <1>9, <1>10, <1>12, <1>13, RecordStep

LEMMA TestStartStep ==
    ASSUME MissionsInv, NEW m \in Missions, TestStart(m)
    PROVE  MissionsInv'
<1> USE DEF TestStart, Checkable, Identified, Current
<1>1. PICK t : t = ledger[m]
  OBVIOUS
<1>2. m \in Known /\ t \in Task /\ t # None /\ t.review # None
  BY <1>1 DEF Known, MissionsInv, TypeOK
<1>3. PICK c : c = ChecksOf(t)
  OBVIOUS
<1>4. c \in Checks /\ c.of = t.review
  BY <1>2, <1>3, ChecksOfTask
<1>5. PICK b, d : b = [c EXCEPT !.test = "running"] /\ d = [b EXCEPT !.inputs = None]
  OBVIOUS
<1>6. b \in Checks /\ d \in Checks
  BY <1>4, <1>5, ChecksUpdates
<1>7. d # None /\ d.of = c.of /\ d.test = "running"
  BY <1>4, <1>5, <1>6, MissionsAssumption DEF Checks
<1>8. PICK v : v = [t EXCEPT !.checks = d]
  OBVIOUS
<1>9. v \in Task
  BY <1>2, <1>6, <1>8, TaskUpdates
<1>10. /\ v.agent = t.agent /\ v.rev = t.rev /\ v.review = t.review /\ v.needs = t.needs
       /\ v.state = t.state /\ v.checks = d
  BY <1>2, <1>8, <1>9 DEF Task
<1>11. Commit(m, v)
  <2>1. [ChecksOf(t) EXCEPT !.test = "running", !.inputs = None] = d
    BY <1>3, <1>5
  <2> QED BY <1>1, <1>8, <2>1
<1>12. ledger'[m] # None /\ Alike(ledger'[m], v)
  BY <1>1, <1>2, <1>9, <1>10, <1>11, Committed
<1>13. EvidenceSound(m)'
  BY <1>7, <1>10, <1>12 DEF EvidenceSound, Alike
<1>14. busy' = [op |-> "test", mission |-> m, inputs |-> disk]
  OBVIOUS
<1>15. BusySound' /\ busy' \in Busy /\ history' \in History
  <2>1. busy' \in Busy /\ history' \in History
    BY <1>14 DEF MissionsInv, TypeOK, Busy
  <2>2. busy'.op = "test" /\ busy'.mission = m
    BY <1>14
  <2> QED BY <1>2, <1>4, <1>7, <1>10, <1>12, <2>1, <2>2 DEF BusySound, Alike
<1> QED BY <1>1, <1>2, <1>9, <1>10, <1>11, <1>13, <1>15, RecordStep

LEMMA TestEndStep ==
    ASSUME MissionsInv, NEW pass \in BOOLEAN, TestEnd(pass)
    PROVE  MissionsInv'
<1> USE DEF TestEnd
<1>1. PICK m : m = busy.mission
  OBVIOUS
<1>2. m \in Missions /\ busy.inputs \in [Files -> Contents]
  BY <1>1 DEF MissionsInv, TypeOK, Busy
<1>3. PICK t : t = ledger[m]
  OBVIOUS
<1>4. m \in Known /\ t \in Task /\ t # None /\ t.review # None
  BY <1>1, <1>2, <1>3 DEF Known, MissionsInv, TypeOK, BusySound
<1>5. PICK c : c = t.checks
  OBVIOUS
<1>6. c # None /\ c \in Checks /\ c.of = t.review
  BY <1>1, <1>3, <1>4, <1>5 DEF MissionsInv, BusySound, Task
<1>7. PICK x, i : /\ x = IF pass THEN "passed" ELSE "failed"
                  /\ i = IF pass THEN busy.inputs ELSE None
  OBVIOUS
<1>8. PICK b, d : b = [c EXCEPT !.test = x] /\ d = [b EXCEPT !.inputs = i]
  OBVIOUS
<1>9. b \in Checks /\ d \in Checks
  BY <1>2, <1>6, <1>7, <1>8, ChecksUpdates
<1>10. d # None /\ d.of = t.review /\ d.test = x /\ d.inputs = i
  BY <1>6, <1>8, <1>9, MissionsAssumption DEF Checks
<1>11. PICK v : v = [t EXCEPT !.checks = d]
  OBVIOUS
<1>12. v \in Task
  BY <1>4, <1>9, <1>11, TaskUpdates
<1>13. /\ v.agent = t.agent /\ v.rev = t.rev /\ v.review = t.review /\ v.needs = t.needs
       /\ v.state = t.state /\ v.checks = d
  BY <1>4, <1>11, <1>12 DEF Task
<1>14. Commit(m, v)
  <2>1. [t EXCEPT !.checks.test = x, !.checks.inputs = i] = v
    <3>1. PICK a : a = [t EXCEPT !.checks = b]
      OBVIOUS
    <3>2. a = [t EXCEPT !.checks.test = x]
      BY <1>5, <1>8, <3>1
    <3>3. a.checks = b
      BY <1>4, <3>1 DEF Task
    <3>4. [t EXCEPT !.checks.test = x, !.checks.inputs = i] = [a EXCEPT !.checks.inputs = i]
      BY <3>2
    <3>5. [a EXCEPT !.checks.inputs = i] = [a EXCEPT !.checks = d]
      BY <1>8, <3>3
    <3>6. [a EXCEPT !.checks = d] = v
      BY <1>4, <1>11, <3>1 DEF Task
    <3> QED BY <3>4, <3>5, <3>6
  <2>2. Save(m, Revised(v))
    BY <1>1, <1>3, <1>7, <2>1
  <2> QED BY <2>2 DEF Save, Commit
<1>15. ledger'[m] # None /\ Alike(ledger'[m], v)
  BY <1>3, <1>4, <1>12, <1>13, <1>14, Committed
<1>16. /\ history' \in History /\ history'.shown = history.shown
       /\ history'.claimed = history.claimed /\ history'.acked = history.acked
       /\ history'.withdrawn = history.withdrawn
       /\ history.passed \subseteq history'.passed
       /\ pass => <<t.review, m, i>> \in history'.passed
  <2>1. history \in History
    BY DEF MissionsInv, TypeOK
  <2>2. CASE pass
    <3>1. PICK p : p = history.passed \cup {<<t.review, m, i>>}
      OBVIOUS
    <3>2. t.review \in Spaces /\ i \in [Files -> Contents]
      BY <1>2, <1>4, <1>7, <2>2 DEF Task
    <3>3. p \in SUBSET (Spaces \X Missions \X [Files -> Contents])
      BY <1>2, <2>1, <3>1, <3>2 DEF History
    <3>4. history' = [history EXCEPT !.passed = p]
      BY <1>1, <1>3, <1>7, <2>2, <3>1
    <3>5. history' \in History
      BY <2>1, <3>3, <3>4 DEF History
    <3> QED BY <2>1, <3>1, <3>4, <3>5 DEF History
  <2>3. CASE ~pass
    BY <2>1, <2>3
  <2> QED BY <2>2, <2>3
<1>17. EvidenceSound(m)'
  BY <1>7, <1>10, <1>13, <1>15, <1>16 DEF EvidenceSound, Alike
<1>18. BusySound' /\ busy' \in Busy
  BY DEF BusySound, Busy, Idle
<1> QED BY <1>3, <1>4, <1>12, <1>13, <1>14, <1>16, <1>17, <1>18, RecordStep

LEMMA InvalidateStep ==
    ASSUME MissionsInv, NEW w \in Spaces, Invalidate(w)
    PROVE  MissionsInv'
<1> USE DEF Invalidate
<1>1. PICK m : m = review[w].mission
  OBVIOUS
<1>2. PICK t : t = ledger[m]
  OBVIOUS
<1>3. m \in Known /\ m \in Missions /\ t \in Task /\ t # None
  <2>1. review[w] \in Review /\ ReviewSound(w)
    BY DEF MissionsInv, TypeOK
  <2>2. m \in Missions /\ t # None
    BY <1>1, <1>2, <2>1 DEF Review, ReviewSound
  <2> QED BY <1>2, <2>2 DEF Known, MissionsInv, TypeOK
<1>4. PICK c : c = t.checks
  OBVIOUS
<1>5. c # None /\ c \in Checks
  BY <1>1, <1>2, <1>3, <1>4 DEF Covered, Task
<1>6. PICK b, d : b = [c EXCEPT !.test = "failed"] /\ d = [b EXCEPT !.inputs = None]
  OBVIOUS
<1>7. b \in Checks /\ d \in Checks
  BY <1>5, <1>6, ChecksUpdates
<1>8. d.test = "failed"
  BY <1>5, <1>6, <1>7 DEF Checks
<1>9. PICK v : v = [t EXCEPT !.checks = d]
  OBVIOUS
<1>10. v \in Task
  BY <1>3, <1>7, <1>9, TaskUpdates
<1>11. /\ v.agent = t.agent /\ v.rev = t.rev /\ v.review = t.review /\ v.needs = t.needs
       /\ v.state = t.state /\ v.checks = d
  BY <1>3, <1>9, <1>10 DEF Task
<1>12. Commit(m, v)
  <2>1. [t EXCEPT !.checks.test = "failed", !.checks.inputs = None] = v
    <3>1. PICK a : a = [t EXCEPT !.checks = b]
      OBVIOUS
    <3>2. a = [t EXCEPT !.checks.test = "failed"]
      BY <1>4, <1>6, <3>1
    <3>3. a.checks = b
      BY <1>3, <3>1 DEF Task
    <3>4. [t EXCEPT !.checks.test = "failed", !.checks.inputs = None]
          = [a EXCEPT !.checks.inputs = None]
      BY <3>2
    <3>5. [a EXCEPT !.checks.inputs = None] = [a EXCEPT !.checks = d]
      BY <1>6, <3>3
    <3>6. [a EXCEPT !.checks = d] = v
      BY <1>3, <1>9, <3>1 DEF Task
    <3> QED BY <3>4, <3>5, <3>6
  <2>2. Save(m, Revised(v))
    BY <1>1, <1>2, <2>1
  <2> QED BY <2>2 DEF Save, Commit
<1>13. Alike(ledger'[m], v)
  BY <1>2, <1>3, <1>10, <1>11, <1>12, Committed
<1>14. EvidenceSound(m)'
  BY <1>8, <1>11, <1>13 DEF EvidenceSound, Alike
<1>15. BusySound' /\ busy' \in Busy /\ history' \in History
  BY DEF BusySound, Idle, MissionsInv, TypeOK
<1> QED BY <1>2, <1>3, <1>10, <1>11, <1>12, <1>14, <1>15, RecordStep

LEMMA VerifyStep ==
    ASSUME MissionsInv, NEW m \in Missions, Verify(m)
    PROVE  MissionsInv'
<1> USE DEF Verify, Identified, Current
<1>1. PICK t : t = ledger[m]
  OBVIOUS
<1>2. m \in Known /\ t \in Task /\ t # None
  BY <1>1 DEF Known, MissionsInv, TypeOK
<1>3. PICK v : v = [t EXCEPT !.verified = Matches(m)]
  OBVIOUS
<1>4. PICK b \in BOOLEAN : v = [t EXCEPT !.verified = b]
  <2>1. Matches(m) \in BOOLEAN
    BY DEF Matches
  <2> QED BY <1>3, <2>1
<1>5. v \in Task
  BY <1>2, <1>4, TaskUpdates
<1>6. /\ v.agent = t.agent /\ v.rev = t.rev /\ v.review = t.review /\ v.needs = t.needs
      /\ v.state = t.state /\ v.checks = t.checks
  BY <1>2, <1>4, <1>5 DEF Task
<1>7. Commit(m, v)
  BY <1>1, <1>3
<1>8. Alike(ledger'[m], v)
  BY <1>1, <1>2, <1>5, <1>6, <1>7, Committed
<1>9. EvidenceSound(m)'
  <2>1. EvidenceSound(m)
    BY <1>1, <1>2 DEF MissionsInv, TaskSound
  <2> QED BY <1>1, <1>6, <1>8, <2>1 DEF EvidenceSound, Alike
<1>10. BusySound' /\ busy' \in Busy /\ history' \in History
  BY DEF BusySound, Idle, MissionsInv, TypeOK
<1> QED BY <1>1, <1>2, <1>5, <1>6, <1>7, <1>9, <1>10, RecordStep

LEMMA FinishStep ==
    ASSUME MissionsInv, NEW m \in Missions, Finish(m)
    PROVE  MissionsInv'
<1> USE DEF Finish, Identified, Current
<1>1. PICK t : t = ledger[m]
  OBVIOUS
<1>2. m \in Known /\ t \in Task /\ t # None /\ t.state \notin Final
  BY <1>1 DEF Known, MissionsInv, TypeOK
<1>3. PICK v : v = [t EXCEPT !.state = "done"]
  OBVIOUS
<1>4. v \in Task
  BY <1>2, <1>3, TaskUpdates DEF Final
<1>5. /\ v.agent = t.agent /\ v.rev = t.rev /\ v.review = t.review /\ v.needs = t.needs
      /\ v.checks = t.checks
  BY <1>2, <1>3, <1>4 DEF Task
<1>6. Commit(m, v)
  BY <1>1, <1>3
<1>7. Alike(ledger'[m], v)
  BY <1>1, <1>2, <1>4, <1>5, <1>6, Committed
<1>8. EvidenceSound(m)'
  <2>1. EvidenceSound(m)
    BY <1>1, <1>2 DEF MissionsInv, TaskSound
  <2> QED BY <1>1, <1>5, <1>7, <2>1 DEF EvidenceSound, Alike
<1>9. DoneSound(m)'
  <2>1. PICK w : w = t.review
    OBVIOUS
  <2>2. w \in Spaces /\ w # None /\ review[w] # None /\ review[w].state = "completed"
    BY <1>1, <1>2, <2>1 DEF Completed, Task
  <2>3. review[w].mission = m
    <3>1. LinkSound(m)
      BY <1>1, <1>2 DEF MissionsInv, TaskSound
    <3> QED BY <1>1, <2>1, <2>2, <3>1 DEF LinkSound, Gone
  <2>4. /\ history.shown[w] = review[w].files
        /\ w \in history.claimed /\ Tested(w, m)
    <3>1. ReviewSound(w) /\ m # None
      BY <2>2, MissionsAssumption DEF MissionsInv
    <3> QED BY <2>2, <2>3, <3>1 DEF ReviewSound, Begun
  <2>5. history.shown[w] # None
    <3>1. review[w] \in Review
      BY <2>2 DEF MissionsInv, TypeOK
    <3>2. review[w].files \in Plan
      BY <3>1 DEF Review
    <3> QED BY <2>4, <3>2, MissionsAssumption
  <2>6. Tested(w, m)'
    BY <1>1, <1>5, <1>7, <2>4 DEF Tested, Alike
  <2>7. ledger'[m].review = w
    BY <1>5, <1>7, <2>1 DEF Alike
  <2> QED BY <2>2, <2>4, <2>5, <2>6, <2>7 DEF DoneSound
<1>10. BusySound' /\ busy' \in Busy /\ history' \in History
  BY DEF BusySound, Idle, MissionsInv, TypeOK
<1> QED BY <1>1, <1>2, <1>4, <1>5, <1>6, <1>8, <1>9, <1>10, RecordStep

LEMMA CancelStep ==
    ASSUME MissionsInv, NEW m \in Missions, Cancel(m)
    PROVE  MissionsInv'
<1> USE DEF Cancel, Current
<1>1. PICK t : t = ledger[m]
  OBVIOUS
<1>2. m \in Known /\ t \in Task /\ t # None /\ t.state \notin Final
  BY <1>1 DEF Known, MissionsInv, TypeOK
<1>3. PICK v : v = [t EXCEPT !.state = "cancelled"]
  OBVIOUS
<1>4. v \in Task
  BY <1>2, <1>3, TaskUpdates DEF Final
<1>5. /\ v.agent = t.agent /\ v.rev = t.rev /\ v.review = t.review /\ v.needs = t.needs
      /\ v.checks = t.checks /\ v.state = "cancelled"
  BY <1>2, <1>3, <1>4 DEF Task
<1>6. Commit(m, v)
  BY <1>1, <1>3
<1>7. Alike(ledger'[m], v)
  BY <1>1, <1>2, <1>4, <1>5, <1>6, Committed
<1>8. PICK gone : gone = {w \in Spaces : review[w] # None /\ review[w].mission = m}
  OBVIOUS
<1>9. PICK all : all = history.withdrawn \cup gone
  OBVIOUS
<1>10. /\ history' \in History /\ history'.shown = history.shown
       /\ history'.claimed = history.claimed /\ history'.acked = history.acked
       /\ history'.passed = history.passed /\ history'.withdrawn = all
  <2>1. history \in History
    BY DEF MissionsInv, TypeOK
  <2>2. all \in SUBSET Spaces
    BY <1>8, <1>9, <2>1 DEF History
  <2>3. history' = [history EXCEPT !.withdrawn = all]
    BY <1>8, <1>9
  <2>4. history' \in History
    BY <2>1, <2>2, <2>3, HistoryUpdates
  <2> QED BY <2>1, <2>3, <2>4 DEF History
<1>11. EvidenceSound(m)'
  <2>1. EvidenceSound(m)
    BY <1>1, <1>2 DEF MissionsInv, TaskSound
  <2> QED BY <1>1, <1>5, <1>7, <1>10, <2>1 DEF EvidenceSound, Alike
<1>12. DoneSound(m)'
  BY <1>5, <1>7 DEF DoneSound, Alike
<1>13. ASSUME NEW w \in Spaces, w \in all, w \notin history.withdrawn
       PROVE  SpaceSound(w)'
  <2>1. review[w] # None /\ review[w].mission = m /\ m # None
    BY <1>8, <1>9, <1>13, MissionsAssumption
  <2>2. ledger'[m].state \in Final
    BY <1>5, <1>7 DEF Alike, Final
  <2>3. SpaceSound(w)
    BY DEF MissionsInv
  <2> QED BY <1>10, <2>1, <2>2, <2>3 DEF SpaceSound, Gone, world
<1>14. BusySound' /\ busy' \in Busy
  BY DEF BusySound, Idle, MissionsInv, TypeOK
<1> QED BY <1>1, <1>2, <1>4, <1>5, <1>6, <1>10, <1>11, <1>12, <1>13, <1>14, RecordStep

\* A mission is created or handed over: it has no review, is not done, and the
\* copies there were are gone.
LEMMA AssignStep ==
    ASSUME MissionsInv, NEW m \in Missions, NEW u \in Task,
           ledger' = ledger \/ ledger' = [ledger EXCEPT ![m] = u],
           u.review = None, u.state = "queued",
           u.checks = None \/ (ledger[m] # None /\ u.checks = ledger[m].checks),
           history.acked[m] < u.rev,
           ledger[m] # None => u.needs = ledger[m].needs /\ ledger[m].state \notin Final,
           feed' \in [Agents -> [Missions -> Task \cup {None}]],
           \A a \in Agents, n \in Missions : n # m => feed'[a][n] = feed[a][n],
           \A a \in Agents : feed'[a][m] = None \/ (ledger'[m] = u /\ feed'[a][m] = u /\ u.agent = a),
           mishaps' \in 0 .. MaxMishaps, busy' = Idle,
           UNCHANGED <<world, agentSide, review, busy, history>>
    PROVE  MissionsInv'
<1>1. u # None
  BY MissionsAssumption
<1>2. /\ ledger'[m] = ledger[m] \/ ledger'[m] = u
      /\ \A n \in Missions : n # m => ledger'[n] = ledger[n]
      /\ ledger' \in [Missions -> Task \cup {None}]
  BY DEF MissionsInv, TypeOK
<1>3. TypeOK'
  BY <1>2 DEF MissionsInv, TypeOK, world, agentSide
<1>4. BusySound'
  BY DEF BusySound, Idle
<1>5. Onward
  BY <1>1, <1>2 DEF Onward, world, agentSide
<1>6. ASSUME NEW w \in Spaces PROVE Handled(w)
  BY DEF Handled, Moves, Keeps
<1>7. ASSUME NEW n \in Missions PROVE TaskMoves(n) \/ TaskSound(n)'
  <2>1. CASE ledger'[n] = ledger[n]
    BY <2>1 DEF TaskMoves
  <2>2. CASE n = m /\ ledger'[m] = u
    <3>1. TaskSound(m)
      BY DEF MissionsInv
    <3>2. EvidenceSound(m)'
      BY <2>2, <3>1 DEF TaskSound, EvidenceSound
    <3>3. LinkSound(m)' /\ DoneSound(m)'
      BY <2>2 DEF LinkSound, DoneSound
    <3> QED BY <1>1, <2>2, <3>2, <3>3 DEF TaskSound
  <2> QED BY <1>2, <2>1, <2>2
<1>8. ASSUME NEW a \in Agents, NEW n \in Missions PROVE CopyMoves(a, n)
  <2>1. CASE n = m
    BY <2>1 DEF CopyMoves
  <2>2. CASE n # m
    BY <1>2, <2>2 DEF CopyMoves
  <2> QED BY <2>1, <2>2
<1> QED BY <1>3, <1>4, <1>5, <1>6, <1>7, <1>8, Stays

LEMMA CreateStep ==
    ASSUME MissionsInv, NEW m \in Missions, NEW a \in Agents, NEW needs \in Needs,
           Create(m, a, needs)
    PROVE  MissionsInv'
<1> USE DEF Create, Save, Smooth, Mishap
<1>1. PICK u : u = [state |-> "queued", rev |-> 1, agent |-> a, epoch |-> 0, needs |-> needs,
                    space |-> None, review |-> None, rstate |-> "none", checks |-> None,
                    verified |-> FALSE, last |-> None, error |-> FALSE]
  OBVIOUS
<1>2. u \in Task
  BY <1>1, MissionsAssumption DEF Task, Open
<1>3. ledger' = [ledger EXCEPT ![m] = u] /\ (feed' = Export(m, u) \/ feed' = feed)
  BY <1>1
<1>4. /\ u.review = None /\ u.state = "queued" /\ u.checks = None /\ u.rev = 1 /\ u.agent = a
  BY <1>1
<1>5. ledger'[m] = u /\ TypeOK
  BY <1>3 DEF MissionsInv, TypeOK
<1>6. history.acked[m] < u.rev
  BY <1>4 DEF MissionsInv, TaskSound
<1>7. \A b \in Agents : feed[b][m] = None
  BY DEF MissionsInv, CopySound
<1>8. /\ feed' \in [Agents -> [Missions -> Task \cup {None}]]
      /\ \A b \in Agents, n \in Missions : n # m => feed'[b][n] = feed[b][n]
      /\ \A b \in Agents : feed'[b][m] = None \/ (ledger'[m] = u /\ feed'[b][m] = u /\ u.agent = b)
  <2>1. CASE feed' = feed
    BY <1>5, <1>7, <2>1 DEF TypeOK
  <2>2. CASE feed' = Export(m, u)
    <3>1. /\ feed' \in [Agents -> [Missions -> Task \cup {None}]]
          /\ \A b \in Agents, n \in Missions :
                feed'[b][n] = IF b = u.agent /\ n = m THEN u ELSE feed[b][n]
      BY <1>2, <1>5, <2>2, ExportedCopies
    <3> QED BY <1>5, <1>7, <3>1
  <2> QED BY <1>3, <2>1, <2>2
<1>9. mishaps' \in 0 .. MaxMishaps
  BY <1>5, MissionsAssumption DEF TypeOK
<1> QED BY <1>2, <1>3, <1>4, <1>6, <1>8, <1>9, AssignStep

LEMMA ReassignStep ==
    ASSUME MissionsInv, NEW m \in Missions, NEW a \in Agents, Reassign(m, a)
    PROVE  MissionsInv'
<1> USE DEF Current, Smooth, Mishap
<1>1. PICK t : t = ledger[m]
  OBVIOUS
<1>2. m \in Known /\ t \in Task /\ t # None /\ t.state \notin Final /\ t.review = None /\ busy = Idle
  BY <1>1 DEF Reassign, Known, MissionsInv, TypeOK
<1>3. PICK e, r : e = t.epoch + 1 /\ r = t.rev + 1
  OBVIOUS
<1>4. e \in Nat /\ r \in Nat /\ t.rev \in Nat /\ r > t.rev
  BY <1>2, <1>3 DEF Task
<1>5. PICK c, d : c = [t EXCEPT !.agent = a] /\ d = [c EXCEPT !.epoch = e]
  OBVIOUS
<1>6. PICK f, g : f = [d EXCEPT !.state = "queued"] /\ g = [f EXCEPT !.space = None]
  OBVIOUS
<1>7. PICK h, u : h = [g EXCEPT !.last = None] /\ u = [h EXCEPT !.rev = r]
  OBVIOUS
<1>8. c \in Task /\ d \in Task /\ f \in Task /\ g \in Task /\ h \in Task /\ u \in Task
  BY <1>2, <1>4, <1>5, <1>6, <1>7, TaskUpdates DEF Open
<1>9. /\ c.agent = a /\ c.review = t.review /\ c.checks = t.checks /\ c.needs = t.needs
      /\ d.agent = a /\ d.review = t.review /\ d.checks = t.checks /\ d.needs = t.needs
  BY <1>2, <1>5, <1>8 DEF Task
<1>10. /\ f.agent = a /\ f.review = t.review /\ f.checks = t.checks /\ f.needs = t.needs
       /\ f.state = "queued"
       /\ g.agent = a /\ g.review = t.review /\ g.checks = t.checks /\ g.needs = t.needs
       /\ g.state = "queued"
  BY <1>6, <1>8, <1>9 DEF Task
<1>11. /\ u.agent = a /\ u.review = t.review /\ u.checks = t.checks /\ u.needs = t.needs
       /\ u.state = "queued" /\ u.rev = r
  BY <1>7, <1>8, <1>10 DEF Task
<1>12. u = [t EXCEPT !.agent = a, !.epoch = @ + 1, !.state = "queued", !.space = None,
                     !.last = None, !.rev = @ + 1]
  BY <1>2, <1>3, <1>5, <1>6, <1>7, <1>8 DEF Task
<1>13. \/ /\ feed' = Removed(m) /\ Mishap
          /\ ledger' = ledger \/ ledger' = [ledger EXCEPT ![m] = u]
       \/ /\ feed' = [Removed(m) EXCEPT ![a][m] = u] /\ Smooth
          /\ ledger' = [ledger EXCEPT ![m] = u]
  BY <1>1, <1>12 DEF Reassign
<1>14. PICK rest : rest = Removed(m)
  OBVIOUS
<1>15. PICK b : b = t.agent
  OBVIOUS
<1>16. /\ rest \in [Agents -> [Missions -> Task \cup {None}]]
       /\ \A x \in Agents, n \in Missions : n # m => rest[x][n] = feed[x][n]
       /\ \A x \in Agents : rest[x][m] = None
  <2>1. b \in Agents /\ feed \in [Agents -> [Missions -> Task \cup {None}]]
    BY <1>2, <1>15 DEF MissionsInv, TypeOK, Task
  <2>2. rest = [feed EXCEPT ![b][m] = None]
    BY <1>1, <1>14, <1>15 DEF Removed
  <2>3. None \in Task \cup {None}
    OBVIOUS
  <2>4. /\ rest \in [Agents -> [Missions -> Task \cup {None}]]
        /\ \A x \in Agents, n \in Missions :
              rest[x][n] = IF x = b /\ n = m THEN None ELSE feed[x][n]
    BY <2>1, <2>2, <2>3, PutCopy
  <2>5. \A x \in Agents : feed[x][m] # None => x = b
    BY <1>1, <1>15 DEF MissionsInv, CopySound
  <2> QED BY <2>4, <2>5
<1>17. /\ feed' \in [Agents -> [Missions -> Task \cup {None}]]
       /\ \A x \in Agents, n \in Missions : n # m => feed'[x][n] = feed[x][n]
       /\ \A x \in Agents : feed'[x][m] = None \/ (ledger'[m] = u /\ feed'[x][m] = u /\ u.agent = x)
  <2>1. CASE feed' = rest
    BY <1>16, <2>1
  <2>2. CASE feed' = [rest EXCEPT ![a][m] = u] /\ ledger' = [ledger EXCEPT ![m] = u]
    <3>1. u \in Task \cup {None}
      BY <1>8
    <3>2. /\ feed' \in [Agents -> [Missions -> Task \cup {None}]]
          /\ \A x \in Agents, n \in Missions :
                feed'[x][n] = IF x = a /\ n = m THEN u ELSE rest[x][n]
      BY <1>16, <2>2, <3>1, PutCopy
    <3>3. ledger'[m] = u
      BY <2>2 DEF MissionsInv, TypeOK
    <3> QED BY <1>11, <1>16, <3>2, <3>3
  <2> QED BY <1>13, <1>14, <2>1, <2>2
<1>18. mishaps' \in 0 .. MaxMishaps
  BY <1>13, MissionsAssumption DEF MissionsInv, TypeOK
<1>19. history.acked[m] < u.rev
  <2>1. history.acked[m] < t.rev /\ history.acked[m] \in Nat
    BY <1>1, <1>2 DEF MissionsInv, TaskSound, TypeOK, History
  <2> QED BY <1>4, <1>11, <2>1
<1>20. ledger' = ledger \/ ledger' = [ledger EXCEPT ![m] = u]
  BY <1>13
<1>21. UNCHANGED <<world, agentSide, review, busy, history>>
  BY DEF Reassign
<1> QED BY <1>1, <1>2, <1>8, <1>11, <1>17, <1>18, <1>19, <1>20, <1>21, AssignStep

-----------------------------------------------------------------------------
(* Steps that change a record and a review                                 *)

LEMMA CurrentTask ==
    ASSUME MissionsInv, NEW m \in Missions, Current(m)
    PROVE  m \in Known /\ ledger[m] \in Task /\ ledger[m].state \notin Final /\ m \notin due
<1>1. m \in Known /\ ledger[m] \in Task /\ ledger[m].state \notin Final
  BY DEF Current, Known, MissionsInv, TypeOK
<1>2. ASSUME m \in due PROVE FALSE
  <2>1. PICK t, v : t = ledger[m] /\ v = Reconciled(m)
    OBVIOUS
  <2>2. v = [t EXCEPT !.state = "expired"]
    BY <1>1, <1>2, <2>1 DEF Reconciled, Ongoing, Acknowledged
  <2>3. v.state \in Final /\ v.state # t.state
    BY <1>1, <2>1, <2>2 DEF Task, Final
  <2>4. t = [v EXCEPT !.rev = t.rev + 1]
    BY <2>1, <2>3 DEF Current, Refreshed
  <2>5. t.state = v.state
    BY <1>1, <2>1, <2>2, <2>4 DEF Task
  <2> QED BY <2>3, <2>5
<1> QED BY <1>1, <1>2

\* A mission that is under way has the review it names.
LEMMA LinkedReview ==
    ASSUME MissionsInv, NEW m \in Known, ledger[m].state \notin Final, m \notin due,
           ledger[m].review # None
    PROVE  /\ ledger[m].review \in Spaces
           /\ review[ledger[m].review] \in Review /\ review[ledger[m].review] # None
           /\ review[ledger[m].review].mission = m
           /\ review[ledger[m].review].agent = ledger[m].agent
<1>1. m \in Missions /\ ledger[m] \in Task /\ LinkSound(m)
  BY DEF Known, MissionsInv, TypeOK, TaskSound
<1>2. ledger[m].review \in Spaces
  BY <1>1 DEF Task
<1> QED BY <1>1, <1>2 DEF LinkSound, MissionsInv, TypeOK

LEMMA ReturnStep ==
    ASSUME MissionsInv, NEW m \in Missions, Return(m)
    PROVE  MissionsInv'
<1>1. PICK t, w : t = ledger[m] /\ w = t.review
  OBVIOUS
<1>2. /\ m \in Known /\ t \in Task /\ t # None /\ t.state \notin Final /\ m \notin due
      /\ busy = Idle /\ w # None
  BY <1>1, CurrentTask DEF Return, Identified, Current, Known
<1>3. PICK r, s : r = review[w] /\ s = [r EXCEPT !.state = "superseded"]
  OBVIOUS
<1>4. w \in Spaces /\ r \in Review /\ r # None
  BY <1>1, <1>2, <1>3, LinkedReview
<1>5. r.state \in {"pending", "approved", "rejected", "superseded"}
  BY <1>1, <1>3 DEF Return
<1>6. /\ s \in Review /\ s # None /\ s.state = "superseded"
      /\ s.agent = r.agent /\ s.mission = r.mission /\ s.files = r.files
  BY <1>3, <1>4, Restated DEF RState
<1>7. review' = [review EXCEPT ![w] = s]
  BY <1>1, <1>3 DEF Return, Withdrawn
<1>8. /\ review' \in [Spaces -> Review \cup {None}]
      /\ review'[w] = s /\ \A v \in Spaces : v # w => review'[v] = review[v]
  BY <1>4, <1>6, <1>7 DEF MissionsInv, TypeOK
<1>9. PICK all : all = history.withdrawn \cup {w}
  OBVIOUS
<1>10. /\ history' \in History /\ history'.shown = history.shown
       /\ history'.claimed = history.claimed /\ history'.acked = history.acked
       /\ history'.passed = history.passed /\ history'.withdrawn = all
  <2>1. history \in History
    BY DEF MissionsInv, TypeOK
  <2>2. all \in SUBSET Spaces
    BY <1>4, <1>9, <2>1 DEF History
  <2>3. history' = [history EXCEPT !.withdrawn = all]
    BY <1>1, <1>9 DEF Return
  <2>4. history' \in History
    BY <2>1, <2>2, <2>3, HistoryUpdates
  <2> QED BY <2>1, <2>3, <2>4 DEF History
<1>11. /\ UNCHANGED <<world, agentSide, busy>>
       /\ \/ UNCHANGED <<ledger, feed>> /\ Mishap
          \/ Commit(m, [t EXCEPT !.review = None, !.rstate = "none", !.space = None,
                                 !.checks = None, !.verified = FALSE, !.state = "working",
                                 !.last = None])
  BY <1>1 DEF Return
<1>12. BusySound'
  BY <1>2, <1>11 DEF BusySound, Idle
<1>13. ASSUME NEW v \in Spaces PROVE Handled(v)
  <2>1. CASE v # w
    BY <1>8, <1>9, <1>10, <2>1 DEF Handled, Moves, Keeps
  <2>2. CASE v = w
    <3>1. Keeps(w)
      BY <1>3, <1>4, <1>5, <1>6, <1>8 DEF Keeps, Begun
    <3>2. SpaceSound(w)'
      <4>1. w \notin history.claimed
        BY <1>3, <1>4, <1>5 DEF MissionsInv, SpaceSound, Gone, Begun
      <4> QED BY <1>6, <1>8, <1>10, <4>1 DEF SpaceSound
    <3> QED BY <1>10, <2>2, <3>1, <3>2 DEF Handled, Moves
  <2> QED BY <2>1, <2>2
<1>14. CASE UNCHANGED <<ledger, feed>> /\ Mishap
  <2>1. mishaps' \in 0 .. MaxMishaps
    BY <1>14, MissionsAssumption DEF MissionsInv, TypeOK, Mishap
  <2>2. TypeOK'
    BY <1>8, <1>10, <1>11, <1>14, <2>1 DEF MissionsInv, TypeOK, world, agentSide
  <2>3. Onward
    BY <1>10, <1>11, <1>14 DEF Onward, world, agentSide
  <2>4. ASSUME NEW n \in Missions PROVE TaskMoves(n)
    BY <1>10, <1>14 DEF TaskMoves
  <2>5. ASSUME NEW a \in Agents, NEW n \in Missions PROVE CopyMoves(a, n)
    BY <1>14 DEF CopyMoves
  <2> QED BY <1>12, <1>13, <2>2, <2>3, <2>4, <2>5, Stays
<1>15. CASE Commit(m, [t EXCEPT !.review = None, !.rstate = "none", !.space = None,
                                !.checks = None, !.verified = FALSE, !.state = "working",
                                !.last = None])
  <2>1. PICK a, b : a = [t EXCEPT !.review = None] /\ b = [a EXCEPT !.rstate = "none"]
    OBVIOUS
  <2>2. PICK c, d : c = [b EXCEPT !.space = None] /\ d = [c EXCEPT !.checks = None]
    OBVIOUS
  <2>3. PICK e, f : e = [d EXCEPT !.verified = FALSE] /\ f = [e EXCEPT !.state = "working"]
    OBVIOUS
  <2>4. PICK v : v = [f EXCEPT !.last = None]
    OBVIOUS
  <2>5. PICK no \in BOOLEAN : no = FALSE
    OBVIOUS
  <2>6. a \in Task /\ b \in Task /\ c \in Task /\ d \in Task
    BY <1>2, <2>1, <2>2, TaskUpdates DEF RStates
  <2>7. e \in Task /\ f \in Task /\ v \in Task
    BY <2>3, <2>4, <2>5, <2>6, TaskUpdates DEF Open
  <2>8. /\ a.agent = t.agent /\ a.rev = t.rev /\ a.needs = t.needs /\ a.review = None
        /\ b.agent = a.agent /\ b.rev = a.rev /\ b.needs = a.needs /\ b.review = a.review
        /\ c.agent = b.agent /\ c.rev = b.rev /\ c.needs = b.needs /\ c.review = b.review
        /\ d.agent = c.agent /\ d.rev = c.rev /\ d.needs = c.needs /\ d.review = c.review
        /\ d.checks = None
    BY <1>2, <2>1, <2>2, <2>6 DEF Task
  <2>9. /\ e.agent = d.agent /\ e.rev = d.rev /\ e.needs = d.needs /\ e.review = d.review
        /\ e.checks = d.checks
        /\ f.agent = e.agent /\ f.rev = e.rev /\ f.needs = e.needs /\ f.review = e.review
        /\ f.checks = e.checks /\ f.state = "working"
        /\ v.agent = f.agent /\ v.rev = f.rev /\ v.needs = f.needs /\ v.review = f.review
        /\ v.checks = f.checks /\ v.state = f.state
    BY <2>3, <2>4, <2>6, <2>7 DEF Task
  <2>10. Commit(m, v)
    BY <1>15, <2>1, <2>2, <2>3, <2>4
  <2>11. v.agent = t.agent /\ v.rev = t.rev /\ v.needs = t.needs /\ v.review = None
         /\ v.checks = None /\ v.state = "working"
    BY <2>8, <2>9
  <2>12. /\ ledger' \in [Missions -> Task \cup {None}]
         /\ feed' \in [Agents -> [Missions -> Task \cup {None}]]
         /\ mishaps' \in 0 .. MaxMishaps
         /\ ledger'[m] # None /\ Alike(ledger'[m], v)
         /\ ledger'[m].rev = t.rev + 1
         /\ \A n \in Missions : n # m => ledger'[n] = ledger[n]
         /\ \A x \in Agents, n \in Missions : CopyMoves(x, n)
    BY <1>1, <1>2, <2>7, <2>10, <2>11, Committed
  <2>13. TypeOK'
    BY <1>8, <1>10, <1>11, <2>12 DEF MissionsInv, TypeOK, world, agentSide
  <2>14. Onward
    BY <1>1, <1>2, <1>10, <1>11, <2>11, <2>12 DEF Onward, Alike, world, agentSide
  <2>15. TaskSound(m)'
    <3>1. history.acked[m] < t.rev /\ history.acked[m] \in Nat /\ t.rev \in Nat
      BY <1>1, <1>2 DEF MissionsInv, TaskSound, TypeOK, History, Task
    <3>2. history'.acked[m] < ledger'[m].rev
      BY <1>10, <2>12, <3>1
    <3>3. LinkSound(m)' /\ EvidenceSound(m)' /\ DoneSound(m)'
      BY <2>11, <2>12 DEF LinkSound, EvidenceSound, DoneSound, Alike
    <3> QED BY <2>12, <3>2, <3>3 DEF TaskSound
  <2>16. ASSUME NEW n \in Missions PROVE TaskMoves(n) \/ TaskSound(n)'
    BY <1>10, <2>12, <2>15 DEF TaskMoves
  <2> QED BY <1>12, <1>13, <2>12, <2>13, <2>14, <2>16, Stays
<1> QED BY <1>11, <1>14, <1>15

LEMMA ImportStep ==
    ASSUME MissionsInv, NEW m \in Missions, Import(m)
    PROVE  MissionsInv'
<1>1. PICK t, w : t = ledger[m] /\ w = t.space
  OBVIOUS
<1>2. /\ m \in Known /\ t \in Task /\ t # None /\ t.state = "needs_review" /\ t.review = None
      /\ w \in Spaces /\ busy = Idle /\ m # None
      /\ space[w] # None /\ w \notin stale /\ space[w].agent = t.agent
  <2>1. t.state = "needs_review" /\ t.review = None /\ w # None /\ Valid(t.agent, w)
    BY <1>1 DEF Import
  <2>2. m \in Known /\ t \in Task /\ t # None /\ busy = Idle
    BY <1>1, CurrentTask DEF Import, Identified, Current, Known
  <2>3. w \in Spaces
    BY <1>1, <2>1, <2>2 DEF Task
  <2> QED BY <2>1, <2>2, <2>3, MissionsAssumption DEF Valid
<1>3. PICK x : x = Imported(w)
  OBVIOUS
<1>4. /\ x \in Review /\ x # None
      /\ review[w] = None => x.state = "pending" /\ x.agent = space[w].agent /\ x.mission = None
      /\ review[w] # None =>
            /\ x = Settled(review[w])
            /\ x.agent = review[w].agent /\ x.files = review[w].files
            /\ x.mission = review[w].mission
            /\ x.state = "pending" => review[w].state = "pending"
  <2>1. TypeOK
    BY DEF MissionsInv
  <2> QED BY <1>2, <1>3, <2>1, ImportedReview, MissionsAssumption
<1>5. x.agent = t.agent
  BY <1>2, <1>4 DEF MissionsInv, ReviewSound
<1>6. /\ history' \in History /\ history'.shown = history.shown
      /\ history'.claimed = history.claimed /\ history'.acked = history.acked
      /\ history'.passed = history.passed /\ history'.withdrawn = history.withdrawn
  <2>1. history \in History
    BY DEF MissionsInv, TypeOK
  <2>2. PICK taken : taken = [history.taken EXCEPT ![w] = m]
    OBVIOUS
  <2>3. taken \in [Spaces -> Missions \cup {None}]
    BY <2>1, <2>2 DEF History
  <2>4. history' = history \/ history' = [history EXCEPT !.taken = taken]
    BY <1>1, <1>3, <2>2 DEF Import
  <2>5. history' \in History
    BY <2>1, <2>3, <2>4, HistoryUpdates
  <2> QED BY <2>1, <2>4, <2>5 DEF History
<1>7. PICK y : y = [x EXCEPT !.mission = m]
  OBVIOUS
<1>8. /\ y \in Review /\ y # None /\ y.state = x.state /\ y.agent = x.agent
      /\ y.files = x.files /\ y.mission = m
  <2>1. y \in Review
    BY <1>4, <1>7, ReviewUpdates
  <2> QED BY <1>4, <1>7, <2>1, MissionsAssumption DEF Review
<1>9. /\ UNCHANGED <<world, agentSide, busy>>
      /\ \/ review' = [review EXCEPT ![w] = x] /\ UNCHANGED <<ledger, feed>> /\ Mishap
         \/ /\ x.state = "pending" /\ x.mission \in {None, m}
            /\ review' = [review EXCEPT ![w] = y]
            /\ \/ UNCHANGED <<ledger, feed>> /\ Mishap
               \/ Commit(m, [t EXCEPT !.review = w, !.rstate = "pending", !.checks = None,
                                      !.verified = FALSE])
  BY <1>1, <1>3, <1>7 DEF Import, Free
<1>10. /\ review' \in [Spaces -> Review \cup {None}]
       /\ \/ review'[w] = x
          \/ review'[w] = y /\ x.state = "pending" /\ x.mission \in {None, m}
       /\ \A v \in Spaces : v # w => review'[v] = review[v]
  BY <1>2, <1>4, <1>8, <1>9 DEF MissionsInv, TypeOK
<1>11. BusySound'
  BY <1>2, <1>9 DEF BusySound, Idle
<1>12. ASSUME ledger'[m] # None, NEW v \in Spaces PROVE Handled(v)
  <2>1. Moves(w)
    <3>1. CASE review'[w] = x
      <4>1. CASE review[w] = None
        BY <1>2, <1>4, <3>1, <4>1 DEF Moves
      <4>2. CASE review[w] # None
        BY <1>2, <1>4, <3>1, <4>2, SettledKeeps DEF Moves, MissionsInv
      <4> QED BY <4>1, <4>2
    <3>2. CASE review'[w] = y /\ x.state = "pending" /\ x.mission \in {None, m}
      <4>1. CASE review[w] = None
        BY <1>2, <1>4, <1>8, <1>12, <3>2, <4>1 DEF Moves
      <4>2. CASE review[w] # None /\ review[w].mission = m
        BY <1>4, <1>8, <3>2, <4>2 DEF Moves, Keeps, Begun
      <4>3. CASE review[w] # None /\ review[w].mission = None
        BY <1>4, <1>8, <1>12, <3>2, <4>3 DEF Moves
      <4> QED BY <1>4, <3>2, <4>1, <4>2, <4>3
    <3> QED BY <1>10, <3>1, <3>2
  <2>2. CASE v = w
    BY <1>6, <2>1, <2>2 DEF Handled
  <2>3. CASE v # w
    BY <1>6, <1>10, <2>3 DEF Handled, Moves, Keeps
  <2> QED BY <2>2, <2>3
<1>13. CASE UNCHANGED <<ledger, feed>> /\ Mishap
  <2>1. mishaps' \in 0 .. MaxMishaps
    BY <1>13, MissionsAssumption DEF MissionsInv, TypeOK, Mishap
  <2>2. TypeOK'
    BY <1>6, <1>9, <1>10, <1>13, <2>1 DEF MissionsInv, TypeOK, world, agentSide
  <2>3. Onward
    BY <1>6, <1>9, <1>13 DEF Onward, world, agentSide
  <2>4. ASSUME NEW n \in Missions PROVE TaskMoves(n)
    BY <1>6, <1>13 DEF TaskMoves
  <2>5. ASSUME NEW a \in Agents, NEW n \in Missions PROVE CopyMoves(a, n)
    BY <1>13 DEF CopyMoves
  <2>6. ledger'[m] # None
    BY <1>1, <1>2, <1>13
  <2> QED BY <1>11, <1>12, <2>2, <2>3, <2>4, <2>5, <2>6, Stays
<1>14. CASE /\ review' = [review EXCEPT ![w] = y]
            /\ Commit(m, [t EXCEPT !.review = w, !.rstate = "pending", !.checks = None,
                                   !.verified = FALSE])
  <2>1. PICK a, b : a = [t EXCEPT !.review = w] /\ b = [a EXCEPT !.rstate = "pending"]
    OBVIOUS
  <2>2. PICK c, v : c = [b EXCEPT !.checks = None] /\ v = [c EXCEPT !.verified = FALSE]
    OBVIOUS
  <2>3. PICK no \in BOOLEAN : no = FALSE
    OBVIOUS
  <2>4. a \in Task /\ b \in Task /\ c \in Task /\ v \in Task
    BY <1>2, <2>1, <2>2, <2>3, TaskUpdates DEF RStates
  <2>5. /\ a.agent = t.agent /\ a.rev = t.rev /\ a.needs = t.needs /\ a.state = t.state
        /\ a.review = w
        /\ b.agent = a.agent /\ b.rev = a.rev /\ b.needs = a.needs /\ b.state = a.state
        /\ b.review = a.review
        /\ c.agent = b.agent /\ c.rev = b.rev /\ c.needs = b.needs /\ c.state = b.state
        /\ c.review = b.review /\ c.checks = None
        /\ v.agent = c.agent /\ v.rev = c.rev /\ v.needs = c.needs /\ v.state = c.state
        /\ v.review = c.review /\ v.checks = c.checks
    BY <1>2, <2>1, <2>2, <2>4 DEF Task
  <2>6. Commit(m, v)
    BY <1>14, <2>1, <2>2
  <2>7. v.agent = t.agent /\ v.rev = t.rev /\ v.needs = t.needs /\ v.state = "needs_review"
        /\ v.review = w /\ v.checks = None
    BY <1>2, <2>5
  <2>8. /\ ledger' \in [Missions -> Task \cup {None}]
        /\ feed' \in [Agents -> [Missions -> Task \cup {None}]]
        /\ mishaps' \in 0 .. MaxMishaps
        /\ ledger'[m] # None /\ Alike(ledger'[m], v)
        /\ ledger'[m].rev = t.rev + 1
        /\ \A n \in Missions : n # m => ledger'[n] = ledger[n]
        /\ \A z \in Agents, n \in Missions : CopyMoves(z, n)
    BY <1>1, <1>2, <2>4, <2>6, <2>7, Committed
  <2>9. TypeOK'
    BY <1>6, <1>9, <1>10, <2>8 DEF MissionsInv, TypeOK, world, agentSide
  <2>10. t.state \notin Final
    BY <1>2 DEF Final
  <2>11. Onward
    BY <1>1, <1>2, <1>6, <1>9, <2>7, <2>8, <2>10 DEF Onward, Alike, world, agentSide
  <2>12. TaskSound(m)'
    <3>1. history.acked[m] < t.rev /\ history.acked[m] \in Nat /\ t.rev \in Nat
      BY <1>1, <1>2 DEF MissionsInv, TaskSound, TypeOK, History, Task
    <3>2. history'.acked[m] < ledger'[m].rev
      BY <1>6, <2>8, <3>1
    <3>3. review'[w] = y
      BY <1>2, <1>14 DEF MissionsInv, TypeOK
    <3>4. LinkSound(m)'
      BY <1>5, <1>8, <2>7, <2>8, <3>3 DEF LinkSound, Alike
    <3>5. EvidenceSound(m)' /\ DoneSound(m)'
      BY <2>7, <2>8 DEF EvidenceSound, DoneSound, Alike
    <3> QED BY <2>8, <3>2, <3>4, <3>5 DEF TaskSound
  <2>13. ASSUME NEW n \in Missions PROVE TaskMoves(n) \/ TaskSound(n)'
    BY <1>6, <2>8, <2>12 DEF TaskMoves
  <2> QED BY <1>11, <1>12, <2>8, <2>9, <2>11, <2>13, Stays
<1> QED BY <1>9, <1>13, <1>14

LEMMA RefreshStep ==
    ASSUME MissionsInv, NEW ms \in SUBSET Known, Refresh(ms)
    PROVE  MissionsInv'
<1> USE DEF Refresh, Refreshing
<1>1. TypeOK /\ ms \subseteq Missions
  BY DEF MissionsInv, Known
<1>2. ASSUME NEW m \in ms
      PROVE  /\ ledger[m] \in Task /\ ledger[m] # None
             /\ ledger'[m] = Refreshed(m) /\ ledger'[m] \in Task /\ ledger'[m] # None
             /\ Kin(ledger'[m], ledger[m])
             /\ ledger'[m] = ledger[m] \/ ledger'[m].rev = ledger[m].rev + 1
             /\ ledger[m].state \in Final => ledger'[m] = ledger[m]
             /\ ledger'[m].state = "done" => ledger[m].state = "done"
             /\ Acknowledged(m) => ledger'[m].rev = ledger[m].rev + 1
             /\ ledger[m].rev \in Nat /\ ledger[m].rev # ledger[m].rev + 1
             /\ ledger'[m] = ledger[m] \/ ledger'[m].rev > ledger[m].rev
  <2>1. PICK t, u : t = ledger[m] /\ u = Refreshed(m)
    OBVIOUS
  <2>2. m \in Known /\ t # None
    BY <2>1 DEF Known
  <2>3. /\ t \in Task /\ u \in Task /\ Kin(u, t)
        /\ u = t \/ u.rev = t.rev + 1
        /\ t.state \in Final => u = t
        /\ u.state = "done" => t.state = "done"
        /\ Acknowledged(m) => u.rev = t.rev + 1
    BY <1>1, <2>1, <2>2, RefreshedTask
  <2>4. ledger'[m] = u
    BY <1>1, <2>1
  <2>5. t.rev \in Nat
    BY <2>3 DEF Task
  <2>6. t.rev # t.rev + 1 /\ (u = t \/ u.rev > t.rev)
    <3>1. PICK n : n = t.rev
      OBVIOUS
    <3> QED BY <2>3, <2>5, <3>1
  <2> QED BY <2>1, <2>2, <2>3, <2>4, <2>5, <2>6, MissionsAssumption
<1>3. \A m \in Missions : m \notin ms => ledger'[m] = ledger[m]
  OBVIOUS
<1>4. ledger' \in [Missions -> Task \cup {None}]
  <2>1. \A m \in Missions : ledger'[m] \in Task \cup {None}
    BY <1>1, <1>2, <1>3 DEF TypeOK
  <2>2. ledger' = [m \in Missions |-> ledger'[m]]
    OBVIOUS
  <2> QED BY <2>1, <2>2
<1>5. PICK sent \in SUBSET ms :
          /\ feed' = [a \in Agents |-> [m \in Missions |->
                 IF m \in sent /\ ledger[m].agent = a THEN Refreshed(m) ELSE feed[a][m]]]
          /\ IF sent = ms THEN Smooth ELSE Mishap
  OBVIOUS
<1>6. mishaps' \in 0 .. MaxMishaps
  BY <1>1, <1>5, MissionsAssumption DEF Smooth, Mishap, TypeOK
<1>7. ASSUME NEW a \in Agents, NEW m \in Missions
      PROVE  feed'[a][m] = IF m \in sent /\ ledger[m].agent = a THEN ledger'[m] ELSE feed[a][m]
  BY <1>2, <1>5, <1>7
<1>8. feed' \in [Agents -> [Missions -> Task \cup {None}]]
  <2>1. \A a \in Agents, m \in Missions : feed'[a][m] \in Task \cup {None}
    BY <1>1, <1>4, <1>7 DEF TypeOK
  <2>2. feed' = [a \in Agents |-> [m \in Missions |-> feed'[a][m]]]
    BY <1>5
  <2> QED BY <2>1, <2>2
<1>9. ASSUME NEW w \in Spaces PROVE Keeps(w) /\ review'[w] \in Review \cup {None}
  <2>1. CASE review'[w] = Settled(review[w])
    BY <1>1, <2>1, SettledKeeps
  <2>2. CASE review'[w] = review[w]
    BY <1>1, <2>2 DEF Keeps, TypeOK
  <2> QED BY <2>1, <2>2
<1>10. review' \in [Spaces -> Review \cup {None}]
  <2>1. review' = [w \in Spaces |-> review'[w]]
    OBVIOUS
  <2> QED BY <1>9, <2>1
<1>11. PICK acked : acked = [m \in Missions |->
           IF m \in ms /\ Acknowledged(m) THEN Reported(m).rev ELSE history.acked[m]]
  OBVIOUS
<1>12. ASSUME NEW m \in ms, Acknowledged(m) PROVE acked[m] = ledger[m].rev
  BY <1>1, <1>11, <1>12 DEF Acknowledged, Fits
<1>13. \A m \in Missions : ~(m \in ms /\ Acknowledged(m)) => acked[m] = history.acked[m]
  BY <1>11
<1>14. acked \in [Missions -> Nat]
  <2>1. history.acked \in [Missions -> Nat]
    BY <1>1 DEF TypeOK, History
  <2>2. \A m \in Missions : acked[m] \in Nat
    BY <1>2, <1>12, <1>13, <2>1
  <2>3. acked = [m \in Missions |-> acked[m]]
    BY <1>11
  <2> QED BY <2>2, <2>3
<1>15. /\ history' \in History /\ history'.shown = history.shown
       /\ history'.claimed = history.claimed /\ history'.acked = acked
       /\ history'.passed = history.passed /\ history'.withdrawn = history.withdrawn
  <2>1. history \in History
    BY <1>1 DEF TypeOK
  <2>2. history' = [history EXCEPT !.acked = acked]
    BY <1>11
  <2>3. history' \in History
    BY <1>14, <2>1, <2>2, HistoryUpdates
  <2> QED BY <2>1, <2>2, <2>3 DEF History
<1>16. TypeOK'
  BY <1>1, <1>4, <1>6, <1>8, <1>10, <1>15 DEF TypeOK, world, agentSide
<1>17. BusySound'
  BY DEF BusySound, Idle
<1>18. Onward
  <2>1. ASSUME NEW m \in Missions, ledger[m] # None
        PROVE  /\ ledger'[m] # None /\ ledger'[m].needs = ledger[m].needs
               /\ ledger[m].state \in Final => ledger'[m].state \in Final
    BY <1>2, <1>3, <2>1 DEF Kin
  <2> QED BY <1>15, <2>1 DEF Onward, world, agentSide
<1>19. ASSUME NEW w \in Spaces PROVE Handled(w)
  BY <1>9, <1>15 DEF Handled, Moves
<1>20. ASSUME NEW m \in Missions PROVE TaskMoves(m)
  <2>1. CASE m \notin ms
    BY <1>3, <1>13, <1>15, <2>1 DEF TaskMoves
  <2>2. CASE m \in ms /\ ledger'[m] = ledger[m]
    <3>1. ledger[m].rev # ledger[m].rev + 1
      BY <1>2, <2>2
    <3>2. ~Acknowledged(m)
      BY <1>2, <2>2, <3>1
    <3> QED BY <1>13, <1>15, <2>2, <3>2 DEF TaskMoves
  <2>3. CASE m \in ms /\ ledger'[m] # ledger[m]
    <3>1. TaskSound(m)
      BY DEF MissionsInv
    <3>2. ledger[m].rev \in Nat /\ ledger'[m].rev = ledger[m].rev + 1
      BY <1>2, <2>3
    <3>3. history.acked[m] \in Nat /\ history.acked[m] < ledger[m].rev /\ EvidenceSound(m)
      BY <1>1, <1>2, <2>3, <3>1 DEF TaskSound, TypeOK, History
    <3>4. acked[m] \in Nat /\ (acked[m] = ledger[m].rev \/ acked[m] = history.acked[m])
      BY <1>12, <1>13, <1>14, <2>3
    <3>5. history'.acked[m] < ledger'[m].rev
      BY <1>15, <3>2, <3>3, <3>4
    <3>6. EvidenceSound(m)'
      BY <1>2, <1>15, <2>3, <3>3 DEF EvidenceSound, Kin
    <3> QED BY <1>2, <2>3, <3>5, <3>6 DEF TaskMoves, Kin
  <2> QED BY <2>1, <2>2, <2>3
<1>21. ASSUME NEW a \in Agents, NEW m \in Missions PROVE CopyMoves(a, m)
  <2>1. CASE m \in ms
    <3>1. ledger'[m] # None /\ ledger'[m].agent = ledger[m].agent
          /\ (ledger'[m] = ledger[m] \/ ledger'[m].rev > ledger[m].rev)
      <4>1. ledger'[m] # None /\ Kin(ledger'[m], ledger[m])
        BY <1>2, <2>1
      <4>2. ledger'[m] = ledger[m] \/ ledger'[m].rev > ledger[m].rev
        BY <1>2, <2>1
      <4> QED BY <4>1, <4>2 DEF Kin
    <3> QED BY <1>7, <3>1 DEF CopyMoves
  <2>2. CASE m \notin ms
    BY <1>3, <1>7, <2>2 DEF CopyMoves
  <2> QED BY <2>1, <2>2
<1> QED BY <1>16, <1>17, <1>18, <1>19, <1>20, <1>21, Stays

-----------------------------------------------------------------------------
(* The invariant holds, and what follows                                   *)

LEMMA InvInit == Init => MissionsInv
<1> SUFFICES ASSUME Init PROVE MissionsInv
  OBVIOUS
<1> USE DEF Init
<1>1. TypeOK
  <2>1. history \in History
    BY DEF History
  <2>2. mail \in [Agents -> [Missions -> Report \cup {None}]]
        /\ feed \in [Agents -> [Missions -> Task \cup {None}]]
    OBVIOUS
  <2>3. mishaps \in 0 .. MaxMishaps
    BY MissionsAssumption
  <2> QED BY <2>1, <2>2, <2>3 DEF TypeOK, Busy, Idle
<1>2. BusySound
  BY DEF BusySound, Idle
<1>3. ASSUME NEW w \in Spaces PROVE ReviewSound(w) /\ SpaceSound(w)
  BY DEF ReviewSound, SpaceSound
<1>4. ASSUME NEW m \in Missions PROVE TaskSound(m)
  BY DEF TaskSound
<1>5. ASSUME NEW a \in Agents, NEW m \in Missions PROVE CopySound(a, m)
  BY DEF CopySound
<1> QED BY <1>1, <1>2, <1>3, <1>4, <1>5 DEF MissionsInv

LEMMA InvNext == MissionsInv /\ [Next]_vars => MissionsInv'
<1> SUFFICES ASSUME MissionsInv, [Next]_vars PROVE MissionsInv'
  OBVIOUS
<1>1. CASE UNCHANGED vars
  <2>1. TypeOK' /\ BusySound'
    BY <1>1 DEF vars, world, agentSide, MissionsInv, TypeOK, BusySound
  <2> QED BY <1>1, <2>1, QuietStep DEF vars, world, agentSide
<1>2. ASSUME NEW a \in Agents, NEW w \in Spaces, NEW s \in SUBSET Files,
             NEW cand \in [s -> Contents], Submit(a, w, cand)
      PROVE  MissionsInv'
  BY <1>2, SubmitStep
<1>3. ASSUME NEW w \in Spaces, NEW f \in Files, NEW c \in Contents, Alter(w, f, c)
      PROVE  MissionsInv'
  BY <1>3, AlterStep
<1>4. ASSUME NEW a \in Agents, NEW m \in Missions, NEW phase \in Phases,
             NEW w \in Spaces \cup {None}, StartReport(a, m, phase, w)
      PROVE  MissionsInv'
  BY <1>4, StartReportStep
<1>5. ASSUME NEW a \in Agents, SendReport(a) \/ SetLive(a) PROVE MissionsInv'
  BY <1>5, SendReportStep, WorldStep
<1>6. ASSUME NEW ms \in SUBSET Known, Refresh(ms) PROVE MissionsInv'
  BY <1>6, RefreshStep
<1>7. ASSUME NEW m \in Missions, NEW a \in Agents, NEW needs \in Needs, Create(m, a, needs)
      PROVE  MissionsInv'
  BY <1>7, CreateStep
<1>8. ASSUME NEW m \in Missions, NEW a \in Agents, Reassign(m, a) PROVE MissionsInv'
  BY <1>8, ReassignStep
<1>9. ASSUME NEW m \in Missions,
             \/ Import(m) \/ Check(m) \/ TestStart(m) \/ Verify(m) \/ Finish(m)
             \/ Cancel(m) \/ Return(m) \/ MissionDue(m)
      PROVE  MissionsInv'
  BY <1>9, ImportStep, CheckStep, TestStartStep, VerifyStep, FinishStep, CancelStep,
     ReturnStep, WorldStep
<1>10. ASSUME NEW pass \in BOOLEAN, TestEnd(pass) PROVE MissionsInv'
  BY <1>10, TestEndStep
<1>11. ASSUME NEW a \in Agents, NEW w \in Spaces, StandaloneImport(a, w) PROVE MissionsInv'
  BY <1>11, StandaloneImportStep
<1>12. ASSUME NEW w \in Spaces,
              \/ Invalidate(w) \/ Approve(w) \/ Reject(w) \/ Claim(w) \/ GetReview(w)
              \/ SpaceStale(w)
       PROVE  MissionsInv'
  BY <1>12, InvalidateStep, ApproveStep, RejectStep, ClaimStep, GetReviewStep, WorldStep
<1>13. ASSUME NEW f \in Files, Write(f) \/ WriteFails(f) PROVE MissionsInv'
  BY <1>13, WriteStep, WriteFailsStep
<1>14. ASSUME Complete \/ Crash PROVE MissionsInv'
  BY <1>14, CompleteStep, CrashStep
<1>15. ASSUME NEW ws \in SUBSET Spaces, ListReviews(ws) PROVE MissionsInv'
  BY <1>15, ListReviewsStep
<1>16. ASSUME NEW f \in Files, NEW c \in Contents, Edit(f, c) PROVE MissionsInv'
  BY <1>16, WorldStep
<1> QED BY <1>1, <1>2, <1>3, <1>4, <1>5, <1>6, <1>7, <1>8, <1>9, <1>10, <1>11, <1>12, <1>13,
           <1>14, <1>15, <1>16 DEF Next

\* Workspaces, reviews, missions, copies and history agree in every reachable state.
THEOREM MissionsInvariant == Spec => []MissionsInv
BY InvInit, InvNext, PTL DEF Spec

\* The review a mission names is its own and its assignee's, and while the mission
\* is under way it is there, whatever was reported, imported, listed or cut short.
THEOREM MissionsLinkAgrees == Spec => []LinkAgrees
<1>1. MissionsInv => LinkAgrees
  <2> SUFFICES ASSUME MissionsInv PROVE LinkAgrees
    OBVIOUS
  <2>1. LinkedKept
    BY LinkedReview DEF LinkedKept
  <2>2. ASSUME NEW m \in Known, ledger[m].review # None, review[ledger[m].review] # None
        PROVE  /\ review[ledger[m].review].mission = m
               /\ review[ledger[m].review].agent = ledger[m].agent
    <3>1. LinkSound(m)
      BY DEF MissionsInv, TaskSound, Known
    <3> QED BY <2>2, <3>1 DEF LinkSound, Gone
  <2> QED BY <2>1, <2>2 DEF LinkAgrees
<1> QED BY <1>1, MissionsInvariant, PTL

\* Only the assignee has a copy of a mission; the copy is never ahead of the
\* ledger, and one of the same revision is the ledger's record.
THEOREM MissionsBriefHonest == Spec => []BriefHonest
<1>1. MissionsInv => BriefHonest
  BY DEF MissionsInv, CopySound, BriefHonest
<1> QED BY <1>1, MissionsInvariant, PTL

\* A mission that is done had its review approved and applied, and tested if it
\* needed that.
THEOREM MissionsDoneWasApplied == Spec => []DoneWasApplied
<1>1. MissionsInv => DoneWasApplied
  <2> SUFFICES ASSUME MissionsInv PROVE DoneWasApplied
    OBVIOUS
  <2>1. TypeOK
    BY DEF MissionsInv
  <2>2. ASSUME NEW m \in Known, ledger[m].state = "done"
        PROVE  /\ history.shown[ledger[m].review] # None
               /\ ledger[m].review \in history.claimed
               /\ "test" \in ledger[m].needs => \E d \in [Files -> Contents] :
                      <<ledger[m].review, m, d>> \in history.passed
    <3>1. DoneSound(m)
      BY DEF MissionsInv, TaskSound, Known
    <3> QED BY <2>2, <3>1 DEF DoneSound, Tested
  <2> QED BY <2>1, <2>2 DEF DoneWasApplied
<1> QED BY <1>1, MissionsInvariant, PTL

-----------------------------------------------------------------------------
(* What a step may never do                                                *)

\* An apply begins with a claim, and in no other way.
LEMMA OnlyClaims ==
    ASSUME Next, NEW w \in Spaces, Claims(w)
    PROVE  Claim(w)
<1> USE DEF Claims, Idle
<1>1. ASSUME NEW a \in Agents, NEW v \in Spaces, NEW s \in SUBSET Files,
             NEW cand \in [s -> Contents], Submit(a, v, cand)
      PROVE  FALSE
  BY <1>1 DEF Submit
<1>2. ASSUME NEW v \in Spaces, NEW f \in Files, NEW c \in Contents, Alter(v, f, c)
      PROVE  FALSE
  BY <1>2 DEF Alter
<1>3. ASSUME NEW a \in Agents, NEW m \in Missions, NEW phase \in Phases,
             NEW v \in Spaces \cup {None}, StartReport(a, m, phase, v)
      PROVE  FALSE
  BY <1>3 DEF StartReport
<1>4. ASSUME NEW a \in Agents, SendReport(a) \/ SetLive(a) PROVE FALSE
  BY <1>4 DEF SendReport, SetLive
<1>5. ASSUME NEW ms \in SUBSET Known, Refresh(ms) PROVE FALSE
  BY <1>5 DEF Refresh
<1>6. ASSUME NEW m \in Missions, NEW a \in Agents, NEW needs \in Needs, Create(m, a, needs)
      PROVE  FALSE
  BY <1>6 DEF Create
<1>7. ASSUME NEW m \in Missions, NEW a \in Agents, Reassign(m, a) PROVE FALSE
  BY <1>7 DEF Reassign
<1>8. ASSUME NEW m \in Missions, TestStart(m) PROVE FALSE
  BY <1>8 DEF TestStart
<1>9. ASSUME NEW m \in Missions,
             \/ Import(m) \/ Check(m) \/ Verify(m) \/ Finish(m)
             \/ Cancel(m) \/ Return(m) \/ MissionDue(m)
      PROVE  FALSE
  BY <1>9 DEF Import, Check, Verify, Finish, Cancel, Return, MissionDue
<1>10. ASSUME NEW pass \in BOOLEAN, TestEnd(pass) PROVE FALSE
  BY <1>10 DEF TestEnd
<1>11. ASSUME NEW a \in Agents, NEW v \in Spaces, StandaloneImport(a, v) PROVE FALSE
  BY <1>11 DEF StandaloneImport
<1>12. ASSUME NEW v \in Spaces,
              \/ Invalidate(v) \/ Approve(v) \/ Reject(v) \/ GetReview(v) \/ SpaceStale(v)
       PROVE  FALSE
  BY <1>12 DEF Invalidate, Approve, Reject, GetReview, SpaceStale
<1>13. ASSUME NEW v \in Spaces, Claim(v) PROVE Claim(w)
  BY <1>13 DEF Claim
<1>14. ASSUME NEW f \in Files, Write(f) \/ WriteFails(f) PROVE FALSE
  BY <1>14 DEF Write, WriteFails
<1>15. ASSUME Complete \/ Crash PROVE FALSE
  BY <1>15 DEF Complete, Crash
<1>16. ASSUME NEW ws \in SUBSET Spaces, ListReviews(ws) PROVE FALSE
  BY <1>16 DEF ListReviews
<1>17. ASSUME NEW f \in Files, NEW c \in Contents, Edit(f, c) PROVE FALSE
  BY <1>17 DEF Edit
<1> QED BY <1>1, <1>2, <1>3, <1>4, <1>5, <1>6, <1>7, <1>8, <1>9, <1>10, <1>11, <1>12, <1>13,
           <1>14, <1>15, <1>16, <1>17 DEF Next

\* The report that last took effect stays, or is forgotten.
Forgets(m) == ledger'[m].last = ledger[m].last \/ ledger'[m].last = None

LEMMA CommitForgets ==
    ASSUME MissionsInv, NEW n \in Missions, NEW t, "last" \in DOMAIN t,
           t.last = ledger[n].last \/ t.last = None,
           ledger' = [ledger EXCEPT ![n] = Revised(t)],
           NEW m \in Missions
    PROVE  Forgets(m)
<1>1. PICK u : u = Revised(t)
  OBVIOUS
<1>2. u.last = t.last
  BY <1>1 DEF Revised
<1>3. ledger' = [ledger EXCEPT ![n] = u]
  BY <1>1
<1> QED BY <1>2, <1>3 DEF MissionsInv, TypeOK, Forgets

LEMMA OperationForgets ==
    ASSUME MissionsInv, NEW n \in Known, NEW m \in Known,
           \/ Check(n) \/ TestStart(n) \/ Verify(n) \/ Finish(n) \/ Cancel(n)
           \/ Import(n) \/ Return(n) \/ \E a \in Agents : Reassign(n, a)
    PROVE  Forgets(m)
<1>1. PICK t : t = ledger[n]
  OBVIOUS
<1>2. n \in Missions /\ m \in Missions /\ t \in Task /\ "last" \in DOMAIN t
  BY <1>1 DEF MissionsInv, TypeOK, Known, Task
<1>3. CASE ledger' = ledger
  BY <1>3 DEF Forgets
<1>4. ASSUME NEW x, ledger' = [ledger EXCEPT ![n] = Revised([t EXCEPT !.checks = x])]
      PROVE  Forgets(m)
  <2>1. PICK v : v = [t EXCEPT !.checks = x]
    OBVIOUS
  <2>2. "last" \in DOMAIN v /\ v.last = t.last
    BY <1>2, <2>1
  <2>3. ledger' = [ledger EXCEPT ![n] = Revised(v)]
    BY <1>4, <2>1
  <2> QED BY <1>1, <1>2, <2>2, <2>3, CommitForgets
<1>5. ASSUME NEW x, ledger' = [ledger EXCEPT ![n] = Revised([t EXCEPT !.verified = x])]
      PROVE  Forgets(m)
  <2>1. PICK v : v = [t EXCEPT !.verified = x]
    OBVIOUS
  <2>2. "last" \in DOMAIN v /\ v.last = t.last
    BY <1>2, <2>1
  <2>3. ledger' = [ledger EXCEPT ![n] = Revised(v)]
    BY <1>5, <2>1
  <2> QED BY <1>1, <1>2, <2>2, <2>3, CommitForgets
<1>6. ASSUME NEW x, ledger' = [ledger EXCEPT ![n] = Revised([t EXCEPT !.state = x])]
      PROVE  Forgets(m)
  <2>1. PICK v : v = [t EXCEPT !.state = x]
    OBVIOUS
  <2>2. "last" \in DOMAIN v /\ v.last = t.last
    BY <1>2, <2>1
  <2>3. ledger' = [ledger EXCEPT ![n] = Revised(v)]
    BY <1>6, <2>1
  <2> QED BY <1>1, <1>2, <2>2, <2>3, CommitForgets
<1>7. CASE Check(n)
  <2>1. PICK x : ledger' = [ledger EXCEPT ![n] = Revised([t EXCEPT !.checks = x])]
    BY <1>1, <1>7 DEF Check, Commit
  <2> QED BY <1>4, <2>1
<1>8. CASE TestStart(n)
  <2>1. PICK x : x = [ChecksOf(t) EXCEPT !.test = "running", !.inputs = None]
    OBVIOUS
  <2>2. ledger' = [ledger EXCEPT ![n] = Revised([t EXCEPT !.checks = x])]
    BY <1>1, <1>8, <2>1 DEF TestStart, Commit
  <2> QED BY <1>4, <2>2
<1>9. CASE Verify(n)
  <2>1. PICK x : x = Matches(n)
    OBVIOUS
  <2>2. ledger' = [ledger EXCEPT ![n] = Revised([t EXCEPT !.verified = x])]
    BY <1>1, <1>9, <2>1 DEF Verify, Commit
  <2> QED BY <1>5, <2>2
<1>10. CASE Finish(n) \/ Cancel(n)
  <2>1. \/ ledger' = [ledger EXCEPT ![n] = Revised([t EXCEPT !.state = "done"])]
        \/ ledger' = [ledger EXCEPT ![n] = Revised([t EXCEPT !.state = "cancelled"])]
    BY <1>1, <1>10 DEF Finish, Cancel, Commit
  <2> QED BY <1>6, <2>1
<1>11. CASE Import(n)
  <2>1. PICK w : w = t.space
    OBVIOUS
  <2>2. PICK v : v = [t EXCEPT !.review = w, !.rstate = "pending", !.checks = None,
                               !.verified = FALSE]
    OBVIOUS
  <2>3. "last" \in DOMAIN v /\ v.last = t.last
    BY <1>2, <2>2
  <2>4. ledger' = ledger \/ ledger' = [ledger EXCEPT ![n] = Revised(v)]
    BY <1>1, <1>11, <2>1, <2>2 DEF Import, Commit
  <2> QED BY <1>1, <1>2, <1>3, <2>3, <2>4, CommitForgets
<1>12. CASE Return(n)
  <2>1. PICK v : v = [t EXCEPT !.review = None, !.rstate = "none", !.space = None,
                               !.checks = None, !.verified = FALSE, !.state = "working",
                               !.last = None]
    OBVIOUS
  <2>2. "last" \in DOMAIN v /\ v.last = None
    BY <1>2, <2>1
  <2>3. ledger' = ledger \/ ledger' = [ledger EXCEPT ![n] = Revised(v)]
    BY <1>1, <1>12, <2>1 DEF Return, Commit
  <2> QED BY <1>1, <1>2, <1>3, <2>2, <2>3, CommitForgets
<1>13. ASSUME NEW a \in Agents, Reassign(n, a) PROVE Forgets(m)
  <2>1. PICK v : v = [t EXCEPT !.agent = a, !.epoch = @ + 1, !.state = "queued", !.space = None,
                               !.last = None, !.rev = @ + 1]
    OBVIOUS
  <2>2. v.last = None
    BY <1>2, <2>1
  <2>3. ledger' = ledger \/ ledger' = [ledger EXCEPT ![n] = v]
    BY <1>1, <1>13, <2>1 DEF Reassign
  <2>4. ledger' = ledger \/ ledger'[m] = ledger[m] \/ ledger'[m] = v
    BY <1>2, <2>3 DEF MissionsInv, TypeOK
  <2> QED BY <1>3, <2>2, <2>4 DEF Forgets
<1> QED BY <1>7, <1>8, <1>9, <1>10, <1>11, <1>12, <1>13

LEMMA OwnForgets ==
    ASSUME MissionsInv, NEW m \in Known,
           \/ \E pass \in BOOLEAN : TestEnd(pass)
           \/ \E w \in Spaces : Invalidate(w)
    PROVE  Forgets(m)
<1>1. PICK n, x, i :
          /\ n \in Known
          /\ ledger' = [ledger EXCEPT ![n] = Revised([ledger[n] EXCEPT
                           !.checks.test = x, !.checks.inputs = i])]
  <2>1. ASSUME NEW pass \in BOOLEAN, TestEnd(pass)
        PROVE  \E n \in Known : \E x, i : ledger' = [ledger EXCEPT ![n] = Revised([ledger[n] EXCEPT
                                          !.checks.test = x, !.checks.inputs = i])]
    <3>1. busy.mission \in Known
      <4>1. busy.op = "test" /\ busy \in Busy /\ BusySound
        BY <2>1 DEF TestEnd, MissionsInv, TypeOK
      <4> QED BY <4>1 DEF Busy, BusySound, Known
    <3>2. PICK x, i : /\ x = IF pass THEN "passed" ELSE "failed"
                      /\ i = IF pass THEN busy.inputs ELSE None
      OBVIOUS
    <3>3. ledger' = [ledger EXCEPT ![busy.mission] = Revised([ledger[busy.mission] EXCEPT
                         !.checks.test = x, !.checks.inputs = i])]
      BY <2>1, <3>2 DEF TestEnd, Save
    <3> QED BY <3>1, <3>3
  <2>2. ASSUME NEW w \in Spaces, Invalidate(w)
        PROVE  \E n \in Known : \E x, i : ledger' = [ledger EXCEPT ![n] = Revised([ledger[n] EXCEPT
                                          !.checks.test = x, !.checks.inputs = i])]
    <3>1. review[w].mission \in Known
      BY <2>2 DEF Invalidate, MissionsInv, TypeOK, Review, ReviewSound, Known
    <3>2. PICK x, i : x = "failed" /\ i = None
      OBVIOUS
    <3>3. ledger' = [ledger EXCEPT ![review[w].mission] =
                         Revised([ledger[review[w].mission] EXCEPT
                                      !.checks.test = x, !.checks.inputs = i])]
      BY <2>2, <3>2 DEF Invalidate, Save
    <3> QED BY <3>1, <3>3
  <2> QED BY <2>1, <2>2
<1>2. PICK t : t = ledger[n]
  OBVIOUS
<1>3. n \in Missions /\ m \in Missions /\ t \in Task /\ "last" \in DOMAIN t
  BY <1>1, <1>2 DEF MissionsInv, TypeOK, Known, Task
<1>4. PICK v : v = [t EXCEPT !.checks.test = x, !.checks.inputs = i]
  OBVIOUS
<1>5. "last" \in DOMAIN v /\ v.last = t.last
  BY <1>3, <1>4
<1>6. ledger' = [ledger EXCEPT ![n] = Revised(v)]
  BY <1>1, <1>2, <1>4
<1> QED BY <1>2, <1>3, <1>5, <1>6, CommitForgets

LEMMA NewReports ==
    ASSUME MissionsInv, [Next]_vars, NEW m \in Known,
           ledger'[m].last # ledger[m].last, ledger'[m].last # None
    PROVE  ledger'[m].last.rev > history.acked[m]
<1>1. ~Forgets(m) /\ ledger' # ledger
  BY DEF Forgets
<1>2. ASSUME NEW ms \in SUBSET Known, Refresh(ms)
      PROVE  ledger'[m].last.rev > history.acked[m]
  <2>1. PICK t, u : t = ledger[m] /\ u = Refreshed(m)
    OBVIOUS
  <2>2. t \in Task /\ u.last = IF Acknowledged(m) THEN Reported(m) ELSE t.last
    BY <2>1, RefreshedTask DEF MissionsInv
  <2>3. m \in ms /\ ledger'[m] = u
    BY <1>1, <1>2, <2>1 DEF Refresh, Refreshing, Forgets, Known
  <2>4. Acknowledged(m) /\ ledger'[m].last = Reported(m)
    BY <1>1, <2>1, <2>2, <2>3 DEF Forgets
  <2>5. Reported(m).rev = t.rev
    BY <2>1, <2>4 DEF Acknowledged, Fits
  <2>6. history.acked[m] < t.rev
    BY <2>1 DEF MissionsInv, TaskSound, Known
  <2>7. history.acked[m] \in Nat /\ t.rev \in Nat
    BY <2>2 DEF MissionsInv, TypeOK, History, Task, Known
  <2> QED BY <2>4, <2>5, <2>6, <2>7
<1>3. ASSUME NEW n \in Missions, NEW a \in Agents, NEW needs \in Needs, Create(n, a, needs)
      PROVE  FALSE
  <2>1. PICK x : ledger' = [ledger EXCEPT ![n] = x] /\ n # m
    BY <1>3 DEF Create, Save, Known
  <2> QED BY <1>1, <2>1 DEF Forgets, Known, MissionsInv, TypeOK
<1>4. ASSUME NEW n \in Missions,
             \/ Check(n) \/ TestStart(n) \/ Verify(n) \/ Finish(n) \/ Cancel(n)
             \/ Import(n) \/ Return(n) \/ \E a \in Agents : Reassign(n, a)
      PROVE  FALSE
  <2>1. n \in Known
    BY <1>4 DEF Check, Checkable, TestStart, Verify, Finish, Cancel, Import, Return, Reassign,
                Identified, Current
  <2> QED BY <1>1, <1>4, <2>1, OperationForgets
<1>5. ASSUME \/ \E pass \in BOOLEAN : TestEnd(pass)
             \/ \E w \in Spaces : Invalidate(w)
      PROVE  FALSE
  BY <1>1, <1>5, OwnForgets
<1>6. ASSUME \/ \E a \in Agents, w \in Spaces : \E s \in SUBSET Files : \E cand \in [s -> Contents] :
                    Submit(a, w, cand)
             \/ \E w \in Spaces, f \in Files, c \in Contents : Alter(w, f, c)
             \/ \E a \in Agents, n \in Missions, phase \in Phases, w \in Spaces \cup {None} :
                    StartReport(a, n, phase, w)
             \/ \E a \in Agents : SendReport(a) \/ SetLive(a)
             \/ \E n \in Missions : MissionDue(n)
             \/ \E a \in Agents, w \in Spaces : StandaloneImport(a, w)
             \/ \E w \in Spaces : \/ Approve(w) \/ Reject(w) \/ Claim(w) \/ GetReview(w)
                                  \/ SpaceStale(w)
             \/ \E f \in Files : Write(f) \/ WriteFails(f)
             \/ Complete \/ Crash
             \/ \E ws \in SUBSET Spaces : ListReviews(ws)
             \/ \E f \in Files, c \in Contents : Edit(f, c)
      PROVE  FALSE
  BY <1>1, <1>6 DEF Submit, Alter, StartReport, SendReport, SetLive, MissionDue,
     StandaloneImport, Approve, Reject, Claim, GetReview, SpaceStale, Write, WriteFails,
     Complete, Crash, ListReviews, Edit
<1>7. CASE UNCHANGED vars
  BY <1>1, <1>7 DEF vars
<1> QED BY <1>2, <1>3, <1>4, <1>5, <1>6, <1>7 DEF Next

\* A report takes effect once, and a review is applied once, and not after its
\* mission was cancelled or returned.
THEOREM MissionsAppliedOnce == Spec => AppliedOnce
<1>1. MissionsInv /\ [Next]_vars =>
        [\A m \in Known :
             LET r == ledger'[m].last IN
             r # ledger[m].last /\ r # None => r.rev > history.acked[m]]_vars
  BY NewReports
<1>2. MissionsInv /\ [Next]_vars =>
        [\A w \in Spaces : Claims(w) => w \notin history.claimed \cup history.withdrawn]_vars
  <2> SUFFICES ASSUME MissionsInv, [Next]_vars, NEW w \in Spaces, Claims(w)
               PROVE  w \notin history.claimed \cup history.withdrawn
    BY DEF vars
  <2>1. Next
    BY DEF Claims, vars
  <2>2. Claim(w)
    BY <2>1, OnlyClaims
  <2> QED BY <2>2, ClaimSound
<1>3. Spec => NoReplay
  BY <1>1, MissionsInvariant, PTL DEF Spec, NoReplay
<1>4. Spec => [][\A w \in Spaces :
                     Claims(w) => w \notin history.claimed \cup history.withdrawn]_vars
  BY <1>2, MissionsInvariant, PTL DEF Spec
<1> QED BY <1>3, <1>4 DEF AppliedOnce

\* Of the steps, only those of an apply change production and the apply.
LEMMA OnlyWrites ==
    ASSUME Next, NEW f \in Files, busy.op = "apply", disk'[f] # disk[f], busy' # busy
    PROVE  \E g \in Files : Write(g) \/ WriteFails(g)
<1> USE DEF Idle, world
<1>1. ASSUME NEW a \in Agents, NEW v \in Spaces, NEW s \in SUBSET Files,
             NEW cand \in [s -> Contents], Submit(a, v, cand)
      PROVE  FALSE
  BY <1>1 DEF Submit
<1>2. ASSUME NEW v \in Spaces, NEW g \in Files, NEW c \in Contents, Alter(v, g, c)
      PROVE  FALSE
  BY <1>2 DEF Alter
<1>3. ASSUME NEW a \in Agents, NEW m \in Missions, NEW phase \in Phases,
             NEW v \in Spaces \cup {None}, StartReport(a, m, phase, v)
      PROVE  FALSE
  BY <1>3 DEF StartReport
<1>4. ASSUME NEW a \in Agents, SendReport(a) \/ SetLive(a) PROVE FALSE
  BY <1>4 DEF SendReport, SetLive
<1>5. ASSUME NEW ms \in SUBSET Known, Refresh(ms) PROVE FALSE
  BY <1>5 DEF Refresh
<1>6. ASSUME NEW m \in Missions, NEW a \in Agents, NEW needs \in Needs, Create(m, a, needs)
      PROVE  FALSE
  BY <1>6 DEF Create
<1>7. ASSUME NEW m \in Missions, NEW a \in Agents, Reassign(m, a) PROVE FALSE
  BY <1>7 DEF Reassign
<1>8. ASSUME NEW m \in Missions,
             \/ Import(m) \/ Check(m) \/ TestStart(m) \/ Verify(m) \/ Finish(m)
             \/ Cancel(m) \/ Return(m) \/ MissionDue(m)
      PROVE  FALSE
  BY <1>8 DEF Import, Check, TestStart, Verify, Finish, Cancel, Return, MissionDue
<1>9. ASSUME NEW pass \in BOOLEAN, TestEnd(pass) PROVE FALSE
  BY <1>9 DEF TestEnd
<1>10. ASSUME NEW a \in Agents, NEW v \in Spaces, StandaloneImport(a, v) PROVE FALSE
  BY <1>10 DEF StandaloneImport
<1>11. ASSUME NEW v \in Spaces,
              \/ Invalidate(v) \/ Approve(v) \/ Reject(v) \/ Claim(v) \/ GetReview(v)
              \/ SpaceStale(v)
       PROVE  FALSE
  BY <1>11 DEF Invalidate, Approve, Reject, Claim, GetReview, SpaceStale
<1>12. ASSUME Complete \/ Crash PROVE FALSE
  BY <1>12 DEF Complete, Crash
<1>13. ASSUME NEW ws \in SUBSET Spaces, ListReviews(ws) PROVE FALSE
  BY <1>13 DEF ListReviews
<1>14. ASSUME NEW g \in Files, NEW c \in Contents, Edit(g, c) PROVE FALSE
  BY <1>14 DEF Edit
<1> QED BY <1>1, <1>2, <1>3, <1>4, <1>5, <1>6, <1>7, <1>8, <1>9, <1>10, <1>11, <1>12, <1>13,
           <1>14 DEF Next

LEMMA WritesShown ==
    ASSUME MissionsInv, [Next]_vars, NEW f \in Files,
           busy.op = "apply", disk'[f] # disk[f], busy' # busy
    PROVE  disk'[f] = history.shown[busy.space][f].cand
<1>1. PICK g \in Files : Write(g) \/ WriteFails(g)
  BY OnlyWrites DEF vars
<1>2. PICK w : w = busy.space
  OBVIOUS
<1>3. history.shown[w] = review[w].files
  <2>1. busy \in Busy /\ BusySound
    BY DEF MissionsInv, TypeOK
  <2>2. w \in Spaces /\ review[w] # None /\ review[w].state = "applying"
    BY <1>2, <2>1 DEF Busy, BusySound
  <2> QED BY <2>2 DEF MissionsInv, ReviewSound, Begun
<1>4. disk' = [disk EXCEPT ![g] = Candidate(w, g)]
  BY <1>1, <1>2 DEF Write, WriteFails
<1>5. g = f /\ disk'[f] = Candidate(w, f)
  BY <1>4 DEF MissionsInv, TypeOK
<1> QED BY <1>2, <1>3, <1>5 DEF Candidate

\* What an apply writes was shown when it was approved, and the tree on which it
\* begins is the one that passed the test its mission needs.
THEOREM MissionsChecksCover == Spec => ChecksCover
<1>1. MissionsInv /\ [Next]_vars =>
        [\A f \in Files :
             busy.op = "apply" /\ disk'[f] # disk[f] /\ busy' # busy
             => disk'[f] = history.shown[busy.space][f].cand]_vars
  BY WritesShown
<1>2. MissionsInv /\ [Next]_vars =>
        [\A w \in Spaces :
             LET m == review[w].mission IN
             Claims(w) /\ m # None /\ "test" \in ledger[m].needs
             => <<w, m, disk>> \in history.passed]_vars
  <2> SUFFICES ASSUME MissionsInv, [Next]_vars, NEW w \in Spaces, Claims(w),
                      review[w].mission # None, "test" \in ledger[review[w].mission].needs
               PROVE  <<w, review[w].mission, disk>> \in history.passed
    BY DEF vars
  <2>1. Next
    BY DEF Claims, vars
  <2>2. Claim(w)
    BY <2>1, OnlyClaims
  <2> QED BY <2>2, ClaimSound
<1>3. Spec => AppliedAsReviewed
  BY <1>1, MissionsInvariant, PTL DEF Spec, AppliedAsReviewed
<1>4. Spec => [][\A w \in Spaces :
                     LET m == review[w].mission IN
                     Claims(w) /\ m # None /\ "test" \in ledger[m].needs
                     => <<w, m, disk>> \in history.passed]_vars
  BY <1>2, MissionsInvariant, PTL DEF Spec
<1> QED BY <1>3, <1>4 DEF ChecksCover
=============================================================================
