----------------------------- MODULE AgentsProofs -----------------------------
(***************************************************************************)
(* Proofs about what agents share: the notes and locks of AgentSessions,   *)
(* the queue of AgentTasks, the timeline of EventFeed, the archives of     *)
(* Backups, and the actions and the audit log of HostActions.              *)
(***************************************************************************)
EXTENDS AgentTasks, EventFeed, Backups, HostActions, FiniteSetTheorems, TLAPS

-----------------------------------------------------------------------------
(* The records of the shared notes                                         *)

Statuses == {"active", "expired", "closed", "completed"}

RecordOf(f) ==
    IF f = "sessions"
    THEN [status : Statuses, made : Nat, ends : Nat, findings : Nat, handoff : BOOLEAN]
    ELSE IF f = "locks" THEN [session : Keys, status : {"active"}, made : Nat, ends : Nat]
    ELSE IF f = "runbooks" THEN [status : Statuses, made : Nat, open : SUBSET RunSteps]
    ELSE [status : Statuses, made : Nat, ends : Nat]

Clocked == "clock" \notin faults

\* What file f may hold: records of its kind under identifiers that were drawn;
\* no lock lasts longer than one granted now.
IsContent(f, c) ==
    /\ DOMAIN c \subseteq IF f = "locks" THEN Targets ELSE used
    /\ \A k \in DOMAIN c : c[k] \in RecordOf(f)
    /\ f = "locks" /\ Clocked => \A k \in DOMAIN c : c[k].ends <= now + Ttl

\* Content n may replace content c: records grow, or go to make room.
Succeeds(f, c, n) ==
    \A k \in DOMAIN c :
        IF k \in DOMAIN n THEN Grows(c[k], n[k])
        ELSE \/ f \in Trimmed /\ \A i \in DOMAIN n : c[k].made <= n[i].made
             \/ f = "locks" /\ Past(c[k])

\* Live locks stay where they are.
LocksLast(c, n) ==
    \A t \in DOMAIN c : ~Past(c[t]) =>
        t \in DOMAIN n /\ n[t].session = c[t].session /\ n[t].ends >= c[t].ends

LockCall(c) == c.step = "lock" /\ c.session \in Keys /\ c.target \in Targets
HandoffCall(c) == c.step = "handoff" /\ c.session \in Keys

\* A copy that is about to be saved.
SaveCall(c) ==
    /\ c.step = "save"
    /\ c.file \in Files
    /\ IsContent(c.file, c.copy) /\ IsContent(c.file, c.next)
    /\ Succeeds(c.file, c.copy, c.next)
    /\ IF c.file = "locks"
       THEN /\ LockCall(c.then)
            /\ c.then.target \in DOMAIN c.next
            /\ c.next[c.then.target].session = c.then.session
            /\ LocksLast(c.copy, c.next)
       ELSE c.then.step = "idle" \/ HandoffCall(c.then)

CallGood(c) == c.step = "idle" \/ LockCall(c) \/ HandoffCall(c) \/ SaveCall(c)

SessionTypes ==
    /\ now \in Nat
    /\ used \subseteq Keys
    /\ DOMAIN file = Files
    /\ DOMAIN call = Procs
    /\ told \in [Targets -> [Keys -> Nat]]

\* Who was told it holds a workload is the one the file of locks names.
HoldersNamed ==
    "locks" \in stale \/ ~Clocked \/
        \A t \in Targets : \A s \in Keys : told[t][s] > now =>
            /\ t \in DOMAIN file["locks"]
            /\ file["locks"][t].session = s
            /\ told[t][s] <= file["locks"][t].ends

SessionsInv ==
    /\ SessionTypes
    /\ \A f \in Files : IsContent(f, file[f])
    /\ \A p \in Procs : CallGood(call[p])
    /\ HoldersNamed

-----------------------------------------------------------------------------
(* The clock                                                               *)

\* The clock goes on, unless it is set back, which is remembered.
TimeGoesOn ==
    /\ now' \in Nat
    /\ now' >= now \/ ~Clocked'
    /\ faults \subseteq faults'
    /\ used \subseteq used' /\ used' \subseteq Keys

LEMMA TimeSteps == SessionsInv /\ [NextSessions]_sessionVars => TimeGoesOn
<1> SUFFICES ASSUME SessionsInv, [NextSessions]_sessionVars
             PROVE  TimeGoesOn
  OBVIOUS
<1> USE DEF TimeGoesOn, SessionsInv, SessionTypes, Clocked
<1>1. CASE UNCHANGED sessionVars
  BY <1>1 DEF sessionVars
<1>2. CASE Tick
  BY <1>2 DEF Tick
<1>3. CASE SetBack
  BY <1>3 DEF SetBack
<1>4. ASSUME NEW p \in Procs, Step(p)
      PROVE  TimeGoesOn
  <2>1. CASE Save(p) \/ Abandon(p)
    BY <2>1 DEF Save, Abandon
  <2>2. CASE HandoffNames(p)
    BY <2>2 DEF HandoffNames, Rewrite
  <2>3. CASE LockLoad(p)
    BY <2>3 DEF LockLoad, Rewrite
  <2>4. CASE ListSessions(p) \/ ListWindows(p) \/ GetAlerts(p)
    BY <2>4 DEF ListSessions, ListWindows, GetAlerts, List, Rewrite
  <2>5. ASSUME NEW k \in Keys,
               \/ StartSession(p, k) \/ OpenEventWatch(p, k) \/ CreateWindow(p, k)
               \/ WatchThreshold(p, k) \/ StartRunbook(p, k) \/ CreateCheckpoint(p, k)
        PROVE  TimeGoesOn
    BY <2>5 DEF StartSession, OpenEventWatch, CreateWindow, WatchThreshold, StartRunbook,
                CreateCheckpoint, Create, Rewrite
  <2>6. ASSUME NEW k \in Keys,
               \/ RecordFinding(p, k) \/ CloseSession(p, k) \/ CloseWindow(p, k)
               \/ CloseCheckpoint(p, k)
        PROVE  TimeGoesOn
    BY <2>6 DEF RecordFinding, CloseSession, CloseWindow, CloseCheckpoint, Change, Rewrite
  <2>7. ASSUME NEW k \in Keys, Handoff(p, k) \/ \E t \in Targets : LockWorkload(p, k, t)
        PROVE  TimeGoesOn
    BY <2>7 DEF Handoff, Rewrite, LockWorkload
  <2>8. ASSUME NEW k \in Keys, NEW i \in RunSteps, NEW x \in {"completed", "skipped", "blocked"},
               UpdateRunbookStep(p, k, i, x)
        PROVE  TimeGoesOn
    BY <2>8 DEF UpdateRunbookStep, Change, Rewrite
  <2> QED
    BY <1>4, <2>1, <2>2, <2>3, <2>4, <2>5, <2>6, <2>7, <2>8 DEF Step
<1> QED
  BY <1>1, <1>2, <1>3, <1>4 DEF NextSessions

\* What was past stays past, and so do the relations between two contents.
LEMMA ContentKept ==
    ASSUME SessionTypes, TimeGoesOn, NEW f \in Files, NEW c, IsContent(f, c)
    PROVE  IsContent(f, c)'
<1>1. DOMAIN c \subseteq IF f = "locks" THEN Targets ELSE used'
  BY DEF IsContent, TimeGoesOn
<1>2. ASSUME f = "locks", Clocked', NEW k \in DOMAIN c
      PROVE  c[k].ends <= now' + Ttl
  <2>1. c[k].ends <= now + Ttl /\ c[k] \in RecordOf(f)
    BY <1>2 DEF IsContent, TimeGoesOn, Clocked
  <2>2. c[k].ends \in Nat /\ Ttl \in Nat
    BY <1>2, <2>1, SessionsAssumption DEF RecordOf
  <2>3. now \in Nat /\ now' \in Nat /\ now' >= now
    BY <1>2 DEF TimeGoesOn, SessionTypes
  <2> QED
    BY <2>1, <2>2, <2>3
<1> QED
  BY <1>1, <1>2 DEF IsContent, RecordOf

LEMMA PastKept ==
    ASSUME SessionTypes, TimeGoesOn, NEW r, r.ends \in Nat, Past(r)
    PROVE  Past(r)'
  BY DEF SessionTypes, TimeGoesOn, Past, Active, Clocked

LEMMA GrowsKept ==
    ASSUME SessionTypes, TimeGoesOn, NEW f \in Files, NEW r \in RecordOf(f), NEW q, Grows(r, q)
    PROVE  Grows(r, q)'
<1>1. CASE f = "locks"
  <2>1. r.ends \in Nat
    BY <1>1 DEF RecordOf
  <2> QED
    BY <2>1, PastKept DEF Grows
<1>2. CASE f # "locks"
  <2>1. "session" \notin DOMAIN r
    BY <1>2 DEF RecordOf
  <2> QED
    BY <2>1 DEF Grows
<1> QED
  BY <1>1, <1>2

LEMMA SucceedsKept ==
    ASSUME SessionTypes, TimeGoesOn, NEW f \in Files, NEW c, NEW n, IsContent(f, c),
           Succeeds(f, c, n)
    PROVE  Succeeds(f, c, n)'
<1> SUFFICES ASSUME NEW k \in DOMAIN c
             PROVE  IF k \in DOMAIN n THEN Grows(c[k], n[k])'
                    ELSE \/ f \in Trimmed /\ \A i \in DOMAIN n : c[k].made <= n[i].made
                         \/ f = "locks" /\ Past(c[k])'
  BY DEF Succeeds
<1>1. c[k] \in RecordOf(f)
  BY DEF IsContent
<1>2. CASE k \in DOMAIN n
  BY <1>1, <1>2, GrowsKept DEF Succeeds
<1>3. CASE k \notin DOMAIN n
  <2>1. f = "locks" => c[k].ends \in Nat
    BY <1>1 DEF RecordOf
  <2>2. f = "locks" /\ Past(c[k]) => Past(c[k])'
    BY <2>1, PastKept
  <2> QED
    BY <1>3, <2>2 DEF Succeeds
<1> QED
  BY <1>2, <1>3

LEMMA LocksLastKept ==
    ASSUME SessionTypes, TimeGoesOn, NEW c, NEW n, IsContent("locks", c), LocksLast(c, n)
    PROVE  LocksLast(c, n)'
<1>1. \A t \in DOMAIN c : c[t].ends \in Nat
  BY DEF IsContent, RecordOf
<1>2. \A t \in DOMAIN c : Past(c[t]) => Past(c[t])'
  BY <1>1, PastKept
<1> QED
  BY <1>2 DEF LocksLast

LEMMA CallKept ==
    ASSUME SessionTypes, TimeGoesOn, NEW c, CallGood(c)
    PROVE  CallGood(c)'
<1>1. CASE ~SaveCall(c)
  BY <1>1 DEF CallGood, LockCall, HandoffCall
<1>2. CASE SaveCall(c)
  <2>1. c.file \in Files /\ IsContent(c.file, c.copy)' /\ IsContent(c.file, c.next)'
    BY <1>2, ContentKept DEF SaveCall
  <2>2. Succeeds(c.file, c.copy, c.next)'
    BY <1>2, SucceedsKept DEF SaveCall
  <2>3. c.file = "locks" => LocksLast(c.copy, c.next)'
    BY <1>2, LocksLastKept DEF SaveCall
  <2> QED
    BY <1>2, <2>1, <2>2, <2>3 DEF SaveCall, CallGood, LockCall, HandoffCall
<1> QED
  BY <1>1, <1>2

\* A process goes on with c; the files stay as they are.
LEMMA CallMoves ==
    ASSUME SessionsInv, TimeGoesOn, NEW p \in Procs, NEW c, CallGood(c)',
           call' = [call EXCEPT ![p] = c], UNCHANGED <<file, told, stale>>
    PROVE  SessionsInv'
<1>1. SessionTypes'
  BY DEF SessionsInv, SessionTypes, TimeGoesOn
<1>2. \A f \in Files : IsContent(f, file[f])'
  <2> SUFFICES ASSUME NEW f \in Files
               PROVE  IsContent(f, file[f])'
    OBVIOUS
  <2>1. PICK x : x = file[f]
    OBVIOUS
  <2>2. IsContent(f, x)'
    BY <2>1, ContentKept DEF SessionsInv
  <2>3. file'[f] = x
    BY <2>1
  <2> QED
    BY <2>2, <2>3 DEF IsContent
<1>3. ASSUME NEW q \in Procs
      PROVE  CallGood(call[q])'
  <2>1. PICK x : x = call[q]
    OBVIOUS
  <2>2. CallGood(x)'
    BY <2>1, CallKept DEF SessionsInv
  <2>3. call'[q] = IF q = p THEN c ELSE x
    BY <2>1 DEF SessionsInv, SessionTypes
  <2>4. CASE q = p
    <3>1. call'[q] = c
      BY <2>3, <2>4
    <3> QED
      BY <3>1 DEF CallGood, SaveCall, IsContent, Succeeds, LocksLast, LockCall, HandoffCall
  <2>5. CASE q # p
    <3>1. call'[q] = x
      BY <2>3, <2>5
    <3> QED
      BY <2>2, <3>1 DEF CallGood, SaveCall, IsContent, Succeeds, LocksLast, LockCall, HandoffCall
  <2> QED
    BY <2>4, <2>5
<1>4. HoldersNamed'
  BY DEF SessionsInv, HoldersNamed, TimeGoesOn, SessionTypes, Clocked
<1> QED
  BY <1>1, <1>2, <1>3, <1>4 DEF SessionsInv

\* A process has loaded `copy` and saves `next` in its next step.
LEMMA SaveQueued ==
    ASSUME SessionsInv, TimeGoesOn, NEW p \in Procs, NEW f \in Files, NEW copy, NEW next, NEW then,
           call' = [call EXCEPT ![p] = [step |-> "save", file |-> f, copy |-> copy,
                                        next |-> next, then |-> then]],
           UNCHANGED <<file, told, stale>>,
           copy \in Reads(f), IsContent(f, next)', Succeeds(f, copy, next),
           IF f = "locks"
           THEN /\ LockCall(then)
                /\ then.target \in DOMAIN next
                /\ next[then.target].session = then.session
                /\ LocksLast(copy, next)
           ELSE then.step = "idle" \/ HandoffCall(then)
    PROVE  SessionsInv'
<1> DEFINE c == [step |-> "save", file |-> f, copy |-> copy, next |-> next, then |-> then]
<1>1. IsContent(f, copy)
  <2>1. CASE copy = file[f]
    BY <2>1 DEF SessionsInv
  <2>2. CASE copy = Nothing
    BY <2>2 DEF IsContent, Nothing
  <2> QED
    BY <2>1, <2>2 DEF Reads
<1>2. SessionTypes
  BY DEF SessionsInv
<1>3. IsContent(f, copy)' /\ Succeeds(f, copy, next)'
  BY <1>1, <1>2, ContentKept, SucceedsKept
<1>4. f = "locks" => LocksLast(copy, next)'
  BY <1>1, <1>2, LocksLastKept
<1>5. /\ c.step = "save" /\ c.file = f /\ c.copy = copy /\ c.next = next /\ c.then = then
      /\ call' = [call EXCEPT ![p] = c]
  OBVIOUS
<1> HIDE DEF c
<1>6. SaveCall(c)'
  BY <1>3, <1>4, <1>5 DEF SaveCall, LockCall, HandoffCall
<1>7. CallGood(c)'
  BY <1>6 DEF CallGood
<1> QED
  BY <1>5, <1>7, CallMoves

LEMMA GrowsRefl ==
    ASSUME NEW f \in Files, NEW r \in RecordOf(f)
    PROVE  Grows(r, r)
<1>1. "findings" \in DOMAIN r => f = "sessions"
  BY DEF RecordOf
<1>2. "findings" \in DOMAIN r => r.findings \in Nat
  BY <1>1 DEF RecordOf
<1> QED
  BY <1>2 DEF Grows

\* A record of the copy is edited so that it grows.
LEMMA EditSucceeds ==
    ASSUME SessionsInv, NEW f \in Files \ {"locks"}, NEW c \in Reads(f), NEW k \in DOMAIN c,
           NEW q \in RecordOf(f), Grows(c[k], q), TimeGoesOn
    PROVE  IsContent(f, With(c, k, q))' /\ Succeeds(f, c, With(c, k, q))
<1>1. IsContent(f, c)
  BY DEF Reads, SessionsInv, IsContent, Nothing
<1>2. DOMAIN With(c, k, q) = DOMAIN c
  BY DEF With
<1>3. \A i \in DOMAIN c : With(c, k, q)[i] = IF i = k THEN q ELSE c[i]
  BY DEF With
<1>4. \A i \in DOMAIN c : With(c, k, q)[i] \in RecordOf(f)
  BY <1>1, <1>3 DEF IsContent
<1>5. IsContent(f, With(c, k, q))'
  BY <1>1, <1>2, <1>4 DEF IsContent, RecordOf, TimeGoesOn
<1>6. ASSUME NEW i \in DOMAIN c
      PROVE  Grows(c[i], With(c, k, q)[i])
  <2>1. CASE i = k
    BY <1>3, <2>1
  <2>2. CASE i # k
    BY <1>1, <1>3, <2>2, GrowsRefl DEF IsContent
  <2> QED
    BY <2>1, <2>2
<1>7. Succeeds(f, c, With(c, k, q))
  BY <1>2, <1>6 DEF Succeeds
<1> QED
  BY <1>5, <1>7

\* A record is added to a file that is not trimmed.
LEMMA AddSucceeds ==
    ASSUME SessionsInv, TimeGoesOn, NEW f \in Files \ {"locks"}, NEW c \in Reads(f),
           NEW k \in Keys \ used, used' = used \cup {k}, NEW r \in RecordOf(f)
    PROVE  IsContent(f, With(c, k, r))' /\ Succeeds(f, c, With(c, k, r))
<1>1. IsContent(f, c)
  BY DEF Reads, SessionsInv, IsContent, Nothing
<1>2. DOMAIN With(c, k, r) = DOMAIN c \cup {k} /\ k \notin DOMAIN c
  BY <1>1 DEF With, IsContent
<1>3. \A i \in DOMAIN c : With(c, k, r)[i] = c[i]
  BY <1>2 DEF With
<1>4. With(c, k, r)[k] = r
  BY DEF With
<1>5. \A i \in DOMAIN With(c, k, r) : With(c, k, r)[i] \in RecordOf(f)
  BY <1>1, <1>2, <1>3, <1>4 DEF IsContent
<1>6. DOMAIN With(c, k, r) \subseteq used'
  BY <1>1, <1>2 DEF IsContent
<1>7. IsContent(f, With(c, k, r))'
  BY <1>5, <1>6 DEF IsContent, RecordOf
<1>8. Succeeds(f, c, With(c, k, r))
  BY <1>1, <1>2, <1>3, GrowsRefl DEF Succeeds, IsContent
<1> QED
  BY <1>7, <1>8

\* Trimming lets an oldest record go.
LEMMA TrimSucceeds ==
    ASSUME SessionsInv, TimeGoesOn, NEW f \in Trimmed, NEW c \in Reads(f),
           NEW k \in Keys \ used, used' = used \cup {k}, NEW r \in RecordOf(f),
           NEW n \in Trim(With(c, k, r))
    PROVE  IsContent(f, n)' /\ Succeeds(f, c, n)
<1> DEFINE d == With(c, k, r)
<1>1. f \in Files \ {"locks"} /\ k \in Keys \ used
  BY DEF Trimmed, Files
<1>2. IsContent(f, d)' /\ Succeeds(f, c, d)
  BY <1>1, AddSucceeds
<1>3. IsContent(f, c)
  BY <1>1 DEF Reads, SessionsInv, IsContent, Nothing
<1>4. DOMAIN d = DOMAIN c \cup {k} /\ \A i \in DOMAIN c : d[i] = c[i]
  BY <1>1, <1>3 DEF With, IsContent
<1>5. n = d \/ \E x \in DOMAIN d : n = Without(d, {x}) /\ \A j \in DOMAIN d : d[x].made <= d[j].made
  BY DEF Trim
<1> HIDE DEF d
<1>6. CASE n = d
  BY <1>2, <1>6
<1>7. ASSUME NEW x \in DOMAIN d, n = Without(d, {x}), \A j \in DOMAIN d : d[x].made <= d[j].made
      PROVE  IsContent(f, n)' /\ Succeeds(f, c, n)
  <2>1. DOMAIN n = DOMAIN d \ {x} /\ \A i \in DOMAIN n : n[i] = d[i]
    BY <1>7 DEF Without
  <2>2. IsContent(f, n)'
    BY <1>1, <1>2, <2>1 DEF IsContent, RecordOf
  <2>3. Succeeds(f, c, n)
    BY <1>2, <1>4, <1>7, <2>1 DEF Succeeds
  <2> QED
    BY <2>2, <2>3
<1> QED
  BY <1>5, <1>6, <1>7

-----------------------------------------------------------------------------
(* The calls                                                               *)

LEMMA CreateKeeps ==
    ASSUME SessionsInv, TimeGoesOn, NEW p \in Procs, NEW f \in Files \ {"locks"}, NEW k \in Keys,
           NEW r \in RecordOf(f), Create(p, f, k, r)
    PROVE  SessionsInv'
<1>1. k \in Keys \ used /\ used' = used \cup {k}
  BY DEF Create
<1>2. PICK copy \in Reads(f) :
        \E next \in IF f \in Trimmed THEN Trim(With(copy, k, r)) ELSE {With(copy, k, r)} :
            /\ call' = [call EXCEPT ![p] = [step |-> "save", file |-> f, copy |-> copy,
                                            next |-> next, then |-> Idle]]
            /\ UNCHANGED <<file, told, stale>>
  BY DEF Create, Rewrite
<1>3. PICK next \in IF f \in Trimmed THEN Trim(With(copy, k, r)) ELSE {With(copy, k, r)} :
            /\ call' = [call EXCEPT ![p] = [step |-> "save", file |-> f, copy |-> copy,
                                            next |-> next, then |-> Idle]]
            /\ UNCHANGED <<file, told, stale>>
  BY <1>2
<1>4. IsContent(f, next)' /\ Succeeds(f, copy, next)
  <2>1. CASE f \in Trimmed
    BY <1>1, <1>3, <2>1, TrimSucceeds
  <2>2. CASE f \notin Trimmed
    BY <1>1, <1>3, <2>2, AddSucceeds
  <2> QED
    BY <2>1, <2>2
<1>5. Idle.step = "idle" /\ f \in Files /\ f # "locks"
  BY DEF Idle
<1> QED
  BY <1>3, <1>4, <1>5, SaveQueued

\* A call that edits the record of its key, to grow.
LEMMA EditKeeps ==
    ASSUME SessionsInv, TimeGoesOn, NEW p \in Procs, NEW f \in Files \ {"locks"}, NEW k,
           NEW to, NEW then, then.step = "idle" \/ HandoffCall(then),
           \A r \in RecordOf(f) \cap DOMAIN to : to[r] \in RecordOf(f) /\ Grows(r, to[r]),
           Rewrite(p, f, Edited(f, k, to), then)
    PROVE  SessionsInv'
<1>1. PICK copy \in Reads(f) :
        \E next \in Edited(f, k, to)[copy] :
            /\ call' = [call EXCEPT ![p] = [step |-> "save", file |-> f, copy |-> copy,
                                            next |-> next, then |-> then]]
            /\ UNCHANGED <<file, told, stale>>
  BY DEF Rewrite
<1>2. PICK next \in Edited(f, k, to)[copy] :
            /\ call' = [call EXCEPT ![p] = [step |-> "save", file |-> f, copy |-> copy,
                                            next |-> next, then |-> then]]
            /\ UNCHANGED <<file, told, stale>>
  BY <1>1
<1>3. k \in DOMAIN copy /\ copy[k] \in DOMAIN to /\ next = With(copy, k, to[copy[k]])
  BY <1>2 DEF Edited
<1>4. copy[k] \in RecordOf(f)
  BY <1>3 DEF Reads, SessionsInv, IsContent, Nothing
<1>5. to[copy[k]] \in RecordOf(f) /\ Grows(copy[k], to[copy[k]])
  BY <1>3, <1>4
<1>6. IsContent(f, next)' /\ Succeeds(f, copy, next)
  BY <1>3, <1>5, EditSucceeds
<1> QED
  BY <1>2, <1>6, SaveQueued

LEMMA ListKeeps ==
    ASSUME SessionsInv, TimeGoesOn, NEW p \in Procs, NEW f \in {"sessions", "windows", "alerts"},
           List(p, f)
    PROVE  SessionsInv'
<1>1. PICK copy \in Reads(f) :
        \E next \in IF Expired(copy) = {} THEN {} ELSE {Marked(copy)} :
            /\ call' = [call EXCEPT ![p] = [step |-> "save", file |-> f, copy |-> copy,
                                            next |-> next, then |-> Idle]]
            /\ UNCHANGED <<file, told, stale>>
  BY DEF List, Rewrite
<1>2. /\ call' = [call EXCEPT ![p] = [step |-> "save", file |-> f, copy |-> copy,
                                       next |-> Marked(copy), then |-> Idle]]
      /\ UNCHANGED <<file, told, stale>>
  BY <1>1
<1>3. f \in Files \ {"locks"} /\ Idle.step = "idle"
  BY DEF Files, Trimmed, Idle
<1>4. IsContent(f, copy)
  BY <1>3 DEF Reads, SessionsInv, IsContent, Nothing
<1>5. DOMAIN Marked(copy) = DOMAIN copy
  BY DEF Marked
<1>6. ASSUME NEW k \in DOMAIN copy
      PROVE  Marked(copy)[k] \in RecordOf(f) /\ Grows(copy[k], Marked(copy)[k])
  <2>1. copy[k] \in RecordOf(f)
    BY <1>4 DEF IsContent
  <2>2. CASE k \in Expired(copy)
    <3> DEFINE r == copy[k]  q == [r EXCEPT !.status = "expired"]
    <3>1. Marked(copy)[k] = q
      BY <2>2 DEF Marked
    <3>2. r \in RecordOf(f) /\ r.status = "active"
      BY <2>1, <2>2 DEF Expired
    <3> HIDE DEF r
    <3>3. q \in RecordOf(f)
      BY <1>3, <3>2 DEF RecordOf, Statuses
    <3>4. "session" \notin DOMAIN r
      BY <1>3, <3>2 DEF RecordOf
    <3>5. "findings" \in DOMAIN r => f = "sessions"
      BY <1>3, <3>2 DEF RecordOf
    <3>6. f = "sessions" => r.findings \in Nat /\ q.findings = r.findings /\ q.handoff = r.handoff
      BY <3>2 DEF RecordOf
    <3>7. Grows(r, q)
      BY <3>2, <3>4, <3>5, <3>6 DEF Grows
    <3> QED
      BY <3>1, <3>3, <3>7 DEF r
  <2>3. CASE k \notin Expired(copy)
    <3>1. Marked(copy)[k] = copy[k]
      BY <2>3 DEF Marked
    <3> QED
      BY <1>3, <2>1, <3>1, GrowsRefl
  <2> QED
    BY <2>2, <2>3
<1>next. PICK next : next = Marked(copy)
  OBVIOUS
<1>7. DOMAIN next = DOMAIN copy
  BY <1>next, <1>5
<1>8. \A k \in DOMAIN next : next[k] \in RecordOf(f) /\ Grows(copy[k], next[k])
  BY <1>next, <1>5, <1>6
<1>9. IsContent(f, next)' /\ Succeeds(f, copy, next)
  <2>1. IsContent(f, copy)'
    BY <1>3, <1>4, ContentKept DEF SessionsInv
  <2>2. IsContent(f, next)'
    BY <1>3, <1>7, <1>8, <2>1 DEF IsContent, RecordOf
  <2> QED
    BY <1>7, <1>8, <2>2 DEF Succeeds
<1>10. call' = [call EXCEPT ![p] = [step |-> "save", file |-> f, copy |-> copy,
                                    next |-> next, then |-> Idle]]
  BY <1>next, <1>2
<1> QED
  BY <1>2, <1>3, <1>9, <1>10, SaveQueued

LEMMA LockLoadKeeps ==
    ASSUME SessionsInv, TimeGoesOn, NEW p \in Procs, LockLoad(p)
    PROVE  SessionsInv'
<1>1. PICK then : then = call[p]
  OBVIOUS
<1> DEFINE s == then.session  t == then.target
           Live(c) == Without(c, {k \in DOMAIN c : ~Active(c[k])})
           r == [session |-> s, status |-> "active", made |-> now, ends |-> now + Ttl]
<1>2. LockCall(then)
  BY <1>1 DEF LockLoad, At, SessionsInv, CallGood, SaveCall, HandoffCall, LockCall
<1>3. PICK copy \in Reads("locks") :
        \E next \in IF t \in DOMAIN Live(copy) /\ Live(copy)[t].session # s THEN {}
                    ELSE {With(Live(copy), t, r)} :
            /\ call' = [call EXCEPT ![p] = [step |-> "save", file |-> "locks", copy |-> copy,
                                            next |-> next, then |-> then]]
            /\ UNCHANGED <<file, now, told, stale>>
  BY <1>1 DEF LockLoad, Rewrite
<1>next. PICK next : next = With(Live(copy), t, r)
  OBVIOUS
<1>4. /\ ~(t \in DOMAIN Live(copy) /\ Live(copy)[t].session # s)
      /\ call' = [call EXCEPT ![p] = [step |-> "save", file |-> "locks", copy |-> copy,
                                      next |-> next, then |-> then]]
      /\ UNCHANGED <<file, now, told, stale>>
  BY <1>3, <1>next
<1>5. IsContent("locks", copy) /\ "locks" \in Files
  BY DEF Reads, SessionsInv, IsContent, Nothing, Files
<1>6. \A k : k \in DOMAIN Live(copy) <=> k \in DOMAIN copy /\ Active(copy[k])
  BY DEF Without
<1>7. \A k \in DOMAIN Live(copy) : Live(copy)[k] = copy[k]
  BY DEF Without
<1>8. DOMAIN next = DOMAIN Live(copy) \cup {t}
  BY <1>next DEF With
<1>9. next[t] = r /\ \A k \in DOMAIN Live(copy) \ {t} : next[k] = copy[k]
  BY <1>next, <1>7 DEF With
<1>10. s \in Keys /\ t \in Targets /\ now \in Nat /\ Ttl \in Nat
  BY <1>2, SessionsAssumption DEF LockCall, SessionsInv, SessionTypes
<1>11. r \in RecordOf("locks") /\ r.session = s /\ r.ends = now + Ttl /\ r.status = "active"
  BY <1>10 DEF RecordOf, Statuses
<1>12. t \in DOMAIN copy /\ Active(copy[t]) => copy[t].session = s
  BY <1>4, <1>6, <1>7
<1> HIDE DEF r, Live
<1>13. ASSUME NEW k \in DOMAIN next
       PROVE  next[k] \in RecordOf("locks") /\ (Clocked => next[k].ends <= now + Ttl)
  <2>1. CASE k = t
    BY <1>9, <1>10, <1>11, <2>1
  <2>2. CASE k # t
    BY <1>5, <1>6, <1>8, <1>9, <2>2 DEF IsContent
  <2> QED
    BY <2>1, <2>2
<1>14. DOMAIN next \subseteq Targets
  BY <1>5, <1>6, <1>8, <1>10 DEF IsContent
<1>15. IsContent("locks", next)'
  <2>1. IsContent("locks", next)
    BY <1>13, <1>14 DEF IsContent
  <2> QED
    BY <1>5, <2>1, ContentKept DEF SessionsInv
<1>16. ASSUME NEW k \in DOMAIN copy
       PROVE  IF k \in DOMAIN next THEN Grows(copy[k], next[k]) ELSE Past(copy[k])
  <2>1. copy[k] \in RecordOf("locks")
    BY <1>5 DEF IsContent
  <2>2. "findings" \notin DOMAIN copy[k] /\ copy[k].status = "active"
    BY <2>1 DEF RecordOf
  <2>3. CASE k = t
    BY <1>8, <1>9, <1>11, <1>12, <2>2, <2>3 DEF Grows, Past
  <2>4. CASE k # t /\ k \in DOMAIN next
    BY <1>5, <1>8, <1>9, <2>1, <2>4, GrowsRefl
  <2>5. CASE k \notin DOMAIN next
    BY <1>6, <1>8, <2>5 DEF Past
  <2> QED
    BY <2>3, <2>4, <2>5
<1>17. Succeeds("locks", copy, next)
  BY <1>16 DEF Succeeds
<1>18. LocksLast(copy, next)
  <2> SUFFICES ASSUME NEW k \in DOMAIN copy, ~Past(copy[k])
               PROVE  k \in DOMAIN next /\ next[k].session = copy[k].session /\ next[k].ends >= copy[k].ends
    BY DEF LocksLast
  <2>1. copy[k] \in RecordOf("locks") /\ copy[k].ends <= now + Ttl /\ Active(copy[k])
    BY <1>5 DEF IsContent, Past, Clocked
  <2>2. copy[k].ends \in Nat
    BY <2>1 DEF RecordOf
  <2>3. k \in DOMAIN next
    BY <1>6, <1>8, <2>1
  <2>4. CASE k = t
    BY <1>9, <1>10, <1>11, <1>12, <2>1, <2>2, <2>3, <2>4
  <2>5. CASE k # t
    BY <1>8, <1>9, <2>2, <2>3, <2>5
  <2> QED
    BY <2>4, <2>5
<1>19. then.target \in DOMAIN next /\ next[then.target].session = then.session
  BY <1>8, <1>9, <1>11
<1> QED
  BY <1>2, <1>4, <1>5, <1>15, <1>17, <1>18, <1>19, SaveQueued

LEMMA SaveKeeps ==
    ASSUME SessionsInv, TimeGoesOn, NEW p \in Procs, Save(p)
    PROVE  SessionsInv'
<1>1. PICK c : c = call[p]
  OBVIOUS
<1> DEFINE f == c.file
<1>2. /\ c.step = "save"
      /\ file' = [file EXCEPT ![f] = c.next]
      /\ stale' = IF c.copy = file[f] THEN stale ELSE stale \cup {f}
      /\ call' = [call EXCEPT ![p] = IF c.then.step = "handoff" THEN c.then ELSE Idle]
      /\ told' = IF c.then.step = "lock"
                 THEN [told EXCEPT ![c.then.target][c.then.session] = c.next[c.then.target].ends]
                 ELSE told
      /\ now' = now /\ used' = used /\ faults' = faults
  BY <1>1 DEF Save, At
<1>3. SaveCall(c)
  BY <1>1, <1>2 DEF SessionsInv, CallGood, LockCall, HandoffCall
<1>4. f \in Files
  BY <1>3 DEF SaveCall
<1>5. file'[f] = c.next /\ \A g \in Files \ {f} : file'[g] = file[g]
  BY <1>2, <1>4 DEF SessionsInv, SessionTypes
<1>6. c.then.step = "lock" <=> f = "locks"
  BY <1>3 DEF SaveCall, LockCall, HandoffCall
<1>7. f = "locks" =>
        /\ c.then.session \in Keys /\ c.then.target \in Targets
        /\ c.then.target \in DOMAIN c.next
        /\ c.next[c.then.target] \in RecordOf("locks")
        /\ c.next[c.then.target].ends \in Nat
        /\ c.next[c.then.target].session = c.then.session
        /\ LocksLast(c.copy, c.next)
  BY <1>3 DEF SaveCall, LockCall, IsContent, RecordOf
<1>8. SessionTypes'
  <2>1. told' \in [Targets -> [Keys -> Nat]]
    BY <1>2, <1>6, <1>7 DEF SessionsInv, SessionTypes
  <2> QED
    BY <1>2, <2>1 DEF SessionsInv, SessionTypes
<1>9. \A g \in Files : IsContent(g, file[g])'
  <2> SUFFICES ASSUME NEW g \in Files
               PROVE  IsContent(g, file[g])'
    OBVIOUS
  <2>1. IsContent(g, file'[g])
    BY <1>3, <1>5 DEF SaveCall, SessionsInv
  <2> QED
    BY <1>2, <2>1 DEF IsContent, Clocked
<1>10. ASSUME NEW q \in Procs
       PROVE  CallGood(call[q])'
  <2>1. PICK x : x = call'[q]
    OBVIOUS
  <2>2. CallGood(x)
    BY <1>2, <1>3, <2>1 DEF SessionsInv, SessionTypes, CallGood, SaveCall, HandoffCall, LockCall, Idle
  <2>3. CallGood(x)'
    BY <2>2, CallKept DEF SessionsInv
  <2> QED
    BY <2>1, <2>3 DEF CallGood, SaveCall, IsContent, Succeeds, LocksLast, LockCall, HandoffCall
<1>11. HoldersNamed'
  <2> SUFFICES ASSUME "locks" \notin stale', Clocked', NEW t \in Targets, NEW s \in Keys,
                      told'[t][s] > now'
               PROVE  /\ t \in DOMAIN file'["locks"]
                      /\ file'["locks"][t].session = s
                      /\ told'[t][s] <= file'["locks"][t].ends
    BY DEF HoldersNamed
  <2>1. "locks" \notin stale /\ Clocked /\ "locks" \in Files
    BY <1>2 DEF Clocked, Files
  <2>2. told[t][s] > now =>
            /\ t \in DOMAIN file["locks"]
            /\ file["locks"][t].session = s
            /\ told[t][s] <= file["locks"][t].ends
    BY <2>1 DEF SessionsInv, HoldersNamed
  <2>3. CASE f # "locks"
    BY <1>2, <1>5, <1>6, <2>1, <2>2, <2>3
  <2>4. CASE f = "locks"
    <3>1. c.copy = file["locks"] /\ file'["locks"] = c.next
      BY <1>2, <1>5, <2>1, <2>4
    <3>2. CASE t = c.then.target /\ s = c.then.session
      <4>1. told'[t][s] = c.next[t].ends
        BY <1>2, <1>6, <2>4, <3>2 DEF SessionsInv, SessionTypes
      <4> QED
        BY <1>7, <2>4, <3>1, <3>2, <4>1
    <3>3. CASE ~(t = c.then.target /\ s = c.then.session)
      <4>1. told'[t][s] = told[t][s]
        BY <1>2, <1>6, <1>7, <2>4, <3>3 DEF SessionsInv, SessionTypes
      <4>2. t \in DOMAIN c.copy /\ c.copy[t].session = s /\ told[t][s] <= c.copy[t].ends
        BY <1>2, <2>2, <3>1, <4>1
      <4>3. c.copy[t] \in RecordOf("locks")
        BY <1>3, <2>4, <4>2 DEF SaveCall, IsContent
      <4>4. c.copy[t].ends \in Nat /\ told[t][s] \in Nat /\ now \in Nat /\ told[t][s] > now
        BY <1>2, <4>1, <4>3 DEF RecordOf, SessionsInv, SessionTypes
      <4>5. ~Past(c.copy[t])
        BY <2>1, <4>2, <4>4 DEF Past, Active, Clocked
      <4>6. t \in DOMAIN c.next /\ c.next[t].session = s /\ c.next[t].ends >= c.copy[t].ends
        BY <1>7, <2>4, <4>2, <4>5 DEF LocksLast
      <4>7. c.next[t].ends \in Nat
        BY <1>3, <2>4, <4>6 DEF SaveCall, IsContent, RecordOf
      <4> QED
        BY <3>1, <4>1, <4>2, <4>4, <4>6, <4>7
    <3> QED
      BY <3>2, <3>3
  <2> QED
    BY <2>3, <2>4
<1> QED
  BY <1>8, <1>9, <1>10, <1>11 DEF SessionsInv

\* What the handlers of one record do to it lets it grow.
LEMMA EditsGrow ==
    /\ \A r \in RecordOf("sessions") : r.status = "active" =>
            Noted(r) \in RecordOf("sessions") /\ Grows(r, Noted(r))
    /\ \A r \in RecordOf("sessions") :
            LET q == [r EXCEPT !.handoff = TRUE] IN q \in RecordOf("sessions") /\ Grows(r, q)
    /\ \A f \in {"sessions", "windows", "checkpoints"} : \A r \in RecordOf(f) :
            Closed(r) \in RecordOf(f) /\ Grows(r, Closed(r))
    /\ \A r \in RecordOf("runbooks"), i \in RunSteps, x \in {"completed", "skipped", "blocked"} :
            r.status = "active" =>
                Stepped(r, i, x) \in RecordOf("runbooks") /\ Grows(r, Stepped(r, i, x))
<1>1. ASSUME NEW r \in RecordOf("sessions"), r.status = "active"
      PROVE  Noted(r) \in RecordOf("sessions") /\ Grows(r, Noted(r))
  <2> DEFINE n == IF r.findings < MaxFindings THEN r.findings + 1 ELSE r.findings
  <2>1. Noted(r) = [r EXCEPT !.findings = n]
    BY DEF Noted
  <2>2. n \in Nat /\ n >= r.findings
    BY SessionsAssumption DEF RecordOf
  <2> HIDE DEF n
  <2>3. Noted(r) \in RecordOf("sessions")
    BY <2>1, <2>2 DEF RecordOf
  <2>4. /\ Noted(r).findings = n /\ Noted(r).handoff = r.handoff
        /\ "session" \notin DOMAIN r
    BY <2>1 DEF RecordOf
  <2> QED
    BY <1>1, <2>2, <2>3, <2>4 DEF Grows
<1>2. ASSUME NEW r \in RecordOf("sessions")
      PROVE  LET q == [r EXCEPT !.handoff = TRUE] IN q \in RecordOf("sessions") /\ Grows(r, q)
  <2> DEFINE q == [r EXCEPT !.handoff = TRUE]
  <2>1. q \in RecordOf("sessions")
    BY DEF RecordOf
  <2>2. /\ q.findings = r.findings /\ q.findings \in Nat /\ q.handoff = TRUE /\ q.status = r.status
        /\ "session" \notin DOMAIN r
    BY DEF RecordOf
  <2> QED
    BY <2>1, <2>2 DEF Grows
<1>3. ASSUME NEW f \in {"sessions", "windows", "checkpoints"}, NEW r \in RecordOf(f)
      PROVE  Closed(r) \in RecordOf(f) /\ Grows(r, Closed(r))
  <2>1. Closed(r) = [r EXCEPT !.status = "closed"]
    BY DEF Closed
  <2>2. Closed(r) \in RecordOf(f)
    BY <2>1 DEF RecordOf, Statuses
  <2>3. Closed(r).status = "closed" /\ "session" \notin DOMAIN r
    BY <2>1 DEF RecordOf
  <2>4. "findings" \in DOMAIN r =>
            Closed(r).findings = r.findings /\ r.findings \in Nat /\ Closed(r).handoff = r.handoff
    BY <2>1 DEF RecordOf
  <2> QED
    BY <2>2, <2>3, <2>4 DEF Grows
<1>4. ASSUME NEW r \in RecordOf("runbooks"), NEW i \in RunSteps,
             NEW x \in {"completed", "skipped", "blocked"}, r.status = "active"
      PROVE  Stepped(r, i, x) \in RecordOf("runbooks") /\ Grows(r, Stepped(r, i, x))
  <2> DEFINE open == IF x = "blocked" THEN r.open \cup {i} ELSE r.open \ {i}
             m == [r EXCEPT !.open = open]
  <2>1. open \in SUBSET RunSteps
    BY DEF RecordOf
  <2>2. Stepped(r, i, x) = [m EXCEPT !.status = IF open = {} THEN "completed" ELSE r.status]
    BY DEF Stepped, RecordOf
  <2> HIDE DEF open
  <2>3. m \in RecordOf("runbooks") /\ m.status = "active"
    BY <1>4, <2>1 DEF RecordOf
  <2> HIDE DEF m
  <2>4. Stepped(r, i, x) \in RecordOf("runbooks")
    BY <1>4, <2>2, <2>3 DEF RecordOf, Statuses
  <2>5. "session" \notin DOMAIN r /\ "findings" \notin DOMAIN r
    BY DEF RecordOf
  <2> QED
    BY <1>4, <2>4, <2>5 DEF Grows
<1> QED
  BY <1>1, <1>2, <1>3, <1>4

LEMMA SessionsInit == InitSessions => SessionsInv
<1> SUFFICES ASSUME InitSessions
             PROVE  SessionsInv
  OBVIOUS
<1>1. SessionTypes
  BY DEF InitSessions, SessionTypes
<1>2. \A f \in Files : IsContent(f, file[f])
  BY DEF InitSessions, IsContent, Nothing
<1>3. \A p \in Procs : CallGood(call[p])
  BY DEF InitSessions, CallGood, Idle
<1>4. HoldersNamed
  BY DEF InitSessions, HoldersNamed
<1> QED
  BY <1>1, <1>2, <1>3, <1>4 DEF SessionsInv

LEMMA SessionsStep == SessionsInv /\ [NextSessions]_sessionVars => SessionsInv'
<1> SUFFICES ASSUME SessionsInv, [NextSessions]_sessionVars
             PROVE  SessionsInv'
  OBVIOUS
<1>1. TimeGoesOn
  BY TimeSteps
<1>2. CASE UNCHANGED sessionVars \/ Tick \/ SetBack
  <2>1. UNCHANGED <<file, call, told, stale>>
    BY <1>2 DEF sessionVars, Tick, SetBack
  <2>2. SessionTypes'
    BY <1>1, <2>1 DEF SessionsInv, SessionTypes, TimeGoesOn
  <2>3. \A f \in Files : IsContent(f, file[f])'
    <3> SUFFICES ASSUME NEW f \in Files
                 PROVE  IsContent(f, file[f])'
      OBVIOUS
    <3>1. PICK x : x = file[f]
      OBVIOUS
    <3>2. IsContent(f, x)'
      BY <1>1, <3>1, ContentKept DEF SessionsInv
    <3> QED
      BY <2>1, <3>1, <3>2 DEF IsContent
  <2>4. \A q \in Procs : CallGood(call[q])'
    <3> SUFFICES ASSUME NEW q \in Procs
                 PROVE  CallGood(call[q])'
      OBVIOUS
    <3>1. PICK x : x = call[q]
      OBVIOUS
    <3>2. CallGood(x)'
      BY <1>1, <3>1, CallKept DEF SessionsInv
    <3> QED
      BY <2>1, <3>1, <3>2
         DEF CallGood, SaveCall, IsContent, Succeeds, LocksLast, LockCall, HandoffCall
  <2>5. HoldersNamed'
    BY <1>1, <2>1 DEF SessionsInv, HoldersNamed, TimeGoesOn, SessionTypes, Clocked
  <2> QED
    BY <2>2, <2>3, <2>4, <2>5 DEF SessionsInv
<1>3. ASSUME NEW p \in Procs, Step(p)
      PROVE  SessionsInv'
  <2>1. CASE Save(p)
    BY <1>1, <2>1, SaveKeeps
  <2>2. CASE Abandon(p)
    <3>1. CallGood(Idle)'
      BY DEF CallGood, Idle
    <3> QED
      BY <1>1, <2>2, <3>1, CallMoves DEF Abandon
  <2>3. CASE HandoffNames(p)
    <3>1. PICK k : k = call[p].session
      OBVIOUS
    <3> DEFINE to == [r \in Found("sessions", k) |-> [r EXCEPT !.handoff = TRUE]]
    <3>2. Rewrite(p, "sessions", Edited("sessions", k, to), Idle)
      BY <2>3, <3>1 DEF HandoffNames
    <3>3. PICK x : x = to
      OBVIOUS
    <3>4. \A r \in RecordOf("sessions") \cap DOMAIN x :
              x[r] \in RecordOf("sessions") /\ Grows(r, x[r])
      BY <3>3, EditsGrow
    <3>5. Rewrite(p, "sessions", Edited("sessions", k, x), Idle)
      BY <3>2, <3>3
    <3> QED
      BY <1>1, <3>4, <3>5, EditKeeps DEF Files, Idle
  <2>4. CASE LockLoad(p)
    BY <1>1, <2>4, LockLoadKeeps
  <2>5. CASE ListSessions(p) \/ ListWindows(p) \/ GetAlerts(p)
    BY <1>1, <2>5, ListKeeps DEF ListSessions, ListWindows, GetAlerts
  <2>6. ASSUME NEW k \in Keys,
               \/ StartSession(p, k) \/ OpenEventWatch(p, k) \/ CreateWindow(p, k)
               \/ WatchThreshold(p, k) \/ StartRunbook(p, k) \/ CreateCheckpoint(p, k)
        PROVE  SessionsInv'
    <3>1. now \in Nat /\ Ttl \in Nat /\ now + Ttl \in Nat
      BY SessionsAssumption DEF SessionsInv, SessionTypes
    <3>2. /\ NewSession \in RecordOf("sessions") /\ NewRunbook \in RecordOf("runbooks")
          /\ \A f \in {"watches", "windows", "alerts", "checkpoints"} : New \in RecordOf(f)
      BY <3>1 DEF NewSession, NewRunbook, New, RecordOf, Statuses
    <3>3. PICK a, b, c : a = NewSession /\ b = NewRunbook /\ c = New
      OBVIOUS
    <3>4. \E f \in Files \ {"locks"} : \E r \in RecordOf(f) : Create(p, f, k, r)
      BY <2>6, <3>2 DEF StartSession, OpenEventWatch, CreateWindow, WatchThreshold, StartRunbook,
                         CreateCheckpoint, Files, Trimmed
    <3> QED
      BY <1>1, <3>4, CreateKeeps
  <2>7. ASSUME NEW k \in Keys, RecordFinding(p, k) \/ Handoff(p, k)
        PROVE  SessionsInv'
    <3>1. PICK x : x = Noting(k)
      OBVIOUS
    <3>2. \A r \in RecordOf("sessions") \cap DOMAIN x :
              x[r] \in RecordOf("sessions") /\ Grows(r, x[r])
      BY <3>1, EditsGrow DEF Noting, Writable
    <3>3. CASE RecordFinding(p, k)
      <4>1. Rewrite(p, "sessions", Edited("sessions", k, x), Idle)
        BY <3>1, <3>3 DEF RecordFinding, Change
      <4> QED
        BY <1>1, <3>2, <4>1, EditKeeps DEF Files, Idle
    <3>4. CASE Handoff(p, k)
      <4>1. PICK then : then = [step |-> "handoff", session |-> k]
        OBVIOUS
      <4>2. Rewrite(p, "sessions", Edited("sessions", k, x), then) /\ HandoffCall(then)
        BY <3>1, <3>4, <4>1 DEF Handoff, HandoffCall
      <4> QED
        BY <1>1, <3>2, <4>2, EditKeeps DEF Files
    <3> QED
      BY <2>7, <3>3, <3>4
  <2>8. ASSUME NEW k \in Keys, NEW f \in {"sessions", "windows", "checkpoints"},
               Change(p, f, k, Closing(f, k))
        PROVE  SessionsInv'
    <3>1. PICK x : x = Closing(f, k)
      OBVIOUS
    <3>2. \A r \in RecordOf(f) \cap DOMAIN x : x[r] \in RecordOf(f) /\ Grows(r, x[r])
      BY <3>1, EditsGrow DEF Closing
    <3>3. Rewrite(p, f, Edited(f, k, x), Idle)
      BY <2>8, <3>1 DEF Change
    <3>4. f \in Files \ {"locks"} /\ Idle.step = "idle"
      BY DEF Files, Trimmed, Idle
    <3> QED
      BY <1>1, <3>2, <3>3, <3>4, EditKeeps
  <2>9. ASSUME NEW k \in Keys, NEW t \in Targets, LockWorkload(p, k, t)
        PROVE  SessionsInv'
    <3>1. PICK c : c = [step |-> "lock", session |-> k, target |-> t]
      OBVIOUS
    <3>2. CallGood(c)'
      BY <3>1 DEF CallGood, LockCall
    <3> QED
      BY <1>1, <2>9, <3>1, <3>2, CallMoves DEF LockWorkload
  <2>10. ASSUME NEW k \in Keys, NEW i \in RunSteps, NEW x \in {"completed", "skipped", "blocked"},
                UpdateRunbookStep(p, k, i, x)
         PROVE  SessionsInv'
    <3>1. PICK to : to = [r \in {o \in Found("runbooks", k) : Open(o)} |-> Stepped(r, i, x)]
      OBVIOUS
    <3>2. \A r \in RecordOf("runbooks") \cap DOMAIN to :
              to[r] \in RecordOf("runbooks") /\ Grows(r, to[r])
      BY <3>1, EditsGrow DEF Open
    <3>3. Rewrite(p, "runbooks", Edited("runbooks", k, to), Idle)
      BY <2>10, <3>1 DEF UpdateRunbookStep, Change
    <3> QED
      BY <1>1, <3>2, <3>3, EditKeeps DEF Files, Trimmed, Idle
  <2> QED
    BY <1>3, <2>1, <2>2, <2>3, <2>4, <2>5, <2>6, <2>7, <2>8, <2>9, <2>10
       DEF Step, CloseSession, CloseWindow, CloseCheckpoint
<1> QED
  BY <1>2, <1>3 DEF NextSessions

\* The invariant of the notes, for every number of processes and records:
\* what a file may hold and what a call under way may save to it.
THEOREM NotesInvariant == SpecSessions => []SessionsInv
<1>1. InitSessions => SessionsInv
  BY SessionsInit
<1>2. SessionsInv /\ [NextSessions]_sessionVars => SessionsInv'
  BY SessionsStep
<1> QED
  BY <1>1, <1>2, PTL DEF SpecSessions

\* Only a save changes a file.
LEMMA OnlySaves ==
    ASSUME [NextSessions]_sessionVars, file' # file
    PROVE  \E p \in Procs : Save(p)
<1>1. ~UNCHANGED sessionVars /\ ~Tick /\ ~SetBack
  BY DEF sessionVars, Tick, SetBack
<1>2. PICK p \in Procs : Step(p)
  BY <1>1 DEF NextSessions
<1>3. ~Abandon(p) /\ ~HandoffNames(p) /\ ~LockLoad(p)
  BY DEF Abandon, HandoffNames, LockLoad, Rewrite
<1>4. \A f : ~List(p, f)
  BY DEF List, Rewrite
<1>5. \A f, k, r : ~Create(p, f, k, r)
  BY DEF Create, Rewrite
<1>6. \A f, k, to : ~Change(p, f, k, to)
  BY DEF Change, Rewrite
<1>7. \A k, t : ~LockWorkload(p, k, t) /\ ~Handoff(p, k)
  BY DEF LockWorkload, Handoff, Rewrite
<1> QED
  BY <1>2, <1>3, <1>4, <1>5, <1>6, <1>7
     DEF Step, ListSessions, ListWindows, GetAlerts, StartSession, OpenEventWatch, CreateWindow,
         WatchThreshold, StartRunbook, CreateCheckpoint, RecordFinding, CloseSession, CloseWindow,
         CloseCheckpoint, UpdateRunbookStep

\* A save takes nothing away that a record, a finding, a handoff or a closing
\* had added, unless its copy was old or its load failed (_load and _save).
THEOREM NotesLostOnlyToOldCopy == SpecSessions => LostOnlyToOldCopy
<1> DEFINE Kept == \A f \in Files : file'[f] = file[f] \/ OldSave(f) \/
              \A k \in DOMAIN file[f] :
                 IF k \in DOMAIN file'[f] THEN Grows(file[f][k], file'[f][k]) ELSE Droppable(f, k)
<1>1. SessionsInv /\ [NextSessions]_sessionVars => [Kept]_sessionVars
  <2> SUFFICES ASSUME SessionsInv, [NextSessions]_sessionVars, NEW f \in Files,
                      file'[f] # file[f], ~OldSave(f), NEW k \in DOMAIN file[f]
               PROVE  IF k \in DOMAIN file'[f] THEN Grows(file[f][k], file'[f][k]) ELSE Droppable(f, k)
    OBVIOUS
  <2>1. PICK p \in Procs : Save(p)
    BY OnlySaves
  <2>2. call[p].step = "save" /\ file' = [file EXCEPT ![call[p].file] = call[p].next]
    BY <2>1 DEF Save, At
  <2>3. SaveCall(call[p])
    BY <2>2 DEF SessionsInv, CallGood, LockCall, HandoffCall
  <2>4. call[p].file = f /\ file'[f] = call[p].next
    BY <2>2 DEF SessionsInv, SessionTypes
  <2>5. call[p].copy = file[f]
    BY <2>2, <2>4 DEF OldSave, At
  <2>6. Succeeds(f, file[f], file'[f])
    BY <2>3, <2>4, <2>5 DEF SaveCall
  <2> QED
    BY <2>6 DEF Succeeds, Droppable
<1> QED
  BY <1>1, NotesInvariant, PTL DEF SpecSessions, LostOnlyToOldCopy

LEMMA OneHolder == SessionsInv => OneHolderWithoutRace
<1> SUFFICES ASSUME SessionsInv, "locks" \notin stale, Clocked, NEW t \in Targets
             PROVE  Cardinality(Holders(t)) <= 1
  BY DEF OneHolderWithoutRace, Clocked
<1> DEFINE s == file["locks"][t].session
<1>1. Holders(t) \subseteq {s}
  BY DEF SessionsInv, HoldersNamed, Holders
<1>2. Holders(t) = {} \/ Holders(t) = {s}
  BY <1>1
<1>3. Cardinality(Holders(t)) = 0 \/ Cardinality(Holders(t)) = 1
  BY <1>2, FS_EmptySet, FS_Singleton
<1> QED
  BY <1>3

\* lock_workload: two sessions never believe they hold one workload, unless the
\* locks were saved from an old copy or the clock was set back.
THEOREM NotesOneHolder == SpecSessions => []OneHolderWithoutRace
  BY NotesInvariant, OneHolder, PTL

-----------------------------------------------------------------------------
(* The queue of tasks                                                      *)

TaskRecord ==
    [status : {"pending", "blocked", "running"} \cup Final, deps : SUBSET TaskIds,
     holder : Keys \cup {Free}, until : Nat, finished : Nat]

TaskTypes ==
    /\ born \subseteq TaskIds
    /\ DOMAIN task \subseteq born
    /\ \A t \in DOMAIN task : task[t] \in TaskRecord
    /\ worker \in [TaskIds -> [Keys -> Nat]]

\* Dependencies were drawn before; work on a task starts after them.
Ordered ==
    /\ \A t \in DOMAIN task : task[t].deps \subseteq born
    /\ DependenciesFirst

\* Who was told it leases a task is the one the queue names.
Leading ==
    ~Clocked \/ unread \/
        \A t \in TaskIds : \A s \in Keys : worker[t][s] > now =>
            /\ t \in DOMAIN task /\ task[t].status = "running"
            /\ task[t].holder = s /\ task[t].until >= worker[t][s]

TasksInv == SessionsInv /\ TaskTypes /\ Ordered /\ Leading

LEMMA TasksInit == InitSessions /\ InitTasks => TasksInv
<1> SUFFICES ASSUME InitSessions, InitTasks
             PROVE  TasksInv
  OBVIOUS
<1>1. TaskTypes
  BY DEF InitTasks, TaskTypes, Nothing
<1>2. Ordered
  BY DEF InitTasks, Ordered, DependenciesFirst, Nothing
<1>3. Leading
  BY DEF InitTasks, InitSessions, Leading
<1> QED
  BY <1>1, <1>2, <1>3, SessionsInit DEF TasksInv

\* The refreshed queue: leases that ended are free, nothing else changes.
LEMMA RefreshedSound ==
    ASSUME TasksInv
    PROVE  /\ DOMAIN Refreshed = DOMAIN task
           /\ \A t \in DOMAIN task :
                /\ Refreshed[t] \in TaskRecord
                /\ Refreshed[t].deps = task[t].deps
                /\ Refreshed[t].status \in Final <=> task[t].status \in Final
                /\ Refreshed[t].status = "completed" <=> task[t].status = "completed"
                /\ Refreshed[t].status = "running" => Refreshed[t] = task[t] /\ task[t].until > now
                /\ task[t].status = "running" /\ task[t].until > now => Refreshed[t] = task[t]
<1>1. DOMAIN Refreshed = DOMAIN task
  BY DEF Refreshed
<1>2. ASSUME NEW t \in DOMAIN task
      PROVE  /\ Refreshed[t] \in TaskRecord
             /\ Refreshed[t].deps = task[t].deps
             /\ Refreshed[t].status \in Final <=> task[t].status \in Final
             /\ Refreshed[t].status = "completed" <=> task[t].status = "completed"
             /\ Refreshed[t].status = "running" => Refreshed[t] = task[t] /\ task[t].until > now
             /\ task[t].status = "running" /\ task[t].until > now => Refreshed[t] = task[t]
  <2> DEFINE r == task[t]
  <2>1. r \in TaskRecord /\ now \in Nat /\ r.until \in Nat
    BY DEF TasksInv, TaskTypes, SessionsInv, SessionTypes, TaskRecord
  <2>2. Refreshed[t] = IF r.status = "running" /\ r.until <= now THEN Released(r) ELSE r
    BY DEF Refreshed
  <2> HIDE DEF r
  <2>3. CASE r.status = "running" /\ r.until <= now
    <3> DEFINE a == [r EXCEPT !.status = "pending"]  b == [a EXCEPT !.holder = Free]
    <3>1. a \in TaskRecord /\ a.deps = r.deps /\ a.status = "pending"
      BY <2>1 DEF TaskRecord
    <3> HIDE DEF a
    <3>2. b \in TaskRecord /\ b.deps = r.deps /\ b.status = "pending"
      BY <3>1 DEF TaskRecord
    <3> HIDE DEF b
    <3>3. Released(r) = [b EXCEPT !.until = 0]
      BY <2>1 DEF Released, a, b, TaskRecord
    <3>4. Released(r) \in TaskRecord /\ Released(r).deps = r.deps /\ Released(r).status = "pending"
      BY <3>2, <3>3 DEF TaskRecord
    <3> QED
      BY <2>1, <2>2, <2>3, <3>4 DEF Final, r
  <2>4. CASE ~(r.status = "running" /\ r.until <= now)
    BY <2>1, <2>2, <2>4 DEF r
  <2> QED
    BY <2>3, <2>4
<1> QED
  BY <1>1, <1>2

\* The queue is refreshed and task t becomes r.
LEMMA StoreKeeps ==
    ASSUME TasksInv, UNCHANGED <<sessionVars, born, unread>>,
           NEW t \in DOMAIN task, NEW r \in TaskRecord, Store(t, r),
           r.deps = task[t].deps,
           task[t].status = "completed" => r.status = "completed",
           r.status \in Final \cup {"running"} =>
               \A d \in r.deps \cap DOMAIN task : task[d].status = "completed",
           worker' \in [TaskIds -> [Keys -> Nat]],
           \A x \in TaskIds \ {t} : worker'[x] = worker[x],
           Clocked /\ ~unread => \A s \in Keys : worker'[t][s] > now =>
               r.status = "running" /\ r.holder = s /\ r.until >= worker'[t][s]
    PROVE  TasksInv'
<1>1. SessionsInv'
  BY SessionsStep DEF TasksInv, sessionVars
<1>2. /\ DOMAIN task' = DOMAIN task
      /\ task'[t] = r
      /\ \A x \in DOMAIN task \ {t} : task'[x] = Refreshed[x]
  BY RefreshedSound DEF Store
<1>3. now' = now /\ born' = born /\ unread' = unread /\ (Clocked' <=> Clocked)
  BY DEF sessionVars, Clocked
<1>4. TaskTypes'
  BY <1>2, <1>3, RefreshedSound DEF TasksInv, TaskTypes
<1>5. \A x \in DOMAIN task :
        /\ task'[x].deps = task[x].deps
        /\ task[x].status = "completed" => task'[x].status = "completed"
  BY <1>2, RefreshedSound
<1>6. ASSUME NEW x \in DOMAIN task', task'[x].status \in Final \cup {"running"},
             NEW d \in task'[x].deps \cap DOMAIN task'
      PROVE  task'[d].status = "completed"
  <2>1. task[d].status = "completed"
    <3>1. CASE x = t
      BY <1>2, <1>6, <3>1
    <3>2. CASE x # t
      <4>1. task'[x] = Refreshed[x]
        BY <1>2, <3>2
      <4>2. task[x].status \in Final \cup {"running"} /\ d \in task[x].deps \cap DOMAIN task
        BY <1>2, <1>5, <1>6, <4>1, RefreshedSound
      <4> QED
        BY <1>2, <4>2 DEF TasksInv, Ordered, DependenciesFirst
    <3> QED
      BY <3>1, <3>2
  <2> QED
    BY <1>2, <1>5, <2>1
<1>7. Ordered'
  BY <1>2, <1>3, <1>5, <1>6 DEF TasksInv, Ordered, DependenciesFirst
<1>8. Leading'
  <2> SUFFICES ASSUME Clocked, ~unread, NEW x \in TaskIds, NEW s \in Keys, worker'[x][s] > now
               PROVE  /\ x \in DOMAIN task' /\ task'[x].status = "running"
                      /\ task'[x].holder = s /\ task'[x].until >= worker'[x][s]
    BY <1>3 DEF Leading
  <2>1. CASE x = t
    BY <1>2, <2>1
  <2>2. CASE x # t
    <3>1. worker'[x] = worker[x]
      BY <2>2
    <3>2. /\ x \in DOMAIN task /\ task[x].status = "running"
          /\ task[x].holder = s /\ task[x].until >= worker[x][s]
      BY <3>1 DEF TasksInv, Leading
    <3>3. task[x].until > now
      BY <3>1, <3>2 DEF TasksInv, TaskTypes, TaskRecord, SessionsInv, SessionTypes
    <3> QED
      BY <1>2, <2>2, <3>1, <3>2, <3>3, RefreshedSound
  <2> QED
    BY <2>1, <2>2
<1> QED
  BY <1>1, <1>4, <1>7, <1>8 DEF TasksInv

\* The queue is only refreshed, or tasks are unblocked as well.
LEMMA RefreshKeeps ==
    ASSUME TasksInv, UNCHANGED <<sessionVars, born, unread, worker>>,
           DOMAIN task' = DOMAIN task,
           \A t \in DOMAIN task :
               \/ task'[t] = Refreshed[t]
               \/ Refreshed[t].status = "blocked" /\ task'[t] = [Refreshed[t] EXCEPT !.status = "pending"]
    PROVE  TasksInv'
<1>1. SessionsInv'
  BY SessionsStep DEF TasksInv, sessionVars
<1>2. now' = now /\ born' = born /\ unread' = unread /\ (Clocked' <=> Clocked) /\ worker' = worker
  BY DEF sessionVars, Clocked
<1>3. ASSUME NEW t \in DOMAIN task
      PROVE  /\ task'[t] \in TaskRecord
             /\ task'[t].deps = task[t].deps
             /\ task[t].status = "completed" => task'[t].status = "completed"
             /\ task'[t].status \in Final \cup {"running"} => task'[t] = Refreshed[t]
             /\ Refreshed[t].status = "running" => task'[t] = Refreshed[t]
  <2>1. PICK r : r = Refreshed[t]
    OBVIOUS
  <2>2. r \in TaskRecord /\ r.deps = task[t].deps
        /\ (task[t].status = "completed" => r.status = "completed")
    BY <2>1, RefreshedSound
  <2>3. CASE task'[t] = r
    BY <2>1, <2>2, <2>3
  <2>4. CASE r.status = "blocked" /\ task'[t] = [r EXCEPT !.status = "pending"]
    <3>1. task'[t] \in TaskRecord /\ task'[t].deps = r.deps /\ task'[t].status = "pending"
      BY <2>2, <2>4 DEF TaskRecord
    <3> QED
      BY <2>1, <2>2, <2>4, <3>1 DEF Final
  <2> QED
    BY <2>1, <2>3, <2>4
<1>4. TaskTypes'
  BY <1>2, <1>3 DEF TasksInv, TaskTypes
<1>5. ASSUME NEW x \in DOMAIN task', task'[x].status \in Final \cup {"running"},
             NEW d \in task'[x].deps \cap DOMAIN task'
      PROVE  task'[d].status = "completed"
  <2>1. task[x].status \in Final \cup {"running"} /\ d \in task[x].deps \cap DOMAIN task
    BY <1>3, <1>5, RefreshedSound
  <2>2. task[d].status = "completed"
    BY <2>1 DEF TasksInv, Ordered, DependenciesFirst
  <2> QED
    BY <1>3, <2>1, <2>2
<1>6. Ordered'
  BY <1>2, <1>3, <1>5 DEF TasksInv, Ordered, DependenciesFirst
<1>7. Leading'
  <2> SUFFICES ASSUME Clocked, ~unread, NEW x \in TaskIds, NEW s \in Keys, worker[x][s] > now
               PROVE  /\ x \in DOMAIN task /\ task'[x].status = "running"
                      /\ task'[x].holder = s /\ task'[x].until >= worker[x][s]
    BY <1>2 DEF Leading
  <2>1. /\ x \in DOMAIN task /\ task[x].status = "running"
        /\ task[x].holder = s /\ task[x].until >= worker[x][s]
    BY DEF TasksInv, Leading
  <2>2. task[x].until > now
    BY <2>1 DEF TasksInv, TaskTypes, TaskRecord, SessionsInv, SessionTypes
  <2>3. Refreshed[x] = task[x]
    BY <2>1, <2>2, RefreshedSound
  <2> QED
    BY <1>3, <2>1, <2>3
<1> QED
  BY <1>1, <1>4, <1>6, <1>7 DEF TasksInv

LEMMA CreateTaskKeeps ==
    ASSUME TasksInv, UNCHANGED sessionVars, NEW t \in TaskIds, NEW deps \in SUBSET (TaskIds \ {t}),
           CreateTask(t, deps)
    PROVE  TasksInv'
<1>1. SessionsInv'
  BY SessionsStep DEF TasksInv, sessionVars
<1>2. now' = now /\ (Clocked' <=> Clocked) /\ worker' = worker /\ born' = born \cup {t}
      /\ t \notin born
  BY DEF sessionVars, Clocked, CreateTask
<1> DEFINE r == [status |-> "pending", deps |-> deps, holder |-> Free, until |-> 0, finished |-> 0]
<1>3. PICK q \in {task} \cup IF unread THEN {} ELSE {Nothing} :
        /\ deps \subseteq DOMAIN q
        /\ unread' = (unread \/ q # task)
        /\ \E roomy \in Roomy(q, deps) : task' = With(roomy, t, r)
  BY DEF CreateTask
<1>4. PICK roomy \in Roomy(q, deps) : task' = With(roomy, t, r)
  BY <1>3
<1>5. DOMAIN q \subseteq DOMAIN task /\ \A x \in DOMAIN q : q[x] = task[x]
  BY DEF Nothing
<1>6. /\ DOMAIN roomy \subseteq DOMAIN q
      /\ \A x \in DOMAIN roomy : roomy[x] = q[x]
      /\ \A x \in DOMAIN q \ DOMAIN roomy : q[x].status \in Final
  <2>1. CASE roomy = q
    BY <2>1
  <2>2. CASE roomy # q
    <3>1. PICK g \in DOMAIN q : q[g].status \in Final /\ roomy = Without(q, {g})
      BY <2>2 DEF Roomy
    <3> QED
      BY <3>1 DEF Without
  <2> QED
    BY <2>1, <2>2
<1>7. r \in TaskRecord /\ r.status = "pending" /\ r.deps = deps
  BY DEF TaskRecord
<1> HIDE DEF r
<1>8. DOMAIN task' = DOMAIN roomy \cup {t} /\ task'[t] = r
  BY <1>4 DEF With
<1>9. t \notin DOMAIN task /\ t \notin DOMAIN roomy
  BY <1>2, <1>5, <1>6 DEF TasksInv, TaskTypes
<1>10. \A x \in DOMAIN roomy : x \in DOMAIN task /\ task'[x] = task[x]
  BY <1>4, <1>5, <1>6, <1>9 DEF With
<1>11. TaskTypes'
  BY <1>2, <1>7, <1>8, <1>10 DEF TasksInv, TaskTypes
<1>12. \A x \in DOMAIN task' : task'[x].deps \subseteq born'
  BY <1>2, <1>3, <1>5, <1>7, <1>8, <1>10 DEF TasksInv, TaskTypes, Ordered
<1>13. ASSUME NEW x \in DOMAIN task', task'[x].status \in Final \cup {"running"},
              NEW d \in task'[x].deps \cap DOMAIN task'
       PROVE  task'[d].status = "completed"
  <2>1. x \in DOMAIN roomy
    BY <1>7, <1>8, <1>13 DEF Final
  <2>2. d \in born
    BY <1>10, <2>1 DEF TasksInv, Ordered
  <2>3. d \in DOMAIN roomy
    BY <1>2, <1>8, <2>2
  <2>4. task[d].status = "completed"
    BY <1>10, <1>13, <2>1, <2>3 DEF TasksInv, Ordered, DependenciesFirst
  <2> QED
    BY <1>10, <2>3, <2>4
<1>14. Leading'
  <2> SUFFICES ASSUME Clocked, ~unread', NEW x \in TaskIds, NEW s \in Keys, worker[x][s] > now
               PROVE  /\ x \in DOMAIN task' /\ task'[x].status = "running"
                      /\ task'[x].holder = s /\ task'[x].until >= worker[x][s]
    BY <1>2 DEF Leading
  <2>1. ~unread /\ q = task
    BY <1>3
  <2>2. /\ x \in DOMAIN task /\ task[x].status = "running"
        /\ task[x].holder = s /\ task[x].until >= worker[x][s]
    BY <2>1 DEF TasksInv, Leading
  <2>3. x \in DOMAIN roomy
    BY <1>6, <2>1, <2>2 DEF Final
  <2> QED
    BY <1>8, <1>10, <2>2, <2>3
<1> QED
  BY <1>1, <1>11, <1>12, <1>13, <1>14 DEF TasksInv, Ordered, DependenciesFirst

\* Nobody was told it leases a task that is not running.
LEMMA Unleased ==
    ASSUME TasksInv, Clocked, ~unread, NEW t \in TaskIds, NEW s \in Keys, worker[t][s] > now
    PROVE  t \in DOMAIN task /\ Refreshed[t] = task[t] /\ Leased(t, s)
<1>1. /\ t \in DOMAIN task /\ task[t].status = "running"
      /\ task[t].holder = s /\ task[t].until >= worker[t][s]
  BY DEF TasksInv, Leading
<1>2. task[t].until > now
  BY <1>1 DEF TasksInv, TaskTypes, TaskRecord, SessionsInv, SessionTypes
<1>3. Refreshed[t] = task[t]
  BY <1>1, <1>2, RefreshedSound
<1> QED
  BY <1>1, <1>3 DEF Leased

LEMMA ClaimKeeps ==
    ASSUME TasksInv, UNCHANGED sessionVars, NEW t \in TaskIds, NEW s \in Keys, NEW n \in Leases,
           ClaimTask(t, s, n)
    PROVE  TasksInv'
<1>1. PICK r : r = Refreshed[t]
  OBVIOUS
<1>2. /\ t \in DOMAIN task /\ r \in TaskRecord /\ r.deps = task[t].deps
      /\ r.status \notin Final \cup {"running"} /\ task[t].status # "completed"
      /\ UNCHANGED <<born, unread>>
  BY <1>1, RefreshedSound DEF ClaimTask, Final
<1>3. \A x \in Keys : Clocked /\ ~unread => ~(worker[t][x] > now)
  BY <1>1, <1>2, Unleased DEF Leased
<1>4. CASE Blockers(Refreshed, t) # {}
  <2> DEFINE q == [r EXCEPT !.status = "blocked"]
  <2>1. Store(t, q) /\ worker' = worker
    BY <1>1, <1>4 DEF ClaimTask
  <2>2. q \in TaskRecord /\ q.deps = r.deps /\ q.status = "blocked"
    BY <1>2 DEF TaskRecord
  <2> HIDE DEF q
  <2>3. worker' \in [TaskIds -> [Keys -> Nat]]
    BY <2>1 DEF TasksInv, TaskTypes
  <2> QED
    BY <1>2, <1>3, <2>1, <2>2, <2>3, StoreKeeps DEF Final
<1>5. CASE Blockers(Refreshed, t) = {}
  <2>1. PICK m : m = now + n
    OBVIOUS
  <2>2. m \in Nat
    BY <2>1, TasksAssumption DEF TasksInv, SessionsInv, SessionTypes
  <2> DEFINE a == [r EXCEPT !.status = "running"]
             b == [a EXCEPT !.holder = s]
             q == [b EXCEPT !.until = m]
  <2>3. Store(t, q) /\ worker' = [worker EXCEPT ![t][s] = m]
    BY <1>1, <1>5, <2>1 DEF ClaimTask
  <2>4. a \in TaskRecord /\ a.deps = r.deps /\ a.status = "running"
    BY <1>2 DEF TaskRecord
  <2> HIDE DEF a
  <2>5. b \in TaskRecord /\ b.deps = r.deps /\ b.status = "running" /\ b.holder = s
    BY <2>4 DEF TaskRecord
  <2> HIDE DEF b
  <2>6. q \in TaskRecord /\ q.deps = r.deps /\ q.status = "running" /\ q.holder = s /\ q.until = m
    BY <2>2, <2>5 DEF TaskRecord
  <2> HIDE DEF q
  <2>7. \A d \in q.deps \cap DOMAIN task : task[d].status = "completed"
    BY <1>1, <1>2, <1>5, <2>6, RefreshedSound DEF Blockers
  <2>8. /\ worker' \in [TaskIds -> [Keys -> Nat]]
        /\ \A x \in TaskIds \ {t} : worker'[x] = worker[x]
        /\ \A x \in Keys : worker'[t][x] = IF x = s THEN m ELSE worker[t][x]
    BY <2>2, <2>3 DEF TasksInv, TaskTypes
  <2>9. Clocked /\ ~unread => \A x \in Keys : worker'[t][x] > now =>
            q.status = "running" /\ q.holder = x /\ q.until >= worker'[t][x]
    BY <1>3, <2>2, <2>6, <2>8
  <2> QED
    BY <1>2, <2>3, <2>6, <2>7, <2>8, <2>9, StoreKeeps
<1> QED
  BY <1>4, <1>5

\* What a session that leases a task does with it.
LEMMA LeasedKeeps ==
    ASSUME TasksInv, UNCHANGED <<sessionVars, born, unread>>, NEW t \in TaskIds, NEW s \in Keys,
           Leased(t, s), NEW r \in TaskRecord, Store(t, r), r.deps = task[t].deps, NEW u \in Nat,
           worker' = [worker EXCEPT ![t][s] = u],
           u = 0 \/ (r.status = "running" /\ r.holder = s /\ r.until = u)
    PROVE  TasksInv'
<1>1. t \in DOMAIN task /\ Refreshed[t] = task[t] /\ task[t].status = "running" /\ task[t].holder = s
  BY RefreshedSound DEF Leased
<1>2. task[t].status # "completed" /\ \A d \in r.deps \cap DOMAIN task : task[d].status = "completed"
  BY <1>1 DEF TasksInv, Ordered, DependenciesFirst
<1>3. /\ worker' \in [TaskIds -> [Keys -> Nat]]
      /\ \A x \in TaskIds \ {t} : worker'[x] = worker[x]
      /\ \A x \in Keys : worker'[t][x] = IF x = s THEN u ELSE worker[t][x]
  BY DEF TasksInv, TaskTypes
<1>4. ASSUME Clocked, ~unread, NEW x \in Keys, worker'[t][x] > now
      PROVE  r.status = "running" /\ r.holder = x /\ r.until >= worker'[t][x]
  <2>1. CASE x = s
    BY <1>3, <1>4, <2>1 DEF TasksInv, SessionsInv, SessionTypes
  <2>2. CASE x # s
    <3>1. worker[t][x] > now
      BY <1>3, <1>4, <2>2
    <3>2. task[t].holder = x
      BY <1>4, <3>1, Unleased DEF Leased
    <3> QED
      BY <1>1, <2>2, <3>2
  <2> QED
    BY <2>1, <2>2
<1> QED
  BY <1>1, <1>2, <1>3, <1>4, StoreKeeps

LEMMA TaskStepKeeps ==
    ASSUME TasksInv, UNCHANGED sessionVars, TaskStep
    PROVE  TasksInv'
<1> USE DEF Final
<1>1. CASE ListTasks
  <2>1. DOMAIN task' = DOMAIN task
    BY <1>1 DEF ListTasks
  <2>2. \A t \in DOMAIN task :
            \/ task'[t] = Refreshed[t]
            \/ Refreshed[t].status = "blocked" /\ task'[t] = [Refreshed[t] EXCEPT !.status = "pending"]
    BY <1>1 DEF ListTasks
  <2> QED
    BY <1>1, <2>1, <2>2, RefreshKeeps DEF ListTasks
<1>2. ASSUME NEW t \in TaskIds, NEW deps \in SUBSET (TaskIds \ {t}), CreateTask(t, deps)
      PROVE  TasksInv'
  BY <1>2, CreateTaskKeeps
<1>3. ASSUME NEW t \in TaskIds, NEW s \in Keys, NEW n \in Leases, ClaimTask(t, s, n)
      PROVE  TasksInv'
  BY <1>3, ClaimKeeps
<1>4. ASSUME NEW t \in TaskIds, NEW s \in Keys, NEW n \in Leases, HeartbeatTask(t, s, n)
      PROVE  TasksInv'
  <2>1. PICK r, m : r = Refreshed[t] /\ m = now + n
    OBVIOUS
  <2>2. /\ Leased(t, s) /\ r \in TaskRecord /\ r.deps = task[t].deps
        /\ r.status = "running" /\ r.holder = s /\ m \in Nat
    BY <1>4, <2>1, RefreshedSound, TasksAssumption
       DEF HeartbeatTask, Leased, TasksInv, SessionsInv, SessionTypes
  <2> DEFINE q == [r EXCEPT !.until = m]
  <2>3. Store(t, q) /\ worker' = [worker EXCEPT ![t][s] = m] /\ UNCHANGED <<born, unread>>
    BY <1>4, <2>1 DEF HeartbeatTask
  <2>4. q \in TaskRecord /\ q.deps = r.deps /\ q.status = "running" /\ q.holder = s /\ q.until = m
    BY <2>2 DEF TaskRecord
  <2> HIDE DEF q
  <2> QED
    BY <2>2, <2>3, <2>4, LeasedKeeps
<1>5. ASSUME NEW t \in TaskIds, NEW s \in Keys, ReleaseTask(t, s)
      PROVE  TasksInv'
  <2>1. PICK r : r = Refreshed[t]
    OBVIOUS
  <2>2. Leased(t, s) /\ r \in TaskRecord /\ r.deps = task[t].deps
    BY <1>5, <2>1, RefreshedSound DEF ReleaseTask, Leased
  <2> DEFINE a == [r EXCEPT !.status = "pending"]
             b == [a EXCEPT !.holder = Free]
             q == [b EXCEPT !.until = 0]
  <2>3. Store(t, q) /\ worker' = [worker EXCEPT ![t][s] = 0] /\ UNCHANGED <<born, unread>>
    BY <1>5, <2>1 DEF ReleaseTask, Released
  <2>4. a \in TaskRecord /\ a.deps = r.deps
    BY <2>2 DEF TaskRecord
  <2> HIDE DEF a
  <2>5. b \in TaskRecord /\ b.deps = r.deps
    BY <2>4 DEF TaskRecord
  <2> HIDE DEF b
  <2>6. q \in TaskRecord /\ q.deps = r.deps
    BY <2>5 DEF TaskRecord
  <2> HIDE DEF q
  <2> QED
    BY <2>2, <2>3, <2>6, LeasedKeeps
<1>6. ASSUME NEW t \in TaskIds, NEW s \in Keys, NEW outcome \in Final, FinishTask(t, s, outcome)
      PROVE  TasksInv'
  <2>1. PICK r, m : r = Refreshed[t] /\ m = now
    OBVIOUS
  <2>2. Leased(t, s) /\ r \in TaskRecord /\ r.deps = task[t].deps /\ m \in Nat
    BY <1>6, <2>1, RefreshedSound DEF FinishTask, Leased, TasksInv, SessionsInv, SessionTypes
  <2> DEFINE a == [r EXCEPT !.status = outcome]
             b == [a EXCEPT !.until = 0]
             q == [b EXCEPT !.finished = m]
  <2>3. Store(t, q) /\ worker' = [worker EXCEPT ![t][s] = 0] /\ UNCHANGED <<born, unread>>
    BY <1>6, <2>1 DEF FinishTask
  <2>4. a \in TaskRecord /\ a.deps = r.deps
    BY <2>2 DEF TaskRecord
  <2> HIDE DEF a
  <2>5. b \in TaskRecord /\ b.deps = r.deps
    BY <2>4 DEF TaskRecord
  <2> HIDE DEF b
  <2>6. q \in TaskRecord /\ q.deps = r.deps
    BY <2>2, <2>5 DEF TaskRecord
  <2> HIDE DEF q
  <2> QED
    BY <2>2, <2>3, <2>6, LeasedKeeps
<1>7. ASSUME NEW t \in TaskIds, NEW s \in Keys, RefusedTask(t, s)
      PROVE  TasksInv'
  BY <1>7, RefreshKeeps, RefreshedSound DEF RefusedTask
<1> QED
  BY <1>1, <1>2, <1>3, <1>4, <1>5, <1>6, <1>7 DEF TaskStep

LEMMA TasksStep == TasksInv /\ [NextTasks]_<<sessionVars, taskVars>> => TasksInv'
<1> SUFFICES ASSUME TasksInv, [NextTasks]_<<sessionVars, taskVars>>
             PROVE  TasksInv'
  OBVIOUS
<1>1. CASE TaskStep /\ UNCHANGED sessionVars
  BY <1>1, TaskStepKeeps
<1>2. CASE [NextSessions]_sessionVars /\ UNCHANGED taskVars
  <2>1. SessionsInv' /\ TimeGoesOn
    BY <1>2, SessionsStep, TimeSteps DEF TasksInv
  <2>2. task' = task /\ born' = born /\ worker' = worker /\ unread' = unread
    BY <1>2 DEF taskVars
  <2>3. TaskTypes'
    BY <2>2 DEF TasksInv, TaskTypes
  <2>4. Ordered'
    BY <2>2 DEF TasksInv, Ordered, DependenciesFirst
  <2>5. Leading'
    BY <2>1, <2>2 DEF TasksInv, Leading, TimeGoesOn, TaskTypes, SessionsInv, SessionTypes, Clocked
  <2> QED
    BY <2>1, <2>3, <2>4, <2>5 DEF TasksInv
<1> QED
  BY <1>1, <1>2 DEF NextTasks

\* One worker per task, dependencies first, and one holder per workload, for
\* every number of sessions, processes, tasks and every length of the leases
\* (_serialized_task_operation and _refresh_task_leases).
THEOREM TasksOneWorker == SpecTasks => []OneWorker
<1>1. InitSessions /\ InitTasks => TasksInv
  BY TasksInit
<1>2. TasksInv /\ [NextTasks]_<<sessionVars, taskVars>> => TasksInv'
  BY TasksStep
<1>3. TasksInv => OneWorker
  BY OneHolder DEF TasksInv, Leading, Ordered, OneWorker, Clocked
<1> QED
  BY <1>1, <1>2, <1>3, PTL DEF SpecTasks

-----------------------------------------------------------------------------
(* The timeline                                                            *)

LogEvent == [n : Nat \ {0}, source : {"audit", "journal"}, at : Int]

FeedTypes ==
    /\ log \subseteq LogEvent
    /\ IsFiniteSet(log)
    /\ \A e \in log : e.n <= Cardinality(log)
    /\ \A e, f \in log : e.n = f.n => e = f
    /\ tick \in Int /\ skew \in Int
    /\ cursor = NoCursor \/ cursor \in log

\* Every set of events has an earliest and a latest one.
HaveEnds ==
    \A S \in SUBSET log : S # {} =>
        /\ \E e \in S : \A f \in S : ~Before(e, f)
        /\ \E e \in S : \A f \in S : ~Before(f, e)

FeedInv == FeedTypes /\ HaveEnds /\ CursorSkipsNothing

\* The timeline is a strict total order of events with different numbers.
LEMMA BeforeOrders ==
    ASSUME skew \in Int
    PROVE  /\ \A e \in LogEvent : ~Before(e, e)
           /\ \A e, f, g \in LogEvent : Before(e, f) /\ Before(f, g) => Before(e, g)
           /\ \A e, f \in LogEvent : e.n # f.n => Before(e, f) \/ Before(f, e)
<1>1. \A e \in LogEvent : Stamp(e) \in Int /\ e.n \in Int /\ e.source \in {"audit", "journal"}
  BY DEF Stamp, LogEvent
<1> QED
  BY <1>1 DEF Before

\* What comes before one of the first events is among the first events.
LEMMA FirstClosed ==
    ASSUME FeedTypes, NEW S \in SUBSET log, NEW m \in Nat, NEW e \in First(S, m), NEW f \in S,
           Before(f, e)
    PROVE  f \in First(S, m)
<1> DEFINE A == {g \in S : Before(g, f)}  B == {g \in S : Before(g, e)}
<1>1. A \subseteq B
  BY BeforeOrders DEF FeedTypes, First
<1>2. IsFiniteSet(B)
  BY FS_Subset DEF FeedTypes
<1>3. Cardinality(A) <= Cardinality(B) /\ Cardinality(A) \in Nat /\ Cardinality(B) \in Nat
  BY <1>1, <1>2, FS_Subset, FS_CardinalityType
<1>4. Cardinality(B) < m
  BY DEF First
<1>5. Cardinality(A) < m
  BY <1>3, <1>4
<1> QED
  BY <1>5 DEF First

\* There is a first event, unless there is none.
LEMMA FirstExists ==
    ASSUME FeedInv, NEW S \in SUBSET log, NEW m \in Nat \ {0}, S # {}
    PROVE  First(S, m) # {}
<1>1. PICK e \in S : \A f \in S : ~Before(f, e)
  BY DEF FeedInv, HaveEnds
<1>2. {f \in S : Before(f, e)} = {}
  BY <1>1
<1>3. Cardinality({f \in S : Before(f, e)}) < m
  BY <1>2, FS_EmptySet
<1> QED
  BY <1>3 DEF First

LEMMA HappenKeeps ==
    ASSUME FeedInv, NEW source \in {"audit", "journal"}, Happen(source)
    PROVE  FeedInv'
<1>1. PICK e : e = [n |-> Cardinality(log) + 1, source |-> source, at |-> tick]
  OBVIOUS
<1>2. /\ log' = log \cup {e}
      /\ late' = IF cursor # NoCursor /\ Before(e, cursor) THEN late \cup {e} ELSE late
      /\ UNCHANGED <<tick, skew, cursor, given, cut>>
  BY <1>1 DEF Happen
<1>3. Cardinality(log) \in Nat
  BY FS_CardinalityType DEF FeedInv, FeedTypes
<1>4. e \in LogEvent /\ e.n = Cardinality(log) + 1
  BY <1>1, <1>3 DEF LogEvent, FeedInv, FeedTypes
<1>5. \A f \in log : f \in LogEvent /\ f.n \in Nat /\ f.n <= Cardinality(log) /\ f.n # e.n
  BY <1>3, <1>4 DEF FeedInv, FeedTypes, LogEvent
<1>6. e \notin log
  BY <1>5
<1>7. IsFiniteSet(log') /\ Cardinality(log') = Cardinality(log) + 1
  BY <1>2, <1>6, FS_AddElement DEF FeedInv, FeedTypes
<1>8. FeedTypes'
  <2>1. \A f \in log' : f \in LogEvent /\ f.n <= Cardinality(log')
    BY <1>2, <1>3, <1>4, <1>5, <1>7
  <2>2. \A f, g \in log' : f.n = g.n => f = g
    BY <1>2, <1>5 DEF FeedInv, FeedTypes
  <2> QED
    BY <1>2, <1>7, <2>1, <2>2 DEF FeedInv, FeedTypes
<1>9. \A f, g : Before(f, g)' <=> Before(f, g)
  BY <1>2 DEF Before, Stamp
<1>10. HaveEnds'
  <2> SUFFICES ASSUME NEW S \in SUBSET (log \cup {e}), S # {}
               PROVE  /\ \E a \in S : \A b \in S : ~Before(a, b)
                      /\ \E a \in S : \A b \in S : ~Before(b, a)
    BY <1>2, <1>9 DEF HaveEnds
  <2> DEFINE T == S \ {e}
  <2>1. T \in SUBSET log /\ S \subseteq LogEvent
    BY <1>4, <1>5
  <2>2. skew \in Int /\ ~Before(e, e)
    BY <1>4, BeforeOrders DEF FeedInv, FeedTypes
  <2>3. CASE T = {}
    <3>1. S = {e}
      BY <2>3
    <3> QED
      BY <2>2, <3>1
  <2>4. CASE T # {}
    <3>1. PICK a \in T : \A b \in T : ~Before(a, b)
      BY <2>1, <2>4 DEF FeedInv, HaveEnds
    <3>2. PICK c \in T : \A b \in T : ~Before(b, c)
      BY <2>1, <2>4 DEF FeedInv, HaveEnds
    <3>3. \E x \in S : \A b \in S : ~Before(x, b)
      <4>1. CASE Before(a, e)
        <5>2. CASE e \in S
          <6>1. \A b \in T : ~Before(e, b)
            BY <1>4, <2>1, <2>2, <3>1, <4>1, BeforeOrders
          <6> QED
            BY <2>2, <5>2, <6>1
        <5>3. CASE e \notin S
          BY <3>1, <5>3
        <5> QED
          BY <5>2, <5>3
      <4>2. CASE ~Before(a, e)
        BY <3>1, <4>2
      <4> QED
        BY <4>1, <4>2
    <3>4. \E x \in S : \A b \in S : ~Before(b, x)
      <4>1. CASE e \in S /\ Before(e, c)
        <5>1. \A b \in T : ~Before(b, e)
          BY <1>4, <2>1, <2>2, <3>2, <4>1, BeforeOrders
        <5> QED
          BY <2>2, <4>1, <5>1
      <4>2. CASE ~(e \in S /\ Before(e, c))
        BY <3>2, <4>2
      <4> QED
        BY <4>1, <4>2
    <3> QED
      BY <3>3, <3>4
  <2> QED
    BY <2>3, <2>4
<1>11. CursorSkipsNothing'
  <2> SUFFICES ASSUME NEW x \in log \cup {e}, cursor # NoCursor, ~Before(cursor, x)
               PROVE  x \in given \cup late' \cup cut
    BY <1>2, <1>9 DEF CursorSkipsNothing
  <2>1. CASE x \in log
    BY <1>2, <2>1 DEF FeedInv, CursorSkipsNothing
  <2>2. CASE x = e
    <3>1. cursor \in log /\ cursor.n # e.n /\ cursor \in LogEvent
      BY <1>5 DEF FeedInv, FeedTypes
    <3>2. Before(e, cursor)
      BY <1>4, <2>2, <3>1, BeforeOrders DEF FeedInv, FeedTypes
    <3> QED
      BY <1>2, <2>2, <3>2
  <2> QED
    BY <2>1, <2>2
<1> QED
  BY <1>8, <1>10, <1>11 DEF FeedInv

LEMMA DeltaKeeps ==
    ASSUME FeedInv, NEW lines \in 0..MaxEvents, EventDelta(lines)
    PROVE  FeedInv'
<1>1. PICK shown : shown = Timeline(lines)
  OBVIOUS
<1>2. PICK ahead : ahead = IF cursor \in shown THEN {e \in shown : Before(cursor, e)} ELSE shown
  OBVIOUS
<1>3. PICK chosen : chosen = First(ahead, Page)
  OBVIOUS
<1>4. /\ cursor' = IF chosen = {} THEN cursor ELSE LastOf(chosen)
      /\ given' = IF cursor # NoCursor /\ cursor \notin shown THEN chosen ELSE given \cup chosen
      /\ cut' = cut \cup (log \ shown)
      /\ UNCHANGED <<log, tick, skew, late>>
  BY <1>1, <1>2, <1>3 DEF EventDelta, Missed, Chosen
<1>5. shown \subseteq log
  BY <1>1 DEF Timeline, Newest, Recent
<1>6. ahead \subseteq log /\ chosen \subseteq ahead /\ Page \in Nat \ {0}
  BY <1>2, <1>3, <1>5, FeedAssumption DEF First
<1>7. chosen # {} => LastOf(chosen) \in chosen /\ \A f \in chosen : ~Before(LastOf(chosen), f)
  BY <1>6 DEF FeedInv, HaveEnds, LastOf
<1>8. \A f, g : Before(f, g)' <=> Before(f, g)
  BY <1>4 DEF Before, Stamp
<1>9. FeedTypes'
  BY <1>4, <1>6, <1>7 DEF FeedInv, FeedTypes
<1>10. HaveEnds'
  BY <1>4, <1>8 DEF FeedInv, HaveEnds
<1>11. CursorSkipsNothing'
  <2> SUFFICES ASSUME NEW x \in log, cursor' # NoCursor, ~Before(cursor', x), x \in shown
               PROVE  x \in given' \cup late \cup cut'
    BY <1>4, <1>8 DEF CursorSkipsNothing
  <2>1. CASE chosen = {}
    <3>1. ahead = {} /\ cursor' = cursor
      BY <1>3, <1>4, <1>6, <2>1, FirstExists
    <3>2. cursor \in shown
      BY <1>2, <3>1
    <3> QED
      BY <1>4, <3>1, <3>2 DEF FeedInv, CursorSkipsNothing
  <2>2. CASE chosen # {}
    <3> DEFINE last == LastOf(chosen)
    <3>1. cursor' = last /\ last \in chosen
      BY <1>4, <1>7, <2>2
    <3>2. x \in ahead => x \in chosen
      <4> SUFFICES ASSUME x \in ahead
                   PROVE  x \in chosen
        OBVIOUS
      <4>1. x = last \/ Before(x, last)
        <5>1. last \in log /\ (x.n # last.n \/ x = last)
          BY <1>6, <3>1 DEF FeedInv, FeedTypes
        <5>2. x \in LogEvent /\ last \in LogEvent /\ skew \in Int
          BY <1>6, <3>1 DEF FeedInv, FeedTypes
        <5>3. ~Before(last, x)
          BY <3>1
        <5> HIDE DEF last
        <5> QED
          BY <5>1, <5>2, <5>3, BeforeOrders
      <4> QED
        BY <1>3, <1>6, <3>1, <4>1, FirstClosed DEF FeedInv
    <3>3. CASE x \in chosen
      BY <1>4, <3>3
    <3>4. CASE x \notin ahead
      <4>1. cursor \in shown /\ ~Before(cursor, x)
        BY <1>2, <3>4
      <4>2. cursor # NoCursor
        BY <1>5, <4>1 DEF FeedInv, FeedTypes, LogEvent, NoCursor
      <4> QED
        BY <1>4, <4>1, <4>2 DEF FeedInv, CursorSkipsNothing
    <3> QED
      BY <3>2, <3>3, <3>4
  <2> QED
    BY <2>1, <2>2
<1> QED
  BY <1>9, <1>10, <1>11 DEF FeedInv

\* get_server_event_delta: what the cursor has passed was given to the reader,
\* came late or was cut, for every number of events, size of a page and of the
\* timeline, and every difference of the clocks.
THEOREM FeedCursorSkipsNothing == SpecFeed => []CursorSkipsNothing
<1>1. InitFeed => FeedInv
  <2> SUFFICES ASSUME InitFeed
               PROVE  FeedInv
    OBVIOUS
  <2>1. FeedTypes
    BY FS_EmptySet, FeedAssumption DEF InitFeed, FeedTypes
  <2> QED
    BY <2>1 DEF InitFeed, FeedInv, HaveEnds, CursorSkipsNothing
<1>2. FeedInv /\ [NextFeed]_feedVars => FeedInv'
  <2> SUFFICES ASSUME FeedInv, [NextFeed]_feedVars
               PROVE  FeedInv'
    OBVIOUS
  <2>1. CASE UNCHANGED feedVars \/ FeedTick
    <3>1. UNCHANGED <<log, skew, cursor, given, late, cut>> /\ tick' \in Int
      BY <2>1 DEF feedVars, FeedTick, FeedInv, FeedTypes
    <3>2. \A f, g : Before(f, g)' <=> Before(f, g)
      BY <3>1 DEF Before, Stamp
    <3>3. FeedTypes'
      BY <3>1 DEF FeedInv, FeedTypes
    <3>4. HaveEnds' /\ CursorSkipsNothing'
      BY <3>1, <3>2 DEF FeedInv, HaveEnds, CursorSkipsNothing
    <3> QED
      BY <3>3, <3>4 DEF FeedInv
  <2>2. ASSUME NEW source \in {"audit", "journal"}, Happen(source)
        PROVE  FeedInv'
    BY <2>2, HappenKeeps
  <2>3. ASSUME NEW lines \in 0..MaxEvents, EventDelta(lines)
        PROVE  FeedInv'
    BY <2>3, DeltaKeeps
  <2> QED
    BY <2>1, <2>2, <2>3 DEF NextFeed
<1>3. FeedInv => CursorSkipsNothing
  BY DEF FeedInv
<1> QED
  BY <1>1, <1>2, <1>3, PTL DEF SpecFeed

-----------------------------------------------------------------------------
(* Backups                                                                 *)

MakerCall ==
    [step : {"open", "pack", "measure", "clean"}, number : Nat, source : Sources, path : Paths]

\* A backup under way has a number and a name of its own.
MakerGood(m) ==
    MakerAt(m, "idle") \/
        /\ maker[m] \in MakerCall
        /\ maker[m].number \in 1..backups
        /\ named[maker[m].number] = <<maker[m].path.name, maker[m].path.second>>
        /\ promised[maker[m].number] = NotPromised
        /\ \A k \in Makers : ~MakerAt(k, "idle") /\ maker[k].number = maker[m].number => k = m

\* Without a clash an archive is in the state its backup left it in.
MakerAlone(m) ==
    LET w == maker[m] IN
    /\ MakerAt(m, "pack") /\ ~Clashes(w.number) =>
          archive[w.path].writers = {w.number} /\ archive[w.path].of = w.source
    /\ MakerAt(m, "measure") /\ ~Clashes(w.number) =>
          /\ archive[w.path].writers # {}
          /\ archive[w.path].whole /\ archive[w.path].of = w.source

ArchiveGood(a) ==
    a = NoArchive \/ a \in [writers : SUBSET (1..MaxBackups), whole : BOOLEAN, of : Sources]

PromiseGood(b) ==
    promised[b] = NotPromised \/
        /\ promised[b].path \in Paths
        /\ named[b] = <<promised[b].path.name, promised[b].path.second>>
        /\ ~Clashes(b) =>
              /\ archive[promised[b].path].writers # {}
              /\ archive[promised[b].path].whole
              /\ archive[promised[b].path].of = promised[b].source

BackupsInv ==
    /\ DOMAIN maker = Makers /\ DOMAIN archive = Paths
    /\ DOMAIN named = 1..MaxBackups /\ DOMAIN promised = 1..MaxBackups
    /\ backups \in 0..MaxBackups /\ second \in 0..MaxSecond
    /\ \A p \in Paths : ArchiveGood(archive[p])
    /\ \A p \in Paths : \A b \in archive[p].writers : named[b] = <<p.name, p.second>> /\ b \in 1..backups
    /\ \A m \in Makers : MakerGood(m) /\ MakerAlone(m)
    /\ \A b \in 1..MaxBackups : PromiseGood(b) /\ (b > backups => promised[b] = NotPromised)

\* What a backup does to its own path and record concerns no other backup that
\* has no namesake.
LEMMA OthersKept ==
    ASSUME BackupsInv, NEW m \in Makers, ~MakerAt(m, "idle"),
           \A k \in Makers \ {m} : maker'[k] = maker[k],
           MakerAt(m, "idle")' \/ maker'[m].number = maker[m].number,
           \A p \in Paths \ {maker[m].path} : archive'[p] = archive[p],
           backups' = backups, named' = named,
           \A b \in 1..MaxBackups : b # maker[m].number => promised'[b] = promised[b]
    PROVE  /\ \A k \in Makers \ {m} : MakerGood(k)' /\ MakerAlone(k)'
           /\ \A b \in 1..MaxBackups : b # maker[m].number =>
                  PromiseGood(b)' /\ (b > backups => promised'[b] = NotPromised)
<1>1. /\ maker[m].number \in 1..backups
      /\ maker[m].path \in Paths
      /\ named[maker[m].number] = <<maker[m].path.name, maker[m].path.second>>
      /\ backups \in 0..MaxBackups /\ MaxBackups \in Nat
  BY BackupsAssumption DEF BackupsInv, MakerGood, MakerCall
<1>2. \A b : Clashes(b)' <=> Clashes(b)
  BY DEF Clashes
<1>3. \A b : b # maker[m].number /\ named[b] = named[maker[m].number] => Clashes(b)
  BY <1>1 DEF Clashes
<1>4. ASSUME NEW k \in Makers \ {m}
      PROVE  MakerGood(k)' /\ MakerAlone(k)'
  <2>1. maker'[k] = maker[k]
    OBVIOUS
  <2>2. CASE MakerAt(k, "idle")
    BY <2>1, <2>2 DEF MakerGood, MakerAlone, MakerAt
  <2>3. CASE ~MakerAt(k, "idle")
    <3>1. /\ maker[k].number \in 1..backups /\ maker[k].number # maker[m].number
          /\ maker[k].path \in Paths
          /\ named[maker[k].number] = <<maker[k].path.name, maker[k].path.second>>
          /\ promised[maker[k].number] = NotPromised
          /\ maker[k] \in MakerCall
      BY <2>3 DEF BackupsInv, MakerGood, MakerCall
    <3>2. promised'[maker[k].number] = NotPromised
      BY <1>1, <3>1
    <3>3. \A l \in Makers : ~MakerAt(l, "idle")' /\ maker'[l].number = maker'[k].number => l = k
      <4> SUFFICES ASSUME NEW l \in Makers, ~MakerAt(l, "idle")', maker'[l].number = maker'[k].number
                   PROVE  l = k
        OBVIOUS
      <4>1. ~MakerAt(l, "idle") /\ maker[l].number = maker[k].number
        BY <2>1, <3>1 DEF MakerAt
      <4> QED
        BY <2>3, <4>1 DEF BackupsInv, MakerGood
    <3>4. MakerGood(k)'
      BY <2>1, <3>1, <3>2, <3>3 DEF MakerGood
    <3>5. maker[k].path = maker[m].path => Clashes(maker[k].number)
      BY <1>1, <1>3, <3>1
    <3>6. MakerAlone(k)'
      BY <1>2, <2>1, <3>1, <3>5 DEF BackupsInv, MakerAlone, MakerAt
    <3> QED
      BY <3>4, <3>6
  <2> QED
    BY <2>2, <2>3
<1>5. ASSUME NEW b \in 1..MaxBackups, b # maker[m].number
      PROVE  PromiseGood(b)' /\ (b > backups => promised'[b] = NotPromised)
  <2>1. promised'[b] = promised[b] /\ PromiseGood(b) /\ (b > backups => promised[b] = NotPromised)
    BY <1>5 DEF BackupsInv
  <2>2. CASE promised[b] = NotPromised
    BY <2>1, <2>2 DEF PromiseGood
  <2>3. CASE promised[b] # NotPromised
    <3>1. /\ promised[b].path \in Paths
          /\ named[b] = <<promised[b].path.name, promised[b].path.second>>
      BY <2>1, <2>3 DEF PromiseGood
    <3>2. promised[b].path = maker[m].path => Clashes(b)
      BY <1>1, <1>3, <1>5, <3>1
    <3> QED
      BY <1>2, <2>1, <2>3, <3>1, <3>2 DEF PromiseGood
  <2> QED
    BY <2>2, <2>3
<1> QED
  BY <1>4, <1>5

\* The backup of m goes on, and only its own path changes.
LEMMA MakerGoesOn ==
    ASSUME BackupsInv, NEW m \in Makers, ~MakerAt(m, "idle"),
           NEW to \in {"pack", "measure", "clean"}, MakerTo(m, to),
           NEW a, ArchiveGood(a), DOMAIN archive' = Paths, archive'[maker[m].path] = a,
           \A p \in Paths \ {maker[m].path} : archive'[p] = archive[p],
           \A b \in a.writers : b \in archive[maker[m].path].writers \cup {maker[m].number},
           to = "pack" /\ ~Clashes(maker[m].number) =>
               a.writers = {maker[m].number} /\ a.of = maker[m].source,
           to = "measure" /\ ~Clashes(maker[m].number) =>
               a.writers # {} /\ a.whole /\ a.of = maker[m].source,
           UNCHANGED <<second, backups, named, promised>>
    PROVE  BackupsInv'
<1> DEFINE w == maker[m]  v == [w EXCEPT !.step = to]
<1>1. /\ w \in MakerCall /\ w.number \in 1..backups /\ w.path \in Paths
      /\ named[w.number] = <<w.path.name, w.path.second>>
      /\ promised[w.number] = NotPromised /\ w.source \in Sources
      /\ \A k \in Makers : ~MakerAt(k, "idle") /\ maker[k].number = w.number => k = m
      /\ backups \in 0..MaxBackups /\ MaxBackups \in Nat
  BY BackupsAssumption DEF BackupsInv, MakerGood, MakerCall
<1>2. maker' = [maker EXCEPT ![m] = v]
  BY DEF MakerTo, BackupsInv
<1>3. v \in MakerCall /\ v.number = w.number /\ v.path = w.path /\ v.source = w.source /\ v.step = to
  BY <1>1 DEF MakerCall
<1> HIDE DEF v
<1>4. maker'[m] = v /\ \A k \in Makers \ {m} : maker'[k] = maker[k]
  BY <1>2 DEF BackupsInv
<1>5. archive'[w.path] = a /\ \A p \in Paths \ {w.path} : archive'[p] = archive[p]
  OBVIOUS
<1>6. /\ \A k \in Makers \ {m} : MakerGood(k)' /\ MakerAlone(k)'
      /\ \A b \in 1..MaxBackups : b # w.number =>
             PromiseGood(b)' /\ (b > backups => promised'[b] = NotPromised)
  BY <1>3, <1>4, <1>5, OthersKept
<1>7. \A b : Clashes(b)' <=> Clashes(b)
  BY DEF Clashes
<1>8. MakerGood(m)' /\ MakerAlone(m)'
  <2>1. \A k \in Makers : ~MakerAt(k, "idle")' /\ maker'[k].number = w.number => k = m
    BY <1>1, <1>4 DEF MakerAt
  <2>2. MakerGood(m)'
    BY <1>1, <1>3, <1>4, <2>1 DEF MakerGood
  <2> QED
    BY <1>3, <1>4, <1>5, <1>7, <2>2 DEF MakerAlone, MakerAt
<1>num. PICK n : n = w.number
  OBVIOUS
<1>9. PromiseGood(n)' /\ promised'[n] = NotPromised
  BY <1>1, <1>num DEF PromiseGood
<1>10. \A p \in Paths : ArchiveGood(archive'[p])
  BY <1>5 DEF BackupsInv
<1>11. \A p \in Paths : \A b \in archive'[p].writers : named[b] = <<p.name, p.second>> /\ b \in 1..backups
  BY <1>1, <1>5 DEF BackupsInv
<1> QED
  <2>1. \A b \in 1..MaxBackups : PromiseGood(b)' /\ (b > backups' => promised'[b] = NotPromised)
    BY <1>6, <1>9, <1>num
  <2>2. \A k \in Makers : MakerGood(k)' /\ MakerAlone(k)'
    BY <1>6, <1>8
  <2> QED
    BY <1>2, <1>10, <1>11, <2>1, <2>2 DEF BackupsInv, ArchiveGood

\* The backup of m is over.
LEMMA MakerEnds ==
    ASSUME BackupsInv, NEW m \in Makers, ~MakerAt(m, "idle"),
           maker' = [maker EXCEPT ![m] = Unmade],
           archive' = archive \/ archive' = [archive EXCEPT ![maker[m].path] = NoArchive],
           UNCHANGED <<second, backups, named>>,
           \/ promised' = promised
           \/ /\ MakerAt(m, "measure") /\ archive' = archive
              /\ promised' = [promised EXCEPT ![maker[m].number] =
                                [at |-> "archive", path |-> maker[m].path, source |-> maker[m].source]]
    PROVE  BackupsInv'
<1> DEFINE w == maker[m]
<1>1. /\ w \in MakerCall /\ w.number \in 1..backups /\ w.path \in Paths
      /\ named[w.number] = <<w.path.name, w.path.second>>
      /\ promised[w.number] = NotPromised
      /\ backups \in 0..MaxBackups /\ MaxBackups \in Nat
  BY BackupsAssumption DEF BackupsInv, MakerGood, MakerCall
<1>2. maker'[m] = Unmade /\ \A k \in Makers \ {m} : maker'[k] = maker[k]
  BY DEF BackupsInv
<1>3. \A p \in Paths \ {w.path} : archive'[p] = archive[p]
  BY DEF BackupsInv
<1>4. \A b \in 1..MaxBackups : b # w.number => promised'[b] = promised[b]
  BY DEF BackupsInv
<1>5. MakerAt(m, "idle")' /\ MakerGood(m)' /\ MakerAlone(m)'
  BY <1>2 DEF MakerAt, Unmade, MakerGood, MakerAlone
<1>6. /\ \A k \in Makers \ {m} : MakerGood(k)' /\ MakerAlone(k)'
      /\ \A b \in 1..MaxBackups : b # w.number =>
             PromiseGood(b)' /\ (b > backups => promised'[b] = NotPromised)
  BY <1>2, <1>3, <1>4, <1>5, OthersKept
<1>7. \A b : Clashes(b)' <=> Clashes(b)
  BY DEF Clashes
<1>num. PICK n : n = w.number
  OBVIOUS
<1>8. PromiseGood(n)' /\ ~(n > backups)
  <2>1. ~(w.number > backups) /\ w.number \in 1..MaxBackups
    BY <1>1
  <2>2. CASE promised' = promised
    BY <1>1, <1>num, <2>1, <2>2 DEF PromiseGood
  <2>3. CASE /\ MakerAt(m, "measure") /\ archive' = archive
             /\ promised' = [promised EXCEPT ![w.number] =
                                [at |-> "archive", path |-> w.path, source |-> w.source]]
    <3>1. PICK r : r = promised'[w.number]
      OBVIOUS
    <3>2. r.path = w.path /\ r.source = w.source
      BY <2>1, <2>3, <3>1 DEF BackupsInv
    <3>3. ~Clashes(w.number) =>
              /\ archive[w.path].writers # {}
              /\ archive[w.path].whole /\ archive[w.path].of = w.source
      BY <2>3 DEF BackupsInv, MakerAlone
    <3> QED
      BY <1>1, <1>7, <1>num, <2>1, <2>3, <3>1, <3>2, <3>3 DEF PromiseGood
  <2> QED
    BY <2>1, <2>2, <2>3
<1>9. \A p \in Paths : archive'[p] = archive[p] \/ archive'[p] = NoArchive
  BY <1>1, <1>3 DEF BackupsInv
<1>10. \A p \in Paths : ArchiveGood(archive'[p])
  BY <1>9 DEF BackupsInv, ArchiveGood
<1>11. \A p \in Paths : \A b \in archive'[p].writers : named[b] = <<p.name, p.second>> /\ b \in 1..backups
  BY <1>9 DEF BackupsInv, NoArchive
<1> QED
  <2>1. \A b \in 1..MaxBackups : PromiseGood(b)' /\ (b > backups' => promised'[b] = NotPromised)
    BY <1>6, <1>8, <1>num
  <2>2. \A k \in Makers : MakerGood(k)' /\ MakerAlone(k)'
    BY <1>5, <1>6
  <2>3. DOMAIN archive' = Paths /\ DOMAIN promised' = 1..MaxBackups
    BY DEF BackupsInv
  <2> QED
    BY <1>10, <1>11, <2>1, <2>2, <2>3 DEF BackupsInv, ArchiveGood

LEMMA StartKeeps ==
    ASSUME BackupsInv, NEW m \in Makers, NEW s \in Sources, NEW place \in Places,
           StartBackup(m, s, place)
    PROVE  BackupsInv'
<1>1. PICK n : n = backups + 1
  OBVIOUS
<1>2. PICK path : path = PathOf(place, s)
  OBVIOUS
<1>3. PICK v : v = [step |-> "open", number |-> n, source |-> s, path |-> path]
  OBVIOUS
<1>4. /\ MakerAt(m, "idle") /\ backups < MaxBackups /\ backups' = n
      /\ named' = [named EXCEPT ![n] = <<path.name, path.second>>]
      /\ maker' = [maker EXCEPT ![m] = v]
      /\ UNCHANGED <<archive, second, promised>>
  BY <1>1, <1>2, <1>3 DEF StartBackup, PathOf
<1>5. /\ path \in Paths /\ n \in 1..MaxBackups /\ n > backups
      /\ backups \in Nat /\ MaxBackups \in Nat
  BY <1>1, <1>2, <1>4, BackupsAssumption DEF BackupsInv, PathOf, Paths
<1>6. maker'[m] = v /\ \A k \in Makers \ {m} : maker'[k] = maker[k]
  BY <1>4 DEF BackupsInv
<1>7. v \in MakerCall /\ v.number = n /\ v.path = path /\ v.step = "open"
  BY <1>3, <1>5 DEF MakerCall
<1>8. named'[n] = <<path.name, path.second>> /\ \A b \in 1..backups : named'[b] = named[b] /\ b # n
  BY <1>4, <1>5 DEF BackupsInv
<1>9. \A b \in 1..backups : Clashes(b) => Clashes(b)'
  BY <1>1, <1>4, <1>5, <1>8 DEF Clashes
<1>10. MakerGood(m)' /\ MakerAlone(m)'
  <2>1. \A k \in Makers : ~MakerAt(k, "idle")' /\ maker'[k].number = n => k = m
    <3> SUFFICES ASSUME NEW k \in Makers \ {m}, ~MakerAt(k, "idle"), maker[k].number = n
                 PROVE  FALSE
      BY <1>6 DEF MakerAt
    <3>1. maker[k].number \in 1..backups
      BY DEF BackupsInv, MakerGood
    <3> QED
      BY <1>8, <3>1
  <2>2. promised[n] = NotPromised
    BY <1>5 DEF BackupsInv
  <2> QED
    BY <1>1, <1>4, <1>5, <1>6, <1>7, <1>8, <2>1, <2>2 DEF MakerGood, MakerAlone, MakerAt
<1>11. ASSUME NEW k \in Makers \ {m}
       PROVE  MakerGood(k)' /\ MakerAlone(k)'
  <2>1. maker'[k] = maker[k]
    BY <1>6
  <2>2. CASE MakerAt(k, "idle")
    BY <2>1, <2>2 DEF MakerGood, MakerAlone, MakerAt
  <2>3. CASE ~MakerAt(k, "idle")
    <3>1. /\ maker[k] \in MakerCall /\ maker[k].number \in 1..backups
          /\ named[maker[k].number] = <<maker[k].path.name, maker[k].path.second>>
          /\ promised[maker[k].number] = NotPromised
          /\ \A l \in Makers : ~MakerAt(l, "idle") /\ maker[l].number = maker[k].number => l = k
      BY <2>3 DEF BackupsInv, MakerGood
    <3>2. \A l \in Makers : ~MakerAt(l, "idle")' /\ maker'[l].number = maker'[k].number => l = k
      BY <1>6, <1>7, <1>8, <2>1, <3>1 DEF MakerAt
    <3>3. maker[k].number \in 1..backups'
      BY <1>1, <1>4, <1>5, <3>1
    <3>4. MakerGood(k)'
      BY <1>4, <1>8, <2>1, <3>1, <3>2, <3>3 DEF MakerGood
    <3>5. PICK x : x = maker[k].number
      OBVIOUS
    <3>6. Clashes(x) => Clashes(x)'
      BY <1>9, <3>1, <3>5
    <3>7. MakerAlone(k)
      BY DEF BackupsInv
    <3>8. MakerAlone(k)'
      <4>1. Clashes(maker[k].number)' <=> Clashes(x)'
        BY <2>1, <3>5
      <4> QED
        BY <1>4, <2>1, <3>5, <3>6, <3>7 DEF MakerAlone, MakerAt
    <3> QED
      BY <3>4, <3>8
  <2> QED
    BY <2>2, <2>3
<1>12. ASSUME NEW b \in 1..MaxBackups
       PROVE  PromiseGood(b)' /\ (b > backups' => promised'[b] = NotPromised)
  <2>1. PromiseGood(b) /\ (b > backups => promised[b] = NotPromised)
    BY DEF BackupsInv
  <2>2. CASE promised[b] = NotPromised
    BY <1>4, <2>2 DEF PromiseGood
  <2>3. CASE promised[b] # NotPromised
    <3>1. b \in 1..backups
      BY <1>5, <2>1, <2>3
    <3> QED
      BY <1>1, <1>4, <1>5, <1>8, <1>9, <2>1, <2>3, <3>1 DEF PromiseGood
  <2> QED
    BY <2>2, <2>3
<1>13. \A p \in Paths : \A b \in archive[p].writers : named'[b] = <<p.name, p.second>> /\ b \in 1..backups'
  BY <1>1, <1>4, <1>5, <1>8 DEF BackupsInv
<1> QED
  BY <1>4, <1>5, <1>10, <1>11, <1>12, <1>13 DEF BackupsInv, ArchiveGood

LEMMA PackKeeps ==
    ASSUME BackupsInv, NEW m \in Makers, PackFiles(m)
    PROVE  BackupsInv'
<1>1. PICK w : w = maker[m]
  OBVIOUS
<1>2. /\ MakerAt(m, "pack") /\ ~MakerAt(m, "idle") /\ w \in MakerCall /\ w.path \in Paths
      /\ UNCHANGED <<second, backups, named, promised>>
  BY <1>1 DEF PackFiles, MakerAt, BackupsInv, MakerGood, MakerCall
<1>3. PICK r : r = archive[w.path]
  OBVIOUS
<1>4. ArchiveGood(r) /\ DOMAIN archive = Paths
  BY <1>2, <1>3 DEF BackupsInv
<1>5. ~Clashes(w.number) => r.writers = {w.number} /\ r.of = w.source
  BY <1>1, <1>2, <1>3 DEF BackupsInv, MakerAlone
<1>6. CASE archive' = archive /\ MakerTo(m, "clean")
  <2>1. archive'[maker[m].path] = r /\ DOMAIN archive' = Paths
    BY <1>1, <1>3, <1>4, <1>6
  <2> QED
    BY <1>1, <1>2, <1>3, <1>4, <1>6, <2>1, MakerGoesOn
<1>7. CASE archive' = archive /\ w.number \notin r.writers /\ MakerTo(m, "measure")
  <2>1. archive'[maker[m].path] = r /\ DOMAIN archive' = Paths
    BY <1>1, <1>3, <1>4, <1>7
  <2>2. Clashes(w.number)
    BY <1>5, <1>7
  <2> QED
    BY <1>1, <1>2, <1>3, <1>4, <1>7, <2>1, <2>2, MakerGoesOn
<1>8. ASSUME w.number \in r.writers, MakerTo(m, "measure"),
             NEW whole \in IF r.writers = {w.number} THEN {TRUE} ELSE BOOLEAN,
             archive' = [archive EXCEPT ![w.path].whole = whole, ![w.path].of = w.source]
      PROVE  BackupsInv'
  <2> DEFINE b == [r EXCEPT !.whole = whole]  a == [b EXCEPT !.of = w.source]
  <2>1. r \in [writers : SUBSET (1..MaxBackups), whole : BOOLEAN, of : Sources]
    BY <1>4, <1>8 DEF ArchiveGood, NoArchive
  <2>2. b \in [writers : SUBSET (1..MaxBackups), whole : BOOLEAN, of : Sources]
        /\ b.writers = r.writers /\ b.whole = whole
    BY <2>1
  <2>3. archive' = [archive EXCEPT ![w.path] = a]
    BY <1>2, <1>3, <1>8 DEF BackupsInv
  <2> HIDE DEF b
  <2>4. /\ a \in [writers : SUBSET (1..MaxBackups), whole : BOOLEAN, of : Sources]
        /\ a.writers = r.writers /\ a.whole = whole /\ a.of = w.source
    BY <1>2, <2>2 DEF MakerCall
  <2> HIDE DEF a
  <2>5. ArchiveGood(a)
    BY <2>4 DEF ArchiveGood
  <2>6. ~Clashes(w.number) => a.writers # {} /\ a.whole /\ a.of = w.source
    BY <1>5, <1>8, <2>4
  <2>7. /\ DOMAIN archive' = Paths /\ archive'[maker[m].path] = a
        /\ \A p \in Paths \ {maker[m].path} : archive'[p] = archive[p]
    BY <1>1, <1>2, <1>4, <2>3
  <2> QED
    BY <1>1, <1>2, <1>3, <1>8, <2>4, <2>5, <2>6, <2>7, MakerGoesOn
<1> QED
  BY <1>1, <1>3, <1>6, <1>7, <1>8 DEF PackFiles

LEMMA OpenKeeps ==
    ASSUME BackupsInv, NEW m \in Makers, OpenArchive(m)
    PROVE  BackupsInv'
<1>1. PICK w : w = maker[m]
  OBVIOUS
<1>2. /\ MakerAt(m, "open") /\ ~MakerAt(m, "idle") /\ w \in MakerCall /\ w.path \in Paths
      /\ w.number \in 1..MaxBackups
      /\ UNCHANGED <<second, backups, named, promised>>
  BY <1>1, BackupsAssumption DEF OpenArchive, MakerAt, BackupsInv, MakerGood, MakerCall
<1>3. PICK r : r = archive[w.path]
  OBVIOUS
<1>4. /\ ArchiveGood(r) /\ DOMAIN archive = Paths
      /\ \A b \in r.writers : b \in 1..backups /\ named[b] = <<w.path.name, w.path.second>>
  BY <1>2, <1>3 DEF BackupsInv
<1>5. CASE archive' = archive /\ MakerTo(m, "clean")
  <2>1. archive'[maker[m].path] = r /\ DOMAIN archive' = Paths
    BY <1>1, <1>3, <1>4, <1>5
  <2> QED
    BY <1>1, <1>2, <1>3, <1>4, <1>5, <2>1, MakerGoesOn
<1>6. ASSUME MakerTo(m, "pack"),
             archive' = [archive EXCEPT ![w.path] =
                 [writers |-> r.writers \cup {w.number}, whole |-> FALSE, of |-> w.source]]
      PROVE  BackupsInv'
  <2>1. PICK a : a = [writers |-> r.writers \cup {w.number}, whole |-> FALSE, of |-> w.source]
    OBVIOUS
  <2>2. a.writers = r.writers \cup {w.number} /\ a.of = w.source
    BY <2>1
  <2>3. r.writers \subseteq 1..MaxBackups /\ w.source \in Sources
    BY <1>2, <1>4 DEF ArchiveGood, NoArchive, MakerCall
  <2>4. ArchiveGood(a)
    BY <1>2, <2>1, <2>3 DEF ArchiveGood
  <2>5. /\ DOMAIN archive' = Paths /\ archive'[maker[m].path] = a
        /\ \A p \in Paths \ {maker[m].path} : archive'[p] = archive[p]
    BY <1>1, <1>2, <1>4, <1>6, <2>1
  <2>6. named[w.number] = <<w.path.name, w.path.second>>
    BY <1>1, <1>2 DEF BackupsInv, MakerGood
  <2>7. ~Clashes(w.number) => a.writers = {w.number} /\ a.of = w.source
    BY <1>4, <2>2, <2>6 DEF Clashes
  <2> QED
    BY <1>1, <1>2, <1>3, <1>6, <2>2, <2>4, <2>5, <2>7, MakerGoesOn
<1> QED
  BY <1>1, <1>3, <1>5, <1>6 DEF OpenArchive

LEMMA MeasureKeeps ==
    ASSUME BackupsInv, NEW m \in Makers, MeasureArchive(m)
    PROVE  BackupsInv'
<1>1. /\ MakerAt(m, "measure") /\ ~MakerAt(m, "idle")
      /\ UNCHANGED <<archive, second, backups, named>>
  BY DEF MeasureArchive, MakerAt
<1>2. CASE archive[maker[m].path] = NoArchive
  <2>1. PICK r : r = archive[maker[m].path]
    OBVIOUS
  <2>2. ArchiveGood(r) /\ DOMAIN archive' = Paths /\ archive'[maker[m].path] = r
    BY <1>1, <1>2, <2>1 DEF BackupsInv, ArchiveGood
  <2>3. MakerTo(m, "clean") /\ UNCHANGED promised
    BY <1>2 DEF MeasureArchive
  <2> QED
    BY <1>1, <2>1, <2>2, <2>3, MakerGoesOn
<1>3. CASE archive[maker[m].path] # NoArchive
  BY <1>1, <1>3, MakerEnds DEF MeasureArchive
<1> QED
  BY <1>2, <1>3

LEMMA BackupsStep == BackupsInv /\ [NextBackups]_backupVars => BackupsInv'
<1> SUFFICES ASSUME BackupsInv, [NextBackups]_backupVars
             PROVE  BackupsInv'
  OBVIOUS
<1>1. CASE UNCHANGED backupVars \/ SecondPasses
  <2>1. UNCHANGED <<maker, archive, backups, named, promised>> /\ second' \in 0..MaxSecond
    BY <1>1, BackupsAssumption DEF backupVars, SecondPasses, BackupsInv
  <2>2. \A b : Clashes(b)' <=> Clashes(b)
    BY <2>1 DEF Clashes
  <2>3. \A m \in Makers : MakerGood(m)' /\ MakerAlone(m)'
    <3> SUFFICES ASSUME NEW m \in Makers
                 PROVE  MakerGood(m)' /\ MakerAlone(m)'
      OBVIOUS
    <3>1. MakerGood(m) /\ MakerAlone(m)
      BY DEF BackupsInv
    <3>2. Clashes(maker[m].number)' <=> Clashes(maker[m].number)
      BY <2>1 DEF Clashes
    <3> QED
      BY <2>1, <3>1, <3>2 DEF MakerGood, MakerAlone, MakerAt
  <2>4. \A b \in 1..MaxBackups : PromiseGood(b)' /\ (b > backups => promised'[b] = NotPromised)
    BY <2>1, <2>2 DEF BackupsInv, PromiseGood
  <2> QED
    BY <2>1, <2>3, <2>4 DEF BackupsInv, ArchiveGood
<1>2. ASSUME NEW m \in Makers, NEW s \in Sources, NEW place \in Places, StartBackup(m, s, place)
      PROVE  BackupsInv'
  BY <1>2, StartKeeps
<1>3. ASSUME NEW m \in Makers, OpenArchive(m) \/ PackFiles(m) \/ MeasureArchive(m)
      PROVE  BackupsInv'
  BY <1>3, OpenKeeps, PackKeeps, MeasureKeeps
<1>4. ASSUME NEW m \in Makers, CleanArchive(m) \/ MakerDies(m)
      PROVE  BackupsInv'
  <2>1. ~MakerAt(m, "idle")
    BY <1>4 DEF CleanArchive, MakerDies, MakerAt
  <2> QED
    BY <1>4, <2>1, MakerEnds DEF CleanArchive, MakerDies
<1> QED
  BY <1>1, <1>2, <1>3, <1>4 DEF NextBackups

\* create_backup: a reported archive stays whole and of its source, and is
\* listed and verified, unless a source of that name began in its second, for
\* every number of processes, sources and backups.
THEOREM BackupsKept == SpecBackups => []BackupKept
<1>1. InitBackups => BackupsInv
  <2> SUFFICES ASSUME InitBackups
               PROVE  BackupsInv
    OBVIOUS
  <2>1. \A m \in Makers : MakerGood(m) /\ MakerAlone(m)
    BY DEF InitBackups, MakerGood, MakerAlone, MakerAt, Unmade
  <2> QED
    BY <2>1, BackupsAssumption DEF InitBackups, BackupsInv, ArchiveGood, NoArchive, PromiseGood
<1>2. BackupsInv => BackupKept
  <2> SUFFICES ASSUME BackupsInv, NEW b \in 1..backups, promised[b] # NotPromised, ~Clashes(b)
               PROVE  LET p == promised[b].path IN
                      /\ archive[p] # NoArchive
                      /\ archive[p].whole /\ archive[p].of = promised[b].source
                      /\ p.place = "isolated" => Listed(p) /\ Verified(p)
    BY DEF BackupKept
  <2>1. b \in 1..MaxBackups
    BY BackupsAssumption DEF BackupsInv
  <2> DEFINE a == archive[promised[b].path]
  <2>2. a.writers # {} /\ a.whole /\ a.of = promised[b].source
    BY <2>1 DEF BackupsInv, PromiseGood
  <2>3. a # NoArchive
    BY <2>2 DEF NoArchive
  <2> QED
    BY <2>2, <2>3 DEF Listed, Verified
<1> QED
  BY <1>1, <1>2, BackupsStep, PTL DEF SpecBackups

-----------------------------------------------------------------------------
(* Actions of HostActions: kill_process spares the protected processes,    *)
(* whenever pids are reused, and the audit log is truthful about actions   *)
(* that fail half-way.                                                     *)

Effects == {"signal"} \cup UNION {{Stages[k][i].does : i \in DOMAIN Stages[k]} : k \in Staged}

CallTypes ==
    [step : {"idle"}]
    \cup [step : {"stage", "find", "terminate", "wait", "kill", "audit", "append", "return"},
          kind : Kinds \cup {"kill_process"}, wanted : SUBSET Effects, pid : Pids \cup {0},
          number : Nat, stage : Nat, success : BOOLEAN, seen : Processes \cup {NoProcess},
          audit : Logs \cup {NotWritten}]

ActionsTypeOK ==
    /\ actor \in [Actors -> CallTypes]
    /\ process \in [Pids -> Processes \cup {NoProcess}]
    /\ calls \in Nat
    /\ \A c \in Actors : ActorAt(c, "find") => actor[c].pid \in Pids

\* What is about to be terminated was looked at, and is not protected.
SpareInv ==
    /\ ActionsTypeOK
    /\ \A c \in Actors : ActorAt(c, "terminate") => actor[c].seen \notin Protected
    /\ killed \cap Protected = {}

LEMMA WantedEffects ==
    ASSUME NEW k \in Staged, NEW w \in Wanted(k)
    PROVE  w \in SUBSET Effects
PROOF
  <1> DEFINE all == {Stages[k][i].does : i \in DOMAIN Stages[k]}
  <1>1. all \in SUBSET Effects
    BY DEF Effects
  <1>2. \/ w = all
        \/ k = "clean_docker_garbage" /\ \E x \in all : w = {x}
        \/ w = all \ {"package"}
    BY DEF Wanted
  <1> HIDE DEF all
  <1> QED
    BY <1>1, <1>2

LEMMA SpareInit == InitActions => SpareInv
PROOF
  BY DEF InitActions, SpareInv, ActionsTypeOK, CallTypes, ActorAt

\* A call that begins has looked at nothing yet.
LEMMA BeginSpares ==
    ASSUME SpareInv, NEW c \in Actors, NEW step \in {"stage", "find"},
           NEW kind \in Kinds, NEW wanted \in SUBSET Effects, NEW pid \in Pids \cup {0},
           step = "find" => pid \in Pids, Begin(c, step, kind, wanted, pid)
    PROVE  SpareInv'
PROOF
  <1> DEFINE begun == [step |-> step, kind |-> kind, wanted |-> wanted, pid |-> pid,
                       number |-> calls + 1, stage |-> 1, success |-> TRUE, seen |-> NoProcess,
                       audit |-> NotWritten]
  <1>1. begun \in CallTypes
    BY DEF CallTypes, SpareInv, ActionsTypeOK
  <1>2. /\ actor' = [actor EXCEPT ![c] = begun]
        /\ begun.step = step /\ begun.pid = pid
        /\ calls' = calls + 1 /\ UNCHANGED <<process, killed>>
    BY DEF Begin
  <1> HIDE DEF begun
  <1> QED
    BY <1>1, <1>2 DEF SpareInv, ActionsTypeOK, ActorAt

LEMMA SpareStep == SpareInv /\ [NextActions]_actionVars => SpareInv'
PROOF
  <1> SUFFICES ASSUME SpareInv, [NextActions]_actionVars
               PROVE  SpareInv'
    OBVIOUS
  <1> USE DEF SpareInv, ActionsTypeOK, ActorAt
  <1>1. ASSUME NEW i \in Pids, NEW next \in Processes \cup {NoProcess}, Replaced(i, next)
        PROVE  SpareInv'
    BY <1>1 DEF Replaced
  <1>2. ASSUME NEW c \in Actors, NEW kind \in Kinds \cap Staged, Act(c, kind)
        PROVE  SpareInv'
    <2>1. PICK wanted \in Wanted(kind) : Begin(c, "stage", kind, wanted, 0)
      BY <1>2 DEF Act
    <2>2. wanted \in SUBSET Effects
      BY WantedEffects
    <2> QED
      BY <2>1, <2>2, BeginSpares
  <1>3. ASSUME NEW c \in Actors, NEW i \in Pids, KillProcess(c, i)
        PROVE  SpareInv'
    <2>1. Begin(c, "find", "kill_process", {"signal"}, i)
      BY <1>3 DEF KillProcess
    <2>2. "kill_process" \in Kinds
      BY <2>1 DEF Begin
    <2>3. {"signal"} \in SUBSET Effects
      BY DEF Effects
    <2> QED
      BY <2>1, <2>2, <2>3, BeginSpares
  <1>4. ASSUME NEW c \in Actors, DoStage(c)
        PROVE  SpareInv'
    <2>1. PICK success \in BOOLEAN : Onward(c, success) \/ Reports(c, FALSE)
      BY <1>4 DEF DoStage, CallTypes
    <2>2. ActorAt(c, "stage") /\ UNCHANGED <<process, killed, calls>>
      BY <1>4 DEF DoStage
    <2> QED
      BY <2>1, <2>2 DEF Onward, Reports, CallTypes
  <1>5. ASSUME NEW c \in Actors, Find(c)
        PROVE  SpareInv'
    BY <1>5 DEF Find, Reports, CallTypes
  <1>6. ASSUME NEW c \in Actors, Terminate(c)
        PROVE  SpareInv'
    <2>1. killed' \cap Protected = {}
      BY <1>6 DEF Terminate, Same, Signal
    <2> QED
      BY <1>6, <2>1 DEF Terminate, Signal, Reports, ActorTo, CallTypes
  <1>7. ASSUME NEW c \in Actors, Wait(c)
        PROVE  SpareInv'
    BY <1>7 DEF Wait, Reports, ActorTo, CallTypes
  <1>8. ASSUME NEW c \in Actors, KillHard(c)
        PROVE  SpareInv'
    BY <1>8 DEF KillHard, Reports, CallTypes
  <1>9. ASSUME NEW c \in Actors, Audit(c)
        PROVE  SpareInv'
    BY <1>9 DEF Audit, Into, ActorTo, CallTypes, Logs
  <1>10. ASSUME NEW c \in Actors, AppendLine(c)
         PROVE  SpareInv'
    BY <1>10 DEF AppendLine, ActorTo, CallTypes
  <1>11. ASSUME NEW c \in Actors, Answer(c)
         PROVE  SpareInv'
    BY <1>11 DEF Answer, CallTypes
  <1>12. CASE UNCHANGED actionVars
    BY <1>12 DEF actionVars
  <1> QED
    BY <1>1, <1>2, <1>3, <1>4, <1>5, <1>6, <1>7, <1>8, <1>9, <1>10, <1>11, <1>12 DEF NextActions

\* A protected process is never sent a signal (kill_process of recover.py):
\* psutil's check of the process it found is all that a reused pid needs.
THEOREM ActionsProtectedSpared == SpecActions => []ProtectedSpared
PROOF
  <1>1. SpareInv => ProtectedSpared
    BY DEF SpareInv, ProtectedSpared
  <1> QED
    BY SpareInit, SpareStep, <1>1, PTL DEF SpecActions

-----------------------------------------------------------------------------
(* The audit log                                                           *)

\* A call under way, and the steps before its result is recorded.
Busy(c) == ~ActorAt(c, "idle")
Unrecorded(c) == Busy(c) /\ ~ActorAt(c, "return")

Event == [number : Nat, kind : Kinds \cup {"kill_process"}, wanted : SUBSET Effects,
          success : BOOLEAN]

LogsTypeOK ==
    /\ done \in [1..MaxCalls -> SUBSET Effects]
    /\ audit \in [Logs -> Seq(Event)]
    /\ writer \in [Logs -> Actors \cup {NoWriter}]
    /\ calls <= MaxCalls

\* Every call has a number of its own, and so has every event.
Numbered ==
    /\ \A c \in Actors : Busy(c) =>
          /\ actor[c].number \in 1..calls
          /\ \A e \in Actors : Busy(e) /\ actor[e].number = actor[c].number => e = c
    /\ \A f \in Logs : \A i \in 1..Len(audit[f]) : audit[f][i].number \in 1..calls
    /\ \A c \in Actors : Unrecorded(c) =>
          \A f \in Logs : \A i \in 1..Len(audit[f]) : audit[f][i].number # actor[c].number

\* The lock of a file is held by the one call that appends to it, which found room.
Locked ==
    /\ \A c \in Actors : ActorAt(c, "append") =>
          /\ actor[c].audit \in Logs
          /\ writer[actor[c].audit] = c
          /\ Len(audit[actor[c].audit]) < LogSize
    /\ \A f \in Logs : Len(audit[f]) <= LogSize
    /\ \A c \in Actors : Unrecorded(c) /\ ~ActorAt(c, "append") => actor[c].audit = NotWritten

\* A call that was told where its event is has it there.
Recorded ==
    \A c \in Actors : ActorAt(c, "return") /\ actor[c].audit # NotWritten =>
        /\ actor[c].audit \in Logs
        /\ \E i \in 1..Len(audit[actor[c].audit]) : audit[actor[c].audit][i] = EventOf(c)

\* A stage whose failure is not passed over in silence.
Counts(stage) == stage.fails # "skip" /\ stage.raises # "skip"

\* As long as a call is a success, its stages so far have done what they are for.
Honest(c) ==
    /\ ActorAt(c, "stage") =>
          /\ actor[c].kind \in Staged
          /\ actor[c].wanted \in Wanted(actor[c].kind)
          /\ actor[c].stage \in 1..Len(Stages[actor[c].kind])
          /\ actor[c].success =>
                \A i \in 1..(actor[c].stage - 1) :
                    LET stage == Stages[actor[c].kind][i] IN
                    stage.does \in actor[c].wanted /\ Counts(stage) =>
                        stage.does \in done[actor[c].number]
    /\ ActorAt(c, "find") \/ ActorAt(c, "terminate") => actor[c].kind = "kill_process"
    /\ ActorAt(c, "wait") \/ ActorAt(c, "kill") =>
          actor[c].kind = "kill_process" /\ "signal" \in done[actor[c].number]
    /\ ActorAt(c, "audit") \/ ActorAt(c, "append") =>
          (actor[c].success => Promised(EventOf(c)) \subseteq done[actor[c].number])

\* The events are true, and each is in the logs once.
EventsTrue ==
    /\ \A e \in Events : e.success => Promised(e) \subseteq done[e.number]
    /\ IsFiniteSet(Events)
    /\ Cardinality(Events) = Len(audit["primary"]) + Len(audit["fallback"])

AuditInv ==
    /\ SpareInv /\ LogsTypeOK
    /\ Numbered /\ Locked /\ Recorded /\ EventsTrue
    /\ \A c \in Actors : Honest(c)

-----------------------------------------------------------------------------
(* The stages of each kind                                                 *)

\* The table of stages, kind by kind.
LEMMA StageTable ==
    /\ Staged = {"clean_docker_cache", "clean_docker_garbage", "docker_container_action",
                 "compose_project_action", "clean_system_logs", "vacuum_systemd_journal",
                 "clean_package_cache", "apply_security_updates", "write_file_content",
                 "set_web_file_mode", "update_guardian"}
    /\ Stages["clean_docker_cache"] = CleanDockerCache
    /\ Stages["clean_docker_garbage"] = CleanDockerGarbage
    /\ Stages["docker_container_action"] = DockerContainerAction
    /\ Stages["compose_project_action"] = ComposeProjectAction
    /\ Stages["clean_system_logs"] = CleanSystemLogs
    /\ Stages["vacuum_systemd_journal"] = VacuumSystemdJournal
    /\ Stages["clean_package_cache"] = CleanPackageCache
    /\ Stages["apply_security_updates"] = ApplySecurityUpdates
    /\ Stages["write_file_content"] = WriteFileContent
    /\ Stages["set_web_file_mode"] = SetWebFileMode
    /\ Stages["update_guardian"] = UpdateGuardian
BY DEF Staged, Stages

LEMMA StageLengths ==
    /\ Len(CleanDockerCache) = 5 /\ DOMAIN CleanDockerCache = 1..5
    /\ Len(CleanDockerGarbage) = 4 /\ DOMAIN CleanDockerGarbage = 1..4
    /\ Len(DockerContainerAction) = 2 /\ DOMAIN DockerContainerAction = 1..2
    /\ Len(ComposeProjectAction) = 1 /\ DOMAIN ComposeProjectAction = 1..1
    /\ Len(CleanSystemLogs) = 2 /\ DOMAIN CleanSystemLogs = 1..2
    /\ Len(VacuumSystemdJournal) = 1 /\ DOMAIN VacuumSystemdJournal = 1..1
    /\ Len(CleanPackageCache) = 2 /\ DOMAIN CleanPackageCache = 1..2
    /\ Len(ApplySecurityUpdates) = 2 /\ DOMAIN ApplySecurityUpdates = 1..2
    /\ Len(WriteFileContent) = 2 /\ DOMAIN WriteFileContent = 1..2
    /\ Len(SetWebFileMode) = 2 /\ DOMAIN SetWebFileMode = 1..2
    /\ Len(UpdateGuardian) = 6 /\ DOMAIN UpdateGuardian = 1..6
BY DEF CleanDockerCache, CleanDockerGarbage, DockerContainerAction, ComposeProjectAction,
       CleanSystemLogs, VacuumSystemdJournal, CleanPackageCache, ApplySecurityUpdates,
       WriteFileContent, SetWebFileMode, UpdateGuardian

LEMMA StagesTyped ==
    ASSUME NEW k \in Staged
    PROVE  /\ Len(Stages[k]) \in Nat /\ Len(Stages[k]) > 0
           /\ DOMAIN Stages[k] = 1..Len(Stages[k])
           /\ \A i \in 1..Len(Stages[k]) : Stages[k][i].does \in Effects
<1>1. Len(Stages[k]) \in Nat /\ Len(Stages[k]) > 0 /\ DOMAIN Stages[k] = 1..Len(Stages[k])
  <2>1. CASE k = "clean_docker_cache"
    BY <2>1, StageTable, StageLengths
  <2>2. CASE k = "clean_docker_garbage"
    BY <2>2, StageTable, StageLengths
  <2>3. CASE k = "docker_container_action"
    BY <2>3, StageTable, StageLengths
  <2>4. CASE k = "compose_project_action"
    BY <2>4, StageTable, StageLengths
  <2>5. CASE k = "clean_system_logs"
    BY <2>5, StageTable, StageLengths
  <2>6. CASE k = "vacuum_systemd_journal"
    BY <2>6, StageTable, StageLengths
  <2>7. CASE k = "clean_package_cache"
    BY <2>7, StageTable, StageLengths
  <2>8. CASE k = "apply_security_updates"
    BY <2>8, StageTable, StageLengths
  <2>9. CASE k = "write_file_content"
    BY <2>9, StageTable, StageLengths
  <2>10. CASE k = "set_web_file_mode"
    BY <2>10, StageTable, StageLengths
  <2>11. CASE k = "update_guardian"
    BY <2>11, StageTable, StageLengths
  <2> QED
    BY <2>1, <2>2, <2>3, <2>4, <2>5, <2>6, <2>7, <2>8, <2>9, <2>10, <2>11, StageTable
<1>2. \A i \in DOMAIN Stages[k] : Stages[k][i].does \in Effects
  BY DEF Effects
<1> QED
  BY <1>1, <1>2

\* Which stages count, and what they do.
LEMMA StagesCount ==
    /\ CleanDockerCache[1].does = "containers" /\ Counts(CleanDockerCache[1])
    /\ CleanDockerCache[2].does = "networks" /\ Counts(CleanDockerCache[2])
    /\ CleanDockerCache[3].does = "images" /\ Counts(CleanDockerCache[3])
    /\ CleanDockerCache[4].does = "volumes" /\ Counts(CleanDockerCache[4])
    /\ \A i \in 1..4 : Counts(CleanDockerGarbage[i])
    /\ \A i \in 1..2 : Counts(DockerContainerAction[i])
    /\ \A i \in 1..1 : Counts(ComposeProjectAction[i])
    /\ VacuumSystemdJournal[1].does = "journal" /\ Counts(VacuumSystemdJournal[1])
    /\ ApplySecurityUpdates[2].does = "upgrade" /\ Counts(ApplySecurityUpdates[2])
    /\ \A i \in 1..2 : Counts(WriteFileContent[i])
    /\ \A i \in 1..2 : Counts(SetWebFileMode[i])
    /\ \A i \in 1..6 : UpdateGuardian[i].does \in {"before", "after"} \/ Counts(UpdateGuardian[i])
<1> USE DEF Counts, Must, Collected, Ignored, StageThat
<1>1. /\ CleanDockerCache[1].does = "containers" /\ Counts(CleanDockerCache[1])
      /\ CleanDockerCache[2].does = "networks" /\ Counts(CleanDockerCache[2])
      /\ CleanDockerCache[3].does = "images" /\ Counts(CleanDockerCache[3])
      /\ CleanDockerCache[4].does = "volumes" /\ Counts(CleanDockerCache[4])
  BY DEF CleanDockerCache
<1>2. \A i \in 1..4 : Counts(CleanDockerGarbage[i])
  BY DEF CleanDockerGarbage
<1>3. /\ \A i \in 1..2 : Counts(DockerContainerAction[i])
      /\ \A i \in 1..1 : Counts(ComposeProjectAction[i])
  BY DEF DockerContainerAction, ComposeProjectAction
<1>4. /\ VacuumSystemdJournal[1].does = "journal" /\ Counts(VacuumSystemdJournal[1])
      /\ ApplySecurityUpdates[2].does = "upgrade" /\ Counts(ApplySecurityUpdates[2])
  BY DEF VacuumSystemdJournal, ApplySecurityUpdates
<1>5. /\ \A i \in 1..2 : Counts(WriteFileContent[i])
      /\ \A i \in 1..2 : Counts(SetWebFileMode[i])
  BY DEF WriteFileContent, SetWebFileMode
<1>6. \A i \in 1..6 : UpdateGuardian[i].does \in {"before", "after"} \/ Counts(UpdateGuardian[i])
  BY DEF UpdateGuardian
<1> QED
  BY <1>1, <1>2, <1>3, <1>4, <1>5, <1>6

\* What a success promises is wanted, and is done by a stage that counts.
LEMMA PromisedStages ==
    ASSUME NEW k \in Staged, NEW w \in Wanted(k), NEW e, e.kind = k, e.wanted = w,
           NEW x \in Promised(e)
    PROVE  x \in w /\ \E i \in 1..Len(Stages[k]) : Stages[k][i].does = x /\ Counts(Stages[k][i])
<1> DEFINE all == {Stages[k][i].does : i \in DOMAIN Stages[k]}
<1>1. \/ w = all
      \/ k = "clean_docker_garbage" /\ w \subseteq all
      \/ k = "update_guardian" /\ w = all \ {"package"}
  BY DEF Wanted
<1>2. all = {Stages[k][i].does : i \in 1..Len(Stages[k])} /\ w \subseteq all
  BY <1>1, StagesTyped
<1>3. ASSUME NEW T, Stages[k] = T, NEW n \in Nat, Len(T) = n, x \in w, \A i \in 1..n : Counts(T[i])
      PROVE  \E i \in 1..Len(Stages[k]) : Stages[k][i].does = x /\ Counts(Stages[k][i])
  BY <1>2, <1>3
<1> HIDE DEF all
<1>4. CASE k = "clean_docker_cache"
  <2>1. x \in {"containers", "networks", "images", "volumes"}
    BY <1>4 DEF Promised
  <2>2. \E i \in 1..5 : CleanDockerCache[i].does = x /\ Counts(CleanDockerCache[i])
    BY <2>1, StagesCount
  <2>3. w = all
    BY <1>1, <1>4
  <2> QED
    BY <1>2, <1>4, <2>2, <2>3, StageTable, StageLengths
<1>5. CASE k = "clean_docker_garbage"
  BY <1>3, <1>5, StageTable, StageLengths, StagesCount DEF Promised
<1>6. CASE k = "docker_container_action"
  BY <1>3, <1>6, StageTable, StageLengths, StagesCount DEF Promised
<1>7. CASE k = "compose_project_action"
  <2>1. x \in w
    BY <1>7 DEF Promised
  <2>2. Stages[k] = ComposeProjectAction /\ Len(ComposeProjectAction) = 1
    BY <1>7, StageTable, StageLengths
  <2>3. \A i \in 1..1 : Counts(ComposeProjectAction[i])
    BY StagesCount
  <2> QED
    BY <1>3, <2>1, <2>2, <2>3
<1>8. CASE k = "clean_system_logs" \/ k = "clean_package_cache"
  BY <1>8 DEF Promised
<1>9. CASE k = "vacuum_systemd_journal"
  <2>1. x = "journal"
    BY <1>9 DEF Promised
  <2> QED
    BY <1>1, <1>2, <1>9, <2>1, StageTable, StageLengths, StagesCount
<1>10. CASE k = "apply_security_updates"
  <2>1. x = "upgrade"
    BY <1>10 DEF Promised
  <2> QED
    BY <1>1, <1>2, <1>10, <2>1, StageTable, StageLengths, StagesCount
<1>11. CASE k = "write_file_content"
  BY <1>3, <1>11, StageTable, StageLengths, StagesCount DEF Promised
<1>12. CASE k = "set_web_file_mode"
  BY <1>3, <1>12, StageTable, StageLengths, StagesCount DEF Promised
<1>13. CASE k = "update_guardian"
  <2>1. x \in w /\ x \notin {"before", "after"}
    BY <1>13 DEF Promised
  <2>2. PICK i \in 1..Len(Stages[k]) : Stages[k][i].does = x
    BY <1>2, <2>1
  <2> QED
    BY <1>13, <2>1, <2>2, StageTable, StageLengths, StagesCount
<1> QED
  BY <1>4, <1>5, <1>6, <1>7, <1>8, <1>9, <1>10, <1>11, <1>12, <1>13, StageTable

-----------------------------------------------------------------------------
(* The steps                                                               *)

LEMMA HonestKept ==
    ASSUME NEW e \in Actors, Honest(e), actor'[e] = actor[e],
           Busy(e) => done[actor[e].number] \subseteq done'[actor[e].number]
    PROVE  Honest(e)'
BY DEF Honest, Busy, ActorAt, EventOf, Promised, Wanted

\* A call goes on, and what it has done is not undone.
LEMMA ProgressKeeps ==
    ASSUME AuditInv, SpareInv', NEW c \in Actors, NEW w, Unrecorded(c), ~ActorAt(c, "append"),
           actor' = [actor EXCEPT ![c] = w], w.step \notin {"idle", "return", "append"},
           w.number = actor[c].number, w.audit = actor[c].audit,
           done' \in [1..MaxCalls -> SUBSET Effects],
           \A n \in 1..MaxCalls : done[n] \subseteq done'[n],
           UNCHANGED <<audit, writer, calls>>, Honest(c)'
    PROVE  AuditInv'
<1>1. actor'[c] = w /\ \A e \in Actors \ {c} : actor'[e] = actor[e]
  BY DEF AuditInv, SpareInv, ActionsTypeOK
<1>2. LogsTypeOK'
  BY DEF AuditInv, LogsTypeOK
<1>3. Numbered'
  BY <1>1 DEF AuditInv, Numbered, Busy, Unrecorded, ActorAt
<1>4. Locked'
  BY <1>1 DEF AuditInv, Locked, Busy, Unrecorded, ActorAt
<1>5. Recorded'
  BY <1>1 DEF AuditInv, Recorded, ActorAt, EventOf
<1>6. \A e \in Events : e.number \in 1..MaxCalls
  <2>1. \A f \in Logs : DOMAIN audit[f] = 1..Len(audit[f])
    BY DEF AuditInv, LogsTypeOK
  <2>2. calls \in Nat /\ calls <= MaxCalls /\ MaxCalls \in Nat
    BY ActionsAssumption DEF AuditInv, LogsTypeOK, SpareInv, ActionsTypeOK
  <2> QED
    BY <2>1, <2>2 DEF Events, AuditInv, Numbered
<1>7. EventsTrue'
  <2>1. Events' = Events
    BY DEF Events
  <2>2. \A e \in Events : e.success => Promised(e) \subseteq done'[e.number]
    BY <1>6 DEF AuditInv, EventsTrue
  <2> QED
    BY <2>1, <2>2 DEF AuditInv, EventsTrue, Promised
<1>8. \A e \in Actors : Honest(e)'
  <2> TAKE e \in Actors
  <2>1. CASE e = c
    BY <2>1
  <2>2. CASE e # c
    <3>1. actor'[e] = actor[e] /\ Honest(e)
      BY <1>1, <2>2 DEF AuditInv
    <3>2. Busy(e) => actor[e].number \in 1..MaxCalls
      <4>1. calls \in Nat /\ calls <= MaxCalls /\ MaxCalls \in Nat
        BY ActionsAssumption DEF AuditInv, LogsTypeOK, SpareInv, ActionsTypeOK
      <4> QED
        BY <4>1 DEF AuditInv, Numbered
    <3>3. Busy(e) => done[actor[e].number] \subseteq done'[actor[e].number]
      BY <3>2
    <3> QED
      BY <3>1, <3>3, HonestKept
  <2> QED
    BY <2>1, <2>2
<1> QED
  BY <1>2, <1>3, <1>4, <1>5, <1>7, <1>8 DEF AuditInv

LEMMA NumbersInRange ==
    ASSUME AuditInv, NEW c \in Actors, Busy(c)
    PROVE  actor[c].number \in 1..MaxCalls /\ actor[c] \in CallTypes
<1>1. calls \in Nat /\ calls <= MaxCalls /\ MaxCalls \in Nat
  BY ActionsAssumption DEF AuditInv, LogsTypeOK, SpareInv, ActionsTypeOK
<1> QED
  BY <1>1 DEF AuditInv, Numbered, SpareInv, ActionsTypeOK

\* A stage that counts has done what it is for, or the call is no success.
LEMMA DoStageKeeps ==
    ASSUME AuditInv, SpareInv', NEW c \in Actors, DoStage(c)
    PROVE  AuditInv'
<1> DEFINE w == actor[c]  n == w.number  k == w.kind  s == w.stage  L == Len(Stages[k])
           stage == Stages[k][s]
<1>1. /\ ActorAt(c, "stage") /\ UNCHANGED <<process, killed, audit, writer, calls>>
      /\ Busy(c) /\ Unrecorded(c) /\ ~ActorAt(c, "append")
  BY DEF DoStage, ActorAt, Busy, Unrecorded
<1>2. w \in CallTypes /\ n \in 1..MaxCalls
  BY <1>1, NumbersInRange
<1>3. /\ k \in Staged /\ w.wanted \in Wanted(k) /\ s \in 1..L
      /\ w.success => \A i \in 1..(s - 1) :
            Stages[k][i].does \in w.wanted /\ Counts(Stages[k][i]) => Stages[k][i].does \in done[n]
  BY <1>1 DEF AuditInv, Honest
<1>4. L \in Nat /\ stage.does \in Effects
  BY <1>3, StagesTyped
<1>5. PICK success \in BOOLEAN :
         /\ Onward(c, success) \/ (Reports(c, FALSE) /\ ~success)
         /\ UNCHANGED done \/ done' = [done EXCEPT ![n] = @ \cup {stage.does}]
         /\ success => w.success /\ (stage.does \in w.wanted /\ Counts(stage) => stage.does \in done'[n])
  <2>1. CASE Unneeded(c)
    <3>1. Onward(c, w.success) /\ UNCHANGED done /\ stage.does \notin w.wanted
      BY <2>1 DEF DoStage, Unneeded
    <3>2. w.success \in BOOLEAN
      BY <1>1, <1>2 DEF CallTypes, ActorAt
    <3> QED
      BY <3>1, <3>2
  <2>2. CASE ~Unneeded(c)
    <3>1. done \in [1..MaxCalls -> SUBSET Effects] /\ w.success \in BOOLEAN
      BY <1>1, <1>2 DEF AuditInv, LogsTypeOK, CallTypes, ActorAt
    <3>2. CASE Effect(c, stage.does) /\ Onward(c, w.success)
      <4>1. stage.does \in done'[n]
        BY <1>2, <3>1, <3>2 DEF Effect
      <4> QED
        BY <3>1, <3>2, <4>1 DEF Effect
    <3>3. ASSUME NEW how \in {"fails", "raises"},
                 Effect(c, stage.does) \/ UNCHANGED done,
                 CASE stage[how] = "skip" -> Onward(c, w.success)
                   [] stage[how] = "stop" -> Reports(c, FALSE)
                   [] OTHER -> Onward(c, FALSE)
          PROVE  \E success \in BOOLEAN :
                    /\ Onward(c, success) \/ (Reports(c, FALSE) /\ ~success)
                    /\ success => w.success /\ ~Counts(stage)
      <4>1. CASE stage[how] = "skip"
        BY <3>1, <3>3, <4>1 DEF Counts
      <4>2. CASE stage[how] # "skip"
        BY <3>3, <4>2
      <4> QED
        BY <4>1, <4>2
    <3> QED
      BY <2>2, <3>1, <3>2, <3>3 DEF DoStage, Effect
  <2> QED
    BY <2>1, <2>2
<1>6. /\ done' \in [1..MaxCalls -> SUBSET Effects]
      /\ \A m \in 1..MaxCalls : done[m] \subseteq done'[m]
  BY <1>2, <1>4, <1>5 DEF AuditInv, LogsTypeOK
<1>7. success => \A i \in 1..s :
         Stages[k][i].does \in w.wanted /\ Counts(Stages[k][i]) => Stages[k][i].does \in done'[n]
  <2> SUFFICES ASSUME success, NEW i \in 1..s, Stages[k][i].does \in w.wanted, Counts(Stages[k][i])
               PROVE  Stages[k][i].does \in done'[n]
    OBVIOUS
  <2>1. CASE i = s
    BY <1>5, <2>1
  <2>2. CASE i # s
    <3>1. i \in 1..(s - 1)
      BY <1>3, <1>4, <2>2
    <3> QED
      BY <1>2, <1>3, <1>5, <1>6, <3>1
  <2> QED
    BY <2>1, <2>2
<1> HIDE DEF stage
<1>8. CASE Onward(c, success) /\ s < L
  <2> DEFINE v == [w EXCEPT !.stage = s + 1, !.success = success]
  <2>1. actor' = [actor EXCEPT ![c] = v]
    BY <1>8 DEF Onward, AuditInv, SpareInv, ActionsTypeOK
  <2>2. /\ v.step = "stage" /\ v.number = n /\ v.audit = w.audit /\ v.kind = k
        /\ v.wanted = w.wanted /\ v.stage = s + 1 /\ v.success = success
    BY <1>1, <1>2 DEF CallTypes, ActorAt
  <2> HIDE DEF v
  <2>3. actor'[c] = v
    BY <2>1 DEF AuditInv, SpareInv, ActionsTypeOK
  <2>4. s + 1 \in 1..L /\ (s + 1) - 1 = s
    BY <1>3, <1>4, <1>8
  <2>5. Honest(c)'
    BY <1>3, <1>7, <2>2, <2>3, <2>4 DEF Honest, ActorAt, Wanted
  <2> QED
    BY <1>1, <1>6, <2>1, <2>2, <2>5, ProgressKeeps
<1>9. CASE Reports(c, FALSE) \/ (Reports(c, success) /\ s = L)
  <2>1. PICK b \in BOOLEAN : Reports(c, b) /\ (b => success /\ s = L)
    BY <1>9
  <2> DEFINE v == [w EXCEPT !.step = "audit", !.success = b]
  <2>2. actor' = [actor EXCEPT ![c] = v]
    BY <2>1 DEF Reports, AuditInv, SpareInv, ActionsTypeOK
  <2>3. /\ v.step = "audit" /\ v.number = n /\ v.audit = w.audit /\ v.kind = k
        /\ v.wanted = w.wanted /\ v.success = b
    BY <1>1, <1>2 DEF CallTypes, ActorAt
  <2> HIDE DEF v
  <2>4. actor'[c] = v
    BY <2>2 DEF AuditInv, SpareInv, ActionsTypeOK
  <2> DEFINE e == [number |-> n, kind |-> k, wanted |-> w.wanted, success |-> b]
  <2>5. EventOf(c)' = e /\ e.kind = k /\ e.wanted = w.wanted
    BY <2>3, <2>4 DEF EventOf
  <2> HIDE DEF e
  <2>6. b => Promised(e) \subseteq done'[n]
    <3> SUFFICES ASSUME b, NEW x \in Promised(e)
                 PROVE  x \in done'[n]
      OBVIOUS
    <3>1. x \in w.wanted /\ \E i \in 1..L : Stages[k][i].does = x /\ Counts(Stages[k][i])
      BY <1>3, <2>5, PromisedStages
    <3> QED
      BY <1>7, <2>1, <3>1
  <2>7. Promised(EventOf(c))' = Promised(e)
    BY <2>5 DEF Promised
  <2>8. Honest(c)'
    BY <2>3, <2>4, <2>6, <2>7 DEF Honest, ActorAt
  <2> QED
    BY <1>1, <1>6, <2>2, <2>3, <2>8, ProgressKeeps
<1> QED
  <2>1. s < L \/ s = L
    BY <1>3, <1>4
  <2>2. Onward(c, success) /\ s = L => Reports(c, success)
    BY <1>4 DEF Onward
  <2> HIDE DEF L, s
  <2> QED
    BY <2>1, <2>2, <1>5, <1>8, <1>9

\* The steps of kill_process: only a call that signalled reports a success.
LEMMA KillKeeps ==
    ASSUME AuditInv, SpareInv', NEW c \in Actors,
           Find(c) \/ Terminate(c) \/ Wait(c) \/ KillHard(c)
    PROVE  AuditInv'
<1> DEFINE w == actor[c]  n == w.number
<1>1. /\ UNCHANGED <<audit, writer, calls>>
      /\ Busy(c) /\ Unrecorded(c) /\ ~ActorAt(c, "append")
      /\ w.step \in {"find", "terminate", "wait", "kill"}
  BY DEF Find, Terminate, Wait, KillHard, ActorAt, Busy, Unrecorded
<1>2. w \in CallTypes /\ n \in 1..MaxCalls
  BY <1>1, NumbersInRange
<1>3. /\ w.kind = "kill_process"
      /\ ActorAt(c, "wait") \/ ActorAt(c, "kill") => "signal" \in done[n]
  BY <1>1 DEF AuditInv, Honest, ActorAt
<1>4. /\ done' \in [1..MaxCalls -> SUBSET Effects]
      /\ \A m \in 1..MaxCalls : done[m] \subseteq done'[m]
  <2>1. UNCHANGED done \/ done' = [done EXCEPT ![n] = @ \cup {"signal"}]
    BY DEF Find, Terminate, Wait, KillHard, Signal, Effect
  <2>2. "signal" \in Effects
    BY DEF Effects
  <2> QED
    BY <1>2, <2>1, <2>2 DEF AuditInv, LogsTypeOK
<1>5. ASSUME NEW v, actor' = [actor EXCEPT ![c] = v], v.number = n, v.audit = w.audit,
             v.kind = "kill_process",
             \/ v.step = "terminate"
             \/ v.step \in {"wait", "kill"} /\ "signal" \in done'[n]
             \/ v.step = "audit" /\ (v.success => "signal" \in done'[n])
      PROVE  AuditInv'
  <2>1. actor'[c] = v
    BY <1>5 DEF AuditInv, SpareInv, ActionsTypeOK
  <2>2. Promised(EventOf(c))' = {"signal"}
    BY <1>5, <2>1 DEF Promised, EventOf
  <2>3. Honest(c)'
    BY <1>5, <2>1, <2>2 DEF Honest, ActorAt
  <2> QED
    BY <1>1, <1>4, <1>5, <2>3, ProgressKeeps
<1>6. CASE \E success \in BOOLEAN : Reports(c, success) /\ (success => "signal" \in done'[n])
  <2>1. PICK success \in BOOLEAN : Reports(c, success) /\ (success => "signal" \in done'[n])
    BY <1>6
  <2> DEFINE v == [w EXCEPT !.step = "audit", !.success = success]
  <2>2. actor' = [actor EXCEPT ![c] = v]
    BY <2>1 DEF Reports, AuditInv, SpareInv, ActionsTypeOK
  <2>3. /\ v.number = n /\ v.audit = w.audit /\ v.kind = w.kind
        /\ v.step = "audit" /\ v.success = success
    BY <1>1, <1>2 DEF CallTypes
  <2> HIDE DEF v
  <2> QED
    BY <1>3, <1>5, <2>1, <2>2, <2>3
<1>7. CASE Find(c) /\ ~Reports(c, FALSE)
  <2> DEFINE v == [w EXCEPT !.step = "terminate", !.seen = process[w.pid]]
  <2>1. actor' = [actor EXCEPT ![c] = v]
    BY <1>7 DEF Find, AuditInv, SpareInv, ActionsTypeOK
  <2>2. v.step = "terminate" /\ v.number = n /\ v.audit = w.audit /\ v.kind = w.kind
    BY <1>1, <1>2 DEF CallTypes
  <2> HIDE DEF v
  <2> QED
    BY <1>3, <1>5, <2>1, <2>2
<1>8. CASE \E step \in {"wait", "kill"} : ActorTo(c, step) /\ "signal" \in done'[n]
  <2>1. PICK step \in {"wait", "kill"} : ActorTo(c, step) /\ "signal" \in done'[n]
    BY <1>8
  <2> DEFINE v == [w EXCEPT !.step = step]
  <2>2. actor' = [actor EXCEPT ![c] = v]
    BY <2>1 DEF ActorTo, AuditInv, SpareInv, ActionsTypeOK
  <2>3. v.step = step /\ v.number = n /\ v.audit = w.audit /\ v.kind = w.kind
    BY <1>1, <1>2 DEF CallTypes
  <2> HIDE DEF v
  <2> QED
    BY <1>3, <1>5, <2>1, <2>2, <2>3
<1>9. CASE Terminate(c)
  <2>1. CASE Same(c)
    <3>1. "signal" \in done'[n] /\ ActorTo(c, "wait")
      BY <1>2, <1>9, <2>1 DEF Terminate, Signal, Effect, AuditInv, LogsTypeOK
    <3> QED
      BY <1>8, <3>1
  <2>2. CASE ~Same(c)
    BY <1>6, <1>9, <2>2 DEF Terminate
  <2> QED
    BY <2>1, <2>2
<1>10. CASE Wait(c) \/ KillHard(c)
  <2>1. "signal" \in done'[n]
    BY <1>2, <1>3, <1>4, <1>10 DEF Wait, KillHard
  <2>2. ActorTo(c, "kill") \/ Reports(c, TRUE) \/ Reports(c, FALSE)
    BY <1>10 DEF Wait, KillHard
  <2> QED
    BY <1>6, <1>8, <2>1, <2>2
<1> QED
  BY <1>6, <1>7, <1>9, <1>10

\* Processes come and go.
LEMMA ReplacedKeeps ==
    ASSUME AuditInv, SpareInv', UNCHANGED <<actor, done, audit, writer, calls>>
    PROVE  AuditInv'
<1>1. LogsTypeOK'
  BY DEF AuditInv, LogsTypeOK
<1>2. Numbered' /\ Locked'
  BY DEF AuditInv, Numbered, Locked, Busy, Unrecorded, ActorAt
<1>3. Recorded'
  BY DEF AuditInv, Recorded, ActorAt, EventOf
<1>4. EventsTrue'
  BY DEF AuditInv, EventsTrue, Events, Promised
<1>5. \A e \in Actors : Honest(e)'
  BY HonestKept DEF AuditInv
<1> QED
  BY <1>1, <1>2, <1>3, <1>4, <1>5 DEF AuditInv

\* A call begins under a number nobody has had.
LEMMA BeginKeeps ==
    ASSUME AuditInv, SpareInv', NEW c \in Actors, NEW step \in {"stage", "find"}, NEW kind,
           NEW wanted, NEW pid, Begin(c, step, kind, wanted, pid),
           step = "stage" => kind \in Staged /\ wanted \in Wanted(kind),
           step = "find" => kind = "kill_process"
    PROVE  AuditInv'
<1> DEFINE v == [step |-> step, kind |-> kind, wanted |-> wanted, pid |-> pid,
                 number |-> calls + 1, stage |-> 1, success |-> TRUE, seen |-> NoProcess,
                 audit |-> NotWritten]
<1>1. /\ actor' = [actor EXCEPT ![c] = v] /\ ~Busy(c) /\ calls < MaxCalls /\ calls' = calls + 1
      /\ UNCHANGED <<done, process, killed, audit, writer>>
  BY DEF Begin, Busy
<1>2. /\ v.step = step /\ v.kind = kind /\ v.wanted = wanted /\ v.number = calls + 1
      /\ v.stage = 1 /\ v.audit = NotWritten
  OBVIOUS
<1> HIDE DEF v
<1>3. actor'[c] = v /\ \A e \in Actors \ {c} : actor'[e] = actor[e]
  BY <1>1 DEF AuditInv, SpareInv, ActionsTypeOK
<1>4. calls \in Nat /\ MaxCalls \in Nat
  BY ActionsAssumption DEF AuditInv, SpareInv, ActionsTypeOK
<1>5. LogsTypeOK'
  BY <1>1, <1>4 DEF AuditInv, LogsTypeOK
<1>6. Numbered'
  BY <1>1, <1>2, <1>3, <1>4 DEF AuditInv, Numbered, Busy, Unrecorded, ActorAt
<1>7. Locked' /\ Recorded'
  BY <1>1, <1>2, <1>3 DEF AuditInv, Locked, Recorded, Busy, Unrecorded, ActorAt, EventOf
<1>8. EventsTrue'
  BY <1>1 DEF AuditInv, EventsTrue, Events, Promised
<1>9. Honest(c)'
  <2>1. CASE step = "stage"
    <3>1. 1 \in 1..Len(Stages[kind]) /\ 1..(1 - 1) = {}
      BY <2>1, StagesTyped
    <3> QED
      BY <1>2, <1>3, <2>1, <3>1 DEF Honest, ActorAt, Wanted
  <2>2. CASE step = "find"
    BY <1>2, <1>3, <2>2 DEF Honest, ActorAt
  <2> QED
    BY <2>1, <2>2
<1>10. \A e \in Actors : Honest(e)'
  <2> TAKE e \in Actors
  <2>1. CASE e # c
    BY <1>1, <1>3, <2>1, HonestKept DEF AuditInv
  <2> QED
    BY <1>9, <2>1
<1> QED
  BY <1>5, <1>6, <1>7, <1>8, <1>10 DEF AuditInv

\* record_audit_event finds a file with room, or none.
LEMMA AuditKeeps ==
    ASSUME AuditInv, SpareInv', NEW c \in Actors, Audit(c)
    PROVE  AuditInv'
<1> DEFINE w == actor[c]
<1>1. /\ ActorAt(c, "audit") /\ UNCHANGED <<done, process, killed, audit, calls>>
      /\ Busy(c) /\ Unrecorded(c) /\ ~ActorAt(c, "append")
  BY DEF Audit, ActorAt, Busy, Unrecorded
<1>2. w \in CallTypes
  BY <1>1, NumbersInRange
<1>3. EventsTrue'
  BY <1>1 DEF AuditInv, EventsTrue, Events, Promised
<1>4. CASE \E f \in Logs : Usable(f) /\ Into(c, f)
  <2>1. PICK f \in Logs : Usable(f) /\ Into(c, f)
    BY <1>4
  <2> DEFINE v == [w EXCEPT !.step = "append", !.audit = f]
  <2>2. actor' = [actor EXCEPT ![c] = v] /\ writer' = [writer EXCEPT ![f] = c]
    BY <2>1 DEF Into, AuditInv, SpareInv, ActionsTypeOK
  <2>3. /\ v.step = "append" /\ v.audit = f /\ v.number = w.number /\ v.kind = w.kind
        /\ v.wanted = w.wanted /\ v.success = w.success
    BY <1>1, <1>2 DEF CallTypes, ActorAt
  <2> HIDE DEF v
  <2>4. actor'[c] = v /\ \A e \in Actors \ {c} : actor'[e] = actor[e]
    BY <2>2 DEF AuditInv, SpareInv, ActionsTypeOK
  <2>5. /\ writer' \in [Logs -> Actors \cup {NoWriter}]
        /\ writer'[f] = c /\ \A g \in Logs \ {f} : writer'[g] = writer[g]
    BY <2>2 DEF AuditInv, LogsTypeOK
  <2>6. LogsTypeOK'
    BY <1>1, <2>5 DEF AuditInv, LogsTypeOK
  <2>7. Numbered'
    BY <1>1, <2>3, <2>4 DEF AuditInv, Numbered, Busy, Unrecorded, ActorAt
  <2>8. Locked'
    <3>1. writer[f] = NoWriter /\ Len(audit[f]) < LogSize
      BY <2>1 DEF Usable
    <3>2. \A e \in Actors : ActorAt(e, "append") => actor[e].audit # f
      BY <3>1, ActionsAssumption DEF AuditInv, Locked
    <3> QED
      BY <1>1, <2>1, <2>3, <2>4, <2>5, <3>1, <3>2 DEF AuditInv, Locked, Busy, Unrecorded, ActorAt
  <2>9. Recorded'
    BY <1>1, <2>3, <2>4 DEF AuditInv, Recorded, ActorAt, EventOf
  <2>10. Honest(c)'
    <3>1. EventOf(c)' = EventOf(c)
      BY <2>3, <2>4 DEF EventOf
    <3>2. Promised(EventOf(c))' = Promised(EventOf(c))
      BY <3>1 DEF Promised
    <3>3. w.success => Promised(EventOf(c)) \subseteq done[w.number]
      BY <1>1 DEF AuditInv, Honest
    <3> QED
      BY <1>1, <2>3, <2>4, <3>2, <3>3 DEF Honest, ActorAt
  <2>11. \A e \in Actors : Honest(e)'
    BY <1>1, <2>4, <2>10, HonestKept DEF AuditInv
  <2> QED
    BY <1>3, <2>6, <2>7, <2>8, <2>9, <2>11 DEF AuditInv
<1>5. CASE ActorTo(c, "return") /\ UNCHANGED writer
  <2> DEFINE v == [w EXCEPT !.step = "return"]
  <2>1. actor' = [actor EXCEPT ![c] = v]
    BY <1>5 DEF ActorTo, AuditInv, SpareInv, ActionsTypeOK
  <2>2. v.step = "return" /\ v.audit = w.audit /\ v.number = w.number
    BY <1>1, <1>2 DEF CallTypes, ActorAt
  <2> HIDE DEF v
  <2>3. actor'[c] = v /\ \A e \in Actors \ {c} : actor'[e] = actor[e]
    BY <2>1 DEF AuditInv, SpareInv, ActionsTypeOK
  <2>4. w.audit = NotWritten
    BY <1>1 DEF AuditInv, Locked
  <2>5. LogsTypeOK'
    BY <1>1, <1>5 DEF AuditInv, LogsTypeOK
  <2>6. Numbered'
    BY <1>1, <2>2, <2>3 DEF AuditInv, Numbered, Busy, Unrecorded, ActorAt
  <2>7. Locked'
    BY <1>1, <1>5, <2>2, <2>3 DEF AuditInv, Locked, Busy, Unrecorded, ActorAt
  <2>8. Recorded'
    BY <1>1, <2>2, <2>3, <2>4 DEF AuditInv, Recorded, ActorAt, EventOf
  <2>9. Honest(c)'
    BY <2>2, <2>3 DEF Honest, ActorAt
  <2>10. \A e \in Actors : Honest(e)'
    BY <1>1, <2>3, <2>9, HonestKept DEF AuditInv
  <2> QED
    BY <1>3, <2>5, <2>6, <2>7, <2>8, <2>10 DEF AuditInv
<1> QED
  BY <1>4, <1>5 DEF Audit, Logs

\* The event is appended under the lock, with the number of its call.
LEMMA AppendKeeps ==
    ASSUME AuditInv, SpareInv', NEW c \in Actors, AppendLine(c)
    PROVE  AuditInv'
<1> DEFINE w == actor[c]  f == w.audit  ev == EventOf(c)
           v == [w EXCEPT !.step = "return"]
<1>1. /\ ActorAt(c, "append") /\ UNCHANGED <<done, process, killed, calls>>
      /\ Busy(c) /\ Unrecorded(c)
      /\ audit' = [audit EXCEPT ![f] = Append(@, ev)]
      /\ writer' = [writer EXCEPT ![f] = NoWriter]
  BY DEF AppendLine, ActorAt, Busy, Unrecorded
<1>2. w \in CallTypes /\ w.number \in 1..MaxCalls /\ w.number \in 1..calls
  BY <1>1, NumbersInRange DEF AuditInv, Numbered
<1>3. f \in Logs /\ writer[f] = c /\ Len(audit[f]) < LogSize
  BY <1>1 DEF AuditInv, Locked
<1>4. actor' = [actor EXCEPT ![c] = v]
  BY DEF AppendLine, ActorTo, AuditInv, SpareInv, ActionsTypeOK
<1>5. /\ v.step = "return" /\ v.audit = f /\ v.number = w.number /\ v.kind = w.kind
      /\ v.wanted = w.wanted /\ v.success = w.success
  BY <1>1, <1>2 DEF CallTypes, ActorAt
<1>6. ev \in Event /\ ev.number = w.number /\ ev.success = w.success
  BY <1>1, <1>2 DEF EventOf, Event, CallTypes, ActorAt
<1> HIDE DEF v
<1>7. actor'[c] = v /\ \A e \in Actors \ {c} : actor'[e] = actor[e]
  BY <1>4 DEF AuditInv, SpareInv, ActionsTypeOK
<1>8. EventOf(c)' = ev
  BY <1>5, <1>7 DEF EventOf
<1>9. LogSize \in Nat /\ calls \in Nat /\ \A g \in Logs : audit[g] \in Seq(Event)
  BY ActionsAssumption DEF AuditInv, LogsTypeOK, SpareInv, ActionsTypeOK
<1> HIDE DEF ev
<1>10. /\ audit' \in [Logs -> Seq(Event)]
       /\ \A g \in Logs \ {f} : audit'[g] = audit[g]
       /\ audit'[f] = Append(audit[f], ev)
  BY <1>1, <1>3, <1>6, <1>9 DEF AuditInv, LogsTypeOK
<1>11. /\ Len(audit'[f]) = Len(audit[f]) + 1
       /\ audit'[f][Len(audit[f]) + 1] = ev
       /\ \A i \in 1..Len(audit[f]) : audit'[f][i] = audit[f][i]
  BY <1>3, <1>6, <1>9, <1>10
<1>12. \A g \in Logs : Len(audit[g]) \in Nat
  BY <1>9
<1>13. LogsTypeOK'
  BY <1>1, <1>3, <1>10 DEF AuditInv, LogsTypeOK
<1>14. \A g \in Logs : \A i \in 1..Len(audit'[g]) :
          (i \in 1..Len(audit[g]) /\ audit'[g][i] = audit[g][i]) \/ (g = f /\ audit'[g][i] = ev)
  <2> SUFFICES ASSUME NEW g \in Logs, NEW i \in 1..Len(audit'[g])
               PROVE  \/ i \in 1..Len(audit[g]) /\ audit'[g][i] = audit[g][i]
                      \/ g = f /\ audit'[g][i] = ev
    OBVIOUS
  <2>1. CASE g # f
    <3>1. audit'[g] = audit[g]
      BY <1>10, <2>1
    <3> QED
      BY <3>1
  <2>2. CASE g = f
    <3>1. Len(audit[f]) \in Nat /\ i \in 1..(Len(audit[f]) + 1)
      BY <1>3, <1>11, <1>12, <2>2
    <3>2. i \in 1..Len(audit[f]) \/ i = Len(audit[f]) + 1
      BY <3>1
    <3> QED
      BY <1>11, <2>2, <3>2
  <2> QED
    BY <2>1, <2>2
<1>15. Numbered'
  <2>1. /\ \A e \in Actors : Busy(e)' => Busy(e) /\ actor'[e].number = actor[e].number
        /\ \A e \in Actors : Unrecorded(e)' => e # c /\ Unrecorded(e) /\ Busy(e)
    BY <1>1, <1>5, <1>7 DEF Busy, Unrecorded, ActorAt
  <2>2. \A e \in Actors : Unrecorded(e)' => actor[e].number # ev.number
    BY <1>1, <1>6, <2>1 DEF AuditInv, Numbered
  <2>3. \A e \in Actors : Busy(e)' =>
            /\ actor'[e].number \in 1..calls'
            /\ \A d \in Actors : Busy(d)' /\ actor'[d].number = actor'[e].number => d = e
    BY <1>1, <2>1 DEF AuditInv, Numbered
  <2>4. ASSUME NEW g \in Logs, NEW i \in 1..Len(audit'[g])
        PROVE  /\ audit'[g][i].number \in 1..calls'
               /\ \A e \in Actors : Unrecorded(e)' => audit'[g][i].number # actor'[e].number
    <3> DEFINE x == audit'[g][i]
    <3>0. /\ calls' = calls
          /\ \A e \in Actors : Unrecorded(e)' => Unrecorded(e) /\ actor'[e].number = actor[e].number
      BY <1>1, <1>7, <2>1
    <3>1. CASE i \in 1..Len(audit[g]) /\ x = audit[g][i]
      <4>1. /\ audit[g][i].number \in 1..calls
            /\ \A e \in Actors : Unrecorded(e) => audit[g][i].number # actor[e].number
        BY <3>1 DEF AuditInv, Numbered
      <4> HIDE DEF x
      <4>2. /\ x.number \in 1..calls'
            /\ \A e \in Actors : Unrecorded(e)' => x.number # actor'[e].number
        BY <3>0, <3>1, <4>1
      <4> QED
        BY <4>2 DEF x
    <3>2. CASE g = f /\ x = ev
      <4>1. ev.number \in 1..calls
        BY <1>2, <1>6
      <4> HIDE DEF x
      <4>2. /\ x.number \in 1..calls'
            /\ \A e \in Actors : Unrecorded(e)' => x.number # actor'[e].number
        BY <2>2, <3>0, <3>2, <4>1
      <4> QED
        BY <4>2 DEF x
    <3> QED
      BY <1>14, <2>4, <3>1, <3>2
  <2> QED
    BY <2>3, <2>4 DEF Numbered
<1>16. Locked'
  <2>1. \A e \in Actors : ActorAt(e, "append")' => e # c /\ ActorAt(e, "append") /\ actor[e].audit # f
    BY <1>3, <1>5, <1>7 DEF AuditInv, Locked, ActorAt
  <2>2. \A g \in Logs \ {f} : writer'[g] = writer[g]
    BY <1>1 DEF AuditInv, LogsTypeOK
  <2>3. \A e \in Actors : Unrecorded(e)' => e # c /\ Unrecorded(e)
    BY <1>5, <1>7 DEF Busy, Unrecorded, ActorAt
  <2>4. \A g \in Logs : Len(audit'[g]) <= LogSize
    BY <1>3, <1>9, <1>10, <1>11, <1>12 DEF AuditInv, Locked
  <2> QED
    BY <1>7, <1>10, <2>1, <2>2, <2>3, <2>4 DEF AuditInv, Locked, ActorAt
<1>kept. \A g \in Logs : \A i \in 1..Len(audit[g]) :
          i \in 1..Len(audit'[g]) /\ audit'[g][i] = audit[g][i]
  <2> SUFFICES ASSUME NEW g \in Logs, NEW i \in 1..Len(audit[g])
               PROVE  i \in 1..Len(audit'[g]) /\ audit'[g][i] = audit[g][i]
    OBVIOUS
  <2>1. CASE g # f
    BY <1>10, <2>1
  <2>2. CASE g = f
    <3>1. i \in 1..Len(audit[f]) /\ Len(audit[f]) \in Nat /\ Len(audit'[f]) = Len(audit[f]) + 1
      BY <1>3, <1>11, <1>12, <2>2
    <3>2. i \in 1..Len(audit'[f])
      BY <3>1
    <3> QED
      BY <1>11, <2>2, <3>1, <3>2
  <2> QED
    BY <2>1, <2>2
<1>17. Recorded'
  <2> SUFFICES ASSUME NEW e \in Actors, ActorAt(e, "return")', actor'[e].audit # NotWritten
               PROVE  /\ actor'[e].audit \in Logs
                      /\ \E i \in 1..Len(audit'[actor'[e].audit]) :
                            audit'[actor'[e].audit][i] = EventOf(e)'
    BY DEF Recorded
  <2>1. CASE e = c
    <3>1. Len(audit[f]) + 1 \in 1..Len(audit'[f])
      BY <1>3, <1>11, <1>12
    <3> QED
      BY <1>3, <1>5, <1>7, <1>8, <1>11, <2>1, <3>1
  <2>2. CASE e # c
    <3>1. actor'[e] = actor[e] /\ EventOf(e)' = EventOf(e) /\ ActorAt(e, "return")
      BY <1>7, <2>2 DEF EventOf, ActorAt
    <3> DEFINE g == actor[e].audit
    <3>2. g \in Logs /\ \E i \in 1..Len(audit[g]) : audit[g][i] = EventOf(e)
      BY <3>1 DEF AuditInv, Recorded
    <3>3. \A i \in 1..Len(audit[g]) : i \in 1..Len(audit'[g]) /\ audit'[g][i] = audit[g][i]
      BY <1>kept, <3>2
    <3> HIDE DEF g
    <3>4. PICK i \in 1..Len(audit[g]) : audit[g][i] = EventOf(e)
      BY <3>2
    <3>5. i \in 1..Len(audit'[g]) /\ audit'[g][i] = EventOf(e)
      BY <3>3, <3>4
    <3>6. actor'[e].audit = g
      BY <3>1 DEF g
    <3> QED
      BY <3>1, <3>2, <3>5, <3>6
  <2> QED
    BY <2>1, <2>2
<1>18. EventsTrue'
  <2>1. \A x : x \in Events <=> \E g \in Logs : \E i \in 1..Len(audit[g]) : x = audit[g][i]
    BY <1>9 DEF Events
  <2>2. \A x : x \in Events' <=> \E g \in Logs : \E i \in 1..Len(audit'[g]) : x = audit'[g][i]
    BY <1>10 DEF Events
  <2>3. \A g \in Logs : \A i \in 1..Len(audit[g]) : i \in 1..Len(audit'[g]) /\ audit'[g][i] = audit[g][i]
    BY <1>kept
  <2>4. Len(audit[f]) + 1 \in 1..Len(audit'[f])
    BY <1>3, <1>11, <1>12
  <2>5. \A x \in Events' : x \in Events \/ x = ev
    BY <1>14, <2>1, <2>2
  <2>6. \A x \in Events : x \in Events'
    BY <2>1, <2>2, <2>3
  <2>7. ev \in Events'
    BY <1>3, <1>11, <2>2, <2>4
  <2>8. Events' = Events \cup {ev}
    BY <2>5, <2>6, <2>7
  <2>9. ev \notin Events
    BY <1>1, <1>6, <2>1 DEF AuditInv, Numbered
  <2>10. IsFiniteSet(Events') /\ Cardinality(Events') = Cardinality(Events) + 1
    BY <2>8, <2>9, FS_AddElement DEF AuditInv, EventsTrue
  <2>11. Len(audit'["primary"]) + Len(audit'["fallback"])
            = Len(audit["primary"]) + Len(audit["fallback"]) + 1
    <3> DEFINE p == Len(audit["primary"])  q == Len(audit["fallback"])
               pn == Len(audit'["primary"])  qn == Len(audit'["fallback"])
    <3>1. p \in Nat /\ q \in Nat
      BY <1>12 DEF Logs
    <3>2. \/ pn = p + 1 /\ qn = q
          \/ qn = q + 1 /\ pn = p
      BY <1>3, <1>10, <1>11 DEF Logs
    <3> HIDE DEF p, q, pn, qn
    <3>3. pn + qn = p + q + 1
      BY <3>1, <3>2
    <3> QED
      BY <3>3 DEF p, q, pn, qn
  <2>12. ev.success => Promised(ev) \subseteq done[ev.number]
    BY <1>1, <1>6 DEF AuditInv, Honest, ev
  <2>13. \A e \in Events' : e.success => Promised(e) \subseteq done[e.number]
    BY <2>5, <2>12 DEF AuditInv, EventsTrue
  <2> QED
    BY <1>1, <2>10, <2>11, <2>13 DEF AuditInv, EventsTrue, Promised
<1>19. \A e \in Actors : Honest(e)'
  <2>1. Honest(c)'
    BY <1>5, <1>7 DEF Honest, ActorAt
  <2> QED
    BY <1>1, <1>7, <2>1, HonestKept DEF AuditInv
<1> QED
  BY <1>13, <1>15, <1>16, <1>17, <1>18, <1>19 DEF AuditInv

LEMMA AnswerKeeps ==
    ASSUME AuditInv, SpareInv', NEW c \in Actors, Answer(c)
    PROVE  AuditInv'
<1>1. /\ UNCHANGED <<done, process, killed, audit, writer, calls>>
      /\ actor' = [actor EXCEPT ![c] = [step |-> "idle"]]
  BY DEF Answer
<1>2. actor'[c] = [step |-> "idle"] /\ \A e \in Actors \ {c} : actor'[e] = actor[e]
  BY <1>1 DEF AuditInv, SpareInv, ActionsTypeOK
<1>3. LogsTypeOK'
  BY <1>1 DEF AuditInv, LogsTypeOK
<1>4. Numbered' /\ Locked'
  BY <1>1, <1>2 DEF AuditInv, Numbered, Locked, Busy, Unrecorded, ActorAt
<1>5. Recorded'
  BY <1>1, <1>2 DEF AuditInv, Recorded, ActorAt, EventOf
<1>6. EventsTrue'
  BY <1>1 DEF AuditInv, EventsTrue, Events, Promised
<1>7. Honest(c)'
  BY <1>2 DEF Honest, ActorAt
<1>8. \A e \in Actors : Honest(e)'
  BY <1>1, <1>2, <1>7, HonestKept DEF AuditInv
<1> QED
  BY <1>3, <1>4, <1>5, <1>6, <1>8 DEF AuditInv

LEMMA AuditInit == InitActions => AuditInv
<1> SUFFICES ASSUME InitActions
             PROVE  AuditInv
  OBVIOUS
<1>1. \A f \in Logs : audit[f] = <<>>
  BY DEF InitActions
<1>2. Events = {}
  BY <1>1 DEF Events
<1>3. LogsTypeOK
  <2>1. audit \in [Logs -> Seq(Event)]
    BY DEF InitActions
  <2> QED
    BY <2>1, ActionsAssumption DEF InitActions, LogsTypeOK
<1>4. Numbered /\ Locked /\ Recorded /\ \A c \in Actors : Honest(c)
  BY <1>1, ActionsAssumption
     DEF InitActions, Numbered, Locked, Recorded, Honest, Busy, Unrecorded, ActorAt
<1>5. EventsTrue
  <2>1. Len(audit["primary"]) = 0 /\ Len(audit["fallback"]) = 0
    BY <1>1 DEF Logs
  <2>2. IsFiniteSet(Events) /\ Cardinality(Events) = 0
    BY <1>2, FS_EmptySet
  <2>3. \A e \in Events : e.success => Promised(e) \subseteq done[e.number]
    BY <1>2
  <2>4. Cardinality(Events) = Len(audit["primary"]) + Len(audit["fallback"])
    BY <2>1, <2>2
  <2> QED
    BY <2>2, <2>3, <2>4 DEF EventsTrue
<1> QED
  BY <1>3, <1>4, <1>5, SpareInit DEF AuditInv

LEMMA AuditStep == AuditInv /\ [NextActions]_actionVars => AuditInv'
<1> SUFFICES ASSUME AuditInv, [NextActions]_actionVars
             PROVE  AuditInv'
  OBVIOUS
<1>1. SpareInv'
  BY SpareStep DEF AuditInv
<1>2. ASSUME NEW i \in Pids, NEW next \in Processes \cup {NoProcess}, Replaced(i, next)
      PROVE  AuditInv'
  BY <1>1, <1>2, ReplacedKeeps DEF Replaced
<1>3. ASSUME NEW c \in Actors, NEW kind \in Kinds \cap Staged, Act(c, kind)
      PROVE  AuditInv'
  <2>1. PICK wanted \in Wanted(kind) : Begin(c, "stage", kind, wanted, 0)
    BY <1>3 DEF Act
  <2> QED
    BY <1>1, <2>1, BeginKeeps
<1>4. ASSUME NEW c \in Actors, NEW i \in Pids, KillProcess(c, i)
      PROVE  AuditInv'
  <2>1. Begin(c, "find", "kill_process", {"signal"}, i)
    BY <1>4 DEF KillProcess
  <2> QED
    BY <1>1, <2>1, BeginKeeps
<1>5. ASSUME NEW c \in Actors, DoStage(c) \/ Find(c) \/ Terminate(c) \/ Wait(c) \/ KillHard(c)
      PROVE  AuditInv'
  BY <1>1, <1>5, DoStageKeeps, KillKeeps
<1>6. ASSUME NEW c \in Actors, Audit(c) \/ AppendLine(c) \/ Answer(c)
      PROVE  AuditInv'
  BY <1>1, <1>6, AuditKeeps, AppendKeeps, AnswerKeeps
<1>7. CASE UNCHANGED actionVars
  BY <1>1, <1>7, ReplacedKeeps DEF actionVars
<1> QED
  BY <1>2, <1>3, <1>4, <1>5, <1>6, <1>7 DEF NextActions

\* The audit log tells the truth about any action of any stages, however they
\* fail and however many processes share its files: an event that says success
\* stands for all it promised (the handlers of recover.py, docker_manager.py,
\* compose.py and files.py), and an event that was reported as written is there
\* once (record_audit_event of safety.py).
THEOREM ActionsAuditIsTruthful == SpecActions => []AuditIsTruthful
<1>1. AuditInv => AuditIsTruthful
  <2> SUFFICES ASSUME AuditInv
               PROVE  AuditIsTruthful
    OBVIOUS
  <2>1. \A f \in Logs : DOMAIN audit[f] = 1..Len(audit[f])
    BY DEF AuditInv, LogsTypeOK
  <2>2. \A c \in Actors : ActorAt(c, "return") /\ actor[c].audit # NotWritten =>
           \E i \in DOMAIN audit[actor[c].audit] : audit[actor[c].audit][i] = EventOf(c)
    BY <2>1 DEF AuditInv, Recorded
  <2> QED
    BY <2>2 DEF AuditInv, EventsTrue, Locked, AuditIsTruthful
<1> QED
  BY AuditInit, AuditStep, <1>1, PTL DEF SpecActions
=============================================================================
