-------------------------- MODULE ChangeSetsProofs --------------------------
(***************************************************************************)
(* Proofs about change sets, for any number of processes, sets, files,     *)
(* contents and tokens, any capacity, budgets and modes.                   *)
(***************************************************************************)
EXTENDS ChangeSets, SequenceTheorems, TLAPS

-----------------------------------------------------------------------------
(* Plans                                                                   *)

\* No file is staged twice, and a baseline is what was read, or its absence.
PlanSound(plan) ==
    /\ \A i, j \in 1..Len(plan) : plan[i].path = plan[j].path => i = j
    /\ \A i \in 1..Len(plan) :
           plan[i].baseline = IF plan[i].existed THEN plan[i].original ELSE Absent

LEMMA EmptyPlan == <<>> \in Seq(Entry) /\ PlanSound(<<>>) /\ Len(<<>>) = 0
BY EmptySeq DEF PlanSound

\* Without the entry of its path a plan stays a plan.
LEMMA WithoutSound ==
    ASSUME NEW plan \in Seq(Entry), PlanSound(plan), NEW f
    PROVE  /\ Without(plan, f) \in Seq(Entry) /\ PlanSound(Without(plan, f))
           /\ \A j \in 1..Len(Without(plan, f)) : Without(plan, f)[j].path # f
<1>1. CASE \E i \in 1..Len(plan) : plan[i].path = f
  <2>1. PICK i \in 1..Len(plan) : i = CHOOSE k \in 1..Len(plan) : plan[k].path = f
    BY <1>1
  <2>2. plan[i].path = f
    BY <1>1, <2>1
  <2>3. PICK n \in Nat : n = Len(plan)
    BY LenProperties
  <2>4. i \in 1..n /\ \A k \in 1..n : plan[k] \in Entry
    BY <2>1, <2>3, ElementOfSeq
  <2>5. PICK a, b : a = SubSeq(plan, 1, i - 1) /\ b = SubSeq(plan, i + 1, n)
    OBVIOUS
  <2>6. /\ a \in Seq(Entry) /\ Len(a) = i - 1
        /\ \A k \in 1..(i - 1) : a[k] = plan[k]
    <3>1. i - 1 \in Int /\ \A k \in 1..(i - 1) : plan[k] \in Entry
      BY <2>4
    <3>2. /\ a \in Seq(Entry) /\ Len(a) = IF 1 <= i - 1 THEN (i - 1) - 1 + 1 ELSE 0
          /\ \A k \in 1..((i - 1) - 1 + 1) : a[k] = plan[1 + k - 1]
      BY <2>5, <3>1, SubSeqProperties
    <3> QED BY <2>4, <3>2
  <2>7. /\ b \in Seq(Entry) /\ Len(b) = n - i
        /\ \A k \in 1..(n - i) : b[k] = plan[k + i]
    <3>1. i + 1 \in Int /\ n \in Int /\ \A k \in (i + 1)..n : plan[k] \in Entry
      BY <2>4
    <3>2. /\ b \in Seq(Entry) /\ Len(b) = IF i + 1 <= n THEN n - (i + 1) + 1 ELSE 0
          /\ \A k \in 1..(n - (i + 1) + 1) : b[k] = plan[(i + 1) + k - 1]
      BY <2>5, <3>1, SubSeqProperties
    <3> QED BY <2>4, <3>2
  <2>8. PICK c : c = Without(plan, f)
    OBVIOUS
  <2>9. c = a \o b
    BY <1>1, <2>1, <2>3, <2>5, <2>8 DEF Without
  <2>10. c \in Seq(Entry) /\ Len(c) = n - 1
    <3>1. c \in Seq(Entry) /\ Len(c) = Len(a) + Len(b)
      BY <2>6, <2>7, <2>9, ConcatProperties
    <3>2. (i - 1) + (n - i) = n - 1
      BY <2>4
    <3> QED BY <2>6, <2>7, <3>1, <3>2
  <2>11. \A k \in 1..(n - 1) : c[k] = IF k < i THEN plan[k] ELSE plan[k + 1]
    <3>1. \A k \in 1..(n - 1) : c[k] = IF k <= i - 1 THEN a[k] ELSE b[k - (i - 1)]
      BY <2>4, <2>6, <2>7, <2>9, ConcatProperties
    <3> QED BY <2>4, <2>6, <2>7, <3>1
  <2>12. \A k \in 1..(n - 1) : \E m \in 1..n : /\ m # i /\ c[k] = plan[m]
                                               /\ m = IF k < i THEN k ELSE k + 1
    BY <2>4, <2>11
  <2>13. \A j, k \in 1..(n - 1) : c[j].path = c[k].path => j = k
    <3> SUFFICES ASSUME NEW j \in 1..(n - 1), NEW k \in 1..(n - 1), c[j].path = c[k].path
                 PROVE  j = k
      OBVIOUS
    <3>1. PICK m \in 1..n : m # i /\ c[j] = plan[m] /\ m = IF j < i THEN j ELSE j + 1
      BY <2>12
    <3>2. PICK l \in 1..n : l # i /\ c[k] = plan[l] /\ l = IF k < i THEN k ELSE k + 1
      BY <2>12
    <3>3. m = l
      BY <2>3, <3>1, <3>2 DEF PlanSound
    <3> QED BY <2>4, <3>1, <3>2, <3>3
  <2>14. \A k \in 1..(n - 1) :
            /\ c[k].path # f
            /\ c[k].baseline = IF c[k].existed THEN c[k].original ELSE Absent
    <3> SUFFICES ASSUME NEW k \in 1..(n - 1)
                 PROVE  /\ c[k].path # f
                        /\ c[k].baseline = IF c[k].existed THEN c[k].original ELSE Absent
      OBVIOUS
    <3>1. PICK m \in 1..n : m # i /\ c[k] = plan[m]
      BY <2>12
    <3> QED BY <2>2, <2>3, <2>4, <3>1 DEF PlanSound
  <2> QED BY <2>8, <2>10, <2>13, <2>14 DEF PlanSound
<1>2. CASE ~ \E i \in 1..Len(plan) : plan[i].path = f
  BY <1>2 DEF Without
<1> QED BY <1>1, <1>2

LEMMA AppendSound ==
    ASSUME NEW plan \in Seq(Entry), PlanSound(plan), NEW e \in Entry,
           e.baseline = IF e.existed THEN e.original ELSE Absent,
           \A j \in 1..Len(plan) : plan[j].path # e.path
    PROVE  Append(plan, e) \in Seq(Entry) /\ PlanSound(Append(plan, e))
<1>1. PICK n \in Nat : n = Len(plan)
  BY LenProperties
<1>2. PICK c : c = Append(plan, e)
  OBVIOUS
<1>3. /\ c \in Seq(Entry) /\ Len(c) = n + 1 /\ c[n + 1] = e
      /\ \A i \in 1..n : c[i] = plan[i]
  BY <1>1, <1>2, AppendProperties
<1>4. \A i \in 1..(n + 1) : i \in 1..n \/ i = n + 1
  BY <1>1
<1>5. \A i, j \in 1..(n + 1) : c[i].path = c[j].path => i = j
  BY <1>1, <1>3, <1>4 DEF PlanSound
<1>6. \A i \in 1..(n + 1) : c[i].baseline = IF c[i].existed THEN c[i].original ELSE Absent
  BY <1>1, <1>3, <1>4 DEF PlanSound
<1> QED BY <1>2, <1>3, <1>5, <1>6 DEF PlanSound

-----------------------------------------------------------------------------
(* The inductive invariant                                                 *)

\* How far an apply has come, and what it made nginx load.
ProgressSound(p) ==
    LET w == work[p]  n == Len(w.plan) IN
    /\ w.phase = "write" => w.next \in 1..n /\ touched[p] = 1..(w.next - 1)
    /\ w.phase \in {"write", "validate", "reload", "health"} => w.restored
    /\ w.phase \in {"validate", "reload", "health"} \/ w.ok => touched[p] = 1..n
    /\ w.phase = "undo" => w.next <= n
    /\ w.ok => w.phase = "report"
    /\ w.phase \in {"none", "write", "validate", "reload"} => loaded[p] = {}
    /\ w.phase = "reload" /\ moved[p] = {} => Valid(disk)
    /\ w.phase = "health" \/ w.ok => (moved[p] = {} => "new" \in loaded[p])
    /\ "mixed" \in loaded[p] =>
          w.phase = "report" /\ ~w.ok /\ (w.restored => \E i \in 1..n : w.plan[i].original \in Binary)

\* What stands in the file of the i-th entry of the apply of p.
Placed(p, i) ==
    LET w == work[p]  e == w.plan[i]  content == disk[e.path] IN
    /\ w.phase = "write" => content = IF i < w.next THEN e.cand ELSE e.baseline
    /\ w.phase \in {"validate", "reload", "health"} \/ w.ok => content = e.cand
    /\ w.phase = "undo" /\ i <= w.next => content \in {e.cand, e.baseline}
    /\ w.phase = "undo" /\ i > w.next /\ w.restored => content = Undone(e)
    /\ w.phase = "report" /\ ~w.ok /\ w.restored => content = Undone(e)

FilesSound(p) ==
    \A i \in 1..Len(work[p].plan) : work[p].plan[i].path \in moved[p] \/ Placed(p, i)

\* The apply of p works off the plan p was claimed with.
ApplySound(p) ==
    work[p].phase # "none" =>
        /\ rows[p].state \in {"applying", "uncertain"}
        /\ work[p].plan = claim[p].plan /\ work[p].plan # <<>>
        /\ FilesSound(p)

\* The record of p agrees with what was claimed and written.
RecordSound(p) ==
    LET cl == claim[p] IN
    /\ PlanSound(rows[p].files) /\ PlanSound(cl.plan)
    /\ rows[p].state \in {"absent", "staging", "expired"} => cl = NoClaim
    /\ rows[p].state = "completed" => touched[p] = 1..Len(cl.plan) /\ cl.plan # <<>>
    /\ touched[p] \subseteq 1..Len(cl.plan)

\* A claim was let through unrestricted, or by a used token for its very plan.
ClaimSound(p) ==
    LET cl == claim[p] IN
    IF cl.mode = "controlled"
    THEN cl.token \in redeemed /\ grant[cl.token] = Demand(p, cl.plan)
    ELSE cl.token = NoToken

SetSound(p) == ProgressSound(p) /\ ApplySound(p) /\ RecordSound(p) /\ ClaimSound(p)

\* Tokens: a remembered one was issued and has not been used.
TokensSound ==
    /\ \A s \in Servers : \A t \in live[s] : grant[t] # NoDemand /\ t \notin redeemed
    /\ \A s, r \in Servers : s # r => live[s] \cap live[r] = {}
    /\ \A t \in redeemed : grant[t] # NoDemand

ChangesInv ==
    /\ TypeOK
    /\ TokensSound
    /\ \A p \in Sets : SetSound(p)

-----------------------------------------------------------------------------
(* The gate                                                                *)

\* What every step leaves of the tokens that were used.
UsedTokensStay == redeemed \subseteq redeemed' /\ \A t \in redeemed : grant'[t] = grant[t]

LEMMA GateStep ==
    ASSUME TypeOK, TokensSound, NEW s \in Servers, NEW t \in Tokens, NEW d \in Demands, NEW lost,
           Gate!Issue(s, t, d, lost) \/ Gate!Redeem(s, t, d, lost) \/ Gate!Lose(s, lost)
    PROVE  Gate!GrantsTypeOK' /\ TokensSound' /\ UsedTokensStay
<1>1. d # NoDemand
  BY DEF Demands, NoDemand
<1>2. CASE Gate!Issue(s, t, d, lost)
  BY <1>1, <1>2 DEF Gate!Issue, TokensSound, TypeOK, Gate!GrantsTypeOK, UsedTokensStay
<1>3. CASE Gate!Redeem(s, t, d, lost)
  BY <1>3 DEF Gate!Redeem, TokensSound, TypeOK, Gate!GrantsTypeOK, UsedTokensStay
<1>4. CASE Gate!Lose(s, lost)
  BY <1>4 DEF Gate!Lose, TokensSound, TypeOK, Gate!GrantsTypeOK, UsedTokensStay
<1> QED BY <1>2, <1>3, <1>4

LEMMA LoseStep ==
    ASSUME TypeOK, TokensSound, NEW s \in Servers, NEW lost, Gate!Lose(s, lost)
    PROVE  Gate!GrantsTypeOK' /\ TokensSound' /\ UsedTokensStay
BY DEF Gate!Lose, TokensSound, TypeOK, Gate!GrantsTypeOK, UsedTokensStay

LEMMA NoGateStep ==
    ASSUME TypeOK, TokensSound, UNCHANGED gateVars
    PROVE  Gate!GrantsTypeOK' /\ TokensSound' /\ UsedTokensStay
BY DEF gateVars, TokensSound, TypeOK, Gate!GrantsTypeOK, UsedTokensStay

LEMMA DemandType ==
    ASSUME NEW p \in Sets, NEW plan \in Seq(Entry)
    PROVE  Demand(p, plan) \in Demands
<1>1. \A i \in 1..Len(plan) : i \in Nat /\ plan[i] \in Entry
  BY ElementOfSeq, LenProperties
<1>2. \A e \in Entry : Reviewed(e) \in Files \X (Contents \cup {Absent}) \X Candidates
  BY DEF Entry, Reviewed
<1>3. {<<i, Reviewed(plan[i])>> : i \in 1..Len(plan)}
        \in SUBSET (Nat \X (Files \X (Contents \cup {Absent}) \X Candidates))
  BY <1>1, <1>2
<1> QED BY <1>3 DEF Demand, Demands

LEMMA ClaimStays ==
    ASSUME TypeOK, UsedTokensStay, NEW p \in Sets, ClaimSound(p), claim'[p] = claim[p]
    PROVE  ClaimSound(p)'
BY DEF ClaimSound, UsedTokensStay, TypeOK, Gate!GrantsTypeOK, Demand

-----------------------------------------------------------------------------
(* The store                                                               *)

LEMMA NoRowType ==
    \A state \in States : /\ [NoRow EXCEPT !.state = state] \in Row
                          /\ [NoRow EXCEPT !.state = state].files = <<>>
                          /\ [NoRow EXCEPT !.state = state].state = state
BY EmptySeq DEF NoRow, Row

\* What a sweep may do to a record.
LEMMA SweptRow ==
    ASSUME TypeOK, NEW p \in Sets, PlanSound(rows[p].files)
    PROVE  /\ Cleaned[p] \in Row /\ PlanSound(Cleaned[p].files)
           /\ \/ Cleaned[p] = rows[p]
              \/ rows[p].state = "staging" /\ Cleaned[p].state = "expired"
              \/ rows[p].state = "applying" /\ Cleaned[p].state = "uncertain"
<1>1. PICK r : r = rows[p]
  OBVIOUS
<1>2. r \in Row /\ Cleaned[p] = Swept(r)
  BY <1>1 DEF TypeOK, Cleaned
<1>3. CASE Stored(r) /\ r.due
  <2>1. PICK state : state = IF r.state = "applying" THEN "uncertain" ELSE "expired"
    OBVIOUS
  <2>2. Swept(r) = [NoRow EXCEPT !.state = state] /\ state \in States
    BY <1>3, <2>1 DEF Swept, States
  <2>3. Swept(r) \in Row /\ Swept(r).files = <<>> /\ Swept(r).state = state
    BY <2>2, NoRowType
  <2> QED BY <1>1, <1>2, <1>3, <2>1, <2>3, EmptyPlan DEF Stored
<1>4. CASE ~(Stored(r) /\ r.due)
  BY <1>1, <1>2, <1>4 DEF Swept
<1> QED BY <1>3, <1>4

\* A record that is only swept, of a set whose apply rests.
SweptOrSame(p) ==
    \/ rows'[p].state = rows[p].state
    \/ rows[p].state = "staging" /\ rows'[p].state = "expired"
    \/ rows[p].state = "applying" /\ rows'[p].state = "uncertain"

LEMMA RecordStays ==
    ASSUME NEW p \in Sets, RecordSound(p), SweptOrSame(p), PlanSound(rows'[p].files),
           claim'[p] = claim[p], touched'[p] = touched[p]
    PROVE  RecordSound(p)'
BY DEF RecordSound, SweptOrSame

\* A set whose apply rests while others may write files.
Rests(p) ==
    /\ work'[p] = work[p] /\ claim'[p] = claim[p]
    /\ touched'[p] = touched[p] /\ loaded'[p] = loaded[p]
    /\ moved[p] \subseteq moved'[p]
    /\ work[p].phase # "none" => \A f \in Files : f \in moved'[p] \/ disk'[f] = disk[f]

LEMMA ApplyStays ==
    ASSUME NEW p \in Sets, ProgressSound(p), ApplySound(p), SweptOrSame(p), Rests(p),
           work[p].plan \in Seq(Entry)
    PROVE  ProgressSound(p)' /\ ApplySound(p)'
<1>1. work[p].phase # "none" /\ moved'[p] = {} /\ Valid(disk) => Valid(disk')
  BY DEF Valid, Rests
<1>2. ProgressSound(p)'
  BY <1>1 DEF ProgressSound, Rests
<1>3. ASSUME work[p].phase # "none" PROVE FilesSound(p)'
  <2> SUFFICES ASSUME NEW i \in 1..Len(work[p].plan), work[p].plan[i].path \notin moved'[p]
               PROVE  Placed(p, i)'
    BY DEF FilesSound, Rests
  <2>1. work[p].plan[i].path \in Files
    <3>1. PICK plan : plan = work[p].plan
      OBVIOUS
    <3>2. plan[i] \in Entry
      BY <3>1, ElementOfSeq
    <3> QED BY <3>1, <3>2 DEF Entry
  <2>2. disk'[work[p].plan[i].path] = disk[work[p].plan[i].path] /\ Placed(p, i)
    BY <1>3, <2>1 DEF ApplySound, FilesSound, Rests
  <2> QED BY <2>2 DEF Placed, Rests
<1> QED BY <1>2, <1>3 DEF ApplySound, SweptOrSame, Rests

LEMMA RestKeeps ==
    ASSUME ChangesInv, UsedTokensStay, NEW p \in Sets, Rests(p), SweptOrSame(p),
           PlanSound(rows'[p].files)
    PROVE  SetSound(p)'
<1>1. SetSound(p) /\ work[p].plan \in Seq(Entry) /\ TypeOK
  BY DEF ChangesInv, TypeOK, Work
<1> QED BY <1>1, RecordStays, ApplyStays, ClaimStays DEF SetSound, Rests

\* A transaction of which no apply takes notice.
LEMMA QuietKeeps ==
    ASSUME ChangesInv, Gate!GrantsTypeOK', TokensSound', UsedTokensStay,
           rows' \in [Sets -> Row], reading' \in [Sets -> Reading \cup {NoReading}],
           budget' \in Nat, UNCHANGED <<disk, work, history>>,
           \A q \in Sets : SweptOrSame(q) /\ PlanSound(rows'[q].files)
    PROVE  ChangesInv'
<1>1. \A q \in Sets : Rests(q)
  BY DEF Rests, history
<1>2. TypeOK'
  BY DEF ChangesInv, TypeOK, history
<1> QED BY <1>1, <1>2, RestKeeps DEF ChangesInv

LEMMA CleanedKeeps ==
    ASSUME ChangesInv
    PROVE  /\ Cleaned \in [Sets -> Row]
           /\ \A q \in Sets : /\ PlanSound(Cleaned[q].files)
                              /\ \/ Cleaned[q] = rows[q]
                                 \/ rows[q].state = "staging" /\ Cleaned[q].state = "expired"
                                 \/ rows[q].state = "applying" /\ Cleaned[q].state = "uncertain"
<1>1. \A q \in Sets : PlanSound(rows[q].files)
  BY DEF ChangesInv, SetSound, RecordSound
<1>2. \A q \in Sets : Cleaned[q] \in Row
  BY <1>1, SweptRow DEF ChangesInv
<1> QED BY <1>1, <1>2, SweptRow DEF ChangesInv, Cleaned

LEMMA BrowseKeeps ==
    ASSUME ChangesInv, Browse
    PROVE  ChangesInv'
<1>1. Gate!GrantsTypeOK' /\ TokensSound' /\ UsedTokensStay
  BY NoGateStep DEF ChangesInv, Browse
<1>2. \A q \in Sets : SweptOrSame(q) /\ PlanSound(rows'[q].files)
  BY CleanedKeeps DEF Browse, SweptOrSame
<1> QED BY <1>1, <1>2, CleanedKeeps, QuietKeeps DEF Browse, ChangesInv, TypeOK

LEMMA CommitKeeps ==
    ASSUME ChangesInv, NEW saved, Commit(saved, Cleaned)
    PROVE  /\ rows' \in [Sets -> Row]
           /\ \A q \in Sets : SweptOrSame(q) /\ PlanSound(rows'[q].files)
<1>1. rows' = rows \/ rows' = Cleaned
  BY DEF Commit
<1>2. CASE rows' = rows
  BY <1>2 DEF ChangesInv, TypeOK, SetSound, RecordSound, SweptOrSame
<1>3. CASE rows' = Cleaned
  BY <1>3, CleanedKeeps DEF SweptOrSame
<1> QED BY <1>1, <1>2, <1>3

LEMMA TokenCallsKeep ==
    ASSUME ChangesInv, NEW s \in Servers, NEW p \in Sets, NEW t \in Tokens,
           RequestToken(s, p, t) \/ SpendToken(s, p, t)
    PROVE  ChangesInv'
<1>1. PICK d : d = Demand(p, Cleaned[p].files)
  OBVIOUS
<1>2. d \in Demands
  BY <1>1, CleanedKeeps, DemandType DEF Row
<1>3. Gate!Issue(s, t, d, {}) \/ Gate!Redeem(s, t, d, {}) \/ Gate!Lose(s, {t})
  BY <1>1 DEF RequestToken, SpendToken
<1>4. Gate!GrantsTypeOK' /\ TokensSound' /\ UsedTokensStay
  BY <1>2, <1>3, GateStep DEF ChangesInv
<1>5. PICK saved \in BOOLEAN : Commit(saved, Cleaned)
  BY DEF RequestToken, SpendToken
<1>6. UNCHANGED <<budget, disk, reading, work, history>>
  BY DEF RequestToken, SpendToken
<1> QED BY <1>4, <1>5, <1>6, CommitKeeps, QuietKeeps DEF ChangesInv, TypeOK

-----------------------------------------------------------------------------
(* Drafting                                                                *)

\* A transaction that stores record r of a set that is not being applied.
LEMMA RecordKeeps ==
    ASSUME ChangesInv, NEW p \in Sets, NEW r \in Row, PlanSound(r.files),
           r.state = "staging", Cleaned[p].state \in {"absent", "staging"},
           rows' = [Cleaned EXCEPT ![p] = r],
           reading' \in [Sets -> Reading \cup {NoReading}],
           UNCHANGED <<budget, disk, work, gateVars, history>>
    PROVE  ChangesInv'
<1>1. Gate!GrantsTypeOK' /\ TokensSound' /\ UsedTokensStay
  BY NoGateStep DEF ChangesInv
<1>2. rows' \in [Sets -> Row]
  BY CleanedKeeps
<1>3. \A q \in Sets \ {p} : SweptOrSame(q) /\ PlanSound(rows'[q].files)
  BY CleanedKeeps DEF SweptOrSame
<1>4. rows'[p] = r /\ rows[p].state \in {"absent", "staging"}
  BY CleanedKeeps
<1>5. \A q \in Sets : Rests(q)
  BY DEF Rests, history
<1>6. TypeOK'
  BY <1>1, <1>2 DEF ChangesInv, TypeOK, history
<1>7. SetSound(p)'
  <2>1. SetSound(p) /\ work[p].phase = "none"
    BY <1>4 DEF ChangesInv, SetSound, ApplySound
  <2>2. RecordSound(p)'
    BY <1>4, <1>5, <2>1 DEF SetSound, RecordSound, Rests
  <2>3. ApplySound(p)'
    BY <1>5, <2>1 DEF ApplySound, Rests
  <2>4. ProgressSound(p)'
    BY <1>5, <2>1 DEF SetSound, ProgressSound, Rests, history, Valid
  <2>5. ClaimSound(p)'
    BY <1>1, <1>5, <2>1, ClaimStays DEF ChangesInv, SetSound, Rests
  <2> QED BY <2>2, <2>3, <2>4, <2>5 DEF SetSound
<1> QED BY <1>1, <1>3, <1>5, <1>6, <1>7, RestKeeps DEF ChangesInv

LEMMA BeginKeeps ==
    ASSUME ChangesInv, NEW p \in Sets, Begin(p)
    PROVE  ChangesInv'
<1>1. PICK r : r = [NoRow EXCEPT !.state = "staging"]
  OBVIOUS
<1>2. r \in Row /\ r.state = "staging" /\ PlanSound(r.files)
  BY <1>1, NoRowType, EmptyPlan DEF States
<1>3. Cleaned[p].state = "absent"
  BY CleanedKeeps DEF Begin
<1>4. reading' \in [Sets -> Reading \cup {NoReading}]
  BY DEF Begin, ChangesInv, TypeOK
<1> QED BY <1>1, <1>2, <1>3, <1>4, RecordKeeps DEF Begin

LEMMA StageReadKeeps ==
    ASSUME ChangesInv, NEW p \in Sets, NEW f \in Files, NEW c \in Candidates, StageRead(p, f, c)
    PROVE  ChangesInv'
<1>1. Gate!GrantsTypeOK' /\ TokensSound' /\ UsedTokensStay
  BY NoGateStep DEF ChangesInv, StageRead
<1>2. PICK seen : seen = IF disk[f] = Absent THEN Empty ELSE disk[f]
  OBVIOUS
<1>3. [path |-> f, seen |-> seen, cand |-> c] \in Reading
  BY <1>2, ChangesAssumption DEF ChangesInv, TypeOK, Reading
<1>4. reading' \in [Sets -> Reading \cup {NoReading}]
  BY <1>2, <1>3 DEF StageRead, ChangesInv, TypeOK
<1>5. \A q \in Sets : SweptOrSame(q) /\ PlanSound(rows'[q].files)
  BY DEF StageRead, ChangesInv, SetSound, RecordSound, SweptOrSame
<1> QED BY <1>1, <1>4, <1>5, QuietKeeps DEF StageRead, ChangesInv, TypeOK

LEMMA StageCommitKeeps ==
    ASSUME ChangesInv, NEW p \in Sets, StageCommit(p)
    PROVE  ChangesInv'
<1>1. PICK r, d : r = Cleaned[p] /\ d = reading[p]
  OBVIOUS
<1>2. PICK existed \in BOOLEAN : existed = (disk[d.path] # Absent)
  OBVIOUS
<1>3. PICK e : e = [path |-> d.path, original |-> d.seen, existed |-> existed,
                    baseline |-> IF existed THEN d.seen ELSE Absent, cand |-> d.cand]
  OBVIOUS
<1>4. d \in Reading /\ r \in Row /\ r.state = "staging" /\ PlanSound(r.files)
  BY <1>1, CleanedKeeps DEF StageCommit, ChangesInv, TypeOK
<1>5. e \in Entry /\ e.path = d.path /\ e.baseline = IF e.existed THEN e.original ELSE Absent
  BY <1>3, <1>4 DEF Reading, Entry
<1>6. PICK files : files = Append(Without(r.files, d.path), e)
  OBVIOUS
<1>7. files \in Seq(Entry) /\ PlanSound(files)
  BY <1>4, <1>5, <1>6, WithoutSound, AppendSound DEF Row
<1>8. PICK r2 : r2 = [r EXCEPT !.files = files]
  OBVIOUS
<1>9. r2 \in Row /\ r2.state = "staging" /\ r2.files = files
  BY <1>4, <1>7, <1>8 DEF Row
<1>10. rows' = [Cleaned EXCEPT ![p] = r2]
  BY <1>1, <1>2, <1>3, <1>6, <1>8, CleanedKeeps DEF StageCommit
<1>11. reading' \in [Sets -> Reading \cup {NoReading}]
  BY DEF StageCommit, ChangesInv, TypeOK
<1> QED BY <1>1, <1>4, <1>7, <1>9, <1>10, <1>11, RecordKeeps DEF StageCommit

-----------------------------------------------------------------------------
(* The claim                                                               *)

LEMMA AuthorisedStep ==
    ASSUME TypeOK, TokensSound, NEW s \in Servers, NEW t, NEW d \in Demands, Authorised(s, t, d)
    PROVE  /\ Gate!GrantsTypeOK' /\ TokensSound' /\ UsedTokensStay
           /\ \/ Mode[s] = "unrestricted" /\ t = NoToken
              \/ Mode[s] = "controlled" /\ t \in redeemed' /\ grant'[t] = d
<1>1. CASE Mode[s] = "unrestricted" /\ t = NoToken /\ UNCHANGED gateVars
  BY <1>1, NoGateStep
<1>2. CASE Mode[s] = "controlled" /\ t \in Tokens /\ Gate!Redeem(s, t, d, {})
  <2>1. t \in redeemed' /\ grant'[t] = d
    BY <1>2 DEF Gate!Redeem
  <2> QED BY <1>2, <2>1, GateStep
<1> QED BY <1>1, <1>2 DEF Authorised

LEMMA WritingWork ==
    ASSUME NEW s \in Servers, NEW plan \in Seq(Entry), NEW ok \in BOOLEAN, NEW restored \in BOOLEAN,
           NEW v, v = [phase |-> "write", server |-> s, plan |-> plan, next |-> 1, ok |-> ok,
                       restored |-> restored]
    PROVE  /\ v \in Work /\ v.phase = "write" /\ v.plan = plan /\ v.next = 1
           /\ v.ok = ok /\ v.restored = restored
BY DEF Work, Phases

LEMMA FirstWork ==
    ASSUME NEW s, NEW plan
    PROVE  \E ok, restored \in BOOLEAN :
              /\ ~ok /\ restored
              /\ [NoWork EXCEPT !.phase = "write", !.server = s, !.plan = plan]
                    = [phase |-> "write", server |-> s, plan |-> plan, next |-> 1, ok |-> ok,
                       restored |-> restored]
<1>1. PICK ok, restored \in BOOLEAN : ok = FALSE /\ restored = TRUE
  BY Zenon
<1>2. NoWork = [phase |-> "none", server |-> NoServer, plan |-> <<>>, next |-> 1, ok |-> ok,
                restored |-> restored]
  BY <1>1, Zenon DEF NoWork
<1>3. PICK x : x = [NoWork EXCEPT !.phase = "write"]
  OBVIOUS
<1>4. x = [phase |-> "write", server |-> NoServer, plan |-> <<>>, next |-> 1, ok |-> ok,
           restored |-> restored]
  BY <1>2, <1>3
<1>5. PICK y : y = [x EXCEPT !.server = s]
  OBVIOUS
<1>6. y = [phase |-> "write", server |-> s, plan |-> <<>>, next |-> 1, ok |-> ok,
           restored |-> restored]
  BY <1>4, <1>5
<1>7. [y EXCEPT !.plan = plan]
        = [phase |-> "write", server |-> s, plan |-> plan, next |-> 1, ok |-> ok,
           restored |-> restored]
  BY <1>6
<1>8. [NoWork EXCEPT !.phase = "write", !.server = s, !.plan = plan] = [y EXCEPT !.plan = plan]
  BY <1>3, <1>5
<1> QED BY <1>1, <1>7, <1>8, Zenon

LEMMA ClaimKeeps ==
    ASSUME ChangesInv, NEW s \in Servers, NEW p \in Sets, NEW t \in Tokens \cup {NoToken},
           ApplyClaim(s, p, t)
    PROVE  ChangesInv'
<1>1. PICK r, plan, n : r = Cleaned[p] /\ plan = r.files /\ n = Len(plan)
  OBVIOUS
<1>2. r \in Row /\ r.state = "staging" /\ plan \in Seq(Entry) /\ PlanSound(plan) /\ n \in Nat
  BY <1>1, CleanedKeeps, LenProperties DEF ApplyClaim, Row
<1>3. PICK d : d = Demand(p, plan)
  OBVIOUS
<1>4. d \in Demands /\ Authorised(s, t, d)
  BY <1>1, <1>2, <1>3, DemandType DEF ApplyClaim
<1>5. /\ Gate!GrantsTypeOK' /\ TokensSound' /\ UsedTokensStay
      /\ \/ Mode[s] = "unrestricted" /\ t = NoToken
         \/ Mode[s] = "controlled" /\ t \in redeemed' /\ grant'[t] = d
  BY <1>4, AuthorisedStep DEF ChangesInv
<1>6. PICK r1 : r1 = [r EXCEPT !.state = "applying"]
  OBVIOUS
<1>7. PICK r2 : r2 = [r1 EXCEPT !.due = FALSE]
  OBVIOUS
<1>8. r2 \in Row /\ r2.state = "applying" /\ r2.files = plan
  BY <1>1, <1>2, <1>6, <1>7 DEF Row, States
<1>9. rows' = [Cleaned EXCEPT ![p] = r2]
  BY <1>1, <1>6, <1>7, CleanedKeeps DEF ApplyClaim
<1>10. rows' \in [Sets -> Row] /\ rows'[p] = r2
  BY <1>8, <1>9, CleanedKeeps
<1>11. PICK cl : cl = [token |-> t, mode |-> Mode[s], plan |-> plan]
  OBVIOUS
<1>12. cl \in Claim
  BY <1>2, <1>5, <1>11 DEF Claim
<1>13. claim' = [claim EXCEPT ![p] = cl]
  BY <1>1, <1>11 DEF ApplyClaim
<1>14. claim' \in [Sets -> Claim] /\ claim'[p] = cl
  BY <1>12, <1>13 DEF ChangesInv, TypeOK
<1>15. rows[p].state = "staging"
  BY <1>1, <1>2, CleanedKeeps
<1>16. SetSound(p) /\ work[p].phase = "none" /\ touched[p] = {} /\ loaded[p] = {}
  <2>1. SetSound(p) /\ work[p].phase = "none"
    BY <1>15 DEF ChangesInv, SetSound, ApplySound
  <2>2. claim[p].plan = <<>>
    BY <1>15, <2>1 DEF SetSound, RecordSound, NoClaim
  <2> QED BY <2>1, <2>2, EmptyPlan DEF SetSound, RecordSound, ProgressSound
<1>17. PICK v \in Work :
          /\ v = [NoWork EXCEPT !.phase = "write", !.server = s, !.plan = plan]
          /\ v.phase = "write" /\ v.plan = plan /\ v.next = 1 /\ ~v.ok /\ v.restored
  <2>1. PICK ok, restored \in BOOLEAN :
           /\ ~ok /\ restored
           /\ [NoWork EXCEPT !.phase = "write", !.server = s, !.plan = plan]
                 = [phase |-> "write", server |-> s, plan |-> plan, next |-> 1, ok |-> ok,
                    restored |-> restored]
    BY FirstWork, Zenon
  <2>2. PICK x : x = [phase |-> "write", server |-> s, plan |-> plan, next |-> 1, ok |-> ok,
                      restored |-> restored]
    OBVIOUS
  <2>3. /\ x \in Work /\ x.phase = "write" /\ x.plan = plan /\ x.next = 1
        /\ x.ok = ok /\ x.restored = restored
    BY <1>2, <2>2, WritingWork
  <2> QED BY <2>1, <2>2, <2>3, Zenon
<1>18. work' = IF plan = <<>> THEN work
               ELSE [work EXCEPT ![p] = [NoWork EXCEPT !.phase = "write", !.server = s,
                                                       !.plan = plan]]
  BY <1>1, Zenon DEF ApplyClaim
<1>19. work' = IF plan = <<>> THEN work ELSE [work EXCEPT ![p] = v]
  BY <1>17, <1>18, Zenon
<1>20. work' \in [Sets -> Work] /\ (plan # <<>> => work'[p] = v) /\ (plan = <<>> => work'[p] = work[p])
  BY <1>17, <1>19 DEF ChangesInv, TypeOK
<1>21. TypeOK'
  BY <1>5, <1>10, <1>14, <1>20 DEF ApplyClaim, ChangesInv, TypeOK
<1>22. \A q \in Sets \ {p} : Rests(q) /\ SweptOrSame(q) /\ PlanSound(rows'[q].files)
  BY <1>9, <1>13, <1>19, CleanedKeeps DEF ApplyClaim, Rests, SweptOrSame
<1>23. ClaimSound(p)'
  BY <1>3, <1>5, <1>11, <1>14 DEF ClaimSound, Demand
<1>24. RecordSound(p)'
  BY <1>2, <1>8, <1>10, <1>11, <1>14, <1>16 DEF ApplyClaim, RecordSound
<1>25. ProgressSound(p)' /\ ApplySound(p)'
  <2>1. CASE plan = <<>>
    BY <2>1, <1>16, <1>20 DEF SetSound, ProgressSound, ApplySound, ApplyClaim, Valid
  <2>2. CASE plan # <<>>
    <3>1. n > 0
      BY <1>1, <1>2, <2>2, EmptySeq
    <3>2. ProgressSound(p)'
      <4>1. v.next \in 1..n /\ 1..(v.next - 1) = {}
        BY <1>2, <1>17, <3>1
      <4>2. work'[p] = v /\ touched'[p] = {} /\ loaded'[p] = {}
        BY <1>16, <1>20, <2>2 DEF ApplyClaim
      <4> QED BY <1>1, <1>17, <4>1, <4>2 DEF ProgressSound
    <3>3. \A i \in 1..n : disk'[plan[i].path] = plan[i].baseline
      BY <1>1 DEF ApplyClaim, Unchanged
    <3>4. FilesSound(p)'
      <4>1. work'[p] = v /\ Len(work'[p].plan) = n
        BY <1>1, <1>17, <1>20, <2>2
      <4>2. v.phase = "write" /\ v.plan = plan /\ v.next = 1 /\ ~v.ok
        BY <1>17, Zenon
      <4> QED BY <1>2, <3>3, <4>1, <4>2 DEF FilesSound, Placed
    <3>5. v.plan = plan
      BY <1>17, Zenon
    <3> QED BY <1>8, <1>10, <1>11, <1>14, <1>20, <2>2, <3>2, <3>4, <3>5 DEF ApplySound
  <2> QED BY <2>1, <2>2
<1> QED BY <1>5, <1>21, <1>22, <1>23, <1>24, <1>25, RestKeeps DEF ChangesInv, SetSound

-----------------------------------------------------------------------------
(* The apply                                                               *)

LEMMA DisturbFacts ==
    ASSUME TypeOK, NEW f \in Files, NEW others, Disturb(f, others)
    PROVE  /\ moved' \in [Sets -> SUBSET Files]
           /\ \A q \in Sets :
                 /\ moved[q] \subseteq moved'[q] /\ moved'[q] \subseteq moved[q] \cup {f}
                 /\ q \in others /\ work[q].phase # "none" => f \in moved'[q]
                 /\ q \notin others => moved'[q] = moved[q]
BY DEF TypeOK, Disturb

\* What the work of an apply becomes.
WorkOf(w, phase, next, ok, restored) ==
    [phase |-> phase, server |-> w.server, plan |-> w.plan, next |-> next, ok |-> ok,
     restored |-> restored]

LEMMA WorkOfType ==
    ASSUME NEW w \in Work, NEW phase \in Phases, NEW next \in Nat, NEW ok \in BOOLEAN,
           NEW restored \in BOOLEAN, NEW v, v = WorkOf(w, phase, next, ok, restored)
    PROVE  /\ v \in Work /\ v.phase = phase /\ v.plan = w.plan /\ v.next = next
           /\ v.ok = ok /\ v.restored = restored
BY DEF WorkOf, Work

LEMMA WorkUpdates ==
    ASSUME NEW w \in Work, NEW phase, NEW next, NEW b
    PROVE  /\ [w EXCEPT !.phase = phase] = WorkOf(w, phase, w.next, w.ok, w.restored)
           /\ [w EXCEPT !.next = next] = WorkOf(w, w.phase, next, w.ok, w.restored)
           /\ [w EXCEPT !.phase = phase, !.next = next] = WorkOf(w, phase, next, w.ok, w.restored)
           /\ [w EXCEPT !.phase = phase, !.ok = b] = WorkOf(w, phase, w.next, b, w.restored)
           /\ [w EXCEPT !.next = next, !.restored = b] = WorkOf(w, w.phase, next, w.ok, b)
<1>1. PICK x : x = [w EXCEPT !.phase = phase]
  OBVIOUS
<1>2. x = WorkOf(w, phase, w.next, w.ok, w.restored)
  BY <1>1 DEF Work, WorkOf
<1>3. PICK y : y = [w EXCEPT !.next = next]
  OBVIOUS
<1>4. y = WorkOf(w, w.phase, next, w.ok, w.restored)
  BY <1>3 DEF Work, WorkOf
<1>5. [x EXCEPT !.next = next] = WorkOf(w, phase, next, w.ok, w.restored)
  BY <1>2 DEF WorkOf
<1>6. [x EXCEPT !.ok = b] = WorkOf(w, phase, w.next, b, w.restored)
  BY <1>2 DEF WorkOf
<1>7. [y EXCEPT !.restored = b] = WorkOf(w, w.phase, next, w.ok, b)
  BY <1>4 DEF WorkOf
<1> QED BY <1>1, <1>2, <1>3, <1>4, <1>5, <1>6, <1>7

\* A step of the apply of p, whose work becomes v.
LEMMA StepKeeps ==
    ASSUME ChangesInv, NEW p \in Sets, work[p].phase # "none",
           NEW v \in Work, v.phase # "none", v.plan = work[p].plan, work' = [work EXCEPT ![p] = v],
           UNCHANGED <<budget, rows, reading, gateVars, claim>>,
           disk' \in [Files -> Contents \cup {Absent}],
           touched' \in [Sets -> SUBSET Nat], touched'[p] \subseteq 1..Len(v.plan),
           moved' \in [Sets -> SUBSET Files],
           loaded' \in [Sets -> SUBSET {"new", "old", "mixed", "foreign"}],
           \A q \in Sets \ {p} : Rests(q),
           ProgressSound(p)', FilesSound(p)'
    PROVE  ChangesInv'
<1>1. Gate!GrantsTypeOK' /\ TokensSound' /\ UsedTokensStay
  BY NoGateStep DEF ChangesInv
<1>2. work' \in [Sets -> Work] /\ work'[p] = v
  BY DEF ChangesInv, TypeOK
<1>3. TypeOK'
  BY <1>1, <1>2 DEF ChangesInv, TypeOK
<1>4. SetSound(p)
  BY DEF ChangesInv
<1>5. ApplySound(p)'
  BY <1>2, <1>4 DEF SetSound, ApplySound
<1>6. RecordSound(p)'
  BY <1>4 DEF SetSound, ApplySound, RecordSound
<1>7. ClaimSound(p)'
  BY <1>1, <1>4, ClaimStays DEF ChangesInv, SetSound
<1>8. \A q \in Sets : SweptOrSame(q) /\ PlanSound(rows'[q].files)
  BY DEF ChangesInv, SetSound, RecordSound, SweptOrSame
<1> QED BY <1>1, <1>3, <1>5, <1>6, <1>7, <1>8, RestKeeps DEF ChangesInv, SetSound

\* Facts about an apply and the entry it is at.
LEMMA AtWork ==
    ASSUME ChangesInv, NEW p \in Sets, work[p].phase # "none"
    PROVE  /\ work[p] \in Work /\ Len(work[p].plan) \in Nat /\ Len(work[p].plan) > 0
           /\ PlanSound(work[p].plan) /\ ProgressSound(p) /\ FilesSound(p)
           /\ touched[p] \subseteq 1..Len(work[p].plan)
           /\ \A i \in 1..Len(work[p].plan) : work[p].plan[i] \in Entry
           /\ work[p].next \in Nat /\ work[p].ok \in BOOLEAN /\ work[p].restored \in BOOLEAN
<1>1. PICK plan : plan = work[p].plan
  OBVIOUS
<1>2. work[p] \in Work /\ plan \in Seq(Entry) /\ SetSound(p)
  BY <1>1 DEF ChangesInv, TypeOK, Work
<1>3. plan # <<>> /\ PlanSound(plan) /\ plan = claim[p].plan
  BY <1>1, <1>2 DEF SetSound, ApplySound, RecordSound
<1>4. Len(plan) \in Nat /\ Len(plan) > 0 /\ \A i \in 1..Len(plan) : plan[i] \in Entry
  BY <1>2, <1>3, EmptySeq, LenProperties, ElementOfSeq
<1>5. ProgressSound(p) /\ FilesSound(p) /\ touched[p] \subseteq 1..Len(plan)
  BY <1>1, <1>2, <1>3 DEF SetSound, ApplySound, RecordSound
<1>6. work[p].next \in Nat /\ work[p].ok \in BOOLEAN /\ work[p].restored \in BOOLEAN
  BY <1>2 DEF Work
<1> QED BY <1>1, <1>2, <1>3, <1>4, <1>5, <1>6

\* Whether the next step follows or the apply is given up.
LEMMA ProceedWork ==
    ASSUME ChangesInv, NEW p \in Sets, work[p].phase # "none", NEW ok, NEW phase \in Phases,
           Proceed(p, ok, phase)
    PROVE  \E v \in Work :
              /\ work' = [work EXCEPT ![p] = v]
              /\ v.plan = work[p].plan /\ v.ok = work[p].ok /\ v.restored = work[p].restored
              /\ ok => v.phase = phase /\ v.next = work[p].next
              /\ ~ok => v.phase = "undo" /\ v.next = Len(work[p].plan)
<1>1. PICK w, n : w = work[p] /\ n = Len(work[p].plan)
  OBVIOUS
<1>2. w \in Work /\ n \in Nat /\ w.next \in Nat /\ w.ok \in BOOLEAN /\ w.restored \in BOOLEAN
  BY <1>1, AtWork
<1>3. DOMAIN work = Sets
  BY DEF ChangesInv, TypeOK
<1>4. CASE ok
  <2>1. PICK v : v = WorkOf(w, phase, w.next, w.ok, w.restored)
    OBVIOUS
  <2>2. v = [w EXCEPT !.phase = phase]
    BY <1>2, <2>1, WorkUpdates
  <2>3. work' = [work EXCEPT ![p] = v]
    BY <1>1, <1>3, <1>4, <2>2 DEF Proceed
  <2>4. v \in Work /\ v.phase = phase /\ v.plan = w.plan /\ v.next = w.next
        /\ v.ok = w.ok /\ v.restored = w.restored
    BY <1>2, <2>1, WorkOfType
  <2> QED BY <1>1, <1>4, <2>3, <2>4
<1>5. CASE ~ok
  <2>1. PICK v : v = WorkOf(w, "undo", n, w.ok, w.restored)
    OBVIOUS
  <2>2. v = [w EXCEPT !.phase = "undo", !.next = n]
    BY <1>2, <2>1, WorkUpdates
  <2>3. work' = [work EXCEPT ![p] = v]
    BY <1>1, <1>3, <1>5, <2>2 DEF Proceed, Abandon
  <2>4. "undo" \in Phases
    BY DEF Phases
  <2>5. v \in Work /\ v.phase = "undo" /\ v.plan = w.plan /\ v.next = n
        /\ v.ok = w.ok /\ v.restored = w.restored
    BY <1>2, <2>1, <2>4, WorkOfType
  <2> QED BY <1>1, <1>5, <2>3, <2>5
<1> QED BY <1>4, <1>5

LEMMA WriteKeeps ==
    ASSUME ChangesInv, NEW p \in Sets, Write(p)
    PROVE  ChangesInv'
<1>1. PICK w, plan, n, m : w = work[p] /\ plan = w.plan /\ n = Len(plan) /\ m = w.next
  OBVIOUS
<1>2. PICK e : e = plan[m]
  OBVIOUS
<1>3. w.phase = "write" /\ work[p].phase # "none"
  BY <1>1 DEF Write
<1>4. /\ w \in Work /\ n \in Nat /\ PlanSound(plan) /\ ProgressSound(p) /\ FilesSound(p)
      /\ m \in 1..n /\ touched[p] = 1..(m - 1) /\ e \in Entry
      /\ w.ok \in BOOLEAN /\ w.restored \in BOOLEAN /\ ~w.ok /\ w.restored /\ loaded[p] = {}
  BY <1>1, <1>2, <1>3, AtWork DEF ProgressSound
<1>5. PICK replaced, reported \in BOOLEAN :
         /\ reported => replaced
         /\ IF reported /\ m < n
            THEN work' = [work EXCEPT ![p].next = @ + 1]
            ELSE Proceed(p, reported, "validate")
         /\ IF replaced
            THEN /\ disk' = [disk EXCEPT ![e.path] = e.cand]
                 /\ touched' = [touched EXCEPT ![p] = @ \cup {m}]
                 /\ Disturb(e.path, Sets \ {p})
            ELSE UNCHANGED <<disk, touched, moved>>
  BY <1>1, <1>2 DEF Write
<1>6. PICK v \in Work :
         /\ work' = [work EXCEPT ![p] = v]
         /\ v.plan = plan /\ v.ok = w.ok /\ v.restored = w.restored
         /\ reported /\ m < n => v.phase = "write" /\ v.next = m + 1
         /\ reported /\ ~(m < n) => v.phase = "validate" /\ v.next = m
         /\ ~reported => v.phase = "undo" /\ v.next = n
  <2>1. CASE reported /\ m < n
    <3>1. PICK phase, next, ok, restored :
             /\ phase = w.phase /\ next = m + 1 /\ ok = w.ok /\ restored = w.restored
      OBVIOUS
    <3>2. phase \in Phases /\ next \in Nat /\ ok \in BOOLEAN /\ restored \in BOOLEAN
      BY <1>4, <3>1 DEF Work
    <3>3. PICK x : x = WorkOf(w, phase, next, ok, restored)
      OBVIOUS
    <3>4. x = [w EXCEPT !.next = m + 1]
      BY <1>4, <3>1, <3>3, WorkUpdates
    <3>5. work' = [work EXCEPT ![p] = x]
      BY <1>1, <1>5, <2>1, <3>4 DEF ChangesInv, TypeOK
    <3>6. x \in Work /\ x.phase = phase /\ x.plan = w.plan /\ x.next = next
          /\ x.ok = ok /\ x.restored = restored
      BY <1>4, <3>2, <3>3 DEF WorkOf, Work
    <3> QED BY <1>1, <1>3, <2>1, <3>1, <3>5, <3>6
  <2>2. CASE ~(reported /\ m < n)
    <3>1. "validate" \in Phases
      BY DEF Phases
    <3> QED BY <1>1, <1>3, <1>5, <2>2, <3>1, ProceedWork
  <2> QED BY <2>1, <2>2
<1>7. e.path \in Files /\ e.cand \in Contents
  BY <1>4 DEF Entry, Candidates
<1>8. /\ disk' \in [Files -> Contents \cup {Absent}]
      /\ \A f \in Files \ {e.path} : disk'[f] = disk[f]
      /\ replaced => disk'[e.path] = e.cand
      /\ ~replaced => disk' = disk
  BY <1>5, <1>7 DEF ChangesInv, TypeOK
<1>9. /\ touched' \in [Sets -> SUBSET Nat]
      /\ touched'[p] = IF replaced THEN 1..m ELSE 1..(m - 1)
      /\ \A q \in Sets \ {p} : touched'[q] = touched[q]
  <2>1. 1..(m - 1) \cup {m} = 1..m /\ m \in Nat
    BY <1>4
  <2>2. touched \in [Sets -> SUBSET Nat]
    BY DEF ChangesInv, TypeOK
  <2>3. CASE replaced
    <3>1. PICK all : all = touched[p] \cup {m}
      OBVIOUS
    <3>2. all = 1..m /\ all \in SUBSET Nat
      BY <1>4, <2>1, <3>1
    <3>3. touched' = [touched EXCEPT ![p] = all]
      BY <1>5, <2>3, <3>1
    <3> QED BY <2>2, <2>3, <3>2, <3>3
  <2>4. CASE ~replaced
    BY <1>4, <1>5, <2>2, <2>4
  <2> QED BY <2>3, <2>4
<1>10. /\ moved' \in [Sets -> SUBSET Files]
       /\ moved'[p] = moved[p]
       /\ \A q \in Sets : moved[q] \subseteq moved'[q]
       /\ replaced => \A q \in Sets \ {p} : work[q].phase # "none" => e.path \in moved'[q]
  BY <1>5, <1>7, DisturbFacts DEF ChangesInv, TypeOK
<1>11. UNCHANGED <<budget, rows, reading, gateVars, claim, loaded>>
  BY DEF Write
<1>12. \A q \in Sets \ {p} : Rests(q)
  BY <1>6, <1>8, <1>9, <1>10, <1>11 DEF Rests, ChangesInv, TypeOK
<1>13. work'[p] = v
  BY <1>6 DEF ChangesInv, TypeOK
<1>14. ProgressSound(p)'
  <2>1. v.phase = "write" => v.next \in 1..n /\ touched'[p] = 1..(v.next - 1)
    BY <1>3, <1>4, <1>5, <1>6, <1>9
  <2>2. v.phase = "validate" => touched'[p] = 1..n
    BY <1>3, <1>4, <1>5, <1>6, <1>9
  <2>3. v.phase \in {"write", "validate", "undo"} /\ v.next <= n
    BY <1>3, <1>4, <1>6
  <2>4. v.ok = w.ok /\ v.restored = w.restored /\ loaded'[p] = {}
    BY <1>4, <1>6, <1>11
  <2>5. ~v.ok /\ v.restored
    BY <1>4, <2>4, Zenon
  <2> QED BY <1>1, <1>6, <1>13, <2>1, <2>2, <2>3, <2>4, <2>5 DEF ProgressSound
<1>15. FilesSound(p)'
  <2> SUFFICES ASSUME NEW i \in 1..n, plan[i].path \notin moved[p]
               PROVE  Placed(p, i)'
    BY <1>1, <1>6, <1>10, <1>13 DEF FilesSound
  <2>1. Placed(p, i) /\ plan[i].path \in Files
    BY <1>1, <1>3, AtWork DEF FilesSound, Entry
  <2>2. disk[plan[i].path] = IF i < m THEN plan[i].cand ELSE plan[i].baseline
    BY <1>1, <1>3, <2>1 DEF Placed
  <2>3. ~v.ok
    BY <1>4, <1>6, Zenon
  <2>4. CASE i = m
    <3>1. disk'[plan[i].path] = IF replaced THEN plan[i].cand ELSE plan[i].baseline
      BY <1>2, <1>4, <1>8, <2>2, <2>4
    <3> QED BY <1>4, <1>5, <1>6, <1>13, <2>3, <2>4, <3>1 DEF Placed
  <2>5. CASE i # m
    <3>1. disk'[plan[i].path] = disk[plan[i].path]
      BY <1>1, <1>2, <1>4, <1>8, <2>1, <2>5 DEF PlanSound
    <3> QED BY <1>4, <1>5, <1>6, <1>13, <2>2, <2>3, <2>5, <3>1 DEF Placed
  <2> QED BY <2>4, <2>5
<1>16. touched'[p] \subseteq 1..n /\ loaded' \in [Sets -> SUBSET {"new", "old", "mixed", "foreign"}]
  BY <1>4, <1>9, <1>11 DEF ChangesInv, TypeOK
<1>17. v.phase # "none"
  BY <1>6
<1> QED BY <1>1, <1>3, <1>6, <1>8, <1>9, <1>10, <1>11, <1>12, <1>14, <1>15, <1>16, <1>17, StepKeeps

\* From the last write on until an apply reports success or gives up.
LEMMA ForwardKeeps ==
    ASSUME ChangesInv, NEW p \in Sets, work[p].phase \in {"validate", "reload", "health"},
           NEW v \in Work, work' = [work EXCEPT ![p] = v],
           v.plan = work[p].plan, v.restored,
           \/ v.phase \in {"reload", "health"} /\ ~v.ok
           \/ v.phase = "undo" /\ ~v.ok /\ v.next = Len(v.plan)
           \/ v.phase = "report" /\ v.ok,
           UNCHANGED <<budget, disk, rows, reading, gateVars, claim, touched, moved>>,
           loaded' \in [Sets -> SUBSET {"new", "old", "mixed", "foreign"}],
           \A q \in Sets \ {p} : loaded'[q] = loaded[q],
           "mixed" \notin loaded'[p],
           v.phase = "reload" => loaded'[p] = {} /\ (moved[p] = {} => Valid(disk)),
           v.phase = "health" \/ v.ok => (moved[p] = {} => "new" \in loaded'[p])
    PROVE  ChangesInv'
<1>1. PICK plan, n : plan = work[p].plan /\ n = Len(plan)
  OBVIOUS
<1>2. /\ n \in Nat /\ ProgressSound(p) /\ FilesSound(p) /\ touched[p] = 1..n
      /\ \A i \in 1..n : plan[i] \in Entry
  BY <1>1, AtWork DEF ProgressSound
<1>3. work'[p] = v
  BY DEF ChangesInv, TypeOK
<1>4. ProgressSound(p)'
  BY <1>1, <1>2, <1>3 DEF ProgressSound
<1>5. FilesSound(p)'
  <2> SUFFICES ASSUME NEW i \in 1..n, plan[i].path \notin moved[p]
               PROVE  Placed(p, i)'
    BY <1>1, <1>3 DEF FilesSound
  <2>1. disk[plan[i].path] = plan[i].cand
    BY <1>1, <1>2 DEF FilesSound, Placed
  <2> QED BY <1>1, <1>2, <1>3, <2>1 DEF Placed
<1>6. \A q \in Sets \ {p} : Rests(q)
  BY DEF Rests, ChangesInv, TypeOK
<1>7. touched' \in [Sets -> SUBSET Nat] /\ moved' \in [Sets -> SUBSET Files]
      /\ disk' \in [Files -> Contents \cup {Absent}] /\ touched'[p] \subseteq 1..Len(v.plan)
  BY <1>1, <1>2 DEF ChangesInv, TypeOK
<1>8. v.phase # "none" /\ work[p].phase # "none"
  OBVIOUS
<1> QED BY <1>4, <1>5, <1>6, <1>7, <1>8, StepKeeps

LEMMA ValidateKeeps ==
    ASSUME ChangesInv, NEW p \in Sets, Validate(p)
    PROVE  ChangesInv'
<1>1. PICK ok \in BOOLEAN : (ok => Valid(disk)) /\ Proceed(p, ok, "reload")
  BY DEF Validate
<1>2. work[p].phase = "validate" /\ "reload" \in Phases
  BY DEF Validate, Phases
<1>3. /\ ProgressSound(p) /\ work[p].restored /\ ~work[p].ok /\ loaded[p] = {}
  BY <1>2, AtWork DEF ProgressSound
<1>4. PICK v \in Work :
         /\ work' = [work EXCEPT ![p] = v]
         /\ v.plan = work[p].plan /\ v.ok = work[p].ok /\ v.restored = work[p].restored
         /\ ok => v.phase = "reload" /\ v.next = work[p].next
         /\ ~ok => v.phase = "undo" /\ v.next = Len(work[p].plan)
  BY <1>1, <1>2, ProceedWork
<1>5. v.restored /\ ~v.ok
  BY <1>3, <1>4, Zenon
<1>6. UNCHANGED <<budget, disk, rows, reading, gateVars, claim, touched, moved>> /\ loaded' = loaded
  BY DEF Validate, history
<1>7. loaded' \in [Sets -> SUBSET {"new", "old", "mixed", "foreign"}]
  BY <1>6 DEF ChangesInv, TypeOK
<1> QED BY <1>1, <1>2, <1>3, <1>4, <1>5, <1>6, <1>7, ForwardKeeps

LEMMA MixtureType ==
    ASSUME NEW p
    PROVE  Mixture(p) \in {"new", "old", "mixed", "foreign"}
BY DEF Mixture

LEMMA LoadsFacts ==
    ASSUME ChangesInv, NEW p \in Sets, NEW taken \in BOOLEAN, Loads(p, taken)
    PROVE  /\ loaded' \in [Sets -> SUBSET {"new", "old", "mixed", "foreign"}]
           /\ \A q \in Sets \ {p} : loaded'[q] = loaded[q]
           /\ loaded'[p] = IF taken THEN loaded[p] \cup {Mixture(p)} ELSE loaded[p]
<1>1. PICK m : m = Mixture(p)
  OBVIOUS
<1>2. m \in {"new", "old", "mixed", "foreign"}
  BY <1>1, MixtureType
<1>3. loaded' = IF taken THEN [loaded EXCEPT ![p] = @ \cup {m}] ELSE loaded
  BY <1>1 DEF Loads
<1> QED BY <1>1, <1>2, <1>3 DEF ChangesInv, TypeOK

LEMMA ReloadKeeps ==
    ASSUME ChangesInv, NEW p \in Sets, Reload(p)
    PROVE  ChangesInv'
<1>1. PICK ok, taken \in BOOLEAN :
         (ok => taken \/ ~Valid(disk)) /\ Loads(p, taken) /\ Proceed(p, ok, "health")
  BY DEF Reload
<1>2. work[p].phase = "reload" /\ "health" \in Phases
  BY DEF Reload, Phases
<1>3. /\ ProgressSound(p) /\ work[p].restored /\ ~work[p].ok /\ loaded[p] = {} /\ FilesSound(p)
      /\ moved[p] = {} => Valid(disk)
  BY <1>2, AtWork DEF ProgressSound
<1>4. PICK v \in Work :
         /\ work' = [work EXCEPT ![p] = v]
         /\ v.plan = work[p].plan /\ v.ok = work[p].ok /\ v.restored = work[p].restored
         /\ ok => v.phase = "health" /\ v.next = work[p].next
         /\ ~ok => v.phase = "undo" /\ v.next = Len(work[p].plan)
  BY <1>1, <1>2, ProceedWork
<1>5. v.restored /\ ~v.ok
  BY <1>3, <1>4, Zenon
<1>6. UNCHANGED <<budget, disk, rows, reading, gateVars, claim, touched, moved>>
  BY DEF Reload
<1>7. /\ loaded' \in [Sets -> SUBSET {"new", "old", "mixed", "foreign"}]
      /\ \A q \in Sets \ {p} : loaded'[q] = loaded[q]
      /\ loaded'[p] = IF taken THEN loaded[p] \cup {Mixture(p)} ELSE loaded[p]
  BY <1>1, LoadsFacts
<1>8. IF moved[p] = {} THEN Mixture(p) = "new" ELSE Mixture(p) = "foreign"
  BY <1>2, <1>3 DEF Mixture, FilesSound, Placed
<1>9. "mixed" \notin loaded'[p] /\ (ok /\ moved[p] = {} => "new" \in loaded'[p])
  BY <1>1, <1>3, <1>7, <1>8
<1> QED BY <1>1, <1>2, <1>4, <1>5, <1>6, <1>7, <1>9, ForwardKeeps

LEMMA HealthKeeps ==
    ASSUME ChangesInv, NEW p \in Sets, Health(p)
    PROVE  ChangesInv'
<1>1. PICK w, n : w = work[p] /\ n = Len(work[p].plan)
  OBVIOUS
<1>2. /\ work[p].phase = "health" /\ w \in Work /\ n \in Nat /\ w.next \in Nat
      /\ w.restored /\ ~w.ok /\ "mixed" \notin loaded[p]
      /\ moved[p] = {} => "new" \in loaded[p]
  BY <1>1, AtWork DEF ProgressSound, Health
<1>3. UNCHANGED <<budget, disk, rows, reading, gateVars, claim, touched, moved>> /\ loaded' = loaded
  BY DEF Health, history
<1>4. loaded' \in [Sets -> SUBSET {"new", "old", "mixed", "foreign"}]
  BY <1>3 DEF ChangesInv, TypeOK
<1>5. PICK done, ok, restored \in BOOLEAN : done = TRUE /\ ok = w.ok /\ restored = w.restored
  BY <1>1, AtWork, Zenon DEF Health
<1>6. CASE work' = [work EXCEPT ![p].phase = "report", ![p].ok = TRUE]
  <2>1. PICK v : v = WorkOf(w, "report", w.next, done, w.restored)
    OBVIOUS
  <2>2. v = [w EXCEPT !.phase = "report", !.ok = done]
    BY <1>2, <2>1, WorkUpdates
  <2>3. v = [w EXCEPT !.phase = "report", !.ok = TRUE]
    BY <1>5, <2>2, Zenon
  <2>4. work' = [work EXCEPT ![p] = v]
    BY <1>1, <1>6, <2>3 DEF ChangesInv, TypeOK
  <2>5. v \in Work /\ v.phase = "report" /\ v.plan = w.plan /\ v.ok = done /\ v.restored = restored
    BY <1>2, <1>5, <2>1 DEF WorkOf, Work, Phases
  <2>6. v.ok /\ v.restored
    BY <1>2, <1>5, <2>5, Zenon
  <2> QED BY <1>1, <1>2, <1>3, <1>4, <2>4, <2>5, <2>6, ForwardKeeps
<1>7. CASE work' = Abandon(p)
  <2>1. PICK v : v = WorkOf(w, "undo", n, w.ok, w.restored)
    OBVIOUS
  <2>2. v = [w EXCEPT !.phase = "undo", !.next = n]
    <3>1. w \in Work
      BY <1>2
    <3> QED BY <2>1, <3>1, WorkUpdates
  <2>3. work' = [work EXCEPT ![p] = v]
    BY <1>1, <1>7, <2>2 DEF Abandon, ChangesInv, TypeOK
  <2>4. v \in Work /\ v.phase = "undo" /\ v.plan = w.plan /\ v.next = n
        /\ v.ok = ok /\ v.restored = restored
    BY <1>2, <1>5, <2>1 DEF WorkOf, Work, Phases
  <2>5. ~v.ok /\ v.restored
    BY <1>2, <1>5, <2>4, Zenon
  <2> QED BY <1>1, <1>2, <1>3, <1>4, <2>3, <2>4, <2>5, ForwardKeeps
<1> QED BY <1>6, <1>7 DEF Health

-----------------------------------------------------------------------------
(* The rollback                                                            *)

LEMMA UndoneType ==
    ASSUME NEW e \in Entry
    PROVE  /\ Undone(e) \in Contents \cup {Absent}
           /\ e.original \notin Binary =>
                 Undone(e) = IF e.existed THEN e.original ELSE Absent
BY ChangesAssumption DEF Undone, Entry

LEMMA UndoKeeps ==
    ASSUME ChangesInv, NEW p \in Sets, Undo(p)
    PROVE  ChangesInv'
<1>1. PICK w, plan, n, m : w = work[p] /\ plan = w.plan /\ n = Len(plan) /\ m = w.next
  OBVIOUS
<1>2. PICK e : e = plan[m]
  OBVIOUS
<1>3. w.phase = "undo" /\ m > 0 /\ work[p].phase # "none"
  BY <1>1 DEF Undo
<1>4. /\ w \in Work /\ n \in Nat /\ PlanSound(plan) /\ ProgressSound(p) /\ FilesSound(p)
      /\ m \in 1..n /\ e \in Entry /\ ~w.ok /\ "mixed" \notin loaded[p]
      /\ touched[p] \subseteq 1..n /\ \A i \in 1..n : plan[i] \in Entry
  BY <1>1, <1>2, <1>3, AtWork DEF ProgressSound
<1>5. PICK replaced, reported \in BOOLEAN :
         /\ reported => replaced
         /\ work' = [work EXCEPT ![p].next = @ - 1, ![p].restored = @ /\ reported]
         /\ IF replaced
            THEN /\ disk' = [disk EXCEPT ![e.path] = Undone(e)]
                 /\ Disturb(e.path, Sets \ {p})
            ELSE UNCHANGED <<disk, moved>>
  BY <1>1, <1>2 DEF Undo
<1>6. UNCHANGED <<budget, rows, reading, gateVars, claim, touched, loaded>>
  BY DEF Undo
<1>7. PICK ok, restored \in BOOLEAN : ok = w.ok /\ restored = (w.restored /\ reported)
  BY <1>1, <1>3, AtWork, Zenon
<1>8. PICK next \in Nat : next = m - 1
  BY <1>4
<1>9. PICK v \in Work :
         /\ work' = [work EXCEPT ![p] = v]
         /\ v.phase = "undo" /\ v.plan = plan /\ v.next = next /\ ~v.ok
         /\ v.restored => w.restored /\ reported
  <2>1. PICK v : v = WorkOf(w, w.phase, next, w.ok, restored)
    OBVIOUS
  <2>2. v = [w EXCEPT !.next = next, !.restored = restored]
    <3>1. w \in Work
      BY <1>4
    <3>2. PICK y : y = [w EXCEPT !.next = next]
      OBVIOUS
    <3>3. y = WorkOf(w, w.phase, next, w.ok, w.restored)
      BY <3>1, <3>2 DEF Work, WorkOf
    <3>4. v = [y EXCEPT !.restored = restored]
      BY <2>1, <3>3 DEF WorkOf
    <3> QED BY <3>2, <3>4
  <2>3. work' = [work EXCEPT ![p] = v]
    <3>1. v = [w EXCEPT !.next = @ - 1, !.restored = @ /\ reported]
      BY <1>1, <1>7, <1>8, <2>2, Zenon
    <3>2. [work EXCEPT ![p].next = @ - 1, ![p].restored = @ /\ reported]
            = [work EXCEPT ![p] = [w EXCEPT !.next = @ - 1, !.restored = @ /\ reported]]
      BY <1>1 DEF ChangesInv, TypeOK
    <3> QED BY <1>5, <3>1, <3>2, Zenon
  <2>4. v \in Work /\ v.phase = "undo" /\ v.plan = w.plan /\ v.next = next
        /\ v.ok = ok /\ v.restored = restored
    <3>1. w \in Work
      BY <1>4
    <3> QED BY <1>3, <1>7, <2>1, <3>1 DEF WorkOf, Work, Phases
  <2>5. ~v.ok /\ (v.restored => w.restored /\ reported)
    BY <1>4, <1>7, <2>4, Zenon
  <2> QED BY <1>1, <2>3, <2>4, <2>5
<1>10. e.path \in Files /\ Undone(e) \in Contents \cup {Absent}
  BY <1>4, UndoneType DEF Entry
<1>11. /\ disk' \in [Files -> Contents \cup {Absent}]
       /\ \A f \in Files \ {e.path} : disk'[f] = disk[f]
       /\ replaced => disk'[e.path] = Undone(e)
       /\ ~replaced => disk' = disk
  BY <1>5, <1>10 DEF ChangesInv, TypeOK
<1>12. /\ moved' \in [Sets -> SUBSET Files]
       /\ moved'[p] = moved[p]
       /\ \A q \in Sets : moved[q] \subseteq moved'[q]
       /\ replaced => \A q \in Sets \ {p} : work[q].phase # "none" => e.path \in moved'[q]
  BY <1>5, <1>10, DisturbFacts DEF ChangesInv, TypeOK
<1>13. work'[p] = v /\ \A q \in Sets \ {p} : work'[q] = work[q]
  BY <1>9 DEF ChangesInv, TypeOK
<1>14. \A q \in Sets \ {p} : Rests(q)
  BY <1>6, <1>11, <1>12, <1>13 DEF Rests
<1>15. ProgressSound(p)'
  <2>1. v.next <= n
    BY <1>4, <1>8, <1>9
  <2> QED BY <1>1, <1>4, <1>6, <1>9, <1>13, <2>1 DEF ProgressSound
<1>16. FilesSound(p)'
  <2> SUFFICES ASSUME NEW i \in 1..n, plan[i].path \notin moved[p]
               PROVE  Placed(p, i)'
    BY <1>1, <1>9, <1>12, <1>13 DEF FilesSound
  <2>1. Placed(p, i) /\ plan[i].path \in Files
    BY <1>1, <1>4 DEF FilesSound, Entry
  <2>2. /\ i <= m => disk[plan[i].path] \in {plan[i].cand, plan[i].baseline}
        /\ i > m /\ w.restored => disk[plan[i].path] = Undone(plan[i])
    BY <1>1, <1>3, <2>1 DEF Placed
  <2>3. i <= next <=> i < m
    BY <1>4, <1>8
  <2>4. CASE i = m
    <3>1. v.restored => disk'[plan[i].path] = Undone(plan[i])
      BY <1>2, <1>5, <1>9, <1>11, <2>4
    <3>2. ~(i <= next)
      BY <2>3, <2>4, <1>4
    <3> QED BY <1>9, <1>13, <3>1, <3>2 DEF Placed
  <2>5. CASE i # m
    <3>1. disk'[plan[i].path] = disk[plan[i].path]
      BY <1>1, <1>2, <1>4, <1>11, <2>1, <2>5 DEF PlanSound
    <3>2. /\ i <= next => disk'[plan[i].path] \in {plan[i].cand, plan[i].baseline}
          /\ i > next /\ v.restored => disk'[plan[i].path] = Undone(plan[i])
      BY <1>4, <1>8, <1>9, <2>2, <2>3, <2>5, <3>1
    <3> QED BY <1>9, <1>13, <3>2 DEF Placed
  <2> QED BY <2>4, <2>5
<1>17. touched'[p] \subseteq 1..Len(v.plan) /\ touched' \in [Sets -> SUBSET Nat]
       /\ loaded' \in [Sets -> SUBSET {"new", "old", "mixed", "foreign"}]
  BY <1>1, <1>4, <1>6, <1>9 DEF ChangesInv, TypeOK
<1>18. v.phase # "none" /\ v.plan = work[p].plan
  BY <1>1, <1>9
<1> QED BY <1>3, <1>6, <1>9, <1>11, <1>12, <1>14, <1>15, <1>16, <1>17, <1>18, StepKeeps

\* What a rolled-back set leaves is no mixture, when decoding lost nothing.
LEMMA RestoredMixture ==
    ASSUME NEW p, PlanSound(work[p].plan), \A i \in 1..Len(work[p].plan) : work[p].plan[i] \in Entry,
           \A i \in 1..Len(work[p].plan) :
               LET e == work[p].plan[i] IN
                   e.path \in moved[p] \/ disk[e.path] = Undone(e),
           \A i \in 1..Len(work[p].plan) : work[p].plan[i].original \notin Binary
    PROVE  Mixture(p) # "mixed"
<1>1. CASE moved[p] # {}
  BY <1>1 DEF Mixture
<1>2. CASE moved[p] = {}
  <2>1. \A i \in 1..Len(work[p].plan) :
           disk[work[p].plan[i].path] = work[p].plan[i].baseline
    BY <1>2, UndoneType DEF PlanSound
  <2>2. Unchanged(work[p].plan)
    BY <2>1 DEF Unchanged
  <2> QED BY <1>2, <2>2 DEF Mixture
<1> QED BY <1>1, <1>2

LEMMA UndoReloadKeeps ==
    ASSUME ChangesInv, NEW p \in Sets, UndoReload(p)
    PROVE  ChangesInv'
<1>1. PICK w, plan, n : w = work[p] /\ plan = w.plan /\ n = Len(plan)
  OBVIOUS
<1>2. work[p].phase = "undo" /\ w.phase = "undo" /\ w.next = 0
  BY <1>1 DEF UndoReload
<1>3. /\ w \in Work /\ n \in Nat /\ PlanSound(plan) /\ ProgressSound(p) /\ FilesSound(p)
      /\ ~w.ok /\ "mixed" \notin loaded[p]
      /\ touched[p] \subseteq 1..n /\ \A i \in 1..n : plan[i] \in Entry
  BY <1>1, <1>2, AtWork DEF ProgressSound
<1>4. PICK taken \in BOOLEAN : Loads(p, taken)
  BY DEF UndoReload
<1>5. UNCHANGED <<budget, disk, rows, reading, gateVars, claim, touched, moved>>
  BY DEF UndoReload
<1>6. PICK v \in Work :
         /\ work' = [work EXCEPT ![p] = v]
         /\ v.phase = "report" /\ v.plan = plan /\ ~v.ok /\ (v.restored => w.restored)
  <2>1. PICK v : v = [w EXCEPT !.phase = "report"]
    OBVIOUS
  <2>2. work' = [work EXCEPT ![p] = v]
    BY <1>1, <2>1 DEF UndoReload, ChangesInv, TypeOK
  <2>3. PICK ok, restored \in BOOLEAN : ok = w.ok /\ restored = w.restored
    BY <1>1, <1>2, AtWork, Zenon
  <2>4. w \in Work
    BY <1>3
  <2>5. v \in Work /\ v.phase = "report" /\ v.plan = w.plan
        /\ v.ok = ok /\ v.restored = restored
    BY <2>1, <2>3, <2>4 DEF Work, Phases
  <2>6. ~v.ok /\ (v.restored => w.restored)
    BY <1>3, <2>3, <2>5, Zenon
  <2> QED BY <1>1, <2>2, <2>5, <2>6
<1>7. work'[p] = v /\ \A q \in Sets \ {p} : work'[q] = work[q]
  BY <1>6 DEF ChangesInv, TypeOK
<1>8. /\ loaded' \in [Sets -> SUBSET {"new", "old", "mixed", "foreign"}]
      /\ \A q \in Sets \ {p} : loaded'[q] = loaded[q]
      /\ loaded'[p] = IF taken THEN loaded[p] \cup {Mixture(p)} ELSE loaded[p]
  BY <1>4, LoadsFacts
<1>9. \A i \in 1..n : w.restored => plan[i].path \in moved[p] \/ disk[plan[i].path] = Undone(plan[i])
  BY <1>1, <1>2, <1>3 DEF FilesSound, Placed
<1>10. \A q \in Sets \ {p} : Rests(q)
  BY <1>5, <1>7, <1>8 DEF Rests
<1>11. ProgressSound(p)'
  <2>1. "mixed" \in loaded'[p] /\ v.restored => \E i \in 1..n : plan[i].original \in Binary
    BY <1>1, <1>3, <1>6, <1>8, <1>9, RestoredMixture
  <2> QED BY <1>1, <1>3, <1>5, <1>6, <1>7, <2>1 DEF ProgressSound
<1>12. FilesSound(p)'
  BY <1>1, <1>5, <1>6, <1>7, <1>9 DEF FilesSound, Placed
<1>13. /\ touched'[p] \subseteq 1..Len(v.plan) /\ touched' \in [Sets -> SUBSET Nat]
       /\ disk' \in [Files -> Contents \cup {Absent}] /\ moved' \in [Sets -> SUBSET Files]
       /\ v.phase # "none" /\ v.plan = work[p].plan /\ work[p].phase # "none"
  BY <1>1, <1>2, <1>3, <1>5, <1>6 DEF ChangesInv, TypeOK
<1> QED BY <1>5, <1>6, <1>8, <1>10, <1>11, <1>12, <1>13, StepKeeps

-----------------------------------------------------------------------------
(* The outcome                                                             *)

LEMMA NoWorkType ==
    NoWork \in Work /\ NoWork.phase = "none" /\ ~NoWork.ok
<1>1. PICK ok, restored \in BOOLEAN : ok = FALSE /\ restored = TRUE
  BY Zenon
<1>2. NoWork = [phase |-> "none", server |-> NoServer, plan |-> <<>>, next |-> 1, ok |-> ok,
                restored |-> restored]
  BY <1>1, Zenon DEF NoWork
<1>3. PICK x : x = [phase |-> "none", server |-> NoServer, plan |-> <<>>, next |-> 1, ok |-> ok,
                    restored |-> restored]
  OBVIOUS
<1>4. x \in Work /\ x.phase = "none" /\ x.ok = ok
  BY <1>3, EmptyPlan DEF Work, Phases
<1> QED BY <1>1, <1>2, <1>3, <1>4, Zenon

\* The apply of p is over, or died with its process.
OverFor(p) ==
    /\ work'[p] = NoWork /\ moved'[p] = {} /\ loaded'[p] = {}
    /\ claim'[p] = claim[p] /\ touched'[p] = touched[p]

LEMMA OverKeeps ==
    ASSUME ChangesInv, UsedTokensStay, NEW p \in Sets, OverFor(p), RecordSound(p)'
    PROVE  SetSound(p)'
<1>1. ProgressSound(p)' /\ ApplySound(p)'
  BY NoWorkType DEF OverFor, ProgressSound, ApplySound
<1>2. ClaimSound(p)'
  BY ClaimStays DEF ChangesInv, SetSound, OverFor
<1> QED BY <1>1, <1>2 DEF SetSound

LEMMA ApplyFinishKeeps ==
    ASSUME ChangesInv, NEW p \in Sets, ApplyFinish(p)
    PROVE  ChangesInv'
<1>1. PICK state : state = Outcome(work[p])
  OBVIOUS
<1>2. PICK r : r = [NoRow EXCEPT !.state = state]
  OBVIOUS
<1>3. /\ state \in {"completed", "rolled_back", "failed"}
      /\ state = "completed" => work[p].ok
  BY <1>1 DEF Outcome
<1>4. r \in Row /\ r.state = state /\ PlanSound(r.files)
  BY <1>2, <1>3, NoRowType, EmptyPlan DEF States
<1>5. PICK saved \in BOOLEAN : Commit(saved, IF Stored(Cleaned[p]) THEN [Cleaned EXCEPT ![p] = r]
                                              ELSE Cleaned)
  BY <1>1, <1>2 DEF ApplyFinish
<1>6. rows' = [Cleaned EXCEPT ![p] = r] \/ Commit(saved, Cleaned)
  BY <1>5 DEF Commit
<1>7. /\ rows' \in [Sets -> Row]
      /\ \A q \in Sets \ {p} : SweptOrSame(q) /\ PlanSound(rows'[q].files)
      /\ \/ SweptOrSame(p) /\ PlanSound(rows'[p].files)
         \/ rows'[p] = r
  <2>1. CASE rows' = [Cleaned EXCEPT ![p] = r]
    BY <1>4, <2>1, CleanedKeeps DEF SweptOrSame
  <2>2. CASE Commit(saved, Cleaned)
    BY <2>2, CommitKeeps
  <2> QED BY <1>6, <2>1, <2>2
<1>8. Gate!GrantsTypeOK' /\ TokensSound' /\ UsedTokensStay
  BY NoGateStep DEF ChangesInv, ApplyFinish
<1>9. TypeOK'
  BY <1>7, <1>8, NoWorkType DEF ApplyFinish, ChangesInv, TypeOK
<1>10. \A q \in Sets \ {p} : Rests(q)
  BY DEF ApplyFinish, Rests
<1>11. OverFor(p)
  BY DEF ApplyFinish, OverFor, ChangesInv, TypeOK
<1>12. SetSound(p) /\ work[p].phase = "report"
  BY DEF ChangesInv, ApplyFinish
<1>13. RecordSound(p)'
  <2>1. CASE SweptOrSame(p) /\ PlanSound(rows'[p].files)
    BY <1>11, <1>12, <2>1, RecordStays DEF SetSound, OverFor
  <2>2. CASE rows'[p] = r
    <3>1. work[p].ok => touched[p] = 1..Len(claim[p].plan) /\ claim[p].plan # <<>>
      BY <1>12 DEF SetSound, ProgressSound, ApplySound
    <3> QED BY <1>3, <1>4, <1>11, <1>12, <2>2, <3>1 DEF SetSound, RecordSound, OverFor
  <2> QED BY <1>7, <2>1, <2>2
<1> QED BY <1>7, <1>8, <1>9, <1>10, <1>11, <1>13, OverKeeps, RestKeeps DEF ChangesInv

-----------------------------------------------------------------------------
(* The world around the change sets                                        *)

LEMMA LapseKeeps ==
    ASSUME ChangesInv, NEW p \in Sets, Lapse(p)
    PROVE  ChangesInv'
<1>1. PICK r, r2 : r = rows[p] /\ r2 = [r EXCEPT !.due = TRUE]
  OBVIOUS
<1>2. r \in Row /\ \A q \in Sets : PlanSound(rows[q].files)
  BY <1>1 DEF ChangesInv, TypeOK, SetSound, RecordSound
<1>3. r2 \in Row /\ r2.state = r.state /\ r2.files = r.files
  <2>1. PICK due \in BOOLEAN : due = TRUE
    BY Zenon
  <2>2. PICK r3 : r3 = [r EXCEPT !.due = due]
    OBVIOUS
  <2>3. r3 \in Row /\ r3.state = r.state /\ r3.files = r.files
    BY <1>2, <2>2 DEF Row
  <2> QED BY <1>1, <2>1, <2>2, <2>3, Zenon
<1>4. rows' = [rows EXCEPT ![p] = r2]
  BY <1>1 DEF Lapse, ChangesInv, TypeOK
<1>5. rows' \in [Sets -> Row] /\ \A q \in Sets : SweptOrSame(q) /\ PlanSound(rows'[q].files)
  BY <1>1, <1>2, <1>3, <1>4 DEF ChangesInv, TypeOK, SweptOrSame
<1>6. Gate!GrantsTypeOK' /\ TokensSound' /\ UsedTokensStay
  BY NoGateStep DEF ChangesInv, Lapse
<1> QED BY <1>5, <1>6, QuietKeeps DEF Lapse, ChangesInv, TypeOK

LEMMA LoseTokenKeeps ==
    ASSUME ChangesInv, NEW s \in Servers, NEW t \in Tokens, LoseToken(s, t)
    PROVE  ChangesInv'
<1>1. Gate!GrantsTypeOK' /\ TokensSound' /\ UsedTokensStay
  BY LoseStep DEF ChangesInv, LoseToken
<1>2. \A q \in Sets : SweptOrSame(q) /\ PlanSound(rows'[q].files)
  BY DEF LoseToken, ChangesInv, SetSound, RecordSound, SweptOrSame
<1> QED BY <1>1, <1>2, QuietKeeps DEF LoseToken, ChangesInv, TypeOK

LEMMA HostChangesKeeps ==
    ASSUME ChangesInv, NEW b \in Budgets, HostChanges(b)
    PROVE  ChangesInv'
<1>1. Gate!GrantsTypeOK' /\ TokensSound' /\ UsedTokensStay
  BY NoGateStep DEF ChangesInv, HostChanges
<1>2. \A q \in Sets : SweptOrSame(q) /\ PlanSound(rows'[q].files)
  BY DEF HostChanges, ChangesInv, SetSound, RecordSound, SweptOrSame
<1>3. budget' \in Nat
  BY ChangesAssumption DEF HostChanges
<1> QED BY <1>1, <1>2, <1>3, QuietKeeps DEF HostChanges, ChangesInv, TypeOK

LEMMA CrashKeeps ==
    ASSUME ChangesInv, NEW s \in Servers, Crash(s)
    PROVE  ChangesInv'
<1>1. Gate!GrantsTypeOK' /\ TokensSound' /\ UsedTokensStay
  BY LoseStep DEF ChangesInv, Crash
<1>2. \A q \in Sets : SweptOrSame(q) /\ PlanSound(rows'[q].files)
  BY DEF Crash, ChangesInv, SetSound, RecordSound, SweptOrSame
<1>3. TypeOK'
  BY <1>1, NoWorkType DEF Crash, ChangesInv, TypeOK
<1>4. SUFFICES ASSUME NEW p \in Sets PROVE SetSound(p)'
  BY <1>1, <1>3 DEF ChangesInv
<1>5. CASE work[p].server = s
  <2>1. OverFor(p)
    BY <1>5 DEF Crash, OverFor
  <2>2. RecordSound(p)'
    BY <1>2, <2>1, RecordStays DEF ChangesInv, SetSound, OverFor
  <2> QED BY <1>1, <2>1, <2>2, OverKeeps
<1>6. CASE work[p].server # s
  <2>1. Rests(p)
    BY <1>6 DEF Crash, Rests
  <2> QED BY <1>1, <1>2, <2>1, RestKeeps
<1> QED BY <1>5, <1>6

LEMMA EditKeeps ==
    ASSUME ChangesInv, NEW f \in Files, NEW c \in Contents \cup {Absent}, Edit(f, c)
    PROVE  ChangesInv'
<1>1. Gate!GrantsTypeOK' /\ TokensSound' /\ UsedTokensStay
  BY NoGateStep DEF ChangesInv, Edit
<1>2. \A q \in Sets : SweptOrSame(q) /\ PlanSound(rows'[q].files)
  BY DEF Edit, ChangesInv, SetSound, RecordSound, SweptOrSame
<1>3. /\ moved' \in [Sets -> SUBSET Files]
      /\ \A q \in Sets : /\ moved[q] \subseteq moved'[q]
                         /\ work[q].phase # "none" => f \in moved'[q]
  BY DisturbFacts DEF Edit, ChangesInv
<1>4. \A q \in Sets : Rests(q)
  BY <1>3 DEF Edit, Rests, ChangesInv, TypeOK
<1>5. TypeOK'
  BY <1>1, <1>3 DEF Edit, ChangesInv, TypeOK
<1> QED BY <1>1, <1>2, <1>4, <1>5, RestKeeps DEF ChangesInv

LEMMA NextKeeps ==
    ASSUME ChangesInv, [Next]_vars
    PROVE  ChangesInv'
<1>1. CASE Browse
  BY <1>1, BrowseKeeps
<1>2. ASSUME NEW p \in Sets, Progress(p) PROVE ChangesInv'
  BY <1>2, WriteKeeps, ValidateKeeps, ReloadKeeps, HealthKeeps, UndoKeeps, UndoReloadKeeps,
     ApplyFinishKeeps DEF Progress
<1>3. ASSUME NEW p \in Sets,
             \/ Begin(p) \/ StageCommit(p) \/ Lapse(p)
             \/ \E f \in Files, c \in Candidates : StageRead(p, f, c)
      PROVE  ChangesInv'
  BY <1>3, BeginKeeps, StageCommitKeeps, LapseKeeps, StageReadKeeps
<1>4. ASSUME NEW p \in Sets,
             \/ \E s \in Servers, t \in Tokens : RequestToken(s, p, t) \/ SpendToken(s, p, t)
             \/ \E s \in Servers, t \in Tokens \cup {NoToken} : ApplyClaim(s, p, t)
      PROVE  ChangesInv'
  BY <1>4, TokenCallsKeep, ClaimKeeps
<1>5. CASE \E s \in Servers : Crash(s) \/ \E t \in Tokens : LoseToken(s, t)
  BY <1>5, CrashKeeps, LoseTokenKeeps
<1>6. CASE \E b \in Budgets : HostChanges(b)
  BY <1>6, HostChangesKeeps
<1>7. CASE \E f \in Files, c \in Contents \cup {Absent} : Edit(f, c)
  BY <1>7, EditKeeps
<1>8. CASE UNCHANGED vars
  <2>1. Gate!GrantsTypeOK' /\ TokensSound' /\ UsedTokensStay
    BY <1>8, NoGateStep DEF ChangesInv, vars, gateVars
  <2>2. \A q \in Sets : SweptOrSame(q) /\ PlanSound(rows'[q].files)
    BY <1>8 DEF vars, ChangesInv, SetSound, RecordSound, SweptOrSame
  <2>3. UNCHANGED <<disk, work, history>>
    BY <1>8 DEF vars, history
  <2> QED BY <1>8, <2>1, <2>2, <2>3, QuietKeeps DEF vars, ChangesInv, TypeOK
<1> QED BY <1>1, <1>2, <1>3, <1>4, <1>5, <1>6, <1>7, <1>8 DEF Next

LEMMA InitSound == Init => ChangesInv
<1> SUFFICES ASSUME Init PROVE ChangesInv
  OBVIOUS
<1>1. NoRow \in Row /\ NoRow.state = "absent" /\ NoRow.files = <<>>
  BY EmptyPlan DEF NoRow, Row, States
<1>2. NoClaim \in Claim /\ NoClaim.plan = <<>> /\ NoClaim.mode = "none" /\ NoClaim.token = NoToken
  BY EmptyPlan DEF NoClaim, Claim
<1>3. Gate!GrantsTypeOK /\ TokensSound
  BY DEF Init, Gate!Init, Gate!GrantsTypeOK, TokensSound
<1>4. TypeOK
  BY <1>1, <1>2, <1>3, NoWorkType, ChangesAssumption DEF Init, TypeOK
<1>5. ASSUME NEW p \in Sets PROVE SetSound(p)
  <2>1. rows[p] = NoRow /\ work[p] = NoWork /\ claim[p] = NoClaim /\ touched[p] = {}
        /\ moved[p] = {} /\ loaded[p] = {}
    BY DEF Init
  <2>2. ProgressSound(p) /\ ApplySound(p)
    BY <2>1, NoWorkType DEF ProgressSound, ApplySound
  <2>3. RecordSound(p)
    BY <1>1, <1>2, <2>1, EmptyPlan DEF RecordSound
  <2>4. ClaimSound(p)
    BY <1>2, <2>1 DEF ClaimSound
  <2> QED BY <2>2, <2>3, <2>4 DEF SetSound
<1> QED BY <1>3, <1>4, <1>5 DEF ChangesInv

-----------------------------------------------------------------------------
(* The results                                                             *)

\* In every reachable state an apply works off the plan it was claimed with,
\* has written a prefix of it, and a file it has reached holds what the apply
\* has put there unless somebody else changed it (src/changeset.py).
THEOREM ChangesInvariant == Spec => []ChangesInv
<1>1. Init => ChangesInv
  BY InitSound
<1>2. ChangesInv /\ [Next]_vars => ChangesInv'
  BY NextKeeps
<1> QED BY <1>1, <1>2, PTL DEF Spec

\* What an apply writes is what was confirmed, by a token that confirmed
\* nothing else (apply_change_set of src/changeset.py).
THEOREM ChangesClaimedAsConfirmed == Spec => []ClaimedAsConfirmed
<1>1. ChangesInv => ClaimedAsConfirmed
  <2> SUFFICES ASSUME ChangesInv, NEW p \in Sets, claim[p].mode = "controlled"
               PROVE  /\ grant[claim[p].token] = Demand(p, claim[p].plan)
                      /\ \A s \in Servers : claim[p].token \notin live[s]
                      /\ \A q \in Sets \ {p} : claim[q].token # claim[p].token
    BY DEF ChangesInv, ClaimedAsConfirmed
  <2>1. \A q \in Sets : ClaimSound(q) /\ claim[q] \in Claim
    BY DEF ChangesInv, SetSound, TypeOK
  <2>2. /\ claim[p].token \in redeemed /\ grant[claim[p].token] = Demand(p, claim[p].plan)
        /\ claim[p].token # NoToken
    BY <2>1, ChangesAssumption DEF ClaimSound, ChangesInv, TypeOK, Gate!GrantsTypeOK
  <2>3. \A s \in Servers : claim[p].token \notin live[s]
    BY <2>2 DEF ChangesInv, TokensSound
  <2>4. \A q \in Sets \ {p} : claim[q].token # claim[p].token
    <3> SUFFICES ASSUME NEW q \in Sets \ {p}, claim[q].token = claim[p].token PROVE FALSE
      OBVIOUS
    <3>1. grant[claim[q].token] = Demand(q, claim[q].plan)
      BY <2>1, <2>2 DEF ClaimSound
    <3>2. Demand(q, claim[q].plan).set = q /\ Demand(p, claim[p].plan).set = p
      BY DEF Demand
    <3> QED BY <2>2, <3>1, <3>2
  <2> QED BY <2>2, <2>3, <2>4
<1> QED BY <1>1, ChangesInvariant, PTL

\* RollbackRestores for a set some of whose files may not be text.
TextRestored ==
    \A p \in Sets : work[p].phase = "report" /\ Outcome(work[p]) = "rolled_back" =>
        \A i \in 1..Len(work[p].plan) :
            LET e == work[p].plan[i] IN
                \/ disk[e.path] = e.baseline
                \/ e.path \in moved[p]
                \/ e.original \in Binary

\* ServedWhole for a set some of whose files may not be text.
TextServed ==
    \A p \in Sets : work[p].phase = "report" /\ Outcome(work[p]) # "failed" =>
          /\ "mixed" \in loaded[p] => \E i \in 1..Len(work[p].plan) : work[p].plan[i].original \in Binary
          /\ work[p].ok /\ moved[p] = {} => "new" \in loaded[p]

LEMMA InvRestores == ChangesInv => TextRestored
<1> SUFFICES ASSUME ChangesInv, NEW p \in Sets,
                    work[p].phase = "report", Outcome(work[p]) = "rolled_back",
                    NEW i \in 1..Len(work[p].plan)
             PROVE  \/ disk[work[p].plan[i].path] = work[p].plan[i].baseline
                    \/ work[p].plan[i].path \in moved[p]
                    \/ work[p].plan[i].original \in Binary
  BY DEF TextRestored
<1>1. ~work[p].ok /\ work[p].restored
  BY DEF Outcome
<1>2. PICK e : e = work[p].plan[i]
  OBVIOUS
<1>3. /\ e \in Entry /\ e.baseline = IF e.existed THEN e.original ELSE Absent
      /\ e.path \in moved[p] \/ Placed(p, i)
  BY <1>2, AtWork DEF PlanSound, FilesSound
<1>4. e.path \in moved[p] \/ disk[e.path] = Undone(e)
  BY <1>1, <1>2, <1>3 DEF Placed
<1> QED BY <1>2, <1>3, <1>4, UndoneType

LEMMA InvServed == ChangesInv => TextServed
<1> SUFFICES ASSUME ChangesInv, NEW p \in Sets,
                    work[p].phase = "report", Outcome(work[p]) # "failed"
             PROVE  /\ "mixed" \in loaded[p] =>
                          \E i \in 1..Len(work[p].plan) : work[p].plan[i].original \in Binary
                    /\ work[p].ok /\ moved[p] = {} => "new" \in loaded[p]
  BY DEF TextServed
<1>1. ProgressSound(p)
  BY DEF ChangesInv, SetSound
<1>2. work[p].ok \/ work[p].restored
  BY DEF Outcome
<1> QED BY <1>1, <1>2 DEF ProgressSound

\* When an apply is about to report "rolled_back", every text file of the set
\* holds what it was reviewed against, unless somebody else changed it; nginx
\* was never made to run a mixture, unless a file was not text (_rollback).
THEOREM ChangesTextRestored == Spec => [](TextRestored /\ TextServed)
BY ChangesInvariant, InvRestores, InvServed, PTL

\* RollbackRestores, where every file is text.
THEOREM ChangesRollbackRestores ==
    ASSUME Binary = {}
    PROVE  Spec => []RollbackRestores
<1>1. TextRestored => RollbackRestores
  BY DEF TextRestored, RollbackRestores
<1> QED BY <1>1, ChangesInvariant, InvRestores, PTL

\* ServedWhole, where every file is text: nginx runs all of a set or nothing
\* of it when its apply reports "completed" or "rolled_back".
THEOREM ChangesServedWhole ==
    ASSUME Binary = {}
    PROVE  Spec => []ServedWhole
<1>1. TextServed /\ ClaimedAsConfirmed => ServedWhole
  BY DEF TextServed, ServedWhole
<1> QED BY <1>1, ChangesInvariant, InvServed, ChangesClaimedAsConfirmed, PTL

-----------------------------------------------------------------------------
(* What an apply overwrites                                                *)

\* Writes and rollbacks of p find what was reviewed or written by p, unless
\* the file was changed after the claim.
OverwritesOwn(p) ==
    work'[p] # work[p] => \A f \in Files : disk'[f] # disk[f] =>
        \/ f \in moved[p]
        \/ \E i \in 1..Len(claim[p].plan) :
              LET e == claim[p].plan[i] IN e.path = f /\ disk[f] \in {e.baseline, e.cand}

LEMMA OverwriteStep ==
    ASSUME ChangesInv, Next
    PROVE  \A p \in Sets : OverwritesOwn(p)
<1>1. ASSUME NEW q \in Sets, Write(q) \/ Undo(q) PROVE \A p \in Sets : OverwritesOwn(p)
  <2>1. PICK w, m, e : w = work[q] /\ m = w.next /\ e = w.plan[m]
    OBVIOUS
  <2>2. work[q].phase \in {"write", "undo"} /\ m \in 1..Len(work[q].plan)
    <3>1. work[q].phase \in {"write", "undo"} /\ (work[q].phase = "undo" => m > 0)
      BY <1>1, <2>1 DEF Write, Undo
    <3>2. /\ Len(work[q].plan) \in Nat /\ m \in Nat /\ ProgressSound(q)
      BY <2>1, <3>1, AtWork
    <3> QED BY <2>1, <3>1, <3>2 DEF ProgressSound
  <2>3. /\ e.path \in moved[q] \/ Placed(q, m)
        /\ e \in Entry /\ work[q].plan = claim[q].plan /\ ~work[q].ok
    BY <2>1, <2>2, AtWork DEF ProgressSound, FilesSound, ChangesInv, SetSound, ApplySound
  <2>4. e.path \in moved[q] \/ disk[e.path] \in {e.baseline, e.cand}
    <3>1. m = work[q].next /\ e = work[q].plan[m] /\ ~(m < m) /\ m <= m
      BY <2>1, <2>2
    <3>2. CASE work[q].phase = "write"
      BY <2>3, <3>1, <3>2 DEF Placed
    <3>3. CASE work[q].phase = "undo"
      BY <2>3, <3>1, <3>3 DEF Placed
    <3> QED BY <2>2, <3>2, <3>3
  <2>5. \A f \in Files \ {e.path} : disk'[f] = disk[f]
    BY <1>1, <2>1 DEF Write, Undo, ChangesInv, TypeOK
  <2>6. \A p \in Sets \ {q} : work'[p] = work[p]
    <3>1. PICK v : work' = [work EXCEPT ![q] = v]
      <4>1. DOMAIN work = Sets
        BY DEF ChangesInv, TypeOK
      <4> QED BY <1>1, <4>1 DEF Write, Undo, Proceed, Abandon
    <3> QED BY <3>1 DEF ChangesInv, TypeOK
  <2>7. OverwritesOwn(q)
    <3>1. e = claim[q].plan[m] /\ m \in 1..Len(claim[q].plan)
      BY <2>1, <2>2, <2>3
    <3> QED BY <2>4, <2>5, <3>1 DEF OverwritesOwn
  <2> QED BY <2>6, <2>7 DEF OverwritesOwn
<1>2. CASE disk' = disk \/ work' = work
  BY <1>2 DEF OverwritesOwn
<1>3. CASE Browse
  BY <1>2, <1>3 DEF Browse
<1>4. ASSUME NEW q \in Sets, Progress(q) PROVE \A p \in Sets : OverwritesOwn(p)
  BY <1>1, <1>2, <1>4 DEF Progress, Validate, Reload, Health, UndoReload, ApplyFinish
<1>5. ASSUME NEW q \in Sets,
             \/ Begin(q) \/ StageCommit(q) \/ Lapse(q)
             \/ \E f \in Files, c \in Candidates : StageRead(q, f, c)
             \/ \E s \in Servers, t \in Tokens : RequestToken(s, q, t) \/ SpendToken(s, q, t)
             \/ \E s \in Servers, t \in Tokens \cup {NoToken} : ApplyClaim(s, q, t)
      PROVE  disk' = disk
  BY <1>5 DEF Begin, StageCommit, Lapse, StageRead, RequestToken, SpendToken, ApplyClaim
<1>6. CASE \E s \in Servers : Crash(s) \/ \E t \in Tokens : LoseToken(s, t)
  BY <1>2, <1>6 DEF Crash, LoseToken
<1>7. CASE \/ \E b \in Budgets : HostChanges(b)
           \/ \E f \in Files, c \in Contents \cup {Absent} : Edit(f, c)
  BY <1>2, <1>7 DEF HostChanges, Edit
<1> QED BY <1>2, <1>3, <1>4, <1>5, <1>6, <1>7 DEF Next

\* An apply destroys only content that was reviewed or that it wrote itself,
\* unless that very file was changed after the claim: the window between the
\* comparison under the lock and the write (apply_change_set, _rollback).
THEOREM ChangesOverwriteOnlyInWindow == Spec => OverwriteOnlyInWindow
<1>1. ChangesInv /\ [Next]_vars =>
        [\A p \in Sets : work'[p] # work[p] => \A f \in Files : disk'[f] # disk[f] =>
           \/ f \in moved[p]
           \/ \E i \in 1..Len(claim[p].plan) :
                 LET e == claim[p].plan[i] IN e.path = f /\ disk[f] \in {e.baseline, e.cand}]_vars
  BY OverwriteStep DEF OverwritesOwn
<1> QED BY <1>1, ChangesInvariant, PTL DEF Spec, OverwriteOnlyInWindow

-----------------------------------------------------------------------------
(* The life of a change set                                                *)

\* What a step may do to set p, in the terms of DraftLifecycle.
LifeStep(p) ==
    LET from == Phase(rows[p])  to == Phase(rows'[p])
        before == Extent(p)     after == Extent(p)'
    IN  \/ to = from /\ after = before
        \/ from = "absent" /\ to = "open" /\ after = before
        \/ from = "open" /\ to \in {"claimed", "expired"} /\ after = before
        \/ from = "claimed" /\ to = "completed" /\ before = "all" /\ after = before
        \/ from = "claimed" /\ to \in {"failed", "uncertain"} /\ after = before
        \/ /\ from \in {"claimed", "uncertain"} /\ to = from
           /\ before # "all" /\ after \in {"some", "all"}

LEMMA ExtentType ==
    ASSUME NEW p
    PROVE  Extent(p) \in {"none", "some", "all"}
BY DEF Extent

LEMMA SweptLife ==
    ASSUME NEW p \in Sets, SweptOrSame(p), claim'[p] = claim[p], touched'[p] = touched[p]
    PROVE  LifeStep(p)
<1>1. Extent(p)' = Extent(p)
  BY DEF Extent
<1> QED BY <1>1 DEF LifeStep, SweptOrSame, Phase

LEMMA LifeNext ==
    ASSUME ChangesInv, \A p \in Sets : LifeStep(p), rows' \in [Sets -> Row]
    PROVE  Lifecycle!Next
<1>1. \A p \in Sets : Extent(p)' \in {"none", "some", "all"}
  BY DEF Extent
<1>2. \A p \in Sets : Phase(rows'[p]) \in Lifecycle!Phases
  BY DEF Row, States, Phase, Lifecycle!Phases
<1>3. ASSUME NEW p \in Sets
      PROVE  \/ Lifecycle!Stay(p) \/ Lifecycle!Create(p) \/ Lifecycle!Claim(p)
             \/ Lifecycle!Expire(p) \/ Lifecycle!Complete(p) \/ Lifecycle!Fail(p)
             \/ Lifecycle!Lose(p) \/ Lifecycle!Effect(p)
  <2>1. LifeStep(p)
    OBVIOUS
  <2> QED BY <2>1 DEF LifeStep, Lifecycle!Stay, Lifecycle!Create, Lifecycle!Claim,
              Lifecycle!Expire, Lifecycle!Complete, Lifecycle!Fail, Lifecycle!Lose,
              Lifecycle!Effect, Lifecycle!Moves
<1> QED BY <1>1, <1>2, <1>3 DEF Lifecycle!Next, Lifecycle!Extents

LEMMA BeginLives ==
    ASSUME ChangesInv, NEW p \in Sets, Begin(p)
    PROVE  \A q \in Sets : LifeStep(q)
<1>1. \A q \in Sets : claim'[q] = claim[q] /\ touched'[q] = touched[q]
  BY DEF Begin, history
<1>2. \A q \in Sets \ {p} : SweptOrSame(q)
  BY CleanedKeeps DEF Begin, SweptOrSame
<1>3. rows[p].state = "absent" /\ rows'[p].state = "staging"
  BY CleanedKeeps, NoRowType DEF Begin, States
<1>4. Extent(p)' = Extent(p)
  BY <1>1 DEF Extent
<1>5. LifeStep(p)
  BY <1>3, <1>4 DEF LifeStep, Phase
<1> QED BY <1>1, <1>2, <1>5, SweptLife

LEMMA ClaimLives ==
    ASSUME ChangesInv, NEW s \in Servers, NEW p \in Sets, NEW t \in Tokens \cup {NoToken},
           ApplyClaim(s, p, t)
    PROVE  \A q \in Sets : LifeStep(q)
<1>1. \A q \in Sets \ {p} : claim'[q] = claim[q] /\ touched'[q] = touched[q] /\ SweptOrSame(q)
  BY CleanedKeeps DEF ApplyClaim, SweptOrSame
<1>2. rows[p].state = "staging" /\ rows'[p].state = "applying"
  <2>1. PICK r, r1 : r = Cleaned[p] /\ r1 = [r EXCEPT !.state = "applying"]
    OBVIOUS
  <2>2. r \in Row /\ r.state = "staging" /\ rows[p].state = "staging"
    BY <2>1, CleanedKeeps DEF ApplyClaim
  <2>3. r1.state = "applying" /\ [r1 EXCEPT !.due = FALSE].state = "applying"
    BY <2>1, <2>2 DEF Row
  <2>4. rows'[p] = [r1 EXCEPT !.due = FALSE]
    BY <2>1, CleanedKeeps DEF ApplyClaim
  <2> QED BY <2>2, <2>3, <2>4
<1>3. touched[p] = {} /\ touched'[p] = {}
  <2>1. claim[p].plan = <<>> /\ touched[p] \subseteq 1..Len(claim[p].plan)
    BY <1>2 DEF ChangesInv, SetSound, RecordSound, NoClaim
  <2> QED BY <2>1, EmptyPlan DEF ApplyClaim
<1>4. Extent(p) = "none" /\ Extent(p)' = "none"
  BY <1>3 DEF Extent
<1>5. LifeStep(p)
  BY <1>2, <1>4 DEF LifeStep, Phase
<1> QED BY <1>1, <1>5, SweptLife

LEMMA WriteLives ==
    ASSUME ChangesInv, NEW p \in Sets, Write(p)
    PROVE  \A q \in Sets : LifeStep(q)
<1>1. PICK m, n : m = work[p].next /\ n = Len(claim[p].plan)
  OBVIOUS
<1>2. /\ work[p].phase = "write" /\ ProgressSound(p) /\ work[p].plan = claim[p].plan
      /\ rows[p].state \in {"applying", "uncertain"}
  BY DEF Write, ChangesInv, SetSound, ApplySound
<1>3. m \in 1..n /\ touched[p] = 1..(m - 1) /\ n \in Nat
  BY <1>1, <1>2, AtWork DEF ProgressSound
<1>4. /\ \A q \in Sets : claim'[q] = claim[q] /\ SweptOrSame(q)
      /\ \A q \in Sets \ {p} : touched'[q] = touched[q]
      /\ touched'[p] = touched[p] \/ touched'[p] = touched[p] \cup {m}
      /\ rows'[p] = rows[p]
  BY <1>1 DEF Write, SweptOrSame, ChangesInv, TypeOK
<1>5. CASE touched'[p] = touched[p]
  BY <1>4, <1>5, SweptLife
<1>6. CASE touched'[p] = touched[p] \cup {m}
  <2>1. touched[p] # 1..n /\ touched'[p] # {}
    BY <1>3, <1>6
  <2>2. Extent(p) \in {"none", "some"} /\ Extent(p)' \in {"some", "all"}
    BY <1>1, <2>1 DEF Extent
  <2>3. LifeStep(p)
    BY <1>2, <1>4, <2>2 DEF LifeStep, Phase
  <2> QED BY <1>4, <2>3, SweptLife
<1> QED BY <1>4, <1>5, <1>6

LEMMA FinishLives ==
    ASSUME ChangesInv, NEW p \in Sets, ApplyFinish(p)
    PROVE  \A q \in Sets : LifeStep(q)
<1>1. PICK state : state = Outcome(work[p])
  OBVIOUS
<1>2. PICK r : r = [NoRow EXCEPT !.state = state]
  OBVIOUS
<1>3. /\ state \in {"completed", "rolled_back", "failed"} /\ r.state = state
      /\ state = "completed" => work[p].ok
  BY <1>1, <1>2, NoRowType DEF Outcome, States
<1>4. PICK saved \in BOOLEAN : Commit(saved, IF Stored(Cleaned[p]) THEN [Cleaned EXCEPT ![p] = r]
                                              ELSE Cleaned)
  BY <1>1, <1>2 DEF ApplyFinish
<1>5. \A q \in Sets : claim'[q] = claim[q] /\ touched'[q] = touched[q]
  BY DEF ApplyFinish
<1>6. CASE Stored(Cleaned[p]) /\ rows' = [Cleaned EXCEPT ![p] = r]
  <2>1. \A q \in Sets \ {p} : SweptOrSame(q)
    BY <1>6, CleanedKeeps DEF SweptOrSame
  <2>2. rows'[p] = r /\ rows[p].state = "applying"
    BY <1>6, CleanedKeeps DEF Stored, ChangesInv, SetSound, ApplySound, ApplyFinish
  <2>3. Extent(p)' = Extent(p)
    BY <1>5 DEF Extent
  <2>4. state = "completed" => Extent(p) = "all"
    <3>1. work[p].ok => touched[p] = 1..Len(claim[p].plan) /\ Len(work[p].plan) > 0
                        /\ work[p].plan = claim[p].plan /\ Len(work[p].plan) \in Nat
      BY AtWork DEF ApplyFinish, ChangesInv, SetSound, ApplySound, ProgressSound
    <3>2. work[p].ok => 1 \in touched[p]
      BY <3>1
    <3> QED BY <1>3, <3>1, <3>2 DEF Extent
  <2>5. LifeStep(p)
    BY <1>3, <2>2, <2>3, <2>4 DEF LifeStep, Phase
  <2> QED BY <1>5, <2>1, <2>5, SweptLife
<1>7. CASE Commit(saved, Cleaned)
  BY <1>5, <1>7, CommitKeeps, SweptLife
<1> QED BY <1>4, <1>6, <1>7 DEF Commit

LEMMA NextLives ==
    ASSUME ChangesInv, Next
    PROVE  \A q \in Sets : LifeStep(q)
<1>1. CASE rows' = rows /\ UNCHANGED <<claim, touched>>
  BY <1>1, SweptLife DEF SweptOrSame
<1>2. CASE Browse
  <2>1. \A q \in Sets : SweptOrSame(q) /\ claim'[q] = claim[q] /\ touched'[q] = touched[q]
    BY <1>2, CleanedKeeps DEF Browse, history, SweptOrSame
  <2> QED BY <2>1, SweptLife
<1>3. ASSUME NEW p \in Sets, Progress(p) PROVE \A q \in Sets : LifeStep(q)
  BY <1>1, <1>3, WriteLives, FinishLives
     DEF Progress, Validate, Reload, Health, Undo, UndoReload, history
<1>4. ASSUME NEW p \in Sets, StageCommit(p) PROVE \A q \in Sets : LifeStep(q)
  <2>1. PICK files : rows' = [Cleaned EXCEPT ![p].files = files]
    BY <1>4 DEF StageCommit
  <2>2. Cleaned[p] \in Row /\ [Cleaned[p] EXCEPT !.files = files].state = Cleaned[p].state
    BY CleanedKeeps DEF Row
  <2>3. \A q \in Sets : SweptOrSame(q) /\ claim'[q] = claim[q] /\ touched'[q] = touched[q]
    BY <1>4, <2>1, <2>2, CleanedKeeps DEF StageCommit, history, SweptOrSame
  <2> QED BY <2>3, SweptLife
<1>5. ASSUME NEW p \in Sets, Lapse(p) PROVE \A q \in Sets : LifeStep(q)
  <2>1. PICK b : rows' = [rows EXCEPT ![p].due = b]
    BY <1>5 DEF Lapse
  <2>2. rows[p] \in Row /\ [rows[p] EXCEPT !.due = b].state = rows[p].state
    BY DEF Row, ChangesInv, TypeOK
  <2>3. \A q \in Sets : SweptOrSame(q) /\ claim'[q] = claim[q] /\ touched'[q] = touched[q]
    BY <1>5, <2>1, <2>2 DEF Lapse, history, SweptOrSame, ChangesInv, TypeOK
  <2> QED BY <2>3, SweptLife
<1>6. ASSUME NEW p \in Sets, NEW s \in Servers, NEW t \in Tokens,
             RequestToken(s, p, t) \/ SpendToken(s, p, t)
      PROVE  \A q \in Sets : LifeStep(q)
  <2>1. PICK saved \in BOOLEAN : Commit(saved, Cleaned)
    BY <1>6 DEF RequestToken, SpendToken
  <2>2. \A q \in Sets : SweptOrSame(q) /\ claim'[q] = claim[q] /\ touched'[q] = touched[q]
    BY <1>6, <2>1, CommitKeeps DEF RequestToken, SpendToken, history
  <2> QED BY <2>2, SweptLife
<1>7. ASSUME NEW p \in Sets, \E f \in Files, c \in Candidates : StageRead(p, f, c)
      PROVE  \A q \in Sets : LifeStep(q)
  BY <1>1, <1>7 DEF StageRead, history
<1>8. CASE \/ \E s \in Servers : Crash(s) \/ \E t \in Tokens : LoseToken(s, t)
           \/ \E b \in Budgets : HostChanges(b)
           \/ \E f \in Files, c \in Contents \cup {Absent} : Edit(f, c)
  BY <1>1, <1>8 DEF Crash, LoseToken, HostChanges, Edit, history
<1> QED BY <1>2, <1>3, <1>4, <1>5, <1>6, <1>7, <1>8, BeginLives, ClaimLives DEF Next

\* A change set lives the life promised by DraftLifecycle: claimed at most once
\* and before anything is written, "completed" only when all of it was written
\* and "expired" only when nothing was (src/operation_store.py, changeset.py).
THEOREM ChangesLiveAsPromised == Spec => Lifecycle!Spec
<1>1. Init => Lifecycle!Init
  <2> SUFFICES ASSUME Init PROVE Lifecycle!Init
    OBVIOUS
  <2>1. \A p \in Sets : Extent(p) = "none" /\ Phase(rows[p]) = "absent"
    BY DEF Init, Extent, Phase, NoRow
  <2> QED BY <2>1 DEF Lifecycle!Init
<1>2. ChangesInv /\ ChangesInv' /\ [Next]_vars =>
        [Lifecycle!Next]_<<[p \in Sets |-> Phase(rows[p])], [p \in Sets |-> Extent(p)]>>
  <2> SUFFICES ASSUME ChangesInv, ChangesInv', [Next]_vars
               PROVE  [Lifecycle!Next]_<<[p \in Sets |-> Phase(rows[p])], [p \in Sets |-> Extent(p)]>>
    OBVIOUS
  <2>1. CASE Next
    <3>1. rows' \in [Sets -> Row]
      BY DEF ChangesInv, TypeOK
    <3> QED BY <2>1, <3>1, NextLives, LifeNext
  <2>2. CASE UNCHANGED vars
    BY <2>2 DEF vars, Extent, Phase
  <2> QED BY <2>1, <2>2
<1> QED BY <1>1, <1>2, ChangesInvariant, PTL DEF Spec, Lifecycle!Spec
=============================================================================
