------------------------ MODULE ProjectPatchesProofs ------------------------
(***************************************************************************)
(* Proofs about staged project patches, for any number of processes,       *)
(* patches, files, contents and tokens, any capacity and any settings.     *)
(***************************************************************************)
EXTENDS ProjectPatches, SequenceTheorems, TLAPS

-----------------------------------------------------------------------------
(* Type correctness                                                        *)

\* What stands before and after a position is again a list of entries.
LEMMA CutType ==
    ASSUME NEW files \in Seq(Entry), NEW i \in 1..Len(files)
    PROVE  /\ SubSeq(files, 1, i - 1) \in Seq(Entry)
           /\ SubSeq(files, i + 1, Len(files)) \in Seq(Entry)
PROOF
<1>1. \A k \in 1..Len(files) : files[k] \in Entry
  BY ElementOfSeq
<1>2. i \in Nat /\ Len(files) \in Nat
  BY LenProperties
<1>3. /\ \A k \in 1..(i - 1) : k \in 1..Len(files)
      /\ \A k \in (i + 1)..Len(files) : k \in 1..Len(files)
  BY <1>2
<1> QED BY <1>1, <1>2, <1>3, SubSeqProperties

\* Dropping the entry of a path leaves a list of entries.
LEMMA WithoutType ==
    ASSUME NEW files \in Seq(Entry), NEW f
    PROVE  Without(files, f) \in Seq(Entry)
PROOF
<1>1. CASE \E i \in 1..Len(files) : files[i].path = f
  <2> DEFINE i == CHOOSE k \in 1..Len(files) : files[k].path = f
  <2>1. i \in 1..Len(files)
    BY <1>1
  <2>2. SubSeq(files, 1, i - 1) \in Seq(Entry) /\ SubSeq(files, i + 1, Len(files)) \in Seq(Entry)
    BY <2>1, CutType
  <2>3. Without(files, f) = SubSeq(files, 1, i - 1) \o SubSeq(files, i + 1, Len(files))
    BY <1>1 DEF Without
  <2> QED BY <2>2, <2>3, ConcatProperties
<1>2. CASE ~ \E i \in 1..Len(files) : files[i].path = f
  BY <1>2 DEF Without
<1> QED BY <1>1, <1>2

LEMMA NoRowType == NoRow \in Row
PROOF
  BY EmptySeq DEF NoRow, Row, States, NotPassed

LEMMA SweptType == ASSUME NEW r \in Row PROVE Swept(r) \in Row
PROOF
<1>1. \A state \in States : [NoRow EXCEPT !.state = state] \in Row
  BY NoRowType DEF Row
<1> QED
  BY <1>1 DEF Swept, States

LEMMA CleanedType ==
    ASSUME TypeOK
    PROVE  /\ Cleaned \in [Patches -> Row]
           /\ \A p \in Patches : Cleaned[p] = Swept(rows[p])
PROOF
  BY SweptType DEF TypeOK, Cleaned

LEMMA CommitType ==
    ASSUME TypeOK, NEW saved, NEW rs \in [Patches -> Row], Commit(saved, rs)
    PROVE  rows' \in [Patches -> Row]
PROOF
  BY DEF TypeOK, Commit

LEMMA DemandType ==
    ASSUME NEW p \in Patches, NEW files \in Seq(Entry)
    PROVE  ApplyDemand(p, files) \in Demands /\ TestDemand(p, files) \in Demands
PROOF
<1>1. \A i \in 1..Len(files) : i \in Nat /\ files[i] \in Entry
  BY ElementOfSeq, LenProperties
<1>2. /\ {<<i, files[i]>> : i \in 1..Len(files)} \in SUBSET (Nat \X Entry)
      /\ {<<0, e>> : e \in Fingerprint(files)} \in SUBSET (Nat \X Entry)
  BY <1>1 DEF Fingerprint
<1> QED BY <1>2 DEF ApplyDemand, TestDemand, Demands

LEMMA FingerprintType ==
    ASSUME NEW files \in Seq(Entry)
    PROVE  Fingerprint(files) \in SUBSET Entry
PROOF
  BY ElementOfSeq DEF Fingerprint

LEMMA GateType ==
    ASSUME TypeOK, NEW s \in Servers, NEW t \in Tokens, NEW d \in Demands, NEW lost,
           Gate!Issue(s, t, d, lost) \/ Gate!Redeem(s, t, d, lost) \/ Gate!Lose(s, lost)
    PROVE  Gate!GrantsTypeOK'
PROOF
  BY DEF TypeOK, Gate!GrantsTypeOK, Gate!Issue, Gate!Redeem, Gate!Lose

LEMMA LoseType ==
    ASSUME TypeOK, NEW s \in Servers, NEW lost, Gate!Lose(s, lost)
    PROVE  Gate!GrantsTypeOK'
PROOF
  BY DEF TypeOK, Gate!GrantsTypeOK, Gate!Lose

LEMMA AuthorisedType ==
    ASSUME TypeOK, NEW s \in Servers, NEW t, NEW d \in Demands, Authorised(s, t, d)
    PROVE  Gate!GrantsTypeOK' /\ SafetyMode(s) \in Modes /\ t \in Tokens \cup {NoToken}
PROOF
<1>1. Gate!GrantsTypeOK'
  <2>1. CASE t \in Tokens /\ Gate!Redeem(s, t, d, {})
    BY <2>1, GateType
  <2>2. CASE UNCHANGED gateVars
    BY <2>2 DEF TypeOK, Gate!GrantsTypeOK, gateVars
  <2> QED BY <2>1, <2>2 DEF Authorised
<1> QED BY <1>1 DEF Authorised, Modes

LEMMA NextWriteType ==
    ASSUME NEW w \in Work, NEW ok \in BOOLEAN
    PROVE  [w EXCEPT !.next = @ + 1, !.ok = ok] \in Work
PROOF
<1>1. w.next + 1 \in Nat \ {0}
  BY DEF Work
<1>2. \A n \in Nat \ {0} : [w EXCEPT !.next = n, !.ok = ok] \in Work
  BY Zenon DEF Work
<1> QED BY <1>1, <1>2

\* The steps of a call that holds a claim.
LEMMA ProgressType ==
    ASSUME TypeOK, NEW p \in Patches, Progress(p)
    PROVE  TypeOK'
PROOF
<1> DEFINE w == work[p]
<1>0. w \in Work /\ w.plan \in Seq(Entry) /\ NoWork \in Work
  BY EmptySeq DEF TypeOK, Work, NoWork
<1>1. CASE Write(p)
  <2>1. w.next \in 1..Len(w.plan) /\ w.plan[w.next] \in Entry
    BY <1>0, <1>1, ElementOfSeq, LenProperties DEF Write, Work
  <2>2. PICK replaced, reported \in BOOLEAN :
            /\ work' = [work EXCEPT ![p].next = @ + 1, ![p].ok = @ /\ reported]
            /\ IF replaced
               THEN /\ disk' = [disk EXCEPT ![w.plan[w.next].path] = w.plan[w.next].cand]
                    /\ touched' = [touched EXCEPT ![p] = @ \cup {w.next}]
                    /\ Disturb(w.plan[w.next].path, Patches \ {p})
               ELSE UNCHANGED <<disk, touched, moved>>
    BY <1>1 DEF Write
  <2>3. (w.ok /\ reported) \in BOOLEAN
    OBVIOUS
  <2>4. work' \in [Patches -> Work]
    BY <1>0, <2>2, <2>3, NextWriteType DEF TypeOK
  <2>5. disk' \in [Files -> Contents \cup {Absent}] /\ touched' \in [Patches -> SUBSET Nat]
    <3>1. w.plan[w.next].cand \in Contents /\ w.next \in Nat
      BY <2>1, <1>0 DEF Entry, Work
    <3>2. CASE replaced
      <4>1. touched[p] \cup {w.next} \in SUBSET Nat
        BY <3>1 DEF TypeOK
      <4> QED BY <2>2, <3>1, <3>2, <4>1 DEF TypeOK
    <3>3. CASE ~replaced
      BY <2>2, <3>3 DEF TypeOK
    <3> QED BY <3>2, <3>3
  <2>6. moved' \in [Patches -> SUBSET Files]
    BY <2>1, <2>2 DEF TypeOK, Entry, Disturb
  <2> QED BY <1>1, <2>4, <2>5, <2>6 DEF TypeOK, Write, gateVars, Gate!GrantsTypeOK
<1>2. CASE ApplyFinish(p)
  <2>1. [NoRow EXCEPT !.state = IF w.ok THEN "completed" ELSE "failed"] \in Row
    BY NoRowType DEF Row, States
  <2>2. rows' \in [Patches -> Row]
    BY <1>2, <2>1, CleanedType, CommitType DEF ApplyFinish
  <2> QED BY <1>0, <1>2, <2>2 DEF TypeOK, ApplyFinish, gateVars, Gate!GrantsTypeOK
<1>3. CASE CapsuleStart(p)
  <2>1. [w EXCEPT !.kind = "capsule"] \in Work
    BY <1>0 DEF Work
  <2> QED BY <1>3, <2>1 DEF TypeOK, CapsuleStart, gateVars, history, Gate!GrantsTypeOK
<1>4. CASE CapsuleError(p)
  <2>1. [w EXCEPT !.kind = "reported", !.ok = FALSE] \in Work
    BY <1>0 DEF Work
  <2> QED BY <1>4, <2>1 DEF TypeOK, CapsuleError, gateVars, history, Gate!GrantsTypeOK
<1>5. CASE CapsuleRun(p)
  <2>1. [w EXCEPT !.kind = "reported"] \in Work
    BY <1>0 DEF Work
  <2>2. Fingerprint(w.plan) \in SUBSET Entry
    BY <1>0, FingerprintType
  <2> QED BY <1>5, <2>1, <2>2 DEF TypeOK, CapsuleRun, gateVars, Gate!GrantsTypeOK
<1>6. CASE TestFinish(p)
  <2> DEFINE result == IF w.ok THEN Fingerprint(w.plan) ELSE NotPassed
  <2>1. result \in SUBSET Entry
    BY <1>0, FingerprintType DEF NotPassed
  <2>2. [Cleaned[p] EXCEPT !.state = "staging", !.due = FALSE, !.tested = result] \in Row
    BY <2>1, CleanedType DEF Row, States
  <2>3. rows' \in [Patches -> Row]
    BY <1>6, <2>2, CleanedType, CommitType DEF TestFinish
  <2> QED BY <1>0, <1>6, <2>3 DEF TypeOK, TestFinish, gateVars, history, Gate!GrantsTypeOK
<1> QED
  BY <1>1, <1>2, <1>3, <1>4, <1>5, <1>6 DEF Progress

\* Drafting and claiming.
LEMMA DraftType ==
    ASSUME TypeOK, NEW p \in Patches,
           \/ Begin(p)
           \/ \E f \in Files, c \in Contents : StageFileChange(p, f, c) \/ StageLineEdit(p, f, c)
           \/ \E s \in Servers, t \in Tokens : RequestToken(s, p, t) \/ SpendToken(s, p, t)
           \/ \E s \in Servers, t \in Tokens \cup {NoToken} :
                 \/ \E promoted \in BOOLEAN : ApplyClaim(s, p, t, promoted)
                 \/ TestClaim(s, p, t)
    PROVE  TypeOK'
PROOF
<1> DEFINE r == Cleaned[p]
<1>0. Cleaned \in [Patches -> Row] /\ r \in Row /\ r.files \in Seq(Entry) /\ NoWork \in Work
  BY CleanedType, EmptySeq DEF Row, NoWork, Work
<1>1. CASE Begin(p)
  <2>1. [NoRow EXCEPT !.state = "staging"] \in Row
    BY NoRowType DEF Row, States
  <2> QED BY <1>0, <1>1, <2>1 DEF TypeOK, Begin, gateVars, history, Gate!GrantsTypeOK
<1>2. ASSUME NEW f \in Files, NEW c \in Contents, StageEntry(p, f, c) PROVE TypeOK'
  <2> DEFINE e == [path |-> f, base |-> disk[f], cand |-> c]
             files == Append(Without(r.files, f), e)
  <2>1. e \in Entry
    BY DEF TypeOK, Entry
  <2>2. files \in Seq(Entry)
    BY <1>0, <2>1, WithoutType, AppendProperties
  <2>3. [r EXCEPT !.files = files, !.tested = NotPassed] \in Row
    BY <1>0, <2>2 DEF Row, NotPassed
  <2>4. /\ rows' = [Cleaned EXCEPT ![p] = [r EXCEPT !.files = files, !.tested = NotPassed]]
        /\ passed' = [passed EXCEPT ![p] = NotPassed]
    BY <1>2 DEF StageEntry
  <2>5. rows' \in [Patches -> Row] /\ passed' \in [Patches -> SUBSET Entry]
    BY <1>0, <2>3, <2>4 DEF TypeOK, NotPassed
  <2> QED BY <1>2, <2>5 DEF TypeOK, StageEntry, gateVars, Gate!GrantsTypeOK
<1>3. ASSUME NEW s \in Servers, NEW t \in Tokens, RequestToken(s, p, t) \/ SpendToken(s, p, t)
      PROVE  TypeOK'
  <2>1. Gate!GrantsTypeOK'
    BY <1>0, <1>3, GateType, LoseType, DemandType DEF RequestToken, SpendToken
  <2>2. rows' \in [Patches -> Row]
    BY <1>0, <1>3, CommitType DEF RequestToken, SpendToken
  <2> QED BY <1>3, <2>1, <2>2 DEF TypeOK, RequestToken, SpendToken, history
<1>4. ASSUME NEW s \in Servers, NEW t \in Tokens \cup {NoToken}, NEW promoted \in BOOLEAN,
             ApplyClaim(s, p, t, promoted)
      PROVE  TypeOK'
  <2>1. Gate!GrantsTypeOK' /\ SafetyMode(s) \in Modes
    BY <1>0, <1>4, AuthorisedType, DemandType DEF ApplyClaim
  <2>2. [r EXCEPT !.state = "applying", !.due = FALSE] \in Row
    BY <1>0 DEF Row, States
  <2>3. rows' \in [Patches -> Row]
    BY <1>0, <1>4, <2>2 DEF ApplyClaim, Claiming
  <2>4. [NoWork EXCEPT !.kind = "apply", !.server = s, !.plan = r.files] \in Work
    BY <1>0 DEF Work
  <2>5. [mode |-> SafetyMode(s), token |-> t, plan |-> r.files, promoted |-> promoted] \in Claim
    BY <1>0, <2>1 DEF Claim
  <2> QED BY <1>4, <2>1, <2>3, <2>4, <2>5 DEF TypeOK, ApplyClaim
<1>5. ASSUME NEW s \in Servers, NEW t \in Tokens \cup {NoToken}, TestClaim(s, p, t)
      PROVE  TypeOK'
  <2>1. Gate!GrantsTypeOK'
    BY <1>0, <1>5, AuthorisedType, DemandType DEF TestClaim
  <2>2. [r EXCEPT !.state = "testing", !.due = FALSE, !.tested = NotPassed] \in Row
    BY <1>0 DEF Row, States, NotPassed
  <2>3. rows' \in [Patches -> Row]
    BY <1>0, <1>5, <2>2 DEF TestClaim, Claiming
  <2>4. [NoWork EXCEPT !.kind = "queued", !.server = s, !.plan = r.files] \in Work
    BY <1>0 DEF Work
  <2> QED BY <1>5, <2>1, <2>3, <2>4 DEF TypeOK, TestClaim, NotPassed
<1> QED
  BY <1>1, <1>2, <1>3, <1>4, <1>5 DEF StageFileChange, StageLineEdit

LEMMA TypeNext == TypeOK /\ [Next]_vars => TypeOK'
PROOF
<1> SUFFICES ASSUME TypeOK, [Next]_vars PROVE TypeOK'
  OBVIOUS
<1>1. CASE Browse
  BY <1>1, CleanedType DEF Browse, TypeOK, gateVars, history, Gate!GrantsTypeOK
<1>2. ASSUME NEW p \in Patches, Lapse(p) PROVE TypeOK'
  <2>1. [rows[p] EXCEPT !.due = TRUE] \in Row
    BY DEF TypeOK, Row
  <2> QED BY <1>2, <2>1 DEF Lapse, TypeOK, gateVars, history, Gate!GrantsTypeOK
<1>3. ASSUME NEW s \in Servers, Crash(s) PROVE TypeOK'
  <2>1. NoWork \in Work
    BY EmptySeq DEF NoWork, Work
  <2>2. Gate!GrantsTypeOK'
    BY <1>3, LoseType DEF Crash
  <2> QED BY <1>3, <2>1, <2>2 DEF Crash, TypeOK
<1>4. ASSUME NEW s \in Servers, NEW t \in Tokens, LoseToken(s, t) PROVE TypeOK'
  <2>1. Gate!GrantsTypeOK'
    BY <1>4, LoseType DEF LoseToken
  <2> QED BY <1>4, <2>1 DEF LoseToken, TypeOK, history
<1>5. ASSUME NEW x \in Policies, OperatorSets(x) PROVE TypeOK'
  BY <1>5, PatchesAssumption DEF OperatorSets, TypeOK, gateVars, history, Gate!GrantsTypeOK
<1>6. ASSUME NEW f \in Files, NEW c \in Contents \cup {Absent}, Edit(f, c) PROVE TypeOK'
  BY <1>6 DEF Edit, Disturb, TypeOK, gateVars, Gate!GrantsTypeOK
<1>7. CASE UNCHANGED vars
  BY <1>7 DEF vars, TypeOK, Gate!GrantsTypeOK
<1> QED
  BY <1>1, <1>2, <1>3, <1>4, <1>5, <1>6, <1>7, ProgressType, DraftType DEF Next

LEMMA TypeInit == Init => TypeOK
PROOF
<1>1. NoRow \in Row /\ NoWork \in Work /\ NoClaim \in Claim
  BY NoRowType, EmptySeq DEF NoWork, Work, NoClaim, Claim, Modes
<1> QED
  BY <1>1, PatchesAssumption
  DEF Init, TypeOK, NotPassed, Gate!Init, Gate!GrantsTypeOK

\* Every variable keeps its type, the lists of entries included.
THEOREM PatchesTypeOK == Spec => []TypeOK
PROOF
  BY TypeInit, TypeNext, PTL DEF Spec

-----------------------------------------------------------------------------
(* The inductive invariant                                                 *)

\* What is stored of a patch, the call that holds it and its history agree:
\* a patch is claimed for writing once, by the call that then writes it from
\* the first entry to the last; a check runs only on a patch never claimed,
\* and what it found out is about the files that are staged.
RowSound(r, w, cl, to, pa) ==
    /\ r.state \in {"absent", "staging", "testing", "expired"} =>
          cl.plan = <<>> /\ to = {}
    /\ r.state \in {"applying", "completed", "failed"} => cl.plan # <<>>
    /\ r.state = "completed" => to = 1..Len(cl.plan)
    /\ r.tested # NotPassed =>
          /\ r.state \in {"staging", "applying"}
          /\ r.tested = Fingerprint(r.files) /\ r.tested = pa
    /\ w.kind = "apply" =>
          /\ r.state \in {"applying", "uncertain"}
          /\ cl.plan # <<>> /\ w.plan = cl.plan
          /\ w.next <= Len(cl.plan) + 1
          /\ to \subseteq 1..(w.next - 1)
          /\ w.ok => to = 1..(w.next - 1)
    /\ Testing(w) => r.state \in {"testing", "uncertain"} /\ cl.plan = <<>>
    /\ w.kind = "reported" /\ w.ok => pa = Fingerprint(w.plan)
    /\ cl.promoted => cl.plan # <<>> /\ Fingerprint(cl.plan) = pa
    /\ cl.plan = <<>> => cl = NoClaim

RowsSound == \A p \in Patches : RowSound(rows[p], work[p], claim[p], touched[p], passed[p])

\* Tokens: a remembered one was issued, by nobody else, and has not been used.
TokensSound ==
    /\ \A s \in Servers : \A t \in live[s] : grant[t] # NoDemand /\ t \notin redeemed
    /\ \A s, r \in Servers : s # r => live[s] \cap live[r] = {}
    /\ \A t \in redeemed : grant[t] # NoDemand

\* A claim was let through unrestricted, or by a used token for its very plan.
ClaimSound(p, cl) ==
    cl.plan # <<>> =>
        \/ cl.mode = "unrestricted" /\ cl.token = NoToken
        \/ /\ cl.mode = "controlled"
           /\ cl.token \in redeemed
           /\ grant[cl.token] = ApplyDemand(p, cl.plan)

ClaimsSound == \A p \in Patches : ClaimSound(p, claim[p])

PatchesInv == TypeOK /\ RowsSound /\ TokensSound /\ ClaimsSound

LEMMA SweptSound ==
    ASSUME NEW r, NEW w, NEW cl, NEW to, NEW pa, RowSound(r, w, cl, to, pa)
    PROVE  RowSound(Swept(r), w, cl, to, pa)
PROOF
<1>1. CASE ~(Stored(r) /\ r.due)
  BY <1>1 DEF Swept
<1>2. CASE Stored(r) /\ r.due /\ Claimed(r)
  <2>1. Swept(r).state = "uncertain" /\ Swept(r).tested = NotPassed
    BY <1>2 DEF Swept, NoRow
  <2>2. w.kind = "apply" => cl.plan # <<>>
    BY DEF RowSound
  <2> QED BY <1>2, <2>1, <2>2 DEF RowSound
<1>3. CASE Stored(r) /\ r.due /\ ~Claimed(r)
  <2>1. Swept(r).state = "expired" /\ Swept(r).tested = NotPassed
    BY <1>3 DEF Swept, NoRow
  <2>2. r.state = "staging"
    BY <1>3 DEF Stored, Claimed
  <2> QED BY <2>1, <2>2 DEF RowSound
<1> QED BY <1>1, <1>2, <1>3

\* A step about patch p at most sweeps the others.
LEMMA OthersSound ==
    ASSUME RowsSound, NEW p \in Patches,
           \A q \in Patches \ {p} :
               /\ rows'[q] = rows[q] \/ rows'[q] = Swept(rows[q])
               /\ work'[q] = work[q] /\ claim'[q] = claim[q]
               /\ touched'[q] = touched[q] /\ passed'[q] = passed[q],
           RowSound(rows'[p], work'[p], claim'[p], touched'[p], passed'[p])
    PROVE  RowsSound'
PROOF
<1>1. \A q \in Patches \ {p} :
          RowSound(rows'[q], work'[q], claim'[q], touched'[q], passed'[q])
  BY SweptSound DEF RowsSound
<1> QED BY <1>1 DEF RowsSound

\* The checks of a draft that nobody has claimed for writing.
LEMMA CapsuleSound ==
    ASSUME TypeOK, RowsSound, NEW p \in Patches,
           CapsuleStart(p) \/ CapsuleError(p) \/ CapsuleRun(p) \/ TestFinish(p)
    PROVE  RowsSound'
PROOF
<1> DEFINE w == work[p]  r == rows[p]
<1>0. /\ w \in Work /\ work \in [Patches -> Work] /\ passed \in [Patches -> SUBSET Entry]
      /\ rows \in [Patches -> Row]
      /\ RowSound(r, w, claim[p], touched[p], passed[p])
  BY DEF TypeOK, RowsSound
<1>1. CASE CapsuleStart(p) \/ CapsuleError(p)
  <2>1. Testing(w)
    BY <1>1 DEF CapsuleStart, CapsuleError, Testing
  <2>2. /\ work'[p].kind \in {"capsule", "reported"}
        /\ work'[p].kind = "reported" => ~work'[p].ok
        /\ \A q \in Patches \ {p} : work'[q] = work[q]
    BY <1>0, <1>1 DEF CapsuleStart, CapsuleError, Work
  <2>3. UNCHANGED <<rows, claim, touched, passed>>
    BY <1>1 DEF CapsuleStart, CapsuleError, history
  <2>4. RowSound(rows'[p], work'[p], claim'[p], touched'[p], passed'[p])
    BY <1>0, <2>1, <2>2, <2>3 DEF RowSound, Testing
  <2> QED BY <2>2, <2>3, <2>4, OthersSound
<1>2. CASE CapsuleRun(p)
  <2>1. Testing(w)
    BY <1>2 DEF CapsuleRun, Testing
  <2>2. /\ work'[p].kind = "reported" /\ work'[p].plan = w.plan
        /\ passed'[p] = Fingerprint(w.plan)
        /\ \A q \in Patches \ {p} : work'[q] = work[q] /\ passed'[q] = passed[q]
    BY <1>0, <1>2 DEF CapsuleRun, Work
  <2>3. UNCHANGED <<rows, claim, touched>>
    BY <1>2 DEF CapsuleRun
  <2>4. r.tested = NotPassed /\ ~claim[p].promoted
    BY <1>0, <2>1 DEF RowSound
  <2>5. RowSound(rows'[p], work'[p], claim'[p], touched'[p], passed'[p])
    BY <1>0, <2>1, <2>2, <2>3, <2>4 DEF RowSound, Testing
  <2> QED BY <2>2, <2>3, <2>5, OthersSound
<1>3. CASE TestFinish(p)
  <2> DEFINE c == Cleaned[p]  result == IF w.ok THEN Fingerprint(w.plan) ELSE NotPassed
             done == [c EXCEPT !.state = "staging", !.due = FALSE, !.tested = result]
  <2>0. Cleaned \in [Patches -> Row] /\ \A q \in Patches : Cleaned[q] = Swept(rows[q])
    BY CleanedType
  <2>1. /\ work'[p] = NoWork /\ \A q \in Patches \ {p} : work'[q] = work[q]
        /\ UNCHANGED <<claim, touched, passed>>
    BY <1>0, <1>3 DEF TestFinish, history
  <2>2. /\ rows'[p] = r \/ rows'[p] = c
           \/ /\ rows'[p] = done
              /\ c.state = "testing" /\ Fingerprint(c.files) = Fingerprint(w.plan)
        /\ \A q \in Patches \ {p} : rows'[q] = rows[q] \/ rows'[q] = Swept(rows[q])
    BY <1>3, <2>0 DEF TestFinish, Commit
  <2>3. w.kind = "reported"
    BY <1>3 DEF TestFinish
  <2>4. RowSound(c, w, claim[p], touched[p], passed[p])
    BY <1>0, <2>0, SweptSound
  <2>5. \A x : RowSound(x, w, claim[p], touched[p], passed[p])
                 => RowSound(x, NoWork, claim[p], touched[p], passed[p])
    BY DEF RowSound, NoWork, Testing
  <2>6. ASSUME c.state = "testing", Fingerprint(c.files) = Fingerprint(w.plan)
        PROVE  RowSound(done, NoWork, claim[p], touched[p], passed[p])
    <3>1. done.state = "staging" /\ done.tested = result /\ done.files = c.files
      BY <2>0 DEF Row
    <3>2. claim[p].plan = <<>> /\ touched[p] = {} /\ claim[p] = NoClaim
      BY <2>4, <2>6 DEF RowSound
    <3>3. result # NotPassed => result = Fingerprint(c.files) /\ result = passed[p]
      BY <2>3, <2>4, <2>6 DEF RowSound
    <3> QED BY <3>1, <3>2, <3>3 DEF RowSound, NoWork, NoClaim, Testing
  <2>7. RowSound(rows'[p], work'[p], claim'[p], touched'[p], passed'[p])
    BY <1>0, <2>1, <2>2, <2>4, <2>5, <2>6
  <2> QED BY <2>1, <2>2, <2>7, OthersSound
<1> QED BY <1>1, <1>2, <1>3

\* The writes of a claimed patch and the outcome they end with.
LEMMA ApplySound ==
    ASSUME TypeOK, RowsSound, NEW p \in Patches, Write(p) \/ ApplyFinish(p)
    PROVE  RowsSound'
PROOF
<1> DEFINE w == work[p]  cl == claim[p]
<1>0. /\ w \in Work /\ work \in [Patches -> Work] /\ touched \in [Patches -> SUBSET Nat]
      /\ RowSound(rows[p], w, cl, touched[p], passed[p])
  BY DEF TypeOK, RowsSound
<1>1. w.next \in Nat \ {0} /\ w.plan \in Seq(Entry) /\ Len(w.plan) \in Nat
  BY <1>0, LenProperties DEF Work
<1>2. w.kind = "apply"
  BY DEF Write, ApplyFinish
<1>3. /\ rows[p].state \in {"applying", "uncertain"}
      /\ cl.plan # <<>> /\ w.plan = cl.plan /\ w.next <= Len(cl.plan) + 1
      /\ touched[p] \subseteq 1..(w.next - 1)
      /\ w.ok => touched[p] = 1..(w.next - 1)
  BY <1>0, <1>2 DEF RowSound
<1>4. CASE Write(p)
  <2>1. PICK replaced, reported \in BOOLEAN :
            /\ reported => replaced
            /\ work' = [work EXCEPT ![p].next = @ + 1, ![p].ok = @ /\ reported]
            /\ IF replaced
               THEN touched' = [touched EXCEPT ![p] = @ \cup {w.next}]
               ELSE UNCHANGED touched
    BY <1>4 DEF Write
  <2>2. /\ work'[p].kind = "apply" /\ work'[p].plan = w.plan
        /\ work'[p].next = w.next + 1 /\ (work'[p].ok => w.ok /\ reported)
        /\ \A q \in Patches \ {p} : work'[q] = work[q]
    BY <1>0, <1>2, <2>1 DEF Work
  <2>3. /\ touched'[p] = IF replaced THEN touched[p] \cup {w.next} ELSE touched[p]
        /\ \A q \in Patches \ {p} : touched'[q] = touched[q]
    BY <1>0, <2>1
  <2>4. UNCHANGED <<rows, claim, passed>> /\ w.next <= Len(w.plan)
    BY <1>4 DEF Write
  <2>5. /\ work'[p].next <= Len(cl.plan) + 1
        /\ touched'[p] \subseteq 1..(work'[p].next - 1)
        /\ work'[p].ok => touched'[p] = 1..(work'[p].next - 1)
    <3>1. work'[p].next - 1 = w.next /\ work'[p].next <= Len(cl.plan) + 1
      BY <1>1, <1>3, <2>2, <2>4
    <3>2. 1..w.next = (1..(w.next - 1)) \cup {w.next}
      BY <1>1
    <3>3. touched'[p] \subseteq 1..w.next
      BY <1>3, <2>3, <3>2
    <3>4. work'[p].ok => touched'[p] = 1..w.next
      BY <1>3, <2>1, <2>2, <2>3, <3>2
    <3> QED BY <3>1, <3>3, <3>4
  <2>6. RowSound(rows'[p], work'[p], claim'[p], touched'[p], passed'[p])
    BY <1>0, <1>3, <2>2, <2>4, <2>5 DEF RowSound, Testing
  <2> QED BY <2>2, <2>3, <2>4, <2>6, OthersSound
<1>5. CASE ApplyFinish(p)
  <2> DEFINE c == Cleaned[p]  outcome == IF w.ok THEN "completed" ELSE "failed"
             done == [NoRow EXCEPT !.state = outcome]
  <2>0. Cleaned \in [Patches -> Row] /\ \A q \in Patches : Cleaned[q] = Swept(rows[q])
    BY CleanedType
  <2>1. /\ work'[p] = NoWork /\ \A q \in Patches \ {p} : work'[q] = work[q]
        /\ UNCHANGED <<claim, touched, passed>> /\ w.next > Len(w.plan)
    BY <1>0, <1>5 DEF ApplyFinish
  <2>2. /\ rows'[p] \in {rows[p], c, done}
        /\ \A q \in Patches \ {p} : rows'[q] = rows[q] \/ rows'[q] = Swept(rows[q])
    BY <1>5, <2>0 DEF ApplyFinish, Commit
  <2>3. RowSound(c, w, cl, touched[p], passed[p])
    BY <1>0, <2>0, SweptSound
  <2>4. \A x : RowSound(x, w, cl, touched[p], passed[p])
                 => RowSound(x, NoWork, cl, touched[p], passed[p])
    BY DEF RowSound, NoWork, Testing
  <2>5. w.ok => touched[p] = 1..Len(cl.plan)
    <3>1. w.next - 1 = Len(cl.plan)
      BY <1>1, <1>3, <2>1
    <3> QED BY <1>3, <3>1
  <2>6. RowSound(done, NoWork, cl, touched[p], passed[p])
    <3>1. done.state = outcome /\ done.tested = NotPassed
      BY DEF NoRow
    <3>2. cl.promoted => Fingerprint(cl.plan) = passed[p]
      BY <1>0 DEF RowSound
    <3> QED BY <1>3, <2>5, <3>1, <3>2 DEF RowSound, NoWork, Testing
  <2>7. RowSound(rows'[p], work'[p], claim'[p], touched'[p], passed'[p])
    BY <1>0, <2>1, <2>2, <2>3, <2>4, <2>6
  <2> QED BY <2>1, <2>2, <2>7, OthersSound
<1> QED BY <1>4, <1>5

\* A list with an entry has a fingerprint.
LEMMA FingerprintOfSome ==
    ASSUME NEW files \in Seq(Entry), files # <<>>
    PROVE  Fingerprint(files) # NotPassed
PROOF
<1>1. 1 \in 1..Len(files)
  BY EmptySeq, LenProperties
<1> QED BY <1>1 DEF Fingerprint, NotPassed

\* Drafting and claiming.
LEMMA DraftSound ==
    ASSUME TypeOK, RowsSound, NEW p \in Patches,
           \/ Begin(p)
           \/ \E f \in Files, c \in Contents : StageFileChange(p, f, c) \/ StageLineEdit(p, f, c)
           \/ \E s \in Servers, t \in Tokens : RequestToken(s, p, t) \/ SpendToken(s, p, t)
           \/ \E s \in Servers, t \in Tokens \cup {NoToken} :
                 \/ \E promoted \in BOOLEAN : ApplyClaim(s, p, t, promoted)
                 \/ TestClaim(s, p, t)
    PROVE  RowsSound'
PROOF
<1> DEFINE r == Cleaned[p]  w == work[p]  cl == claim[p]
<1>0. /\ Cleaned \in [Patches -> Row] /\ \A q \in Patches : Cleaned[q] = Swept(rows[q])
      /\ r \in Row /\ r.files \in Seq(Entry)
  BY CleanedType DEF Row
<1>1. RowSound(r, w, cl, touched[p], passed[p])
  BY <1>0, SweptSound DEF RowsSound
<1>2. r.state = "staging" => /\ w.kind # "apply" /\ ~Testing(w)
                             /\ cl.plan = <<>> /\ cl = NoClaim /\ touched[p] = {}
  BY <1>1 DEF RowSound
<1>3. CASE Begin(p)
  <2>1. /\ rows'[p].state = "staging" /\ rows'[p].tested = NotPassed
        /\ \A q \in Patches \ {p} : rows'[q] = Swept(rows[q])
        /\ UNCHANGED <<work, claim, touched, passed>>
    BY <1>0, <1>3 DEF Begin, NoRow, history
  <2>2. RowSound(rows[p], w, cl, touched[p], passed[p]) /\ rows[p].state = "absent"
    BY <1>3 DEF RowsSound, Begin
  <2>3. RowSound(rows'[p], work'[p], claim'[p], touched'[p], passed'[p])
    BY <2>1, <2>2 DEF RowSound
  <2> QED BY <2>1, <2>3, OthersSound
<1>4. ASSUME NEW f \in Files, NEW c \in Contents, StageEntry(p, f, c) PROVE RowsSound'
  <2>1. /\ rows'[p].state = "staging" /\ rows'[p].tested = NotPassed
        /\ \A q \in Patches \ {p} : rows'[q] = Swept(rows[q])
        /\ r.state = "staging"
    BY <1>0, <1>4 DEF StageEntry, Row
  <2>2. /\ passed'[p] = NotPassed /\ \A q \in Patches \ {p} : passed'[q] = passed[q]
        /\ UNCHANGED <<work, claim, touched>>
    BY <1>4 DEF StageEntry, TypeOK
  <2>3. RowSound(rows'[p], work'[p], claim'[p], touched'[p], passed'[p])
    BY <1>2, <2>1, <2>2 DEF RowSound, NoClaim, Testing
  <2> QED BY <2>1, <2>2, <2>3, OthersSound
<1>5. ASSUME NEW s \in Servers, NEW t \in Tokens, RequestToken(s, p, t) \/ SpendToken(s, p, t)
      PROVE  RowsSound'
  <2>1. /\ \A q \in Patches : rows'[q] = rows[q] \/ rows'[q] = Swept(rows[q])
        /\ UNCHANGED <<work, claim, touched, passed>>
    BY <1>0, <1>5 DEF RequestToken, SpendToken, Commit, history
  <2>2. RowSound(rows'[p], work'[p], claim'[p], touched'[p], passed'[p])
    BY <2>1, SweptSound DEF RowsSound
  <2> QED BY <2>1, <2>2, OthersSound
<1>6. ASSUME NEW s \in Servers, NEW t \in Tokens \cup {NoToken}, NEW promoted \in BOOLEAN,
             ApplyClaim(s, p, t, promoted)
      PROVE  RowsSound'
  <2>1. /\ r.state = "staging" /\ r.files # <<>>
        /\ promoted => r.tested = Fingerprint(r.files)
        /\ UNCHANGED <<touched, passed>>
    BY <1>6 DEF ApplyClaim, Ready
  <2>2. /\ rows'[p].state = "applying" /\ rows'[p].tested = r.tested
        /\ rows'[p].files = r.files
        /\ \A q \in Patches \ {p} : rows'[q] = Swept(rows[q])
    BY <1>0, <1>6 DEF ApplyClaim, Claiming, Row
  <2>3. /\ work'[p].kind = "apply" /\ work'[p].plan = r.files
        /\ work'[p].next = 1 /\ work'[p].ok
        /\ \A q \in Patches \ {p} : work'[q] = work[q]
    BY <1>6 DEF ApplyClaim, NoWork, TypeOK
  <2>4. /\ claim'[p].plan = r.files /\ claim'[p].promoted = promoted
        /\ \A q \in Patches \ {p} : claim'[q] = claim[q]
    BY <1>6 DEF ApplyClaim, TypeOK
  <2>5. 1 <= Len(r.files) + 1 /\ 1..(1 - 1) = {}
    BY <1>0, LenProperties
  <2>6. promoted => Fingerprint(r.files) = passed[p]
    BY <1>0, <1>1, <2>1, FingerprintOfSome DEF RowSound
  <2>7. touched'[p] = {} /\ (r.tested # NotPassed => r.tested = Fingerprint(r.files)
                                                     /\ r.tested = passed'[p])
    BY <1>1, <1>2, <2>1 DEF RowSound
  <2>8. RowSound(rows'[p], work'[p], claim'[p], touched'[p], passed'[p])
    BY <2>1, <2>2, <2>3, <2>4, <2>5, <2>6, <2>7 DEF RowSound, Testing
  <2> QED BY <2>1, <2>2, <2>3, <2>4, <2>8, OthersSound
<1>7. ASSUME NEW s \in Servers, NEW t \in Tokens \cup {NoToken}, TestClaim(s, p, t)
      PROVE  RowsSound'
  <2>1. r.state = "staging" /\ UNCHANGED <<claim, touched>>
    BY <1>7 DEF TestClaim, Ready
  <2>2. /\ rows'[p].state = "testing" /\ rows'[p].tested = NotPassed
        /\ \A q \in Patches \ {p} : rows'[q] = Swept(rows[q])
    BY <1>0, <1>7 DEF TestClaim, Claiming, Row
  <2>3. /\ work'[p].kind = "queued"
        /\ \A q \in Patches \ {p} : work'[q] = work[q] /\ passed'[q] = passed[q]
    BY <1>7 DEF TestClaim, NoWork, TypeOK
  <2>4. RowSound(rows'[p], work'[p], claim'[p], touched'[p], passed'[p])
    BY <1>2, <2>1, <2>2, <2>3 DEF RowSound, Testing, NoClaim
  <2> QED BY <2>1, <2>2, <2>3, <2>4, OthersSound
<1> QED
  BY <1>3, <1>4, <1>5, <1>6, <1>7 DEF StageFileChange, StageLineEdit

LEMMA RowsNext == TypeOK /\ RowsSound /\ [Next]_vars => RowsSound'
PROOF
<1> SUFFICES ASSUME TypeOK, RowsSound, [Next]_vars PROVE RowsSound'
  OBVIOUS
<1>1. CASE Browse
  <2>1. \A q \in Patches : rows'[q] = Swept(rows[q])
    BY <1>1, CleanedType DEF Browse
  <2>2. UNCHANGED <<work, claim, touched, passed>>
    BY <1>1 DEF Browse, history
  <2> QED BY <2>1, <2>2, SweptSound DEF RowsSound
<1>2. ASSUME NEW p \in Patches, Lapse(p) PROVE RowsSound'
  <2>1. /\ rows'[p].state = rows[p].state /\ rows'[p].tested = rows[p].tested
        /\ rows'[p].files = rows[p].files
        /\ \A q \in Patches \ {p} : rows'[q] = rows[q]
        /\ UNCHANGED <<work, claim, touched, passed>>
    BY <1>2 DEF Lapse, TypeOK, Row, history
  <2>2. RowSound(rows'[p], work'[p], claim'[p], touched'[p], passed'[p])
    BY <2>1 DEF RowsSound, RowSound
  <2> QED BY <2>1, <2>2, OthersSound
<1>3. ASSUME NEW s \in Servers, Crash(s) PROVE RowsSound'
  <2>1. /\ \A q \in Patches : work'[q] = NoWork \/ work'[q] = work[q]
        /\ UNCHANGED <<rows, claim, touched, passed>>
    BY <1>3 DEF Crash
  <2>2. \A q \in Patches : RowSound(rows[q], NoWork, claim[q], touched[q], passed[q])
    BY DEF RowsSound, RowSound, NoWork, Testing
  <2> QED BY <2>1, <2>2 DEF RowsSound
<1>4. CASE UNCHANGED <<rows, work, claim, touched, passed>>
  BY <1>4 DEF RowsSound
<1> QED
  BY <1>1, <1>2, <1>3, <1>4, CapsuleSound, ApplySound, DraftSound
  DEF Next, Progress, LoseToken, OperatorSets, Edit, vars, history

-----------------------------------------------------------------------------
(* Tokens and claims                                                       *)

\* What any step of the gate preserves.
LEMMA GateSound ==
    ASSUME TypeOK, TokensSound, NEW s \in Servers, NEW t \in Tokens, NEW d \in Demands,
           NEW lost,
           Gate!Issue(s, t, d, lost) \/ Gate!Redeem(s, t, d, lost) \/ Gate!Lose(s, lost)
    PROVE  /\ TokensSound'
           /\ redeemed \subseteq redeemed'
           /\ \A u \in redeemed : grant'[u] = grant[u]
PROOF
<1>1. d # NoDemand
  BY DEF Demands, NoDemand
<1>2. CASE Gate!Issue(s, t, d, lost)
  BY <1>1, <1>2 DEF Gate!Issue, TokensSound, TypeOK, Gate!GrantsTypeOK
<1>3. CASE Gate!Redeem(s, t, d, lost)
  BY <1>3 DEF Gate!Redeem, TokensSound, TypeOK, Gate!GrantsTypeOK
<1>4. CASE Gate!Lose(s, lost)
  BY <1>4 DEF Gate!Lose, TokensSound, TypeOK, Gate!GrantsTypeOK
<1> QED BY <1>2, <1>3, <1>4

LEMMA LoseSound ==
    ASSUME TypeOK, TokensSound, NEW s \in Servers, NEW lost, Gate!Lose(s, lost)
    PROVE  TokensSound' /\ UNCHANGED <<grant, redeemed>>
PROOF
  BY DEF Gate!Lose, TokensSound, TypeOK, Gate!GrantsTypeOK

LEMMA AuthorisedSound ==
    ASSUME TypeOK, TokensSound, NEW s \in Servers, NEW t, NEW d \in Demands,
           Authorised(s, t, d)
    PROVE  /\ TokensSound'
           /\ redeemed \subseteq redeemed'
           /\ \A u \in redeemed : grant'[u] = grant[u]
           /\ \/ SafetyMode(s) = "unrestricted" /\ t = NoToken
              \/ SafetyMode(s) = "controlled" /\ t \in redeemed' /\ grant'[t] = d
PROOF
<1>1. CASE SafetyMode(s) = "unrestricted" /\ t = NoToken /\ UNCHANGED gateVars
  BY <1>1 DEF gateVars, TokensSound
<1>2. CASE SafetyMode(s) = "controlled" /\ t \in Tokens /\ Gate!Redeem(s, t, d, {})
  <2>1. t \in redeemed' /\ grant'[t] = d
    BY <1>2 DEF Gate!Redeem
  <2> QED BY <1>2, <2>1, GateSound
<1> QED BY <1>1, <1>2 DEF Authorised

\* A claim stays sound while tokens are issued, used and lost.
LEMMA ClaimsKept ==
    ASSUME ClaimsSound, redeemed \subseteq redeemed',
           \A u \in redeemed : grant'[u] = grant[u],
           NEW p \in Patches, claim'[p] = claim[p]
    PROVE  ClaimSound(p, claim[p])'
PROOF
  BY DEF ClaimsSound, ClaimSound

LEMMA GateNext == TypeOK /\ TokensSound /\ ClaimsSound /\ [Next]_vars
                      => TokensSound' /\ ClaimsSound'
PROOF
<1> SUFFICES ASSUME TypeOK, TokensSound, ClaimsSound, [Next]_vars
             PROVE  TokensSound' /\ ClaimsSound'
  OBVIOUS
<1>0. \A p \in Patches : Cleaned[p].files \in Seq(Entry)
  BY CleanedType DEF Row
<1>1. ASSUME NEW s \in Servers, NEW p \in Patches, NEW t \in Tokens \cup {NoToken},
             NEW promoted \in BOOLEAN, ApplyClaim(s, p, t, promoted)
      PROVE  TokensSound' /\ ClaimsSound'
  <2> DEFINE d == ApplyDemand(p, Cleaned[p].files)
  <2>1. d \in Demands /\ Authorised(s, t, d)
    BY <1>0, <1>1, DemandType DEF ApplyClaim
  <2>2. /\ TokensSound' /\ redeemed \subseteq redeemed'
        /\ \A u \in redeemed : grant'[u] = grant[u]
        /\ \/ SafetyMode(s) = "unrestricted" /\ t = NoToken
           \/ SafetyMode(s) = "controlled" /\ t \in redeemed' /\ grant'[t] = d
    BY <2>1, AuthorisedSound
  <2>3. /\ claim'[p] = [mode |-> SafetyMode(s), token |-> t, plan |-> Cleaned[p].files,
                        promoted |-> promoted]
        /\ \A q \in Patches \ {p} : claim'[q] = claim[q]
    BY <1>1 DEF ApplyClaim, TypeOK
  <2>4. ClaimSound(p, claim[p])'
    BY <2>2, <2>3 DEF ClaimSound
  <2> QED BY <2>2, <2>3, <2>4, ClaimsKept DEF ClaimsSound
<1>2. ASSUME NEW s \in Servers, NEW p \in Patches, NEW t \in Tokens \cup {NoToken},
             TestClaim(s, p, t)
      PROVE  TokensSound' /\ ClaimsSound'
  <2>1. /\ Authorised(s, t, TestDemand(p, Cleaned[p].files))
        /\ TestDemand(p, Cleaned[p].files) \in Demands
        /\ UNCHANGED claim
    BY <1>0, <1>2, DemandType DEF TestClaim
  <2> QED BY <2>1, AuthorisedSound, ClaimsKept DEF ClaimsSound
<1>3. ASSUME NEW s \in Servers, NEW p \in Patches, NEW t \in Tokens,
             RequestToken(s, p, t) \/ SpendToken(s, p, t)
      PROVE  TokensSound' /\ ClaimsSound'
  <2>1. /\ ApplyDemand(p, Cleaned[p].files) \in Demands
        /\ TestDemand(p, Cleaned[p].files) \in Demands
    BY <1>0, DemandType
  <2>2. /\ TokensSound' /\ redeemed \subseteq redeemed'
        /\ \A u \in redeemed : grant'[u] = grant[u]
    BY <1>3, <2>1, GateSound DEF RequestToken, SpendToken
  <2>3. UNCHANGED claim
    BY <1>3 DEF RequestToken, SpendToken, history
  <2> QED BY <2>2, <2>3, ClaimsKept DEF ClaimsSound
<1>4. ASSUME NEW s \in Servers, Crash(s) \/ \E t \in Tokens : LoseToken(s, t)
      PROVE  TokensSound' /\ ClaimsSound'
  <2>1. TokensSound' /\ UNCHANGED <<grant, redeemed, claim>>
    BY <1>4, LoseSound DEF Crash, LoseToken, history
  <2> QED BY <2>1 DEF ClaimsSound, ClaimSound
<1>5. CASE UNCHANGED <<grant, live, redeemed, claim>>
  BY <1>5 DEF TokensSound, ClaimsSound, ClaimSound
<1> QED
  BY <1>1, <1>2, <1>3, <1>4, <1>5
  DEF Next, Progress, Browse, Begin, StageFileChange, StageLineEdit, StageEntry, Write,
      ApplyFinish, CapsuleStart, CapsuleError, CapsuleRun, TestFinish, Lapse,
      OperatorSets, Edit, vars, gateVars, history

-----------------------------------------------------------------------------
(* Theorems                                                                *)

LEMMA InvInit == Init => PatchesInv
PROOF
<1> SUFFICES ASSUME Init PROVE PatchesInv
  OBVIOUS
<1>1. RowsSound
  BY DEF Init, RowsSound, RowSound, NoRow, NoWork, NoClaim, NotPassed, Testing
<1>2. TokensSound /\ ClaimsSound
  BY DEF Init, Gate!Init, TokensSound, ClaimsSound, ClaimSound, NoClaim
<1> QED BY <1>1, <1>2, TypeInit DEF PatchesInv

LEMMA InvNext == PatchesInv /\ [Next]_vars => PatchesInv'
PROOF
  BY TypeNext, RowsNext, GateNext DEF PatchesInv

\* Rows, calls, tokens and history agree in every reachable state.
THEOREM PatchesInvariant == Spec => []PatchesInv
PROOF
  BY InvInit, InvNext, PTL DEF Spec

\* The history of a patch never claims more than happened: completed means all
\* of its files were replaced, expired that none was.
THEOREM PatchesOutcomeTruthful == Spec => []OutcomeTruthful
PROOF
<1>1. PatchesInv => OutcomeTruthful
  BY DEF PatchesInv, RowsSound, RowSound, OutcomeTruthful, WasClaimed
<1> QED BY <1>1, PatchesInvariant, PTL

\* What an apply writes in controlled mode is exactly what one token, now used
\* up, was issued for.
THEOREM PatchesAppliedAsReviewed == Spec => []AppliedAsReviewed
PROOF
<1>1. ASSUME PatchesInv PROVE AppliedAsReviewed
  <2> SUFFICES ASSUME NEW p \in Patches, WasClaimed(p)
               PROVE  /\ claim[p].mode # "read-only"
                      /\ claim[p].mode = "controlled" =>
                            /\ grant[claim[p].token] = ApplyDemand(p, claim[p].plan)
                            /\ \A s \in Servers : claim[p].token \notin live[s]
                            /\ \A q \in Patches \ {p} : claim[q].token # claim[p].token
    BY DEF AppliedAsReviewed
  <2>1. ClaimSound(p, claim[p])
    BY <1>1 DEF PatchesInv, ClaimsSound
  <2>2. claim[p].mode # "read-only"
    BY <2>1 DEF ClaimSound, WasClaimed
  <2>3. ASSUME claim[p].mode = "controlled"
        PROVE  /\ grant[claim[p].token] = ApplyDemand(p, claim[p].plan)
               /\ \A s \in Servers : claim[p].token \notin live[s]
               /\ \A q \in Patches \ {p} : claim[q].token # claim[p].token
    <3>1. claim[p].token \in redeemed /\ grant[claim[p].token] = ApplyDemand(p, claim[p].plan)
      BY <2>1, <2>3 DEF ClaimSound, WasClaimed
    <3>2. \A s \in Servers : claim[p].token \notin live[s]
      BY <1>1, <3>1 DEF PatchesInv, TokensSound
    <3>3. claim[p].token # NoToken
      BY <1>1, <3>1, PatchesAssumption DEF PatchesInv, TypeOK, Gate!GrantsTypeOK
    <3>4. ASSUME NEW q \in Patches \ {p} PROVE claim[q].token # claim[p].token
      <4>1. CASE claim[q].plan = <<>>
        BY <1>1, <3>3, <4>1 DEF PatchesInv, RowsSound, RowSound, NoClaim
      <4>2. CASE claim[q].plan # <<>> /\ claim[q].token = NoToken
        BY <3>3, <4>2
      <4>3. CASE grant[claim[q].token] = ApplyDemand(q, claim[q].plan)
        BY <3>1, <4>3 DEF ApplyDemand
      <4> QED BY <1>1, <4>1, <4>2, <4>3 DEF PatchesInv, ClaimsSound, ClaimSound
    <3> QED BY <3>1, <3>2, <3>4
  <2> QED BY <2>2, <2>3
<1> QED BY <1>1, PatchesInvariant, PTL

\* A stored capsule verdict is about the staged files, and a promoted patch
\* wrote what really passed.
THEOREM PatchesTestedIsCurrent == Spec => []TestedIsCurrent
PROOF
<1>1. PatchesInv => TestedIsCurrent
  BY DEF PatchesInv, RowsSound, RowSound, TestedIsCurrent
<1> QED BY <1>1, PatchesInvariant, PTL

\* Only an apply that claims its patch adds to the history of claims.
LEMMA OthersKeepClaims ==
    ASSUME [Next]_vars,
           ~ \E s \in Servers, p \in Patches, t \in Tokens \cup {NoToken},
                promoted \in BOOLEAN : ApplyClaim(s, p, t, promoted)
    PROVE  UNCHANGED claim
PROOF
<1>1. ASSUME NEW p \in Patches, Progress(p) PROVE UNCHANGED claim
  BY <1>1 DEF Progress, Write, ApplyFinish, CapsuleStart, CapsuleError, CapsuleRun,
              TestFinish, history
<1>2. ASSUME NEW p \in Patches, NEW f \in Files, NEW c \in Contents,
             StageFileChange(p, f, c) \/ StageLineEdit(p, f, c)
      PROVE  UNCHANGED claim
  BY <1>2 DEF StageFileChange, StageLineEdit, StageEntry
<1>3. ASSUME NEW p \in Patches, NEW s \in Servers, NEW t,
             RequestToken(s, p, t) \/ SpendToken(s, p, t) \/ TestClaim(s, p, t)
      PROVE  UNCHANGED claim
  BY <1>3 DEF RequestToken, SpendToken, TestClaim, history
<1>4. ASSUME NEW s \in Servers, Crash(s) \/ \E t \in Tokens : LoseToken(s, t)
      PROVE  UNCHANGED claim
  BY <1>4 DEF Crash, LoseToken, history
<1>5. ASSUME NEW p \in Patches, Begin(p) \/ Lapse(p) PROVE UNCHANGED claim
  BY <1>5 DEF Begin, Lapse, history
<1>6. CASE Browse \/ UNCHANGED vars
  BY <1>6 DEF Browse, vars, history
<1>7. ASSUME NEW x, OperatorSets(x) PROVE UNCHANGED claim
  BY <1>7 DEF OperatorSets, history
<1>8. ASSUME NEW f, NEW c, Edit(f, c) PROVE UNCHANGED claim
  BY <1>8 DEF Edit
<1> QED
  BY <1>1, <1>2, <1>3, <1>4, <1>5, <1>6, <1>7, <1>8 DEF Next

\* A patch claimed for writing is never drafted, tested or claimed again.
THEOREM PatchesNeverReplayed == Spec => NeverReplayed
PROOF
<1> DEFINE Step == \A p \in Patches : WasClaimed(p) =>
                       /\ claim'[p] = claim[p]
                       /\ rows'[p].state \notin {"absent", "staging", "testing"}
<1>1. ASSUME PatchesInv, [Next]_vars PROVE Step
  <2>1. PatchesInv'
    BY <1>1, InvNext
  <2>2. ASSUME NEW p \in Patches, WasClaimed(p) PROVE claim'[p] = claim[p]
    <3>1. Cleaned[p] = Swept(rows[p]) /\ rows[p].state \notin {"absent", "staging", "testing"}
      BY <1>1, <2>2, CleanedType DEF PatchesInv, RowsSound, RowSound, WasClaimed
    <3>2. Cleaned[p].state # "staging"
      BY <3>1 DEF Swept
    <3>3. ASSUME NEW s \in Servers, NEW q \in Patches, NEW t \in Tokens \cup {NoToken},
                 NEW promoted \in BOOLEAN, ApplyClaim(s, q, t, promoted)
          PROVE  claim'[p] = claim[p]
      <4>1. q # p
        BY <3>2, <3>3 DEF ApplyClaim, Ready
      <4> QED BY <1>1, <3>3, <4>1 DEF ApplyClaim, PatchesInv, TypeOK
    <3>4. ASSUME ~ \E s \in Servers, q \in Patches, t \in Tokens \cup {NoToken},
                       promoted \in BOOLEAN : ApplyClaim(s, q, t, promoted)
          PROVE  UNCHANGED claim
      BY <1>1, <3>4, OthersKeepClaims
    <3> QED BY <3>3, <3>4
  <2>3. ASSUME NEW p \in Patches, WasClaimed(p)
        PROVE  rows'[p].state \notin {"absent", "staging", "testing"}
    BY <2>1, <2>2, <2>3 DEF PatchesInv, RowsSound, RowSound, WasClaimed
  <2> QED BY <2>2, <2>3
<1>2. PatchesInv /\ [Next]_vars => [Step]_vars
  BY <1>1
<1> QED BY <1>2, PatchesInvariant, PTL DEF Spec, NeverReplayed

-----------------------------------------------------------------------------
(* The life of a patch                                                     *)

\* What a step may do to patch p, in the terms of DraftLifecycle.
LifeStep(p) ==
    LET from == Phase(rows[p])  to == Phase(rows'[p])
        before == Extent(p)     after == Extent(p)'
    IN  \/ to = from /\ after = before
        \/ from = "absent" /\ to = "open" /\ after = before
        \/ from = "open" /\ to \in {"claimed", "expired", "uncertain"} /\ after = before
        \/ from = "claimed" /\ to = "completed" /\ before = "all" /\ after = before
        \/ from = "claimed" /\ to \in {"failed", "uncertain"} /\ after = before
        \/ /\ from \in {"claimed", "uncertain"} /\ to = from
           /\ before # "all" /\ after \in {"some", "all"}

\* Patch p leaves the store only when it is due or its own apply is over.
KeptStep(p) ==
    Stored(rows[p]) /\ ~Stored(rows'[p]) =>
        rows[p].due \/ (work[p].kind = "apply" /\ work'[p].kind = "none")

HistoryStays(p) == claim'[p] = claim[p] /\ touched'[p] = touched[p]

\* A step of which patch p notices a sweep at most.
LEMMA SweptLife ==
    ASSUME NEW p \in Patches, rows'[p] = rows[p] \/ rows'[p] = Swept(rows[p]), HistoryStays(p)
    PROVE  LifeStep(p) /\ KeptStep(p)
<1>1. Extent(p)' = Extent(p)
  BY DEF Extent, HistoryStays
<1>2. CASE rows'[p] = rows[p]
  BY <1>1, <1>2 DEF LifeStep, KeptStep, Phase, Stored
<1>3. CASE rows'[p] = Swept(rows[p]) /\ ~(Stored(rows[p]) /\ rows[p].due)
  BY <1>1, <1>3 DEF LifeStep, KeptStep, Phase, Stored, Swept
<1>4. CASE rows'[p] = Swept(rows[p]) /\ Stored(rows[p]) /\ rows[p].due
  <2>1. rows'[p].state = IF Claimed(rows[p]) THEN "uncertain" ELSE "expired"
    BY <1>4 DEF Swept, NoRow
  <2> QED BY <1>1, <1>4, <2>1 DEF LifeStep, KeptStep, Phase, Stored, Claimed
<1> QED BY <1>2, <1>3, <1>4

\* A step that leaves patch p what it is, a draft among them.
LEMMA SameLife ==
    ASSUME NEW p \in Patches, HistoryStays(p),
           \/ rows'[p].state = rows[p].state
           \/ rows[p].state \in {"staging", "testing"} /\ rows'[p].state \in {"staging", "testing"}
    PROVE  LifeStep(p) /\ KeptStep(p)
<1>1. Extent(p)' = Extent(p)
  BY DEF Extent, HistoryStays
<1> QED BY <1>1 DEF LifeStep, KeptStep, Phase, Stored

LEMMA SweptState ==
    ASSUME NEW p \in Patches, Cleaned[p].state \in {"absent", "staging", "testing", "applying"}
    PROVE  Cleaned[p] = rows[p]
BY DEF Cleaned, Swept, NoRow

LEMMA BeginLives ==
    ASSUME PatchesInv, NEW p \in Patches, Begin(p)
    PROVE  \A q \in Patches : LifeStep(q) /\ KeptStep(q)
<1>1. \A q \in Patches : HistoryStays(q)
  BY DEF Begin, history, HistoryStays
<1>2. \A q \in Patches \ {p} : rows'[q] = Swept(rows[q])
  BY CleanedType DEF Begin, PatchesInv
<1>3. rows[p].state = "absent" /\ rows'[p].state = "staging"
  BY CleanedType DEF Begin, PatchesInv, NoRow
<1>4. Extent(p)' = Extent(p)
  BY <1>1 DEF Extent, HistoryStays
<1>5. LifeStep(p) /\ KeptStep(p)
  BY <1>3, <1>4 DEF LifeStep, KeptStep, Phase, Stored
<1> QED BY <1>1, <1>2, <1>5, SweptLife

LEMMA StageLives ==
    ASSUME PatchesInv, NEW p \in Patches, NEW f \in Files, NEW c \in Contents, StageEntry(p, f, c)
    PROVE  \A q \in Patches : LifeStep(q) /\ KeptStep(q)
<1>1. \A q \in Patches : HistoryStays(q)
  BY DEF StageEntry, HistoryStays
<1>2. \A q \in Patches \ {p} : rows'[q] = Swept(rows[q])
  BY CleanedType DEF StageEntry, PatchesInv
<1>3. rows[p].state = "staging" /\ rows'[p].state = "staging"
  <2>1. PICK r, files : r = Cleaned[p] /\ r.state = "staging"
                        /\ rows' = [Cleaned EXCEPT ![p] = [r EXCEPT !.files = files, !.tested = NotPassed]]
    BY DEF StageEntry
  <2>2. r \in Row /\ rows[p] = r
    BY <2>1, CleanedType, SweptState DEF PatchesInv
  <2>3. PICK x, y : x = [r EXCEPT !.files = files] /\ y = [x EXCEPT !.tested = NotPassed]
    OBVIOUS
  <2>4. x.state = "staging" /\ y.state = "staging"
    BY <2>1, <2>2, <2>3 DEF Row
  <2>5. rows'[p] = y
    BY <2>1, <2>3, CleanedType DEF PatchesInv
  <2> QED BY <2>1, <2>2, <2>4, <2>5
<1> QED BY <1>1, <1>2, <1>3, SweptLife, SameLife

LEMMA ClaimingState ==
    ASSUME PatchesInv, NEW p \in Patches, NEW state
    PROVE  /\ Claiming(p, state)[p].state = state
           /\ \A q \in Patches \ {p} : Claiming(p, state)[q] = Swept(rows[q])
           /\ DOMAIN Claiming(p, state) = Patches
<1>1. PICK r, x, y : r = Cleaned[p] /\ x = [r EXCEPT !.state = state] /\ y = [x EXCEPT !.due = FALSE]
  OBVIOUS
<1>2. r \in Row /\ DOMAIN Cleaned = Patches /\ \A q \in Patches : Cleaned[q] = Swept(rows[q])
  BY <1>1, CleanedType DEF PatchesInv
<1>3. x.state = state /\ y.state = state
  BY <1>1, <1>2 DEF Row
<1>4. Claiming(p, state) = [Cleaned EXCEPT ![p] = y]
  BY <1>1, <1>2 DEF Claiming
<1> QED BY <1>2, <1>3, <1>4

LEMMA TestClaimLives ==
    ASSUME PatchesInv, NEW s \in Servers, NEW p \in Patches, NEW t, TestClaim(s, p, t)
    PROVE  \A q \in Patches : LifeStep(q) /\ KeptStep(q)
<1>1. \A q \in Patches : HistoryStays(q)
  BY DEF TestClaim, HistoryStays
<1>2. PICK rs : rs = Claiming(p, "testing")
  OBVIOUS
<1>3. DOMAIN rs = Patches /\ rs[p].state = "testing"
      /\ \A q \in Patches \ {p} : rs[q] = Swept(rows[q])
  BY <1>2, ClaimingState
<1>4. rows' = [rs EXCEPT ![p].tested = NotPassed]
  BY <1>2 DEF TestClaim
<1>5. rows[p].state = "staging"
  BY SweptState DEF TestClaim, Ready
<1>6. rows'[p].state = "testing" /\ \A q \in Patches \ {p} : rows'[q] = Swept(rows[q])
  BY <1>3, <1>4
<1> QED BY <1>1, <1>5, <1>6, SweptLife, SameLife

LEMMA TestFinishLives ==
    ASSUME PatchesInv, NEW p \in Patches, TestFinish(p)
    PROVE  \A q \in Patches : LifeStep(q) /\ KeptStep(q)
<1>1. \A q \in Patches : HistoryStays(q)
  BY DEF TestFinish, history, HistoryStays
<1>2. PICK r, result : r = Cleaned[p] /\ result = IF work[p].ok THEN Fingerprint(work[p].plan) ELSE NotPassed
  OBVIOUS
<1>3. \/ \A q \in Patches : rows'[q] = rows[q] \/ rows'[q] = Swept(rows[q])
      \/ /\ r.state = "testing"
         /\ rows' = [Cleaned EXCEPT ![p] = [r EXCEPT !.state = "staging", !.due = FALSE,
                                                     !.tested = result]]
  BY <1>2, CleanedType DEF TestFinish, Commit, PatchesInv
<1>4. CASE \A q \in Patches : rows'[q] = rows[q] \/ rows'[q] = Swept(rows[q])
  BY <1>1, <1>4, SweptLife
<1>5. CASE /\ r.state = "testing"
           /\ rows' = [Cleaned EXCEPT ![p] = [r EXCEPT !.state = "staging", !.due = FALSE,
                                                       !.tested = result]]
  <2>1. r \in Row /\ rows[p] = r
    BY <1>2, <1>5, CleanedType, SweptState DEF PatchesInv
  <2>2. PICK x, y, z : x = [r EXCEPT !.state = "staging"] /\ y = [x EXCEPT !.due = FALSE]
                       /\ z = [y EXCEPT !.tested = result]
    OBVIOUS
  <2>3. x.state = "staging" /\ y.state = "staging" /\ z.state = "staging"
    BY <2>1, <2>2 DEF Row
  <2>4. rows'[p] = z /\ \A q \in Patches \ {p} : rows'[q] = Swept(rows[q])
    BY <1>5, <2>2, CleanedType DEF PatchesInv
  <2> QED BY <1>1, <1>5, <2>1, <2>3, <2>4, SweptLife, SameLife
<1> QED BY <1>3, <1>4, <1>5

LEMMA ClaimLives ==
    ASSUME PatchesInv, NEW s \in Servers, NEW p \in Patches, NEW t, NEW promoted,
           ApplyClaim(s, p, t, promoted)
    PROVE  \A q \in Patches : LifeStep(q) /\ KeptStep(q)
<1>1. \A q \in Patches \ {p} : HistoryStays(q) /\ rows'[q] = Swept(rows[q])
  BY ClaimingState DEF ApplyClaim, HistoryStays
<1>2. rows[p].state = "staging" /\ rows'[p].state = "applying"
  BY SweptState, ClaimingState DEF ApplyClaim, Ready
<1>3. touched[p] = {} /\ touched'[p] = {}
  BY <1>2 DEF ApplyClaim, PatchesInv, RowsSound, RowSound
<1>4. Extent(p) = "none" /\ Extent(p)' = "none"
  BY <1>3 DEF Extent
<1>5. LifeStep(p) /\ KeptStep(p)
  BY <1>2, <1>4 DEF LifeStep, KeptStep, Phase, Stored
<1> QED BY <1>1, <1>5, SweptLife

LEMMA WriteLives ==
    ASSUME PatchesInv, NEW p \in Patches, Write(p)
    PROVE  \A q \in Patches : LifeStep(q) /\ KeptStep(q)
<1>1. PICK m, n : m = work[p].next /\ n = Len(claim[p].plan)
  OBVIOUS
<1>2. /\ rows[p].state \in {"applying", "uncertain"} /\ work[p].plan = claim[p].plan
      /\ touched[p] \subseteq 1..(m - 1)
  BY <1>1 DEF Write, PatchesInv, RowsSound, RowSound
<1>3. m \in 1..n /\ n \in Nat
  <2>1. work[p] \in Work
    BY DEF PatchesInv, TypeOK
  <2>2. m \in Nat \ {0} /\ work[p].plan \in Seq(Entry)
    BY <1>1, <2>1 DEF Work
  <2> QED BY <1>1, <1>2, <2>2, LenProperties DEF Write
<1>4. /\ rows' = rows /\ claim' = claim
      /\ \A q \in Patches \ {p} : touched'[q] = touched[q]
      /\ touched'[p] = touched[p] \/ touched'[p] = touched[p] \cup {m}
  BY <1>1 DEF Write, PatchesInv, TypeOK
<1>5. \A q \in Patches \ {p} : LifeStep(q) /\ KeptStep(q)
  BY <1>4, SameLife DEF HistoryStays
<1>6. CASE touched'[p] = touched[p]
  BY <1>4, <1>5, <1>6, SameLife DEF HistoryStays
<1>7. CASE touched'[p] = touched[p] \cup {m}
  <2>1. touched[p] # 1..n /\ touched'[p] # {}
    BY <1>2, <1>3, <1>7
  <2>2. Extent(p) \in {"none", "some"} /\ Extent(p)' \in {"some", "all"}
    BY <1>1, <2>1 DEF Extent
  <2>3. LifeStep(p) /\ KeptStep(p)
    BY <1>2, <1>4, <2>2 DEF LifeStep, KeptStep, Phase
  <2> QED BY <1>5, <2>3
<1> QED BY <1>4, <1>6, <1>7

LEMMA FinishLives ==
    ASSUME PatchesInv, NEW p \in Patches, ApplyFinish(p)
    PROVE  \A q \in Patches : LifeStep(q) /\ KeptStep(q)
<1>1. PICK outcome, r : outcome = (IF work[p].ok THEN "completed" ELSE "failed")
                        /\ r = [NoRow EXCEPT !.state = outcome]
  OBVIOUS
<1>2. r.state = outcome /\ outcome \in {"completed", "failed"}
  BY <1>1 DEF NoRow
<1>3. \A q \in Patches : HistoryStays(q)
  BY DEF ApplyFinish, HistoryStays
<1>4. \/ \A q \in Patches : rows'[q] = rows[q] \/ rows'[q] = Swept(rows[q])
      \/ Stored(Cleaned[p]) /\ rows' = [Cleaned EXCEPT ![p] = r]
  BY <1>1, CleanedType DEF ApplyFinish, Commit, PatchesInv
<1>5. CASE \A q \in Patches : rows'[q] = rows[q] \/ rows'[q] = Swept(rows[q])
  BY <1>3, <1>5, SweptLife
<1>6. CASE Stored(Cleaned[p]) /\ rows' = [Cleaned EXCEPT ![p] = r]
  <2>1. \A q \in Patches \ {p} : rows'[q] = Swept(rows[q])
    BY <1>6, CleanedType DEF PatchesInv
  <2>2. rows'[p] = r
    BY <1>6, CleanedType DEF PatchesInv
  <2>3. rows[p] = Cleaned[p] /\ rows[p].state = "applying"
    BY <1>6, SweptState DEF Stored, ApplyFinish, PatchesInv, RowsSound, RowSound
  <2>4. PatchesInv'
    BY InvNext DEF Next, Progress
  <2>5. outcome = "completed" => Extent(p) = "all"
    <3>1. outcome = "completed" => touched[p] = 1..Len(claim[p].plan)
      BY <1>2, <1>3, <2>2, <2>4 DEF PatchesInv, RowsSound, RowSound, HistoryStays
    <3>2. claim[p].plan # <<>> /\ claim[p].plan \in Seq(Entry)
      BY <2>3 DEF PatchesInv, RowsSound, RowSound, TypeOK, Claim
    <3>3. Len(claim[p].plan) \in Nat /\ Len(claim[p].plan) # 0
      BY <3>2, EmptySeq, LenProperties
    <3>4. 1 \in 1..Len(claim[p].plan)
      BY <3>3
    <3> QED BY <3>1, <3>4 DEF Extent
  <2>6. Extent(p)' = Extent(p)
    BY <1>3 DEF Extent, HistoryStays
  <2>7. work[p].kind = "apply" /\ work'[p].kind = "none"
    BY DEF ApplyFinish, NoWork, PatchesInv, TypeOK
  <2>8. LifeStep(p) /\ KeptStep(p)
    BY <1>2, <2>2, <2>3, <2>5, <2>6, <2>7 DEF LifeStep, KeptStep, Phase
  <2> QED BY <1>3, <2>1, <2>8, SweptLife
<1> QED BY <1>4, <1>5, <1>6

LEMMA NextLives ==
    ASSUME PatchesInv, Next
    PROVE  \A q \in Patches : LifeStep(q) /\ KeptStep(q)
<1>1. CASE rows' = rows /\ UNCHANGED <<claim, touched>>
  BY <1>1, SameLife DEF HistoryStays
<1>2. CASE Browse
  BY <1>2, CleanedType, SweptLife DEF Browse, history, HistoryStays, PatchesInv
<1>3. ASSUME NEW p \in Patches, Progress(p) PROVE \A q \in Patches : LifeStep(q) /\ KeptStep(q)
  BY <1>1, <1>3, WriteLives, FinishLives, TestFinishLives
     DEF Progress, CapsuleStart, CapsuleError, CapsuleRun, history
<1>4. ASSUME NEW p \in Patches, Lapse(p) PROVE \A q \in Patches : LifeStep(q) /\ KeptStep(q)
  <2>1. PICK b : rows' = [rows EXCEPT ![p].due = b]
    BY <1>4 DEF Lapse
  <2>2. rows[p] \in Row /\ [rows[p] EXCEPT !.due = b].state = rows[p].state
    BY DEF Row, PatchesInv, TypeOK
  <2>3. \A q \in Patches : rows'[q].state = rows[q].state /\ HistoryStays(q)
    BY <1>4, <2>1, <2>2 DEF Lapse, history, HistoryStays, PatchesInv, TypeOK
  <2> QED BY <2>3, SameLife
<1>5. ASSUME NEW p \in Patches, NEW s \in Servers, NEW t \in Tokens,
             RequestToken(s, p, t) \/ SpendToken(s, p, t)
      PROVE  \A q \in Patches : LifeStep(q) /\ KeptStep(q)
  <2>1. rows' = rows \/ rows' = Cleaned
    BY <1>5 DEF RequestToken, SpendToken, Commit
  <2>2. \A q \in Patches : HistoryStays(q)
    BY <1>5 DEF RequestToken, SpendToken, history, HistoryStays
  <2>3. \A q \in Patches : rows'[q] = rows[q] \/ rows'[q] = Swept(rows[q])
    BY <2>1, CleanedType DEF PatchesInv
  <2> QED BY <2>2, <2>3, SweptLife
<1>6. ASSUME NEW p \in Patches, NEW f \in Files, NEW c \in Contents,
             StageFileChange(p, f, c) \/ StageLineEdit(p, f, c)
      PROVE  \A q \in Patches : LifeStep(q) /\ KeptStep(q)
  BY <1>6, StageLives DEF StageFileChange, StageLineEdit
<1>7. ASSUME NEW p \in Patches, NEW s \in Servers, NEW t \in Tokens \cup {NoToken},
             (\E promoted \in BOOLEAN : ApplyClaim(s, p, t, promoted)) \/ TestClaim(s, p, t)
      PROVE  \A q \in Patches : LifeStep(q) /\ KeptStep(q)
  BY <1>7, ClaimLives, TestClaimLives
<1>8. CASE \/ \E s \in Servers : Crash(s) \/ \E t \in Tokens : LoseToken(s, t)
           \/ \E x \in Policies : OperatorSets(x)
           \/ \E f \in Files, c \in Contents \cup {Absent} : Edit(f, c)
  BY <1>1, <1>8 DEF Crash, LoseToken, OperatorSets, Edit, history
<1> QED BY <1>2, <1>3, <1>4, <1>5, <1>6, <1>7, <1>8, BeginLives DEF Next

LEMMA LifeNext ==
    ASSUME PatchesInv, \A p \in Patches : LifeStep(p), rows' \in [Patches -> Row]
    PROVE  Lifecycle!Next
<1>1. \A p \in Patches : Extent(p)' \in {"none", "some", "all"}
  BY DEF Extent
<1>2. \A p \in Patches : Phase(rows'[p]) \in Lifecycle!Phases
  BY DEF Row, States, Phase, Lifecycle!Phases
<1>3. ASSUME NEW p \in Patches
      PROVE  \/ Lifecycle!Stay(p) \/ Lifecycle!Create(p) \/ Lifecycle!Claim(p)
             \/ Lifecycle!Expire(p) \/ Lifecycle!Complete(p) \/ Lifecycle!Fail(p)
             \/ Lifecycle!Lose(p) \/ Lifecycle!Effect(p)
  <2>1. LifeStep(p)
    OBVIOUS
  <2> QED BY <2>1 DEF LifeStep, Lifecycle!Stay, Lifecycle!Create, Lifecycle!Claim,
              Lifecycle!Expire, Lifecycle!Complete, Lifecycle!Fail, Lifecycle!Lose,
              Lifecycle!Effect, Lifecycle!Moves
<1> QED BY <1>1, <1>2, <1>3 DEF Lifecycle!Next, Lifecycle!Extents

\* The drafts of the store live the life promised by DraftLifecycle: a patch is
\* claimed for writing at most once and before anything is written, "completed"
\* only when all of it was written and "expired" only when nothing was
\* (src/operation_store.py, project_workspace.py, test_capsules.py).
THEOREM PatchesImplementLifecycle == Spec => ImplementsLifecycle
<1>1. Init => Lifecycle!Init
  <2> SUFFICES ASSUME Init PROVE Lifecycle!Init
    OBVIOUS
  <2>1. \A p \in Patches : Extent(p) = "none" /\ Phase(rows[p]) = "absent"
    BY DEF Init, Extent, Phase, NoRow
  <2> QED BY <2>1 DEF Lifecycle!Init
<1>2. PatchesInv /\ PatchesInv' /\ [Next]_vars =>
        [Lifecycle!Next]_<<[p \in Patches |-> Phase(rows[p])], [p \in Patches |-> Extent(p)]>>
  <2> SUFFICES ASSUME PatchesInv, PatchesInv', [Next]_vars
               PROVE  [Lifecycle!Next]_<<[p \in Patches |-> Phase(rows[p])],
                                         [p \in Patches |-> Extent(p)]>>
    OBVIOUS
  <2>1. CASE Next
    <3>1. rows' \in [Patches -> Row]
      BY DEF PatchesInv, TypeOK
    <3> QED BY <2>1, <3>1, NextLives, LifeNext
  <2>2. CASE UNCHANGED vars
    BY <2>2 DEF vars, Extent, Phase
  <2> QED BY <2>1, <2>2
<1> QED BY <1>1, <1>2, PatchesInvariant, PTL DEF Spec, ImplementsLifecycle, Lifecycle!Spec

-----------------------------------------------------------------------------
(* What an apply overwrites                                                *)

\* No file is staged twice.
OncePerFile(files) == \A i, j \in 1..Len(files) : files[i].path = files[j].path => i = j

LEMMA EmptyOnce == OncePerFile(<<>>)
BY EmptySeq DEF OncePerFile

\* Without the entry of its path a plan still names each file once.
LEMMA WithoutOnce ==
    ASSUME NEW files \in Seq(Entry), OncePerFile(files), NEW f
    PROVE  /\ OncePerFile(Without(files, f))
           /\ \A j \in 1..Len(Without(files, f)) : Without(files, f)[j].path # f
<1>1. CASE \E i \in 1..Len(files) : files[i].path = f
  <2>1. PICK i \in 1..Len(files) : i = CHOOSE k \in 1..Len(files) : files[k].path = f
    BY <1>1
  <2>2. files[i].path = f
    BY <1>1, <2>1
  <2>3. PICK n \in Nat : n = Len(files)
    BY LenProperties
  <2>4. i \in 1..n /\ \A k \in 1..n : files[k] \in Entry
    BY <2>1, <2>3, ElementOfSeq
  <2>5. PICK a, b : a = SubSeq(files, 1, i - 1) /\ b = SubSeq(files, i + 1, n)
    OBVIOUS
  <2>6. /\ a \in Seq(Entry) /\ Len(a) = i - 1
        /\ \A k \in 1..(i - 1) : a[k] = files[k]
    <3>1. i - 1 \in Int /\ \A k \in 1..(i - 1) : files[k] \in Entry
      BY <2>4
    <3>2. /\ a \in Seq(Entry) /\ Len(a) = IF 1 <= i - 1 THEN (i - 1) - 1 + 1 ELSE 0
          /\ \A k \in 1..((i - 1) - 1 + 1) : a[k] = files[1 + k - 1]
      BY <2>5, <3>1, SubSeqProperties
    <3> QED BY <2>4, <3>2
  <2>7. /\ b \in Seq(Entry) /\ Len(b) = n - i
        /\ \A k \in 1..(n - i) : b[k] = files[k + i]
    <3>1. i + 1 \in Int /\ n \in Int /\ \A k \in (i + 1)..n : files[k] \in Entry
      BY <2>4
    <3>2. /\ b \in Seq(Entry) /\ Len(b) = IF i + 1 <= n THEN n - (i + 1) + 1 ELSE 0
          /\ \A k \in 1..(n - (i + 1) + 1) : b[k] = files[(i + 1) + k - 1]
      BY <2>5, <3>1, SubSeqProperties
    <3> QED BY <2>4, <3>2
  <2>8. PICK c : c = Without(files, f)
    OBVIOUS
  <2>9. c = a \o b
    BY <1>1, <2>1, <2>3, <2>5, <2>8 DEF Without
  <2>10. c \in Seq(Entry) /\ Len(c) = n - 1
    <3>1. c \in Seq(Entry) /\ Len(c) = Len(a) + Len(b)
      BY <2>6, <2>7, <2>9, ConcatProperties
    <3>2. (i - 1) + (n - i) = n - 1
      BY <2>4
    <3> QED BY <2>6, <2>7, <3>1, <3>2
  <2>11. \A k \in 1..(n - 1) : c[k] = IF k < i THEN files[k] ELSE files[k + 1]
    <3>1. \A k \in 1..(n - 1) : c[k] = IF k <= i - 1 THEN a[k] ELSE b[k - (i - 1)]
      BY <2>4, <2>6, <2>7, <2>9, ConcatProperties
    <3>2. ASSUME NEW k \in 1..(n - 1), k < i PROVE c[k] = files[k]
      <4>1. k \in 1..(i - 1) /\ k <= i - 1
        BY <2>4, <3>2
      <4> QED BY <2>6, <3>1, <4>1
    <3>3. ASSUME NEW k \in 1..(n - 1), ~(k < i) PROVE c[k] = files[k + 1]
      <4>1. PICK m : m = k - (i - 1)
        OBVIOUS
      <4>2. m \in 1..(n - i) /\ m + i = k + 1 /\ ~(k <= i - 1)
        BY <2>4, <3>3, <4>1
      <4> QED BY <2>7, <3>1, <4>1, <4>2
    <3> QED BY <3>2, <3>3
  <2>12. \A k \in 1..(n - 1) : \E m \in 1..n : /\ m # i /\ c[k] = files[m]
                                               /\ m = IF k < i THEN k ELSE k + 1
    BY <2>4, <2>11
  <2>13. \A j, k \in 1..(n - 1) : c[j].path = c[k].path => j = k
    <3> SUFFICES ASSUME NEW j \in 1..(n - 1), NEW k \in 1..(n - 1), c[j].path = c[k].path
                 PROVE  j = k
      OBVIOUS
    <3>1. PICK m \in 1..n : m # i /\ c[j] = files[m] /\ m = IF j < i THEN j ELSE j + 1
      BY <2>12
    <3>2. PICK l \in 1..n : l # i /\ c[k] = files[l] /\ l = IF k < i THEN k ELSE k + 1
      BY <2>12
    <3>3. m = l
      BY <2>3, <3>1, <3>2 DEF OncePerFile
    <3> QED BY <2>4, <3>1, <3>2, <3>3
  <2>14. \A k \in 1..(n - 1) : c[k].path # f
    <3> SUFFICES ASSUME NEW k \in 1..(n - 1) PROVE c[k].path # f
      OBVIOUS
    <3>1. PICK m \in 1..n : m # i /\ c[k] = files[m]
      BY <2>12
    <3> QED BY <2>2, <2>3, <2>4, <3>1 DEF OncePerFile
  <2> QED BY <2>8, <2>10, <2>13, <2>14 DEF OncePerFile
<1>2. CASE ~ \E i \in 1..Len(files) : files[i].path = f
  BY <1>2 DEF Without
<1> QED BY <1>1, <1>2

LEMMA AppendOnce ==
    ASSUME NEW files \in Seq(Entry), OncePerFile(files), NEW e \in Entry,
           \A j \in 1..Len(files) : files[j].path # e.path
    PROVE  OncePerFile(Append(files, e))
<1>1. PICK n \in Nat : n = Len(files)
  BY LenProperties
<1>2. PICK c : c = Append(files, e)
  OBVIOUS
<1>3. /\ c \in Seq(Entry) /\ Len(c) = n + 1 /\ c[n + 1] = e
      /\ \A i \in 1..n : c[i] = files[i]
  BY <1>1, <1>2, AppendProperties
<1>4. \A i \in 1..(n + 1) : i \in 1..n \/ i = n + 1
  BY <1>1
<1>5. \A i, j \in 1..(n + 1) : c[i].path = c[j].path => i = j
  BY <1>1, <1>3, <1>4 DEF OncePerFile
<1> QED BY <1>2, <1>3, <1>5 DEF OncePerFile

\* What is still to be written is what was reviewed, or somebody changed it.
Ahead(p) ==
    \A i \in work[p].next..Len(work[p].plan) :
        LET e == work[p].plan[i] IN disk[e.path] = e.base \/ e.path \in moved[p]

DraftsOnce == \A p \in Patches : OncePerFile(rows[p].files)

OnTarget(p) == work[p].kind = "apply" => OncePerFile(work[p].plan) /\ Ahead(p)

AppliesSound == \A p \in Patches : OnTarget(p)

WindowInv == DraftsOnce /\ AppliesSound

LEMMA SweptOnce ==
    ASSUME NEW r, OncePerFile(r.files)
    PROVE  OncePerFile(Swept(r).files)
<1>1. CASE Stored(r) /\ r.due
  <2>1. Swept(r).files = <<>>
    BY <1>1 DEF Swept, NoRow
  <2> QED BY <2>1, EmptyOnce
<1>2. CASE ~(Stored(r) /\ r.due)
  BY <1>2 DEF Swept
<1> QED BY <1>1, <1>2

LEMMA StageOnce ==
    ASSUME PatchesInv, DraftsOnce, NEW p \in Patches, NEW f \in Files, NEW c \in Contents,
           StageEntry(p, f, c)
    PROVE  DraftsOnce'
<1>1. PICK r : r = Cleaned[p]
  OBVIOUS
<1>2. r \in Row /\ r = Swept(rows[p]) /\ \A q \in Patches : Cleaned[q] = Swept(rows[q])
  BY <1>1, CleanedType DEF PatchesInv
<1>3. PICK e : e = [path |-> f, base |-> disk[f], cand |-> c]
  OBVIOUS
<1>4. e \in Entry /\ e.path = f
  BY <1>3 DEF Entry, PatchesInv, TypeOK
<1>5. PICK kept, files : kept = Without(r.files, f) /\ files = Append(kept, e)
  OBVIOUS
<1>6. OncePerFile(r.files) /\ r.files \in Seq(Entry)
  BY <1>2, SweptOnce DEF DraftsOnce, Row
<1>7. /\ kept \in Seq(Entry) /\ OncePerFile(kept)
      /\ \A j \in 1..Len(kept) : kept[j].path # e.path
  BY <1>4, <1>5, <1>6, WithoutType, WithoutOnce
<1>8. OncePerFile(files)
  BY <1>4, <1>5, <1>7, AppendOnce
<1>9. PICK x, y : x = [r EXCEPT !.files = files] /\ y = [x EXCEPT !.tested = NotPassed]
  OBVIOUS
<1>10. y.files = files
  BY <1>2, <1>9 DEF Row
<1>11. rows' = [Cleaned EXCEPT ![p] = y]
  BY <1>1, <1>3, <1>5, <1>9 DEF StageEntry
<1>12. rows'[p] = y /\ \A q \in Patches \ {p} : rows'[q] = Swept(rows[q])
  BY <1>2, <1>11, CleanedType DEF PatchesInv
<1> QED BY <1>8, <1>10, <1>12, SweptOnce DEF DraftsOnce

LEMMA DraftsStay ==
    ASSUME PatchesInv, DraftsOnce, [Next]_vars
    PROVE  DraftsOnce'
<1>1. CASE \A q \in Patches : rows'[q].files \in {<<>>, rows[q].files, Swept(rows[q]).files}
  BY <1>1, SweptOnce, EmptyOnce DEF DraftsOnce
<1>2. /\ DOMAIN Cleaned = Patches /\ \A q \in Patches : Cleaned[q] \in Row
      /\ \A q \in Patches : Cleaned[q].files = Swept(rows[q]).files
  BY CleanedType DEF PatchesInv
<1>3. rows \in [Patches -> Row]
  BY DEF PatchesInv, TypeOK
<1>4. CASE Browse \/ rows' = rows
  BY <1>1, <1>2, <1>4 DEF Browse
<1>5. ASSUME NEW p \in Patches, Begin(p) PROVE DraftsOnce'
  BY <1>1, <1>2, <1>5 DEF Begin, NoRow
<1>6. ASSUME NEW p \in Patches, NEW f \in Files, NEW c \in Contents,
             StageFileChange(p, f, c) \/ StageLineEdit(p, f, c)
      PROVE  DraftsOnce'
  BY <1>6, StageOnce DEF StageFileChange, StageLineEdit
<1>7. ASSUME NEW p \in Patches, NEW state
      PROVE  /\ DOMAIN Claiming(p, state) = Patches
             /\ \A q \in Patches : Claiming(p, state)[q].files = Swept(rows[q]).files
  <2>1. PICK x, y : x = [Cleaned[p] EXCEPT !.state = state] /\ y = [x EXCEPT !.due = FALSE]
    OBVIOUS
  <2>2. y.files = Cleaned[p].files
    BY <1>2, <2>1 DEF Row
  <2>3. Claiming(p, state) = [Cleaned EXCEPT ![p] = y]
    BY <1>2, <2>1 DEF Claiming
  <2> QED BY <1>2, <2>2, <2>3
<1>8. ASSUME NEW s \in Servers, NEW p \in Patches, NEW t, NEW promoted, ApplyClaim(s, p, t, promoted)
      PROVE  DraftsOnce'
  BY <1>1, <1>7, <1>8 DEF ApplyClaim
<1>9. ASSUME NEW s \in Servers, NEW p \in Patches, NEW t, TestClaim(s, p, t)
      PROVE  DraftsOnce'
  <2>1. PICK rs : rs = Claiming(p, "testing")
    OBVIOUS
  <2>2. rows' = [rs EXCEPT ![p].tested = NotPassed]
    BY <1>9, <2>1 DEF TestClaim
  <2>3. DOMAIN rs = Patches /\ \A q \in Patches : rs[q].files = Swept(rows[q]).files
    BY <1>7, <2>1
  <2>4. [rs[p] EXCEPT !.tested = NotPassed].files = rs[p].files
    OBVIOUS
  <2> QED BY <1>1, <2>2, <2>3, <2>4
<1>10. ASSUME NEW p \in Patches, NEW s \in Servers, NEW t \in Tokens,
             RequestToken(s, p, t) \/ SpendToken(s, p, t)
      PROVE  DraftsOnce'
  BY <1>1, <1>2, <1>10 DEF RequestToken, SpendToken, Commit
<1>11. ASSUME NEW p \in Patches, Lapse(p) PROVE DraftsOnce'
  <2>1. PICK b : rows' = [rows EXCEPT ![p].due = b]
    BY <1>11 DEF Lapse
  <2>2. [rows[p] EXCEPT !.due = b].files = rows[p].files
    BY <1>3 DEF Row
  <2> QED BY <1>1, <1>3, <2>1, <2>2
<1>12. ASSUME NEW p \in Patches, ApplyFinish(p) PROVE DraftsOnce'
  <2>1. PICK state : \/ rows' \in {rows, Cleaned}
                     \/ rows' = [Cleaned EXCEPT ![p] = [NoRow EXCEPT !.state = state]]
    BY <1>12 DEF ApplyFinish, Commit
  <2>2. [NoRow EXCEPT !.state = state].files = <<>>
    BY DEF NoRow
  <2> QED BY <1>1, <1>2, <2>1, <2>2
<1>13. ASSUME NEW p \in Patches, TestFinish(p) PROVE DraftsOnce'
  <2>1. PICK r, result : r = Cleaned[p]
                         /\ result = IF work[p].ok THEN Fingerprint(work[p].plan) ELSE NotPassed
    OBVIOUS
  <2>2. PICK x, y, z : x = [r EXCEPT !.state = "staging"] /\ y = [x EXCEPT !.due = FALSE]
                       /\ z = [y EXCEPT !.tested = result]
    OBVIOUS
  <2>3. z = [r EXCEPT !.state = "staging", !.due = FALSE, !.tested = result]
    BY <2>2
  <2>4. rows' \in {rows, Cleaned} \/ rows' = [Cleaned EXCEPT ![p] = z]
    BY <1>13, <2>1, <2>3 DEF TestFinish, Commit
  <2>5. z.files = r.files
    BY <1>2, <2>1, <2>2 DEF Row
  <2> QED BY <1>1, <1>2, <2>1, <2>4, <2>5
<1> QED
  BY <1>4, <1>5, <1>6, <1>8, <1>9, <1>10, <1>11, <1>12, <1>13
     DEF Next, Progress, Write, CapsuleStart, CapsuleError, CapsuleRun, Crash, LoseToken,
         OperatorSets, Edit, vars

LEMMA PathOfEntry ==
    ASSUME NEW files \in Seq(Entry), NEW i \in 1..Len(files)
    PROVE  files[i].path \in Files
<1>1. files[i] \in Entry
  BY ElementOfSeq
<1> QED BY <1>1 DEF Entry

\* A call that rests while others work: every file they change is recorded.
LEMMA RestingSound ==
    ASSUME PatchesInv, NEW p \in Patches, OnTarget(p), work'[p] = work[p],
           work[p].kind = "apply" =>
               /\ moved[p] \subseteq moved'[p]
               /\ \A f \in Files : disk'[f] = disk[f] \/ f \in moved'[p]
    PROVE  OnTarget(p)'
<1> SUFFICES ASSUME work[p].kind = "apply" PROVE OncePerFile(work'[p].plan) /\ Ahead(p)'
  BY DEF OnTarget
<1>1. PICK plan, m : plan = work[p].plan /\ m = work[p].next
  OBVIOUS
<1>2. work[p] \in Work
  BY DEF PatchesInv, TypeOK
<1>3. plan \in Seq(Entry) /\ m \in Nat \ {0}
  BY <1>1, <1>2 DEF Work
<1>4. ASSUME NEW i \in m..Len(plan)
      PROVE  disk'[plan[i].path] = plan[i].base \/ plan[i].path \in moved'[p]
  <2>1. i \in 1..Len(plan)
    BY <1>3, LenProperties
  <2>2. plan[i].path \in Files
    BY <1>3, <2>1, PathOfEntry
  <2>3. disk[plan[i].path] = plan[i].base \/ plan[i].path \in moved[p]
    BY <1>1 DEF OnTarget, Ahead
  <2> QED BY <2>2, <2>3
<1>5. work'[p].plan = plan /\ work'[p].next = m
  BY <1>1
<1>6. Ahead(p)'
  BY <1>4, <1>5 DEF Ahead
<1> QED BY <1>1, <1>5, <1>6 DEF OnTarget

\* The next entry is written; no entry after it names the same file.
LEMMA WriteSound ==
    ASSUME PatchesInv, AppliesSound, NEW p \in Patches, Write(p)
    PROVE  AppliesSound'
<1>1. PICK w, plan, m, e : w = work[p] /\ plan = w.plan /\ m = w.next /\ e = plan[m]
  OBVIOUS
<1>2. w \in Work /\ work \in [Patches -> Work] /\ disk \in [Files -> Contents \cup {Absent}]
  BY <1>1 DEF PatchesInv, TypeOK
<1>3. plan \in Seq(Entry) /\ m \in Nat \ {0} /\ m <= Len(plan) /\ w.kind = "apply"
  BY <1>1, <1>2 DEF Work, Write
<1>4. PICK n \in Nat : n = Len(plan)
  BY <1>3, LenProperties
<1>5. PICK replaced, reported \in BOOLEAN :
          /\ work' = [work EXCEPT ![p].next = @ + 1, ![p].ok = @ /\ reported]
          /\ IF replaced
             THEN /\ disk' = [disk EXCEPT ![e.path] = e.cand]
                  /\ Disturb(e.path, Patches \ {p})
             ELSE UNCHANGED <<disk, moved>>
  BY <1>1 DEF Write
<1>6. /\ work'[p].plan = plan /\ work'[p].next = m + 1
      /\ \A q \in Patches \ {p} : work'[q] = work[q]
  BY <1>1, <1>2, <1>5 DEF Work
<1>7. /\ \A f \in Files : f # e.path => disk'[f] = disk[f]
      /\ moved'[p] = moved[p]
      /\ \A q \in Patches \ {p} : work[q].kind = "apply" =>
             moved[q] \subseteq moved'[q] /\ (disk' = disk \/ e.path \in moved'[q])
  BY <1>2, <1>5 DEF Disturb
<1>8. ASSUME NEW q \in Patches \ {p} PROVE OnTarget(q)'
  <2>1. OnTarget(q) /\ work'[q] = work[q]
    BY <1>6 DEF AppliesSound
  <2>2. work[q].kind = "apply" =>
            moved[q] \subseteq moved'[q] /\ \A f \in Files : disk'[f] = disk[f] \/ f \in moved'[q]
    BY <1>7
  <2> QED BY <2>1, <2>2, RestingSound
<1>9. OncePerFile(plan)
        /\ \A i \in m..n : disk[plan[i].path] = plan[i].base \/ plan[i].path \in moved[p]
  BY <1>1, <1>3, <1>4 DEF AppliesSound, OnTarget, Ahead
<1>10. ASSUME NEW i \in (m + 1)..n
       PROVE  disk'[plan[i].path] = plan[i].base \/ plan[i].path \in moved'[p]
  <2>1. i \in m..n /\ i \in 1..n /\ m \in 1..n /\ i # m
    BY <1>3, <1>4
  <2>2. plan[i].path \in Files /\ plan[i].path # e.path
    BY <1>1, <1>3, <1>4, <1>9, <2>1, PathOfEntry DEF OncePerFile
  <2> QED BY <1>7, <1>9, <2>1, <2>2
<1>11. OnTarget(p)'
  BY <1>4, <1>6, <1>9, <1>10 DEF OnTarget, Ahead
<1> QED BY <1>8, <1>11 DEF AppliesSound

LEMMA ClaimSafe ==
    ASSUME PatchesInv, DraftsOnce, AppliesSound, NEW s \in Servers, NEW p \in Patches, NEW t,
           NEW promoted, ApplyClaim(s, p, t, promoted)
    PROVE  AppliesSound'
<1>1. PICK r : r = Cleaned[p]
  OBVIOUS
<1>2. r \in Row /\ r = Swept(rows[p])
  BY <1>1, CleanedType DEF PatchesInv
<1>3. OncePerFile(r.files) /\ r.files \in Seq(Entry)
  BY <1>2, SweptOnce DEF DraftsOnce, Row
<1>4. \A i \in 1..Len(r.files) : disk[r.files[i].path] = r.files[i].base
  BY <1>1 DEF ApplyClaim, Unchanged
<1>5. /\ work'[p].plan = r.files /\ work'[p].next = 1
      /\ \A q \in Patches \ {p} : work'[q] = work[q]
      /\ UNCHANGED <<disk, moved>>
  BY <1>1 DEF ApplyClaim, NoWork, PatchesInv, TypeOK
<1>6. OnTarget(p)'
  BY <1>3, <1>4, <1>5 DEF OnTarget, Ahead
<1>7. \A q \in Patches \ {p} : OnTarget(q)'
  BY <1>5, RestingSound DEF AppliesSound
<1> QED BY <1>6, <1>7 DEF AppliesSound

\* Every call rests, or does not apply a patch.
LEMMA RestSound ==
    ASSUME PatchesInv, AppliesSound, disk' = disk,
           \A q \in Patches : work'[q].kind # "apply" \/ (work'[q] = work[q] /\ moved'[q] = moved[q])
    PROVE  AppliesSound'
<1> SUFFICES ASSUME NEW q \in Patches PROVE OnTarget(q)'
  BY DEF AppliesSound
<1>1. CASE work'[q].kind # "apply"
  BY <1>1 DEF OnTarget
<1>2. CASE work'[q] = work[q] /\ moved'[q] = moved[q]
  BY <1>2, RestingSound DEF AppliesSound
<1> QED BY <1>1, <1>2

LEMMA WindowNext == PatchesInv /\ WindowInv /\ [Next]_vars => WindowInv'
<1> SUFFICES ASSUME PatchesInv, DraftsOnce, AppliesSound, [Next]_vars PROVE AppliesSound'
  BY DraftsStay DEF WindowInv
<1>1. work \in [Patches -> Work] /\ moved \in [Patches -> SUBSET Files]
  BY DEF PatchesInv, TypeOK
<1>2. CASE UNCHANGED <<disk, work, moved>>
  BY <1>2, RestSound
<1>3. ASSUME NEW p \in Patches,
             ApplyFinish(p) \/ CapsuleStart(p) \/ CapsuleError(p) \/ CapsuleRun(p) \/ TestFinish(p)
      PROVE  AppliesSound'
  <2>1. disk' = disk /\ \A q \in Patches \ {p} : work'[q] = work[q] /\ moved'[q] = moved[q]
    BY <1>1, <1>3 DEF ApplyFinish, CapsuleStart, CapsuleError, CapsuleRun, TestFinish, history
  <2>2. work'[p].kind # "apply"
    BY <1>1, <1>3 DEF ApplyFinish, CapsuleStart, CapsuleError, CapsuleRun, TestFinish, NoWork, Work
  <2> QED BY <2>1, <2>2, RestSound
<1>4. ASSUME NEW p \in Patches, NEW s \in Servers, NEW t, TestClaim(s, p, t)
      PROVE  AppliesSound'
  <2>1. disk' = disk /\ \A q \in Patches \ {p} : work'[q] = work[q] /\ moved'[q] = moved[q]
    BY <1>1, <1>4 DEF TestClaim
  <2>2. work'[p].kind # "apply"
    BY <1>1, <1>4 DEF TestClaim, NoWork
  <2> QED BY <2>1, <2>2, RestSound
<1>5. ASSUME NEW s \in Servers, Crash(s) PROVE AppliesSound'
  <2>1. \A q \in Patches : \/ work'[q] = NoWork
                           \/ work'[q] = work[q] /\ moved'[q] = moved[q]
    BY <1>5 DEF Crash
  <2>2. NoWork.kind # "apply"
    BY DEF NoWork
  <2> QED BY <1>5, <2>1, <2>2, RestSound DEF Crash
<1>6. ASSUME NEW f, NEW c, Edit(f, c) PROVE AppliesSound'
  <2>1. work' = work /\ \A g \in Files : g # f => disk'[g] = disk[g]
    BY <1>6 DEF Edit, PatchesInv, TypeOK
  <2>2. \A q \in Patches : work[q].kind = "apply" => moved[q] \subseteq moved'[q] /\ f \in moved'[q]
    BY <1>6 DEF Edit, Disturb
  <2>3. ASSUME NEW q \in Patches PROVE OnTarget(q)'
    BY <2>1, <2>2, RestingSound DEF AppliesSound
  <2> QED BY <2>3 DEF AppliesSound
<1>7. CASE UNCHANGED vars
  BY <1>2, <1>7 DEF vars
<1>8. ASSUME NEW p \in Patches, NEW f, NEW c, StageEntry(p, f, c) PROVE AppliesSound'
  BY <1>2, <1>8 DEF StageEntry
<1>9. ASSUME NEW p \in Patches,
             \/ Browse \/ Begin(p) \/ Lapse(p)
             \/ \E s \in Servers, t \in Tokens :
                   RequestToken(s, p, t) \/ SpendToken(s, p, t) \/ LoseToken(s, t)
             \/ \E x \in Policies : OperatorSets(x)
      PROVE  AppliesSound'
  BY <1>2, <1>9 DEF Browse, Begin, Lapse, RequestToken, SpendToken, LoseToken, OperatorSets, history
<1>10. CASE Browse \/ (\E s \in Servers, t \in Tokens : LoseToken(s, t))
            \/ (\E x \in Policies : OperatorSets(x))
  BY <1>2, <1>10 DEF Browse, LoseToken, OperatorSets, history
<1> QED
  BY <1>3, <1>4, <1>5, <1>6, <1>7, <1>8, <1>9, <1>10, WriteSound, ClaimSafe
     DEF Next, Progress, StageFileChange, StageLineEdit

LEMMA WindowInit == Init => WindowInv
<1> SUFFICES ASSUME Init PROVE WindowInv
  OBVIOUS
<1>1. \A p \in Patches : rows[p].files = <<>> /\ work[p].kind = "none"
  BY DEF Init, NoRow, NoWork
<1> QED BY <1>1, EmptyOnce DEF WindowInv, DraftsOnce, AppliesSound, OnTarget

LEMMA WindowInvariant == Spec => [](PatchesInv /\ WindowInv)
<1>1. Spec => []PatchesInv
  BY PatchesInvariant
<1> QED BY <1>1, WindowInit, WindowNext, PTL DEF Spec

\* Nothing is lost to somebody else's call: a draft leaves the store only when
\* it is due or its own apply has finished, and a write lands on the reviewed
\* baseline unless that very file was changed after the claim
\* (src/operation_store.py, src/project_workspace.py).
THEOREM PatchesNothingLost == Spec => NothingLost
<1> DEFINE Kept == \A p \in Patches : Stored(rows[p]) /\ ~Stored(rows'[p]) =>
                       \/ rows[p].due
                       \/ work[p].kind = "apply" /\ work'[p].kind = "none"
           Landed == \A p \in Patches : \A i \in touched'[p] \ touched[p] :
                         LET e == claim[p].plan[i] IN
                             disk[e.path] = e.base \/ e.path \in moved[p]
<1>1. ASSUME PatchesInv, Next PROVE Kept
  BY <1>1, NextLives DEF KeptStep
<1>2. ASSUME PatchesInv, WindowInv, Next PROVE Landed
  <2>1. ASSUME NEW p \in Patches, Write(p) PROVE Landed
    <3>1. work[p] \in Work /\ touched \in [Patches -> SUBSET Nat]
      BY <1>2 DEF PatchesInv, TypeOK
    <3>2. work[p].kind = "apply" /\ work[p].next \in work[p].next..Len(work[p].plan)
      BY <2>1, <3>1, LenProperties DEF Write, Work
    <3>3. work[p].plan = claim[p].plan
      BY <1>2, <3>2 DEF PatchesInv, RowsSound, RowSound
    <3>4. \A q \in Patches : touched'[q] \ touched[q] # {} => q = p
      BY <2>1, <3>1 DEF Write
    <3>5. touched'[p] \ touched[p] \subseteq {work[p].next}
      BY <2>1, <3>1 DEF Write
    <3>6. PICK e : e = work[p].plan[work[p].next]
      OBVIOUS
    <3>7. disk[e.path] = e.base \/ e.path \in moved[p]
      BY <1>2, <3>2, <3>6 DEF WindowInv, AppliesSound, OnTarget, Ahead
    <3> QED BY <3>3, <3>4, <3>5, <3>6, <3>7
  <2>2. CASE touched' = touched
    BY <2>2
  <2>3. ASSUME NEW p \in Patches, NEW f, NEW c, StageEntry(p, f, c) PROVE touched' = touched
    BY <2>3 DEF StageEntry
  <2>4. ASSUME NEW p \in Patches, Progress(p), ~Write(p) PROVE touched' = touched
    BY <2>4 DEF Progress, ApplyFinish, CapsuleStart, CapsuleError, CapsuleRun, TestFinish, history
  <2>5. ASSUME NEW p \in Patches, NEW s, NEW t,
               RequestToken(s, p, t) \/ SpendToken(s, p, t) \/ TestClaim(s, p, t)
               \/ (\E promoted \in BOOLEAN : ApplyClaim(s, p, t, promoted))
        PROVE  touched' = touched
    BY <2>5 DEF RequestToken, SpendToken, TestClaim, ApplyClaim, history
  <2> QED
    BY <1>2, <2>1, <2>2, <2>3, <2>4, <2>5
       DEF Next, Browse, Begin, StageFileChange, StageLineEdit, Lapse, Crash, LoseToken,
           OperatorSets, Edit, history
<1>3. PatchesInv /\ [Next]_vars => [Kept]_vars
  BY <1>1
<1>4. PatchesInv /\ WindowInv /\ [Next]_vars => [Landed]_vars
  BY <1>2
<1>5. Spec => NeverEvicted
  BY <1>3, WindowInvariant, PTL DEF Spec, NeverEvicted
<1>6. Spec => OverwriteOnlyInWindow
  BY <1>4, WindowInvariant, PTL DEF Spec, OverwriteOnlyInWindow
<1> QED BY <1>5, <1>6 DEF NothingLost
=============================================================================
