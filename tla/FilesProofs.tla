----------------------------- MODULE FilesProofs -----------------------------
(***************************************************************************)
(* Proofs about the data on disk.                                          *)
(*                                                                         *)
(* The first part is about AtomicFiles: what each call has seen and done   *)
(* agrees with the target and with its durable copy, whatever the other    *)
(* calls, other programs and power losses do in between.                   *)
(*                                                                         *)
(* The second part is about OperationStore: a reader has listed exactly    *)
(* those of its stable records that come before its cursor.  That a page   *)
(* is a beginning of the selection, and the cursor its last record, are    *)
(* facts about finite sets under the order of the listing.                 *)
(***************************************************************************)
EXTENDS AtomicFiles, OperationStore, FiniteSetTheorems, WellFoundedInduction, TLAPS

-----------------------------------------------------------------------------
(* Safe file I/O                                                           *)

\* Steps of a call that has read the target and not changed it yet.
Reading == {"backup", "write", "sync", "look", "change"}

\* A file that may get the target name is whole, on the disk and known.
FileSound(file) ==
    Has(file) => /\ file.synced /\ file.content \in Contents
                 /\ file.ino <= stamp /\ file.stamp <= stamp

\* What call c relies on: no inode or stamp it has seen is handed out again, a
\* file that still looks like the one it has read has the content it has read,
\* its copy holds that content, and only synced data waits for the change.
CallSound(c) ==
    LET w == call[c] IN
    /\ Has(w.before) => w.before.ino <= stamp /\ w.before.stamp <= stamp
    /\ w.op = "create" =>
          /\ w.before = None /\ w.original = NoContent /\ w.expected = NoContent /\ ~w.backup
          /\ w.step \notin {"read", "backup", "look"}
    /\ w.step \in {"look", "change"} /\ w.op # "delete" => w.synced
    /\ w.step \in Reading =>
          /\ ~Has(w.before) => w.original = NoContent
          /\ w.op # "create" /\ Same(target, w.before) => ContentOf(target) = w.original
          /\ w.expected # NoContent => w.original = w.expected
    /\ w.step \in Reading \ {"backup"} /\ w.backup /\ Has(w.before) => copy[c] = w.original
    /\ w.step = "change" /\ w.op # "create" /\ c \notin raced => Same(target, w.before)

\* What call c has done.
DeedSound(c) ==
    LET w == call[c] IN
    /\ lost[c] # Untouched =>
          /\ w.step \in {"settle", "done", "failed"}
          /\ c \notin raced => lost[c] = w.original
          /\ c \notin raced /\ w.expected # NoContent => lost[c] = w.expected
          /\ w.op = "create" => lost[c] = NoContent
    /\ w.step \in {"settle", "done"} /\ c \notin raced /\ w.backup /\ lost[c] # NoContent =>
          /\ copy[c] = lost[c]
          /\ w.step = "done" => durable.copy[c] = lost[c]
    /\ last = c /\ w.step = "done" => durable.target = target

FilesInv ==
    /\ TypeOK
    /\ FileSound(target) /\ FileSound(durable.target)
    /\ \A c \in Calls : CallSound(c) /\ DeedSound(c)

-----------------------------------------------------------------------------
(* Updates of a call                                                       *)

LEMMA StepUpdate ==
    ASSUME NEW w \in Call, NEW s \in Steps \cup Ended, NEW v, v = [w EXCEPT !.step = s]
    PROVE  /\ v \in Call /\ v.step = s
           /\ v.op = w.op /\ v.data = w.data /\ v.backup = w.backup /\ v.expected = w.expected
           /\ v.before = w.before /\ v.original = w.original /\ v.synced = w.synced
BY DEF Call

LEMMA BeforeUpdate ==
    ASSUME NEW w \in Call, NEW b \in File \cup {None}, NEW v, v = [w EXCEPT !.before = b]
    PROVE  /\ v \in Call /\ v.before = b
           /\ v.op = w.op /\ v.data = w.data /\ v.backup = w.backup /\ v.expected = w.expected
           /\ v.step = w.step /\ v.original = w.original /\ v.synced = w.synced
BY DEF Call

LEMMA OriginalUpdate ==
    ASSUME NEW w \in Call, NEW o \in Data \cup {NoContent}, NEW v, v = [w EXCEPT !.original = o]
    PROVE  /\ v \in Call /\ v.original = o
           /\ v.op = w.op /\ v.data = w.data /\ v.backup = w.backup /\ v.expected = w.expected
           /\ v.step = w.step /\ v.before = w.before /\ v.synced = w.synced
BY DEF Call

LEMMA SyncedUpdate ==
    ASSUME NEW w \in Call, NEW b \in BOOLEAN, NEW v, v = [w EXCEPT !.synced = b]
    PROVE  /\ v \in Call /\ v.synced = b
           /\ v.op = w.op /\ v.data = w.data /\ v.backup = w.backup /\ v.expected = w.expected
           /\ v.step = w.step /\ v.before = w.before /\ v.original = w.original
BY DEF Call

\* A call that ends remembers what it was asked and what it read.
LEMMA EndOfCall ==
    ASSUME NEW w \in Call, NEW how \in Ended, NEW v, v = End(w, how)
    PROVE  /\ v \in Call /\ v.step = how /\ v.before = None
           /\ v.op = w.op /\ v.backup = w.backup /\ v.expected = w.expected
           /\ v.original = w.original
<1>1. PICK w1 : w1 = [w EXCEPT !.step = how]
  OBVIOUS
<1>2. PICK w2 : w2 = [w1 EXCEPT !.before = None]
  OBVIOUS
<1>3. v = [w2 EXCEPT !.synced = FALSE]
  BY <1>1, <1>2 DEF End, Call
<1>4. w1 \in Call /\ w1.step = how /\ w1.op = w.op /\ w1.backup = w.backup
      /\ w1.expected = w.expected /\ w1.original = w.original
  BY <1>1, StepUpdate
<1>5. w2 \in Call /\ w2.before = None /\ w2.step = how /\ w2.op = w.op /\ w2.backup = w.backup
      /\ w2.expected = w.expected /\ w2.original = w.original
  BY <1>2, <1>4, BeforeUpdate
<1>6. FALSE \in BOOLEAN
  OBVIOUS
<1> QED BY <1>3, <1>5, <1>6, SyncedUpdate DEF Call

LEMMA CallUpdated ==
    ASSUME TypeOK, NEW c \in Calls, NEW w, w = call[c], NEW v \in Call,
           call' = [call EXCEPT ![c] = v]
    PROVE  /\ w \in Call
           /\ call' \in [Calls -> Call] /\ call'[c] = v
           /\ \A d \in Calls \ {c} : call'[d] = call[d]
BY DEF TypeOK

-----------------------------------------------------------------------------
(* The calls that a step does not concern                                  *)

LEMMA OthersSound ==
    ASSUME FilesInv, TypeOK', NEW d \in Calls, call'[d] = call[d], stamp' >= stamp,
           copy'[d] = copy[d], lost'[d] = lost[d],
           durable' = durable \/ durable' = [target |-> target, copy |-> copy],
           \/ target' = target /\ raced' = raced /\ last' = last
           \/ /\ ~Has(target') \/ target'.ino > stamp \/ target'.stamp > stamp
              /\ raced \subseteq raced'
              /\ call[d].step = "change" => d \in raced'
              /\ last' # d
    PROVE  CallSound(d)' /\ DeedSound(d)'
<1>1. PICK w : w = call[d]
  OBVIOUS
<1>2. call'[d] = w /\ w \in Call /\ stamp \in Nat /\ stamp' \in Nat /\ target \in File \cup {None}
  BY <1>1 DEF FilesInv, TypeOK
<1>3. Has(w.before) => w.before \in File /\ w.before.ino \in Nat /\ w.before.stamp \in Nat
  BY <1>2 DEF Call, File, Has
<1>4. CallSound(d)
  BY DEF FilesInv
<1>5. CASE target' = target /\ raced' = raced /\ last' = last
  <2>1. CallSound(d)'
    BY <1>1, <1>2, <1>3, <1>4, <1>5 DEF CallSound
  <2>2. DeedSound(d)'
    BY <1>1, <1>2, <1>5 DEF FilesInv, DeedSound
  <2> QED BY <2>1, <2>2
<1>6. CASE /\ ~Has(target') \/ target'.ino > stamp \/ target'.stamp > stamp
           /\ raced \subseteq raced'
           /\ call[d].step = "change" => d \in raced'
           /\ last' # d
  <2>1. target' \in File \cup {None}
    BY DEF TypeOK
  <2>2. Has(target') => target'.ino \in Nat /\ target'.stamp \in Nat
    BY <2>1 DEF File, Has
  <2>3. Has(w.before) => w.before.ino <= stamp /\ w.before.stamp <= stamp
    BY <1>1, <1>4 DEF CallSound
  <2>4. Same(target', w.before) => ~Has(target') /\ ~Has(w.before)
    BY <1>2, <1>3, <1>6, <2>2, <2>3 DEF Same
  <2>5. CallSound(d)'
    BY <1>1, <1>2, <1>3, <1>4, <1>6, <2>3, <2>4 DEF CallSound, ContentOf
  <2>6. DeedSound(d)'
    BY <1>1, <1>2, <1>6 DEF FilesInv, DeedSound
  <2> QED BY <2>5, <2>6
<1> QED BY <1>5, <1>6

-----------------------------------------------------------------------------
(* The steps of a call                                                     *)

\* A step that leaves the target alone.
LEMMA QuietStep ==
    ASSUME FilesInv, NEW c \in Calls, NEW v \in Call, call' = [call EXCEPT ![c] = v],
           UNCHANGED <<target, stamp, last, lost, raced>>, copy' \in Copies,
           durable' = durable \/ durable' = [target |-> target, copy |-> copy],
           \A d \in Calls \ {c} : copy'[d] = copy[d],
           CallSound(c)', DeedSound(c)'
    PROVE  FilesInv'
<1>1. call' \in [Calls -> Call] /\ \A d \in Calls \ {c} : call'[d] = call[d]
  BY CallUpdated DEF FilesInv
<1>2. durable' \in [target : File \cup {None}, copy : Copies]
  BY DEF FilesInv, TypeOK
<1>3. TypeOK'
  BY <1>1, <1>2 DEF FilesInv, TypeOK
<1>4. stamp' >= stamp
  BY DEF FilesInv, TypeOK
<1>5. \A d \in Calls \ {c} : CallSound(d)' /\ DeedSound(d)'
  BY <1>1, <1>3, <1>4, OthersSound
<1>6. FileSound(target)' /\ FileSound(durable.target)'
  BY DEF FilesInv, FileSound
<1> QED BY <1>3, <1>5, <1>6 DEF FilesInv

\* Before the change, a call has removed nothing.
LEMMA NothingDone ==
    ASSUME FilesInv, NEW c \in Calls, call[c].step \notin {"settle", "done", "failed"},
           call'[c].step \notin {"settle", "done"}, UNCHANGED lost
    PROVE  DeedSound(c)'
BY DEF FilesInv, DeedSound

LEMMA FailureKeeps ==
    ASSUME FilesInv, NEW c \in Calls, call[c].step \notin Ended, Ends(c, "failed"),
           UNCHANGED <<target, copy, durable, stamp, last, lost, raced>>
    PROVE  FilesInv'
<1>1. PICK w, v : w = call[c] /\ v = End(w, "failed")
  OBVIOUS
<1>2. call' = [call EXCEPT ![c] = v] /\ w \in Call
  BY <1>1 DEF Ends, End, FilesInv, TypeOK
<1>3. /\ v \in Call /\ v.step = "failed" /\ v.before = None
      /\ v.op = w.op /\ v.backup = w.backup /\ v.expected = w.expected /\ v.original = w.original
  BY <1>1, <1>2, EndOfCall DEF Ended
<1>4. call'[c] = v
  BY <1>2, <1>3, CallUpdated DEF FilesInv
<1>5. CallSound(c)'
  BY <1>1, <1>3, <1>4 DEF CallSound, FilesInv, Has, Reading
<1>6. DeedSound(c)'
  BY <1>1, <1>3, <1>4 DEF DeedSound, FilesInv
<1> QED BY <1>2, <1>3, <1>5, <1>6, QuietStep DEF FilesInv, TypeOK

\* The call goes on to another step before the change.
LEMMA StepKeeps ==
    ASSUME FilesInv, NEW c \in Calls, NEW s \in Steps \ {"settle"},
           call[c].step \in Steps \ {"settle"}, To(c, s),
           UNCHANGED <<target, copy, durable, stamp, last, lost, raced>>,
           NEW w, w = call[c],
           s \in {"read", "backup", "look"} => w.op # "create",
           s \in {"look", "change"} /\ w.op # "delete" => w.synced,
           s \in Reading => /\ ~Has(w.before) => w.original = NoContent
                            /\ w.op # "create" /\ Same(target, w.before) => ContentOf(target) = w.original
                            /\ w.expected # NoContent => w.original = w.expected,
           s \in Reading \ {"backup"} /\ w.backup /\ Has(w.before) => copy[c] = w.original,
           s = "change" /\ w.op # "create" => Same(target, w.before)
    PROVE  FilesInv'
<1>1. PICK v : v = [w EXCEPT !.step = s]
  OBVIOUS
<1>2. call' = [call EXCEPT ![c] = v] /\ w \in Call
  BY <1>1 DEF To, FilesInv, TypeOK
<1>3. /\ v \in Call /\ v.step = s
      /\ v.op = w.op /\ v.backup = w.backup /\ v.expected = w.expected
      /\ v.before = w.before /\ v.original = w.original /\ v.synced = w.synced
  BY <1>1, <1>2, StepUpdate DEF Steps, Ended
<1>4. call'[c] = v
  BY <1>2, <1>3, CallUpdated DEF FilesInv
<1>5. CallSound(c)'
  BY <1>3, <1>4 DEF CallSound, FilesInv
<1>6. DeedSound(c)'
  BY <1>3, <1>4, NothingDone DEF Steps
<1> QED BY <1>2, <1>3, <1>5, <1>6, QuietStep DEF FilesInv, TypeOK

LEMMA InspectKeeps ==
    ASSUME FilesInv, NEW c \in Calls, Inspect(c)
    PROVE  FilesInv'
<1>1. PICK w : w = call[c]
  OBVIOUS
<1>2. w.step = "new" /\ CallSound(c) /\ w \in Call
      /\ UNCHANGED <<target, copy, durable, stamp, last, lost, raced>>
  BY <1>1 DEF Inspect, At, FilesInv, TypeOK
<1>3. CASE w.op = "create"
  <2>1. To(c, "write")
    BY <1>1, <1>3 DEF Inspect
  <2>2. ~Has(w.before) /\ w.original = NoContent /\ w.expected = NoContent
    BY <1>1, <1>2, <1>3 DEF CallSound, Has
  <2> QED BY <1>1, <1>2, <1>3, <2>1, <2>2, StepKeeps DEF Steps
<1>4. CASE Ends(c, "failed")
  BY <1>1, <1>2, <1>4, FailureKeeps DEF Ended
<1>5. CASE w.op # "create" /\ call' = [call EXCEPT ![c].step = "read", ![c].before = target]
  <2>0. PICK b : b = target
    OBVIOUS
  <2>9. PICK v1 : v1 = [w EXCEPT !.step = "read"]
    OBVIOUS
  <2>1. PICK v : v = [v1 EXCEPT !.before = b]
    OBVIOUS
  <2>2. v1 \in Call /\ v1.step = "read" /\ v1.op = w.op
    BY <1>2, <2>9, StepUpdate DEF Steps
  <2>3. b \in File \cup {None}
    BY <2>0 DEF FilesInv, TypeOK
  <2>4. v \in Call /\ v.step = "read" /\ v.op = w.op /\ v.before = b
    BY <2>1, <2>2, <2>3, BeforeUpdate
  <2>5. call' = [call EXCEPT ![c] = v]
    BY <1>1, <1>2, <1>5, <2>0, <2>9, <2>1 DEF FilesInv, TypeOK
  <2>6. call'[c] = v
    BY <2>4, <2>5, CallUpdated DEF FilesInv
  <2>7. CallSound(c)'
    BY <1>2, <1>5, <2>0, <2>4, <2>6 DEF CallSound, FilesInv, FileSound, Reading
  <2>8. DeedSound(c)'
    BY <1>1, <1>2, <2>4, <2>6, NothingDone
  <2> QED BY <1>2, <2>4, <2>5, <2>7, <2>8, QuietStep DEF FilesInv, TypeOK
<1> QED BY <1>1, <1>3, <1>4, <1>5 DEF Inspect

LEMMA ReadKeeps ==
    ASSUME FilesInv, NEW c \in Calls, Read(c)
    PROVE  FilesInv'
<1>1. PICK w, original : /\ w = call[c]
                         /\ original = IF Has(w.before) THEN ContentOf(target) ELSE NoContent
  OBVIOUS
<1>2. w.step = "read" /\ CallSound(c) /\ w \in Call /\ w.op # "create"
      /\ UNCHANGED <<target, copy, durable, stamp, last, lost, raced>>
  BY <1>1 DEF Read, At, FilesInv, TypeOK, CallSound
<1>3. CASE Ends(c, "failed")
  BY <1>1, <1>2, <1>3, FailureKeeps DEF Ended
<1>4. CASE ~Ends(c, "failed")
  <2>1. /\ w.expected # NoContent => original = w.expected
        /\ call' = [call EXCEPT ![c].step = IF Has(w.before) /\ w.backup THEN "backup" ELSE "write",
                                ![c].original = original]
    BY <1>1, <1>4 DEF Read
  <2>2. PICK s : s = IF Has(w.before) /\ w.backup THEN "backup" ELSE "write"
    OBVIOUS
  <2>0. PICK v1 : v1 = [w EXCEPT !.step = s]
    OBVIOUS
  <2>3. PICK v : v = [v1 EXCEPT !.original = original]
    OBVIOUS
  <2>4. s \in {"backup", "write"} /\ (s = "write" => ~w.backup \/ ~Has(w.before))
    BY <2>2
  <2>5. original \in Data \cup {NoContent}
    BY <1>1 DEF ContentOf, FilesInv, TypeOK, File, Has
  <2>6. /\ v1 \in Call /\ v1.step = s /\ v1.op = w.op /\ v1.backup = w.backup
        /\ v1.expected = w.expected /\ v1.before = w.before
    BY <1>2, <2>0, <2>4, StepUpdate DEF Steps
  <2>7. /\ v \in Call /\ v.step = s /\ v.op = w.op /\ v.backup = w.backup
        /\ v.expected = w.expected /\ v.before = w.before /\ v.original = original
    BY <2>3, <2>5, <2>6, OriginalUpdate
  <2>8. call' = [call EXCEPT ![c] = v]
    BY <1>1, <1>2, <2>1, <2>2, <2>0, <2>3 DEF FilesInv, TypeOK
  <2>9. call'[c] = v
    BY <2>7, <2>8, CallUpdated DEF FilesInv
  <2>10. Same(target, w.before) => ContentOf(target) = original
    BY <1>1 DEF Same, ContentOf
  <2>11. CallSound(c)'
    BY <1>1, <1>2, <2>1, <2>4, <2>7, <2>9, <2>10 DEF CallSound, Reading
  <2>12. DeedSound(c)'
    BY <1>1, <1>2, <2>4, <2>7, <2>9, NothingDone
  <2> QED BY <1>2, <2>7, <2>8, <2>11, <2>12, QuietStep DEF FilesInv, TypeOK
<1> QED BY <1>3, <1>4

LEMMA BackupKeeps ==
    ASSUME FilesInv, NEW c \in Calls, Backup(c)
    PROVE  FilesInv'
<1>1. PICK w, s, v : w = call[c] /\ s = (IF w.op = "delete" THEN "look" ELSE "write")
                     /\ v = [w EXCEPT !.step = s]
  OBVIOUS
<1>2. w.step = "backup" /\ CallSound(c) /\ w \in Call /\ w.op # "create"
      /\ UNCHANGED <<target, durable, stamp, last, lost, raced>>
  BY <1>1 DEF Backup, At, FilesInv, TypeOK, CallSound
<1>3. s \in {"look", "write"} /\ (s = "look" => w.op = "delete")
  BY <1>1
<1>4. call' = [call EXCEPT ![c] = v]
  BY <1>1 DEF Backup, To, FilesInv, TypeOK
<1>5. /\ v \in Call /\ v.step = s
      /\ v.op = w.op /\ v.backup = w.backup /\ v.expected = w.expected
      /\ v.before = w.before /\ v.original = w.original /\ v.synced = w.synced
  BY <1>1, <1>2, <1>3, StepUpdate DEF Steps
<1>6. call'[c] = v
  BY <1>4, <1>5, CallUpdated DEF FilesInv
<1>7. w.original \in Data \cup {NoContent}
  BY <1>2 DEF Call
<1>8. copy' \in Copies /\ copy'[c] = w.original /\ \A d \in Calls \ {c} : copy'[d] = copy[d]
  BY <1>1, <1>7 DEF Backup, FilesInv, TypeOK, Copies
<1>9. CallSound(c)'
  BY <1>1, <1>2, <1>3, <1>5, <1>6, <1>8 DEF CallSound, Reading
<1>10. DeedSound(c)'
  BY <1>1, <1>2, <1>3, <1>5, <1>6, NothingDone
<1> QED BY <1>2, <1>4, <1>5, <1>8, <1>9, <1>10, QuietStep

LEMMA WriteKeeps ==
    ASSUME FilesInv, NEW c \in Calls, WriteTemp(c)
    PROVE  FilesInv'
BY StepKeeps DEF WriteTemp, At, Steps, CallSound, FilesInv, Reading

LEMMA SyncKeeps ==
    ASSUME FilesInv, NEW c \in Calls, SyncTemp(c)
    PROVE  FilesInv'
<1>1. PICK w, s, v1 : /\ w = call[c] /\ s = (IF w.op = "create" THEN "change" ELSE "look")
                      /\ v1 = [w EXCEPT !.synced = TRUE]
  OBVIOUS
<1>2. PICK v : v = [v1 EXCEPT !.step = s]
  OBVIOUS
<1>3. w.step = "sync" /\ CallSound(c) /\ w \in Call
      /\ UNCHANGED <<target, copy, durable, stamp, last, lost, raced>>
  BY <1>1 DEF SyncTemp, At, FilesInv, TypeOK
<1>4. s \in {"look", "change"} /\ (s = "look" => w.op # "create") /\ (s = "change" => w.op = "create")
  BY <1>1
<1>5. /\ v1 \in Call /\ v1.synced = TRUE
      /\ v1.op = w.op /\ v1.backup = w.backup /\ v1.expected = w.expected
      /\ v1.before = w.before /\ v1.original = w.original
  BY <1>1, <1>3 DEF Call
<1>6. /\ v \in Call /\ v.step = s /\ v.synced = TRUE
      /\ v.op = w.op /\ v.backup = w.backup /\ v.expected = w.expected
      /\ v.before = w.before /\ v.original = w.original
  BY <1>2, <1>4, <1>5, StepUpdate DEF Steps
<1>7. call' = [call EXCEPT ![c] = v]
  BY <1>1, <1>2, <1>3 DEF SyncTemp, FilesInv, TypeOK, Call
<1>8. call'[c] = v
  BY <1>6, <1>7, CallUpdated DEF FilesInv
<1>9. CallSound(c)'
  BY <1>1, <1>3, <1>4, <1>6, <1>8 DEF CallSound, Reading
<1>10. DeedSound(c)'
  BY <1>1, <1>3, <1>4, <1>6, <1>8, NothingDone
<1> QED BY <1>3, <1>6, <1>7, <1>9, <1>10, QuietStep DEF FilesInv, TypeOK

LEMMA LookKeeps ==
    ASSUME FilesInv, NEW c \in Calls, Look(c)
    PROVE  FilesInv'
<1>1. CASE Ends(c, "failed")
  BY <1>1, FailureKeeps DEF Look, At, Ended
<1>2. CASE Same(target, call[c].before) /\ To(c, "change")
  <2>1. call[c].step = "look" /\ CallSound(c)
    BY DEF Look, At, FilesInv
  <2> QED BY <1>2, <2>1, StepKeeps DEF Look, Steps, CallSound, Reading
<1> QED BY <1>1, <1>2 DEF Look

\* The target becomes a new file, or none, at the hands of a call.
LEMMA ChangeKeeps ==
    ASSUME FilesInv, NEW c \in Calls, NEW w, w = call[c], w.step = "change",
           target' \in File \cup {None}, stamp' \in Nat, stamp' >= stamp, FileSound(target)',
           ~Has(target') \/ target'.ino > stamp,
           w.op = "create" => ~Has(target),
           last' = c, raced' = raced \cup (Exposed \ {c}),
           lost' = [lost EXCEPT ![c] = ContentOf(target)],
           To(c, "settle"), UNCHANGED <<copy, durable>>
    PROVE  FilesInv'
<1>1. PICK v : v = [w EXCEPT !.step = "settle"]
  OBVIOUS
<1>2. CallSound(c) /\ w \in Call /\ call' = [call EXCEPT ![c] = v]
  BY <1>1 DEF To, FilesInv, TypeOK
<1>3. /\ v \in Call /\ v.step = "settle"
      /\ v.op = w.op /\ v.backup = w.backup /\ v.expected = w.expected
      /\ v.before = w.before /\ v.original = w.original
  BY <1>1, <1>2, StepUpdate DEF Steps
<1>4. call' \in [Calls -> Call] /\ call'[c] = v /\ \A d \in Calls \ {c} : call'[d] = call[d]
  BY <1>2, <1>3, CallUpdated DEF FilesInv
<1>5. ContentOf(target) \in Data \cup {NoContent}
  BY DEF ContentOf, FilesInv, TypeOK, File, Has
<1>6. /\ lost' \in [Calls -> Data \cup {NoContent, Untouched}]
      /\ lost'[c] = ContentOf(target) /\ \A d \in Calls \ {c} : lost'[d] = lost[d]
  BY <1>5 DEF FilesInv, TypeOK
<1>7. raced' \in SUBSET Calls /\ raced \subseteq raced' /\ (c \in raced' <=> c \in raced)
      /\ \A d \in Calls \ {c} : call[d].step = "change" => d \in raced'
  BY DEF Exposed, FilesInv, TypeOK
<1>8. TypeOK'
  BY <1>4, <1>6, <1>7 DEF FilesInv, TypeOK
<1>9. FileSound(durable.target)'
  <2>1. stamp \in Nat /\ durable.target \in File \cup {None}
    BY DEF FilesInv, TypeOK
  <2> QED BY <2>1 DEF FilesInv, FileSound, File, Has
<1>10. \A d \in Calls \ {c} : CallSound(d)' /\ DeedSound(d)'
  BY <1>4, <1>6, <1>7, <1>8, OthersSound
<1>11. CallSound(c)'
  <2>1. Has(w.before) => w.before.ino \in Nat /\ w.before.stamp \in Nat
    BY <1>2 DEF Call, File, Has
  <2>2. stamp \in Nat
    BY DEF FilesInv, TypeOK
  <2> QED BY <1>2, <1>3, <1>4, <2>1, <2>2 DEF CallSound, Reading
<1>12. DeedSound(c)'
  <2>1. w.op = "create" => /\ ContentOf(target) = NoContent /\ w.original = NoContent
                           /\ w.expected = NoContent /\ ~w.backup
    BY <1>2 DEF CallSound, ContentOf
  <2>2. w.op # "create" /\ c \notin raced =>
            /\ ContentOf(target) = w.original
            /\ w.expected # NoContent => w.original = w.expected
            /\ w.backup /\ Has(target) => copy[c] = w.original
    BY <1>2 DEF CallSound, Reading, Same
  <2>3. ContentOf(target) # NoContent => Has(target)
    BY DEF ContentOf
  <2> QED BY <1>3, <1>4, <1>6, <1>7, <2>1, <2>2, <2>3 DEF DeedSound
<1> QED BY <1>8, <1>9, <1>10, <1>11, <1>12 DEF FilesInv

LEMMA FreshFile ==
    ASSUME FilesInv, NEW content \in Contents, stamp' = stamp + 1
    PROVE  /\ Fresh(content, TRUE) \in File /\ Has(Fresh(content, TRUE))
           /\ Fresh(content, TRUE).ino = stamp + 1 /\ Fresh(content, TRUE).stamp = stamp + 1
           /\ Fresh(content, TRUE).content = content /\ Fresh(content, TRUE).synced
<1>1. PICK n : n = stamp + 1 /\ n \in Nat \ {0}
  BY DEF FilesInv, TypeOK
<1>2. Fresh(content, TRUE) = [ino |-> n, stamp |-> n, content |-> content, synced |-> TRUE]
  BY <1>1 DEF Fresh
<1>3. n # 0
  BY <1>1
<1>4. [ino |-> n, stamp |-> n, content |-> content, synced |-> TRUE] # None
  BY <1>3 DEF None
<1>5. PICK file : file = [ino |-> n, stamp |-> n, content |-> content, synced |-> TRUE]
  OBVIOUS
<1>6. /\ file \in File /\ file.ino = n /\ file.stamp = n /\ file.content = content /\ file.synced
  BY <1>1, <1>5 DEF File, Data
<1>7. Fresh(content, TRUE) = file /\ Has(file)
  BY <1>2, <1>4, <1>5 DEF Has
<1> QED BY <1>1, <1>6, <1>7

LEMMA RenameOrLinkKeeps ==
    ASSUME FilesInv, NEW c \in Calls, Rename(c) \/ Link(c)
    PROVE  FilesInv'
<1>1. call[c].step = "change" /\ call[c].op \in {"replace", "create"}
  BY DEF Rename, Link, At
<1>2. CASE Ends(c, "failed") /\ UNCHANGED <<target, copy, durable, stamp, last, lost, raced>>
  BY <1>1, <1>2, FailureKeeps DEF Ended
<1>3. CASE /\ Retarget(Fresh(call[c].data, call[c].synced), c)
           /\ stamp' = stamp + 1
           /\ lost' = [lost EXCEPT ![c] = ContentOf(target)]
           /\ To(c, "settle")
           /\ UNCHANGED <<copy, durable>>
           /\ call[c].op = "create" => ~Has(target)
  <2>1. PICK w : w = call[c]
    OBVIOUS
  <2>2. w.synced = TRUE /\ w.data \in Contents
    BY <1>1, <2>1 DEF FilesInv, TypeOK, CallSound, Call
  <2>3. PICK file : file = Fresh(w.data, TRUE)
    OBVIOUS
  <2>4. target' = file
    BY <1>3, <2>1, <2>2, <2>3 DEF Retarget
  <2>5. /\ file \in File /\ Has(file) /\ file.ino = stamp + 1 /\ file.stamp = stamp + 1
        /\ file.content \in Contents /\ file.synced
    BY <1>3, <2>2, <2>3, FreshFile
  <2>6. stamp \in Nat
    BY DEF FilesInv, TypeOK
  <2>7. FileSound(target)'
    BY <1>3, <2>4, <2>5, <2>6 DEF FileSound
  <2>8. /\ target' \in File \cup {None} /\ stamp' \in Nat /\ stamp' >= stamp
        /\ target'.ino > stamp
    BY <1>3, <2>4, <2>5, <2>6
  <2>9. last' = c /\ raced' = raced \cup (Exposed \ {c})
    BY <1>3 DEF Retarget
  <2> QED BY <1>1, <1>3, <2>7, <2>8, <2>9, ChangeKeeps
<1> QED BY <1>2, <1>3 DEF Rename, Link

LEMMA UnlinkKeeps ==
    ASSUME FilesInv, NEW c \in Calls, Unlink(c)
    PROVE  FilesInv'
<1>1. call[c].step = "change" /\ call[c].op = "delete" /\ UNCHANGED <<copy, durable, stamp>>
  BY DEF Unlink, At
<1>2. CASE Has(target)
  <2>1. target' = None /\ ~Has(target') /\ FileSound(target)'
    BY <1>2 DEF Unlink, Retarget, Has, FileSound
  <2>2. stamp' \in Nat /\ stamp' >= stamp
    BY <1>1 DEF FilesInv, TypeOK
  <2> QED BY <1>1, <1>2, <2>1, <2>2, ChangeKeeps DEF Unlink, Retarget
<1>3. CASE ~Has(target)
  BY <1>1, <1>3, FailureKeeps DEF Unlink, Ended
<1> QED BY <1>2, <1>3

LEMMA SettleKeeps ==
    ASSUME FilesInv, NEW c \in Calls, Settle(c)
    PROVE  FilesInv'
<1>1. PICK w, v : w = call[c] /\ v = End(w, "done")
  OBVIOUS
<1>2. w.step = "settle" /\ call' = [call EXCEPT ![c] = v] /\ w \in Call
      /\ durable' = [target |-> target, copy |-> copy]
      /\ UNCHANGED <<target, copy, stamp, last, lost, raced>>
  BY <1>1 DEF Settle, At, Ends, End, FilesInv, TypeOK
<1>3. /\ v \in Call /\ v.step = "done" /\ v.before = None
      /\ v.op = w.op /\ v.backup = w.backup /\ v.expected = w.expected /\ v.original = w.original
  BY <1>1, <1>2, EndOfCall DEF Ended
<1>4. call'[c] = v
  BY <1>2, <1>3, CallUpdated DEF FilesInv
<1>5. CallSound(c)'
  BY <1>1, <1>2, <1>3, <1>4 DEF CallSound, FilesInv, Has, Reading
<1>6. DeedSound(c)'
  BY <1>1, <1>2, <1>3, <1>4 DEF DeedSound, FilesInv
<1> QED BY <1>2, <1>3, <1>5, <1>6, QuietStep DEF FilesInv, TypeOK

-----------------------------------------------------------------------------
(* Other programs, and the power supply                                    *)

LEMMA ElsewhereKeeps ==
    ASSUME FilesInv, target' \in File \cup {None}, stamp' \in Nat, stamp' >= stamp, FileSound(target)',
           ~Has(target') \/ target'.stamp > stamp,
           last' = "other", raced' = raced \cup (Exposed \ {"other"}),
           UNCHANGED <<copy, durable, call, lost>>
    PROVE  FilesInv'
<1>1. "other" \notin Calls
  BY FilesAssumption
<1>2. raced' \in SUBSET Calls /\ raced \subseteq raced'
      /\ \A d \in Calls : call[d].step = "change" => d \in raced'
  BY <1>1 DEF Exposed, FilesInv, TypeOK
<1>3. TypeOK'
  BY <1>2 DEF FilesInv, TypeOK
<1>4. FileSound(durable.target)'
  <2>1. stamp \in Nat /\ durable.target \in File \cup {None}
    BY DEF FilesInv, TypeOK
  <2> QED BY <2>1 DEF FilesInv, FileSound, File, Has
<1>5. \A d \in Calls : CallSound(d)' /\ DeedSound(d)'
  BY <1>1, <1>2, <1>3, OthersSound
<1> QED BY <1>3, <1>4, <1>5 DEF FilesInv

LEMMA OtherProgramsKeep ==
    ASSUME FilesInv, NEW content \in Contents, Edit(content) \/ Swap(content) \/ Delete
    PROVE  FilesInv'
<1>1. stamp \in Nat /\ target \in File \cup {None}
  BY DEF FilesInv, TypeOK
<1>2. CASE Delete
  <2>1. target' = None /\ ~Has(target') /\ FileSound(target)' /\ stamp' = stamp
    BY <1>2 DEF Delete, Retarget, Has, FileSound
  <2> QED BY <1>1, <1>2, <2>1, ElsewhereKeeps DEF Delete, Retarget
<1>3. CASE Swap(content)
  <2>1. PICK file : file = Fresh(content, TRUE)
    OBVIOUS
  <2>2. target' = file /\ stamp' = stamp + 1
    BY <1>3, <2>1 DEF Swap, Retarget
  <2>3. /\ file \in File /\ Has(file) /\ file.ino = stamp + 1 /\ file.stamp = stamp + 1
        /\ file.content \in Contents /\ file.synced
    BY <2>1, <2>2, FreshFile
  <2>4. FileSound(target)'
    BY <1>1, <2>2, <2>3 DEF FileSound
  <2>5. /\ target' \in File \cup {None} /\ stamp' \in Nat /\ stamp' >= stamp
        /\ target'.stamp > stamp
    BY <1>1, <2>2, <2>3
  <2> QED BY <1>3, <2>4, <2>5, ElsewhereKeeps DEF Swap, Retarget
<1>4. CASE Edit(content)
  <2>1. PICK old, n, file : /\ old = target /\ n = stamp + 1
                            /\ file = [old EXCEPT !.stamp = n, !.content = content, !.synced = TRUE]
    OBVIOUS
  <2>2. target' = file /\ stamp' = n /\ old \in File /\ n \in Nat /\ old.ino <= stamp
    BY <1>1, <1>4, <2>1 DEF Edit, Retarget, Has, FilesInv, FileSound
  <2>3. file = [ino |-> old.ino, stamp |-> n, content |-> content, synced |-> TRUE]
    BY <2>1, <2>2 DEF File
  <2>4. file \in File /\ file.ino = old.ino /\ file.stamp = n /\ file.content = content /\ file.synced
    BY <2>2, <2>3 DEF File, Data
  <2>5. FileSound(target)'
    BY <1>1, <2>1, <2>2, <2>4 DEF FileSound, File
  <2>6. /\ target' \in File \cup {None} /\ stamp' \in Nat /\ stamp' >= stamp
        /\ target'.stamp > stamp
    BY <1>1, <2>1, <2>2, <2>4
  <2> QED BY <1>4, <2>5, <2>6, ElsewhereKeeps DEF Edit, Retarget
<1> QED BY <1>2, <1>3, <1>4

LEMMA PowerLossKeeps == FilesInv /\ PowerLoss => FilesInv'
<1> SUFFICES ASSUME FilesInv, PowerLoss PROVE FilesInv'
  OBVIOUS
<1>1. PICK file \in {target, durable.target}, kept \in SUBSET Calls :
         /\ target' = Survivor(file)
         /\ copy' = [c \in Calls |-> IF c \in kept THEN copy[c] ELSE durable.copy[c]]
  BY DEF PowerLoss
<1>2. target' = file /\ target' \in {target, durable.target}
  BY <1>1 DEF Survivor, FilesInv, FileSound
<1>3. FileSound(target)'
  BY <1>2 DEF PowerLoss, FilesInv, FileSound
<1>4. target' \in File \cup {None} /\ copy' \in Copies
  BY <1>1, <1>2 DEF FilesInv, TypeOK, Copies
<1>5. \A c \in Calls : copy'[c] \in {copy[c], durable.copy[c]}
  BY <1>1
<1>6. durable' = [target |-> target', copy |-> copy'] /\ UNCHANGED <<stamp, last, lost, raced>>
  BY DEF PowerLoss
<1>7. ASSUME NEW c \in Calls
      PROVE  /\ call'[c] \in Call /\ call'[c].step \in Ended
             /\ call[c].step \in Ended => call'[c] = call[c]
             /\ call[c].step \notin Ended => call'[c].step = "failed" /\ call'[c].before = None
             /\ call'[c].op = call[c].op /\ call'[c].original = call[c].original
             /\ call'[c].expected = call[c].expected /\ call'[c].backup = call[c].backup
  <2>1. PICK w, v : w = call[c] /\ v = End(w, "failed")
    OBVIOUS
  <2>2. w \in Call /\ call'[c] = IF w.step \in Ended THEN w ELSE v
    BY <2>1 DEF PowerLoss, FilesInv, TypeOK
  <2>3. /\ v \in Call /\ v.step = "failed" /\ v.before = None /\ v.op = w.op
        /\ v.backup = w.backup /\ v.expected = w.expected /\ v.original = w.original
    BY <2>1, <2>2, EndOfCall DEF Ended
  <2> QED BY <2>1, <2>2, <2>3 DEF Ended
<1>8. call' \in [Calls -> Call]
  BY <1>7 DEF PowerLoss
<1>9. TypeOK'
  BY <1>4, <1>6, <1>8 DEF FilesInv, TypeOK
<1>10. ASSUME NEW c \in Calls PROVE CallSound(c)' /\ DeedSound(c)'
  <2>1. CallSound(c) /\ DeedSound(c)
    BY DEF FilesInv
  <2>2. CallSound(c)'
    BY <1>6, <1>7, <2>1 DEF CallSound, Reading, Ended, Has
  <2>3. DeedSound(c)'
    BY <1>5, <1>6, <1>7, <2>1 DEF DeedSound, Ended
  <2> QED BY <2>2, <2>3
<1> QED BY <1>3, <1>6, <1>9, <1>10 DEF FilesInv

-----------------------------------------------------------------------------
(* What holds of every behaviour                                           *)

LEMMA InitFilesInv == Init => FilesInv
<1> SUFFICES ASSUME Init PROVE FilesInv
  OBVIOUS
<1>1. \A c \in Calls : /\ call[c] \in Call /\ call[c].step = "new" /\ call[c].before = None
                       /\ call[c].op = "create" => /\ call[c].original = NoContent /\ ~call[c].backup
                                                   /\ call[c].expected = NoContent
  <2> SUFFICES ASSUME NEW c \in Calls, NEW w, w = call[c]
               PROVE  /\ w \in Call /\ w.step = "new" /\ w.before = None
                      /\ w.op = "create" => w.original = NoContent /\ ~w.backup /\ w.expected = NoContent
    OBVIOUS
  <2>1. w \in Requests
    BY DEF Init
  <2>2. ASSUME NEW op \in {"replace", "create", "delete"}, NEW d \in Contents, NEW b \in BOOLEAN,
               NEW x \in Contents \cup {NoContent}
        PROVE  NewCall(op, d, b, x) \in Call
    BY DEF NewCall, Call, Steps
  <2>3. w \in Call
    <3> DEFINE Replaces == {NewCall("replace", d, b, x) : d \in Contents, b \in BOOLEAN,
                                                          x \in Contents \cup {NoContent}}
               Creates == {NewCall("create", d, FALSE, NoContent) : d \in Contents}
               Deletes == {NewCall("delete", d, TRUE, d) : d \in Contents}
    <3>1. Requests = Replaces \cup Creates \cup Deletes
      BY DEF Requests
    <3>2. Replaces \subseteq Call
      BY <2>2
    <3>3. ASSUME NEW d \in Contents PROVE NewCall("create", d, FALSE, NoContent) \in Call
      <4>1. PICK v : v = NewCall("create", d, FALSE, NoContent)
        BY Zenon
      <4>2. v = [op |-> "create", step |-> "new", data |-> d, backup |-> FALSE, expected |-> NoContent,
                 before |-> None, original |-> NoContent, synced |-> FALSE]
        BY Zenon, <4>1 DEF NewCall
      <4>3. v \in Call
        BY <4>2 DEF Call, Steps
      <4> QED BY Zenon, <4>1, <4>3
    <3>4. ASSUME NEW d \in Contents PROVE NewCall("delete", d, TRUE, d) \in Call
      <4>1. PICK v : v = NewCall("delete", d, TRUE, d)
        BY Zenon
      <4>2. v = [op |-> "delete", step |-> "new", data |-> d, backup |-> TRUE, expected |-> d,
                 before |-> None, original |-> NoContent, synced |-> FALSE]
        BY Zenon, <4>1 DEF NewCall
      <4>3. v \in Call
        BY <4>2 DEF Call, Steps
      <4> QED BY Zenon, <4>1, <4>3
    <3>5. Creates \subseteq Call /\ Deletes \subseteq Call
      BY <3>3, <3>4
    <3> HIDE DEF Replaces, Creates, Deletes
    <3> QED BY <2>1, <3>1, <3>2, <3>5
  <2>4. w.step = "new" /\ w.before = None
    BY <2>1 DEF Requests, NewCall
  <2>5. w.op = "create" => w.original = NoContent /\ ~w.backup /\ w.expected = NoContent
    BY <2>1 DEF Requests, NewCall
  <2> QED BY <2>3, <2>4, <2>5
<1>2. call \in [Calls -> Call]
  BY <1>1 DEF Init
<1>3. target \in File \cup {None} /\ FileSound(target) /\ copy \in Copies
  <2>1. CASE target = None
    BY <2>1 DEF Init, FileSound, Copies, Has
  <2>2. CASE target \in {[ino |-> 1, stamp |-> 1, content |-> c, synced |-> TRUE] : c \in Contents}
    <3>1. PICK d \in Contents : target = [ino |-> 1, stamp |-> 1, content |-> d, synced |-> TRUE]
      BY <2>2
    <3>2. target \in File
      BY <3>1 DEF File, Data
    <3>3. FileSound(target)
      BY <3>1 DEF Init, FileSound
    <3> QED BY <3>2, <3>3 DEF Init, Copies
  <2> QED BY <2>1, <2>2 DEF Init
<1>4. TypeOK
  BY <1>2, <1>3 DEF Init, TypeOK
<1>5. \A c \in Calls : CallSound(c) /\ DeedSound(c)
  BY <1>1 DEF Init, CallSound, DeedSound, Reading, Has
<1> QED BY <1>3, <1>4, <1>5 DEF Init, FilesInv

LEMMA NextKeepsFiles ==
    ASSUME FilesInv, Next \/ UNCHANGED vars
    PROVE  FilesInv'
<1>1. ASSUME NEW c \in Calls, Advance(c) PROVE FilesInv'
  BY <1>1, InspectKeeps, ReadKeeps, BackupKeeps, WriteKeeps, SyncKeeps, LookKeeps,
     RenameOrLinkKeeps, UnlinkKeeps, SettleKeeps DEF Advance
<1>2. ASSUME NEW c \in Calls, Error(c) PROVE FilesInv'
  BY <1>2, FailureKeeps DEF Error
<1>3. ASSUME NEW content \in Contents, Edit(content) \/ Swap(content) PROVE FilesInv'
  BY <1>3, OtherProgramsKeep
<1>4. CASE Delete
  <2>1. target' = None /\ ~Has(target') /\ FileSound(target)' /\ stamp' = stamp
    BY <1>4 DEF Delete, Retarget, Has, FileSound
  <2>2. stamp \in Nat
    BY DEF FilesInv, TypeOK
  <2> QED BY <1>4, <2>1, <2>2, ElsewhereKeeps DEF Delete, Retarget
<1>5. CASE PowerLoss
  BY <1>5, PowerLossKeeps
<1>6. CASE UNCHANGED vars
  BY <1>6 DEF vars, FilesInv, TypeOK, FileSound, CallSound, DeedSound
<1> QED BY <1>1, <1>2, <1>3, <1>4, <1>5, <1>6 DEF Next

\* What every call has seen and done agrees with the target, its durable copy and
\* the calls that raced it, in every step of the functions of src/safe_io.py.
THEOREM FilesInvariant == Spec => []FilesInv
<1>1. FilesInv /\ [Next]_vars => FilesInv'
  BY NextKeepsFiles
<1> QED BY InitFilesInv, <1>1, PTL DEF Spec

\* Whoever opens the target finds a whole file, after a power loss in any step
\* of any call as well, and what a call with a backup removed is in its copy
\* (src/safe_io.py, atomic_replace, atomic_create and backed_up_delete).
THEOREM FilesNeverTorn == Spec => []NeverTorn
<1>1. FilesInv => NeverTorn
  <2> SUFFICES ASSUME FilesInv PROVE NeverTorn
    OBVIOUS
  <2>1. ContentOf(target) # Torn
    BY FilesAssumption DEF FilesInv, FileSound, ContentOf
  <2>2. BackedUp
    BY DEF FilesInv, DeedSound, BackedUp
  <2> QED BY <2>1, <2>2 DEF FilesInv, NeverTorn
<1> QED BY FilesInvariant, <1>1, PTL

\* A call removes only the content it has read, and only what its caller
\* expected, but for changes in the window after its last look.
THEOREM FilesNoBlindLoss == Spec => []NoBlindLoss
<1>1. FilesInv => NoBlindLoss
  BY DEF FilesInv, DeedSound, NoBlindLoss
<1> QED BY FilesInvariant, <1>1, PTL

\* A change that was acknowledged and not followed up survives a power loss.
THEOREM FilesAckDurable == Spec => AckDurable
<1>1. FilesInv /\ [Next]_vars =>
          [\A c \in Calls : At(c, "done") /\ last = c /\ last' = c => target' = target]_vars
  <2> SUFFICES ASSUME FilesInv, Next, NEW c \in Calls, At(c, "done"), last = c, last' = c
               PROVE  target' = target
    OBVIOUS
  <2>1. durable.target = target
    BY DEF FilesInv, DeedSound, At
  <2>2. CASE PowerLoss
    BY <2>1, <2>2 DEF PowerLoss, Survivor, FilesInv, FileSound
  <2>3. ASSUME NEW d \in Calls, Advance(d) \/ Error(d) PROVE target' = target
    <3>1. d = c => ~Advance(d) /\ ~Error(d)
      BY DEF At, Advance, Error, Inspect, Read, Backup, WriteTemp, SyncTemp, Look, Rename, Link,
             Unlink, Settle, Ended
    <3>2. CASE Rename(d) \/ Link(d) \/ Unlink(d)
      BY <2>3, <3>1, <3>2 DEF Rename, Link, Unlink, Retarget
    <3> QED BY <2>3, <3>2 DEF Advance, Error, Inspect, Read, Backup, WriteTemp, SyncTemp, Look, Settle
  <2>4. CASE Delete \/ \E content \in Contents : Edit(content) \/ Swap(content)
    BY <2>4, FilesAssumption DEF Delete, Edit, Swap, Retarget
  <2> QED BY <2>2, <2>3, <2>4 DEF Next
<1> QED BY FilesInvariant, <1>1, PTL DEF Spec, AckDurable

-----------------------------------------------------------------------------
(* The store of drafts and outcomes                                        *)

LEMMA LeastNumber ==
    ASSUME NEW T \in SUBSET Nat, T # {}
    PROVE  \E x \in T : \A y \in T : x <= y
<1> DEFINE R == {ss \in Nat \X Nat : ss[1] < ss[2]}
<1>1. IsWellFoundedOn(R, Nat)
  BY Zenon, NatLessThanWellFounded DEF OpToRel
<1>2. \A x, y \in T : <<y, x>> \in R <=> y < x
  OBVIOUS
<1> HIDE DEF R
<1>3. \E x \in T : \A y \in T : ~ (<<y, x>> \in R)
  BY <1>1, WFMin
<1>4. PICK x \in T : \A y \in T : ~ (<<y, x>> \in R)
  BY <1>3
<1>5. \A y \in T : ~(y < x)
  BY <1>2, <1>4
<1>6. \A y \in T : x <= y
  BY <1>5
<1> QED BY <1>6

-----------------------------------------------------------------------------
(* Pages                                                                   *)

\* Record i comes after the cursor `at` (see After).
Beyond(rs, i, at) == rs[i].updated < at[1] \/ (rs[i].updated = at[1] /\ i < at[2])

Existing(rs) == {i \in Ids : rs[i].exists}

\* Of the records `stable`, those that come before the cursor are listed.
UpToCursor(rs, at, stable, listed) == \A i \in stable : i \in listed <=> ~Beyond(rs, i, at)

LEMMA OrderOfRecords ==
    ASSUME NEW rs \in [Ids -> Row], NEW i \in Ids, NEW j \in Ids, NEW k \in Ids
    PROVE  /\ ~(Before(rs, i, j) /\ Before(rs, j, i))
           /\ i # j => Before(rs, i, j) \/ Before(rs, j, i)
           /\ Before(rs, i, j) /\ Before(rs, j, k) => Before(rs, i, k)
           /\ ~Before(rs, i, i)
<1>1. i \in Nat /\ j \in Nat /\ k \in Nat
  BY StoreAssumption
<1>2. rs[i].updated \in Nat /\ rs[j].updated \in Nat /\ rs[k].updated \in Nat
  BY DEF Row
<1> QED BY <1>1, <1>2 DEF Before

\* The records of a selection that come before one of them.
Ahead(rs, selected, i) == {j \in selected : Before(rs, j, i)}

LEMMA AheadIsFinite ==
    ASSUME NEW rs, NEW selected \in SUBSET Ids, NEW i
    PROVE  /\ IsFiniteSet(selected) /\ Cardinality(selected) \in Nat
           /\ IsFiniteSet(Ahead(rs, selected, i)) /\ Cardinality(Ahead(rs, selected, i)) \in Nat
<1>1. IsFiniteSet(selected)
  BY StoreAssumption, FS_Subset
<1>2. Ahead(rs, selected, i) \in SUBSET selected
  BY DEF Ahead
<1> QED BY <1>1, <1>2, FS_Subset, FS_CardinalityType

\* A record before another one has fewer records before it.
LEMMA FewerAhead ==
    ASSUME NEW rs \in [Ids -> Row], NEW selected \in SUBSET Ids,
           NEW j \in selected, NEW i \in selected, Before(rs, j, i)
    PROVE  Cardinality(Ahead(rs, selected, j)) < Cardinality(Ahead(rs, selected, i))
<1> DEFINE A == Ahead(rs, selected, j)
           B == Ahead(rs, selected, i)
<1>1. A \in SUBSET B
  BY OrderOfRecords DEF Ahead
<1>2. j \in B /\ j \notin A
  BY OrderOfRecords DEF Ahead
<1>3. IsFiniteSet(B) /\ Cardinality(B) \in Nat /\ Cardinality(A) \in Nat
  BY AheadIsFinite
<1>4. Cardinality(A) <= Cardinality(B) /\ (Cardinality(B) = Cardinality(A) => B = A)
  BY <1>1, <1>3, FS_Subset
<1>5. A # B
  BY <1>2
<1> HIDE DEF A, B
<1>6. Cardinality(A) < Cardinality(B)
  BY <1>3, <1>4, <1>5
<1> QED BY <1>6 DEF A, B

\* A page holds the first records of a selection, all of them if they are few.
LEMMA PageTakesFirst ==
    ASSUME NEW rs \in [Ids -> Row], NEW selected \in SUBSET Ids
    PROVE  /\ Page(rs, selected) \subseteq selected
           /\ \A k \in Page(rs, selected), i \in selected \ Page(rs, selected) : Before(rs, k, i)
           /\ Cardinality(selected) <= Limit => Page(rs, selected) = selected
           /\ Cardinality(selected) > Limit => Page(rs, selected) # {}
<1>0. Limit \in Nat /\ Limit > 0
  BY StoreAssumption
<1>1. \A i \in selected : i \in Page(rs, selected) <=> Cardinality(Ahead(rs, selected, i)) < Limit
  BY DEF Page, Ahead
<1>2. Page(rs, selected) \subseteq selected
  BY DEF Page
<1>3. \A i \in selected : Cardinality(Ahead(rs, selected, i)) \in Nat
  BY AheadIsFinite
<1>4. ASSUME NEW k \in Page(rs, selected), NEW i \in selected \ Page(rs, selected)
      PROVE  Before(rs, k, i)
  <2>1. CASE Before(rs, i, k)
    <3>1. Cardinality(Ahead(rs, selected, i)) < Cardinality(Ahead(rs, selected, k))
      BY <2>1, <1>2, FewerAhead
    <3> QED BY <3>1, <1>0, <1>1, <1>2, <1>3
  <2> QED BY <2>1, <1>2, OrderOfRecords
<1>5. ASSUME Cardinality(selected) <= Limit
      PROVE  Page(rs, selected) = selected
  <2>1. ASSUME NEW i \in selected
        PROVE  Cardinality(Ahead(rs, selected, i)) < Cardinality(selected)
    <3> DEFINE A == Ahead(rs, selected, i)
    <3>1. A \in SUBSET selected /\ i \notin A
      BY OrderOfRecords DEF Ahead
    <3>2. IsFiniteSet(selected) /\ Cardinality(selected) \in Nat /\ Cardinality(A) \in Nat
      BY AheadIsFinite
    <3>3. Cardinality(A) <= Cardinality(selected) /\ (Cardinality(selected) = Cardinality(A) => selected = A)
      BY <3>1, <3>2, FS_Subset
    <3>4. A # selected
      BY <3>1
    <3> HIDE DEF A
    <3>5. Cardinality(A) < Cardinality(selected)
      BY <3>2, <3>3, <3>4
    <3> QED BY <3>5 DEF A
  <2>2. Cardinality(selected) \in Nat
    BY AheadIsFinite
  <2> QED BY <1>0, <1>1, <1>2, <1>3, <1>5, <2>1, <2>2
<1>6. ASSUME Cardinality(selected) > Limit
      PROVE  Page(rs, selected) # {}
  <2> DEFINE T == {Cardinality(Ahead(rs, selected, i)) : i \in selected}
  <2>1. selected # {}
    BY <1>0, <1>6, FS_EmptySet
  <2>2. T \in SUBSET Nat /\ T # {}
    BY <1>3, <2>1
  <2>3. PICK n \in T : \A m \in T : n <= m
    BY <2>2, LeastNumber
  <2>4. PICK i \in selected : n = Cardinality(Ahead(rs, selected, i))
    BY <2>3
  <2>5. Ahead(rs, selected, i) = {}
    <3> SUFFICES ASSUME NEW j \in Ahead(rs, selected, i) PROVE FALSE
      OBVIOUS
    <3>1. j \in selected /\ Before(rs, j, i)
      BY DEF Ahead
    <3>2. Cardinality(Ahead(rs, selected, j)) < n
      BY <2>4, <3>1, FewerAhead
    <3>3. n <= Cardinality(Ahead(rs, selected, j))
      BY <2>3, <3>1
    <3> QED BY <1>3, <2>4, <3>1, <3>2, <3>3
  <2>6. Cardinality(Ahead(rs, selected, i)) = 0
    BY <2>5, FS_EmptySet
  <2> QED BY <1>0, <1>1, <2>6
<1> QED BY <1>2, <1>4, <1>5, <1>6

\* The cursor after a page stands behind its last record.
LEMMA CursorIsLast ==
    ASSUME NEW rs \in [Ids -> Row], NEW page \in SUBSET Ids, page # {}
    PROVE  \E final \in page : /\ \A j \in page \ {final} : Before(rs, j, final)
                              /\ Cursor(rs, page) = <<rs[final].updated, final>>
<1>1. \A i \in Ids : i \in Nat /\ rs[i].updated \in Nat
  BY StoreAssumption DEF Row
<1> DEFINE stamps == {rs[i].updated : i \in page}
<1>2. PICK u \in stamps : \A v \in stamps : u <= v
  <2>1. stamps \in SUBSET Nat /\ stamps # {}
    BY <1>1
  <2> QED BY <2>1, LeastNumber
<1> DEFINE lowest == {i \in page : rs[i].updated = u}
<1>3. PICK i \in lowest : \A j \in lowest : i <= j
  <2>1. lowest \in SUBSET Nat /\ lowest # {}
    BY <1>1, <1>2
  <2> QED BY <2>1, LeastNumber
<1>4. i \in page /\ \A j \in page \ {i} : Before(rs, j, i)
  BY <1>1, <1>2, <1>3 DEF Before
<1>5. PICK final : final = CHOOSE k \in page : \A j \in page \ {k} : Before(rs, j, k)
  OBVIOUS
<1>6. final \in page /\ \A j \in page \ {final} : Before(rs, j, final)
  BY <1>4, <1>5
<1> QED BY <1>5, <1>6 DEF Cursor

-----------------------------------------------------------------------------
(* The table                                                               *)

TableSound(rs) ==
    /\ rs \in [Ids -> Row]
    /\ \A i \in Ids : rs[i].updated <= MaxClock

\* A reader that is served pages of the table rs.
ReaderSound(rd, rs) ==
    /\ rd \in Reader
    /\ rd.phase = "idle" => rd.listed = {} /\ rd.stable = {}
    /\ rd.listed \subseteq rd.stable
    /\ rd.twice = {}
    /\ rd.stable \subseteq Existing(rs)
    /\ rd.phase = "paging" => UpToCursor(rs, rd.at, rd.stable, rd.listed)
    /\ rd.phase = "end" => rd.stable \subseteq rd.listed

StoreInv ==
    /\ now \in 0..MaxClock
    /\ TableSound(rows)
    /\ DOMAIN reader = Readers
    /\ \A r \in Readers : ReaderSound(reader[r], rows)

LEMMA EmptyRow == NoRow \in Row /\ NoRow.updated = 0 /\ ~NoRow.exists /\ NoRow.size = 0
BY StoreAssumption DEF NoRow, Row

LEMMA ClosedRow ==
    ASSUME NEW r \in Row, now \in Nat
    PROVE  Closed(r) \in Row /\ Closed(r).updated = now /\ Closed(r).exists = r.exists
<1>1. PICK n : n = now
  OBVIOUS
<1>2. Closed(r) = [exists |-> r.exists, size |-> 0, updated |-> n, expires |-> 0]
  <2>1. PICK a : a = [r EXCEPT !.size = 0]
    OBVIOUS
  <2>2. PICK b : b = [a EXCEPT !.updated = n]
    OBVIOUS
  <2>3. Closed(r) = [b EXCEPT !.expires = 0]
    BY <1>1, <2>1, <2>2 DEF Closed
  <2>4. a = [exists |-> r.exists, size |-> 0, updated |-> r.updated, expires |-> r.expires]
    BY <2>1 DEF Row
  <2>5. b = [exists |-> r.exists, size |-> 0, updated |-> n, expires |-> r.expires]
    BY <2>2, <2>4
  <2> QED BY <2>3, <2>5
<1>3. 0 \in 0..MaxPayload
  BY StoreAssumption
<1> QED BY <1>1, <1>2, <1>3 DEF Row

LEMMA DroppingSound ==
    ASSUME NEW rs, TableSound(rs), NEW gone
    PROVE  /\ TableSound(Dropping(rs, gone))
           /\ \A i \in Ids : Dropping(rs, gone)[i].exists => Dropping(rs, gone)[i] = rs[i]
<1>1. MaxClock \in Nat
  BY StoreAssumption
<1> QED BY <1>1, EmptyRow DEF Dropping, TableSound

LEMMA CleanedSound ==
    ASSUME StoreInv
    PROVE  TableSound(Cleaned)
<1>1. now \in Nat /\ now <= MaxClock /\ MaxClock \in Nat
  BY StoreAssumption DEF StoreInv
<1>2. TableSound(Swept(rows))
  <2>1. \A i \in Ids : Closed(rows[i]) \in Row /\ Closed(rows[i]).updated <= MaxClock
    BY <1>1, ClosedRow DEF StoreInv, TableSound
  <2> QED BY <2>1 DEF StoreInv, TableSound, Swept
<1> QED BY <1>2, DroppingSound DEF Cleaned

LEMMA FlushSound ==
    ASSUME NEW rs, rs \in [Ids -> [exists : BOOLEAN, size : Nat, updated : Nat, expires : Nat]],
           \A i \in Ids : rs[i].updated <= MaxClock, Flush(rs)
    PROVE  TableSound(rows')
<1>1. TableSound(rs)
  <2>1. \A i \in Ids : rs[i].size \in 0..MaxPayload
    BY StoreAssumption DEF Flush
  <2>2. \A i \in Ids : rs[i] \in Row
    BY <2>1 DEF Row
  <2> QED BY <2>2 DEF TableSound
<1>2. PICK gone : rows' = Dropping(rs, gone)
  BY DEF Flush
<1> QED BY <1>1, <1>2, DroppingSound

-----------------------------------------------------------------------------
(* The readers                                                             *)

\* The records that keep their place when the table changes.
Unmoved == {i \in Ids : rows'[i].exists /\ rows'[i].updated = rows[i].updated}

LEMMA WatchedReader ==
    ASSUME NEW page, NEW r \in Readers, Watch(page), page[r] \in Reader
    PROVE  /\ DOMAIN reader' = Readers
           /\ reader'[r] \in Reader
           /\ reader'[r].phase = page[r].phase /\ reader'[r].at = page[r].at
           /\ reader'[r].stable = page[r].stable \cap Unmoved
           /\ reader'[r].listed = page[r].listed \cap page[r].stable \cap Unmoved
           /\ reader'[r].twice = page[r].twice \cap page[r].stable \cap Unmoved
<1>1. PICK rd, same : rd = page[r] /\ same = Unmoved
  OBVIOUS
<1>2. DOMAIN reader' = Readers
  BY DEF Watch
<1>3. reader'[r] = [rd EXCEPT !.stable = @ \cap same, !.listed = @ \cap rd.stable \cap same,
                              !.twice = @ \cap rd.stable \cap same]
  BY <1>1 DEF Watch, Unmoved
<1>4. reader'[r] = [phase |-> rd.phase, at |-> rd.at, listed |-> rd.listed \cap rd.stable \cap same,
                    twice |-> rd.twice \cap rd.stable \cap same, stable |-> rd.stable \cap same]
  BY <1>1, <1>3 DEF Reader
<1>5. reader'[r] \in Reader
  BY <1>1, <1>4 DEF Reader
<1> QED BY <1>1, <1>2, <1>4, <1>5

\* A transaction that is none of the reader's own.
LEMMA OthersWatch ==
    ASSUME StoreInv, NEW page, NEW r \in Readers, Watch(page), page[r] = reader[r]
    PROVE  DOMAIN reader' = Readers /\ ReaderSound(reader'[r], rows')
<1>1. PICK rd : rd = reader'[r]
  OBVIOUS
<1>2. ReaderSound(reader[r], rows)
  BY DEF StoreInv
<1>3. /\ DOMAIN reader' = Readers
      /\ rd \in Reader /\ rd.phase = reader[r].phase /\ rd.at = reader[r].at
      /\ rd.stable = reader[r].stable \cap Unmoved
      /\ rd.listed = reader[r].listed \cap reader[r].stable \cap Unmoved
      /\ rd.twice = {}
  BY <1>1, <1>2, WatchedReader DEF ReaderSound
<1>4. \A i \in rd.stable : i \in Ids /\ rows'[i].exists /\ (Beyond(rows', i, rd.at) <=> Beyond(rows, i, rd.at))
  BY <1>3 DEF Unmoved, Beyond
<1>5. rd.stable \subseteq Existing(rows')
  BY <1>4 DEF Existing
<1>6. rd.phase = "paging" => UpToCursor(rows', rd.at, rd.stable, rd.listed)
  BY <1>2, <1>3, <1>4 DEF ReaderSound, UpToCursor
<1> QED BY <1>1, <1>2, <1>3, <1>5, <1>6 DEF ReaderSound

LEMMA TransactionKeeps ==
    ASSUME StoreInv, TableSound(rows'), Watch(reader), UNCHANGED now
    PROVE  StoreInv'
<1>1. DOMAIN reader' = Readers
  BY DEF Watch
<1> QED BY <1>1, OthersWatch DEF StoreInv

LEMMA RecordKeeps ==
    ASSUME StoreInv, NEW i \in Ids, NEW size \in Sizes, NEW expires \in Nat,
           Flush([Cleaned EXCEPT ![i] = [exists |-> TRUE, size |-> size, updated |-> now,
                                         expires |-> expires]]),
           Watch(reader), UNCHANGED now
    PROVE  StoreInv'
<1>1. PICK rs, new : rs = Cleaned /\ new = [exists |-> TRUE, size |-> size, updated |-> now,
                                            expires |-> expires]
  OBVIOUS
<1>2. TableSound(rs)
  BY <1>1, CleanedSound
<1>3. /\ new \in [exists : BOOLEAN, size : Nat, updated : Nat, expires : Nat]
      /\ new.updated <= MaxClock
  BY <1>1, StoreAssumption DEF StoreInv
<1>4. PICK rs2 : rs2 = [rs EXCEPT ![i] = new]
  OBVIOUS
<1>5. /\ rs2 \in [Ids -> [exists : BOOLEAN, size : Nat, updated : Nat, expires : Nat]]
      /\ \A j \in Ids : rs2[j].updated <= MaxClock
  BY <1>2, <1>3, <1>4 DEF TableSound, Row
<1>6. Flush(rs2)
  BY <1>1, <1>4
<1> QED BY <1>5, <1>6, FlushSound, TransactionKeeps

LEMMA PutKeeps ==
    ASSUME StoreInv, NEW i \in Ids, NEW size \in Sizes, NEW life \in Lifetimes, Put(i, size, life)
    PROVE  StoreInv'
<1>1. PICK expires \in Nat : expires = now + life
  BY StoreAssumption DEF StoreInv
<1> QED BY <1>1, RecordKeeps DEF Put

LEMMA ModifyKeeps ==
    ASSUME StoreInv, NEW i \in Ids, NEW size \in Sizes, NEW expires \in Nat, Modify(i, size, expires)
    PROVE  StoreInv'
BY RecordKeeps DEF Modify

LEMMA RemoveKeeps ==
    ASSUME StoreInv, NEW i \in Ids, Remove(i)
    PROVE  StoreInv'
<1>1. PICK rs : rs = Cleaned
  OBVIOUS
<1>2. TableSound(rs)
  BY <1>1, CleanedSound
<1>3. PICK new : new = Closed(rs[i])
  OBVIOUS
<1>4. now \in Nat /\ now <= MaxClock
  BY StoreAssumption DEF StoreInv
<1>5. new \in Row /\ new.updated <= MaxClock
  BY <1>2, <1>3, <1>4, ClosedRow DEF TableSound
<1>6. PICK rs2 : rs2 = [rs EXCEPT ![i] = new]
  OBVIOUS
<1>7. /\ rs2 \in [Ids -> [exists : BOOLEAN, size : Nat, updated : Nat, expires : Nat]]
      /\ \A j \in Ids : rs2[j].updated <= MaxClock
  BY <1>2, <1>5, <1>6 DEF TableSound, Row
<1>8. Flush(rs2) /\ Watch(reader) /\ UNCHANGED now
  BY <1>1, <1>3, <1>6 DEF Remove
<1> QED BY <1>7, <1>8, FlushSound, TransactionKeeps

-----------------------------------------------------------------------------
(* Paging                                                                  *)

\* A page extends what the reader has listed up to its new cursor.
PageGoesOnFrom(rs, at, stable, listed) ==
    LET selected == After(rs, at)
        page == Page(rs, selected)
    IN  /\ page \subseteq selected
        /\ listed \cap page = {}
        /\ Cardinality(selected) <= Limit => stable \subseteq listed \cup page
        /\ Cardinality(selected) > Limit =>
               /\ Cursor(rs, page) \in Nat \X Nat
               /\ UpToCursor(rs, Cursor(rs, page), stable, listed \cup page)

LEMMA PageGoesOn ==
    ASSUME NEW rs, NEW at, NEW stable, NEW listed, UpToCursor(rs, at, stable, listed),
           TableSound(rs), at \in Nat \X Nat,
           stable \subseteq Existing(rs), listed \subseteq stable
    PROVE  PageGoesOnFrom(rs, at, stable, listed)
<1> DEFINE selected == After(rs, at)
           page == Page(rs, selected)
<1> HIDE DEF page
<1>1. /\ selected \in SUBSET Ids
      /\ \A i \in Ids : i \in selected <=> rs[i].exists /\ Beyond(rs, i, at)
      /\ \A i \in stable : i \in Ids /\ rs[i].exists /\ (i \in listed <=> ~Beyond(rs, i, at))
  BY DEF After, Beyond, Existing, UpToCursor
<1> HIDE DEF selected
<1>2. rs \in [Ids -> Row]
  BY DEF TableSound
<1>3. page \subseteq selected
  BY <1>1, <1>2, PageTakesFirst DEF page
<1>4. listed \cap page = {}
  BY <1>1, <1>3
<1>5. ASSUME Cardinality(selected) <= Limit PROVE stable \subseteq listed \cup page
  <2>1. page = selected
    BY <1>1, <1>2, <1>5, PageTakesFirst DEF page
  <2> QED BY <1>1, <2>1
<1>6. ASSUME Cardinality(selected) > Limit
      PROVE  /\ Cursor(rs, page) \in Nat \X Nat
             /\ UpToCursor(rs, Cursor(rs, page), stable, listed \cup page)
  <2>1. page # {} /\ page \in SUBSET Ids
    BY <1>1, <1>2, <1>3, <1>6, PageTakesFirst DEF page
  <2>2. PICK final \in page : /\ \A j \in page \ {final} : Before(rs, j, final)
                             /\ Cursor(rs, page) = <<rs[final].updated, final>>
    BY <1>2, <2>1, CursorIsLast
  <2>3. final \in Ids /\ final \in Nat /\ rs[final].updated \in Nat /\ Beyond(rs, final, at)
    BY <1>1, <1>2, <1>3, StoreAssumption DEF Row
  <2>4. \A i \in Ids : Beyond(rs, i, Cursor(rs, page)) <=> Before(rs, final, i)
    <3> SUFFICES ASSUME NEW i \in Ids
                 PROVE  Beyond(rs, i, <<rs[final].updated, final>>) <=> Before(rs, final, i)
      BY <2>2
    <3>1. rs[i].updated \in Nat /\ i \in Nat
      BY <1>2, StoreAssumption DEF Row
    <3> QED BY <2>3, <3>1 DEF Beyond, Before
  <2>5. ASSUME NEW i \in stable PROVE i \in listed \cup page <=> ~Before(rs, final, i)
    <3>1. CASE i \in page
      BY <2>2, <2>3, <3>1, <1>1, <1>2, OrderOfRecords
    <3>2. CASE i \in listed
      <4>1. ~Beyond(rs, i, at) /\ i \in Nat /\ rs[i].updated \in Nat
        BY <3>2, <1>1, <1>2, StoreAssumption DEF Row
      <4>2. at[1] \in Nat /\ at[2] \in Nat
        OBVIOUS
      <4> QED BY <3>2, <4>1, <4>2, <2>3 DEF Before, Beyond
    <3>3. CASE i \notin listed \cup page
      <4>1. i \in selected \ page
        BY <3>3, <1>1
      <4>2. Before(rs, final, i)
        BY <4>1, <1>1, <1>2, PageTakesFirst DEF page
      <4> QED BY <3>3, <4>2
    <3> QED BY <3>1, <3>2, <3>3
  <2>6. Cursor(rs, page) \in Nat \X Nat
    BY <2>2, <2>3
  <2> QED BY <1>1, <2>4, <2>5, <2>6 DEF UpToCursor
<1> QED BY <1>3, <1>4, <1>5, <1>6 DEF PageGoesOnFrom, selected, page

LEMMA ListKeeps ==
    ASSUME StoreInv, NEW r \in Readers, List(r)
    PROVE  StoreInv'
<1>1. PICK rd, rs, at : /\ rd = reader[r] /\ rs = Cleaned
                        /\ at = IF rd.phase = "idle" THEN <<MaxClock + 1, 0>> ELSE rd.at
  OBVIOUS
<1>2. PICK selected, page, stable :
         /\ selected = After(rs, at) /\ page = Page(rs, selected)
         /\ stable = IF rd.phase = "idle" THEN Active(rs) \cup Finished(rs) ELSE rd.stable
  OBVIOUS
<1>3. PICK new : new = [phase |-> IF Cardinality(selected) > Limit THEN "paging" ELSE "end",
                        at |-> IF Cardinality(selected) > Limit THEN Cursor(rs, page) ELSE <<0, 0>>,
                        listed |-> rd.listed \cup page,
                        twice |-> rd.twice \cup (rd.listed \cap page),
                        stable |-> stable]
  OBVIOUS
<1>4. PICK served : served = [reader EXCEPT ![r] = new]
  OBVIOUS
<1>5. /\ rd.phase # "end" /\ rows' = rs /\ UNCHANGED now
      /\ Watch(served)
  BY <1>1, <1>2, <1>3, <1>4 DEF List
<1>6. ReaderSound(rd, rows) /\ rd \in Reader /\ TableSound(rs) /\ TableSound(rows)
  BY <1>1, CleanedSound DEF StoreInv, ReaderSound
<1>7. DOMAIN reader = Readers /\ served[r] = new /\ \A q \in Readers \ {r} : served[q] = reader[q]
  BY <1>4 DEF StoreInv
<1>8. PICK same : same = Unmoved
  OBVIOUS
<1>9. same \subseteq Ids /\ \A i \in same : rs[i].exists /\ rs[i].updated = rows[i].updated
  BY <1>5, <1>8 DEF Unmoved
<1>10. PICK kept, had : kept = stable \cap same /\ had = rd.listed \cap kept
  OBVIOUS
<1>11. /\ at \in Nat \X Nat
       /\ \A i \in kept : rs[i].exists /\ (i \in had <=> ~Beyond(rs, i, at))
  <2>1. CASE rd.phase = "idle"
    <3>1. at = <<MaxClock + 1, 0>> /\ had = {}
      BY <2>1, <1>1, <1>6, <1>10 DEF ReaderSound
    <3>2. ASSUME NEW i \in kept PROVE rs[i].exists /\ Beyond(rs, i, at)
      <4>1. i \in Ids /\ rs[i].exists
        BY <1>9, <1>10
      <4>2. rs[i].updated \in Nat /\ rs[i].updated <= MaxClock /\ MaxClock \in Nat
        BY <4>1, <1>6, StoreAssumption DEF TableSound, Row
      <4> QED BY <3>1, <4>1, <4>2 DEF Beyond
    <3> QED BY <3>1, <3>2, StoreAssumption
  <2>2. CASE rd.phase # "idle"
    <3>1. rd.phase = "paging" /\ at = rd.at /\ stable = rd.stable
      BY <2>2, <1>1, <1>2, <1>5, <1>6 DEF Reader
    <3>2. \A i \in kept : i \in had <=> ~Beyond(rows, i, at)
      BY <3>1, <1>6, <1>10 DEF ReaderSound, UpToCursor
    <3>3. \A i \in kept : Beyond(rows, i, at) <=> Beyond(rs, i, at)
      BY <1>9, <1>10 DEF Beyond
    <3>4. at \in Nat \X Nat
      BY <3>1, <1>6 DEF Reader
    <3> QED BY <3>2, <3>3, <3>4, <1>9, <1>10
  <2> QED BY <2>1, <2>2
<1>12. /\ page \subseteq selected
       /\ had \cap page = {}
       /\ Cardinality(selected) <= Limit => kept \subseteq had \cup page
       /\ Cardinality(selected) > Limit =>
              /\ Cursor(rs, page) \in Nat \X Nat
              /\ UpToCursor(rs, Cursor(rs, page), kept, had \cup page)
  <2>1. kept \in SUBSET Existing(rs) /\ had \in SUBSET kept
    BY <1>9, <1>10 DEF Existing
  <2>2. UpToCursor(rs, at, kept, had)
    BY <1>11 DEF UpToCursor
  <2>3. PageGoesOnFrom(rs, at, kept, had)
    BY <2>1, <2>2, <1>6, <1>11, PageGoesOn
  <2> QED BY <2>3, <1>2 DEF PageGoesOnFrom
<1>13. selected \in SUBSET Ids /\ Cardinality(selected) \in Nat /\ Limit \in Nat
  <2>1. selected \in SUBSET Ids
    BY <1>2 DEF After
  <2> QED BY <2>1, AheadIsFinite, StoreAssumption
<1>14. new \in Reader
  <2>1. rd.listed \in SUBSET Ids /\ rd.twice \in SUBSET Ids /\ stable \in SUBSET Ids
    BY <1>2, <1>6 DEF Reader, Active, Finished
  <2>2. new.at \in Nat \X Nat /\ new.phase \in {"idle", "paging", "end"}
    BY <1>3, <1>12
  <2> QED BY <2>1, <2>2, <1>3, <1>12, <1>13 DEF Reader
<1>15. PICK rd2 : rd2 = reader'[r]
  OBVIOUS
<1>16. /\ DOMAIN reader' = Readers
       /\ rd2 \in Reader /\ rd2.phase = new.phase /\ rd2.at = new.at
       /\ rd2.stable = kept
       /\ rd2.listed = (rd.listed \cup page) \cap kept
       /\ rd2.twice = (rd.twice \cup (rd.listed \cap page)) \cap kept
  BY <1>3, <1>5, <1>7, <1>8, <1>10, <1>14, <1>15, WatchedReader
<1>17. rd2.twice = {} /\ rd2.listed = (had \cup page) \cap kept
  BY <1>6, <1>10, <1>12, <1>16 DEF ReaderSound
<1>18. ReaderSound(rd2, rs)
  <2>0. rd2.stable \subseteq Existing(rs)
    BY <1>9, <1>10, <1>16 DEF Existing
  <2>1. CASE Cardinality(selected) > Limit
    <3>1. rd2.phase = "paging" /\ rd2.at = Cursor(rs, page)
      BY <2>1, <1>3, <1>16
    <3>2. UpToCursor(rs, rd2.at, rd2.stable, rd2.listed)
      BY <2>1, <3>1, <1>12, <1>16, <1>17 DEF UpToCursor
    <3> QED BY <2>0, <3>1, <3>2, <1>16, <1>17 DEF ReaderSound
  <2>2. CASE Cardinality(selected) <= Limit
    <3>1. rd2.phase = "end"
      BY <2>2, <1>3, <1>13, <1>16
    <3> QED BY <2>0, <2>2, <3>1, <1>12, <1>16, <1>17 DEF ReaderSound
  <2> QED BY <2>1, <2>2, <1>13
<1>19. \A q \in Readers \ {r} : ReaderSound(reader'[q], rows')
  BY <1>5, <1>7, OthersWatch
<1> QED BY <1>5, <1>6, <1>15, <1>16, <1>18, <1>19 DEF StoreInv

LEMMA NextKeepsStore ==
    ASSUME StoreInv, NextStore \/ UNCHANGED storeVars
    PROVE  StoreInv'
<1>1. ASSUME NEW i \in Ids, NEW size \in Sizes, NEW life \in Lifetimes,
             Put(i, size, life) \/ Modify(i, size, now + life)
      PROVE  StoreInv'
  <2>1. PICK expires \in Nat : expires = now + life
    BY StoreAssumption DEF StoreInv
  <2> QED BY <1>1, <2>1, PutKeeps, ModifyKeeps
<1>2. ASSUME NEW i \in Ids, NEW size \in Sizes, Modify(i, size, rows[i].expires)
      PROVE  StoreInv'
  <2>1. PICK x \in Nat : x = rows[i].expires
    BY DEF StoreInv, TableSound, Row
  <2> QED BY <1>2, <2>1, ModifyKeeps
<1>3. ASSUME NEW i \in Ids, Remove(i) PROVE StoreInv'
  BY <1>3, RemoveKeeps
<1>4. CASE Inspection
  BY <1>4, CleanedSound, TransactionKeeps DEF Inspection
<1>5. ASSUME NEW r \in Readers, List(r) PROVE StoreInv'
  BY <1>5, ListKeeps
<1>6. ASSUME NEW r \in Readers, Restart(r) PROVE StoreInv'
  <2>1. NewReader \in Reader /\ NewReader.phase = "idle" /\ NewReader.listed = {}
        /\ NewReader.stable = {} /\ NewReader.twice = {}
    BY DEF NewReader, Reader
  <2>2. ReaderSound(NewReader, rows)
    BY <2>1 DEF ReaderSound
  <2> QED BY <1>6, <2>2 DEF Restart, StoreInv
<1>7. ASSUME NEW t \in 0..MaxClock, SetClock(t) PROVE StoreInv'
  BY <1>7 DEF SetClock, StoreInv
<1>8. CASE UNCHANGED storeVars
  BY <1>8 DEF storeVars, StoreInv
<1> QED BY <1>1, <1>2, <1>3, <1>4, <1>5, <1>6, <1>7, <1>8 DEF NextStore

LEMMA InitStoreInv == InitStore => StoreInv
<1> SUFFICES ASSUME InitStore PROVE StoreInv
  OBVIOUS
<1>1. NewReader \in Reader /\ NewReader.phase = "idle" /\ NewReader.listed = {}
      /\ NewReader.stable = {} /\ NewReader.twice = {}
  BY DEF NewReader, Reader
<1>2. ReaderSound(NewReader, rows)
  BY <1>1 DEF ReaderSound
<1>3. TableSound(rows) /\ now \in 0..MaxClock
  BY EmptyRow, StoreAssumption DEF InitStore, TableSound
<1> QED BY <1>2, <1>3 DEF InitStore, StoreInv

\* A client that follows next_before to the end has seen every operation that
\* was there at the first page and did not change meanwhile, exactly once
\* (src/operation_store.py, list_operations).
THEOREM StorePagingComplete == SpecStore => []PagingComplete
<1>1. StoreInv /\ [NextStore]_storeVars => StoreInv'
  BY NextKeepsStore
<1>2. StoreInv => PagingComplete
  BY DEF StoreInv, ReaderSound, PagingComplete
<1> QED BY InitStoreInv, <1>1, <1>2, PTL DEF SpecStore
=============================================================================
