----------------------------- MODULE AtomicFiles -----------------------------
(***************************************************************************)
(* src/safe_io.py: atomic_replace, atomic_create and backed_up_delete, the *)
(* three ways this program changes a file.  They take no lock: several     *)
(* calls, and programs that know nothing of them, work on one target at    *)
(* the same time, and the machine may lose power at any moment.            *)
(*                                                                         *)
(* A file is an inode with a modification stamp and a content; a content   *)
(* that was written but not synced may be Torn after a power loss, and a   *)
(* directory entry that was changed but not synced may be the old one.     *)
(* Permissions, links, size limits and a moved parent directory appear as  *)
(* a failure that may strike at any step.  <name>.bak, a second copy that  *)
(* each backup replaces, and the temporary names are left out: nothing     *)
(* reads them, and every way out but a kill removes the temporaries.       *)
(***************************************************************************)
EXTENDS Naturals, FiniteSets

CONSTANTS
    Calls,          \* calls of the three functions, each made once
    Contents,
    Torn,           \* what a power loss leaves of data that was not synced
    MaxStamp        \* bound on the changes made by other programs

NoContent == "none"
Untouched == "untouched"

ASSUME FilesAssumption ==
    /\ Torn \notin Contents
    /\ {NoContent, Untouched} \cap (Contents \cup {Torn}) = {}
    /\ "other" \notin Calls
    /\ MaxStamp \in Nat

VARIABLES
    target,     \* the file the target name refers to, or None
    copy,       \* copy[c]: the content of the unique backup <name>.bak.<hex> of c
    durable,    \* the synced directory: what target and copy were then
    stamp,      \* the last inode or modification stamp handed out
    call,       \* call[c]: how far call c is and what it has seen
    last,       \* history: the call that changed the target last
    lost,       \* history: lost[c]: what call c removed from the target
    raced       \* history: the calls whose target changed after their last look

vars == <<target, copy, durable, stamp, call, last, lost, raced>>

Data == Contents \cup {Torn}
None == [ino |-> 0]
File == [ino : Nat \ {0}, stamp : Nat, content : Data, synced : BOOLEAN]
Copies == [Calls -> Data \cup {NoContent}]

Steps == {"new", "read", "backup", "write", "sync", "look", "change", "settle"}
Ended == {"done", "failed"}

\* before: the first stat; original: the content read; expected: the content
\* whose SHA-256 the caller insists on; synced: the new data is on the disk.
Call == [op : {"replace", "create", "delete"}, step : Steps \cup Ended, data : Contents,
         backup : BOOLEAN, expected : Contents \cup {NoContent}, before : File \cup {None},
         original : Data \cup {NoContent}, synced : BOOLEAN]

NewCall(op, data, backup, expected) ==
    [op |-> op, step |-> "new", data |-> data, backup |-> backup, expected |-> expected,
     before |-> None, original |-> NoContent, synced |-> FALSE]

\* A delete always keeps a copy and always names the content it expects.
Requests ==
    {NewCall("replace", d, b, x) : d \in Contents, b \in BOOLEAN, x \in Contents \cup {NoContent}}
        \cup {NewCall("create", d, FALSE, NoContent) : d \in Contents}
        \cup {NewCall("delete", d, TRUE, d) : d \in Contents}

TypeOK ==
    /\ target \in File \cup {None}
    /\ copy \in Copies
    /\ durable \in [target : File \cup {None}, copy : Copies]
    /\ stamp \in Nat
    /\ call \in [Calls -> Call]
    /\ last \in Calls \cup {"other"}
    /\ lost \in [Calls -> Data \cup {NoContent, Untouched}]
    /\ raced \in SUBSET Calls

Init ==
    /\ target \in {None} \cup
           {[ino |-> 1, stamp |-> 1, content |-> c, synced |-> TRUE] : c \in Contents}
    /\ copy = [c \in Calls |-> NoContent]
    /\ durable = [target |-> target, copy |-> copy]
    /\ stamp = 1
    /\ call \in [Calls -> Requests]
    /\ last = "other"
    /\ lost = [c \in Calls |-> Untouched]
    /\ raced = {}

-----------------------------------------------------------------------------
(* Helpers                                                                 *)

At(c, step) == call[c].step = step

To(c, step) == call' = [call EXCEPT ![c].step = step]

\* The call returns or raises; what it saw of the file is forgotten.
End(w, how) == [w EXCEPT !.step = how, !.before = None, !.synced = FALSE]

Ends(c, how) == call' = [call EXCEPT ![c] = End(@, how)]

Has(file) == file # None

ContentOf(file) == IF Has(file) THEN file.content ELSE NoContent

\* Everybody between the last look at the target and the change of it.
Exposed == {c \in Calls : call[c].step = "change"}

\* The target becomes `file`.
Retarget(file, by) ==
    /\ target' = file
    /\ last' = by
    /\ raced' = raced \cup (Exposed \ {by})

Fresh(content, synced) ==
    [ino |-> stamp + 1, stamp |-> stamp + 1, content |-> content, synced |-> synced]

-----------------------------------------------------------------------------
(* The calls                                                               *)

\* os.stat of the target.  A delete needs the file; a create does not look.
Inspect(c) ==
    /\ At(c, "new")
    /\ CASE call[c].op = "create" -> To(c, "write")
         [] call[c].op = "delete" /\ ~Has(target) -> Ends(c, "failed")
         [] OTHER -> call' = [call EXCEPT ![c].step = "read", ![c].before = target]
    /\ UNCHANGED <<target, copy, durable, stamp, last, lost, raced>>

\* The file is opened by name again and must be the same inode; its content is
\* read and compared with the baseline the caller expects.
Read(c) ==
    LET w == call[c]
        moved == Has(w.before) /\ (~Has(target) \/ target.ino # w.before.ino)
        original == IF Has(w.before) THEN ContentOf(target) ELSE NoContent
    IN  /\ At(c, "read")
        /\ IF moved \/ (w.expected # NoContent /\ original # w.expected)
           THEN Ends(c, "failed")
           ELSE call' = [call EXCEPT
                    ![c].step = IF Has(w.before) /\ w.backup THEN "backup" ELSE "write",
                    ![c].original = original]
        /\ UNCHANGED <<target, copy, durable, stamp, last, lost, raced>>

\* The private copy under a unique name, its data synced.
Backup(c) ==
    /\ At(c, "backup")
    /\ copy' = [copy EXCEPT ![c] = call[c].original]
    /\ To(c, IF call[c].op = "delete" THEN "look" ELSE "write")
    /\ UNCHANGED <<target, durable, stamp, last, lost, raced>>

\* create(data): the new content goes to a temporary file, which is synced.
WriteTemp(c) ==
    /\ At(c, "write")
    /\ To(c, "sync")
    /\ UNCHANGED <<target, copy, durable, stamp, last, lost, raced>>

\* Mutant: the temporary file is closed but not synced.
SyncSkipped(c) ==
    /\ At(c, "sync")
    /\ To(c, IF call[c].op = "create" THEN "change" ELSE "look")
    /\ UNCHANGED <<target, copy, durable, stamp, last, lost, raced>>

SyncTemp(c) ==
    /\ At(c, "sync")
    /\ call' = [call EXCEPT ![c].synced = TRUE,
                            ![c].step = IF call[c].op = "create" THEN "change" ELSE "look"]
    /\ UNCHANGED <<target, copy, durable, stamp, last, lost, raced>>

\* Mutant: only the inode is compared.
SameInode(file, before) ==
    IF Has(file) /\ Has(before) THEN file.ino = before.ino ELSE Has(file) = Has(before)

\* Inode, size and modification time are compared with those of the first stat.
Same(file, before) ==
    IF Has(file) /\ Has(before) THEN file.ino = before.ino /\ file.stamp = before.stamp
    ELSE Has(file) = Has(before)

Look(c) ==
    /\ At(c, "look")
    /\ IF Same(target, call[c].before) THEN To(c, "change") ELSE Ends(c, "failed")
    /\ UNCHANGED <<target, copy, durable, stamp, last, lost, raced>>

\* os.replace
Rename(c) ==
    /\ At(c, "change") /\ call[c].op = "replace"
    /\ Retarget(Fresh(call[c].data, call[c].synced), c)
    /\ stamp' = stamp + 1
    /\ lost' = [lost EXCEPT ![c] = ContentOf(target)]
    /\ To(c, "settle")
    /\ UNCHANGED <<copy, durable>>

\* os.link, which refuses a name that exists.
Link(c) ==
    /\ At(c, "change") /\ call[c].op = "create"
    /\ IF Has(target)
       THEN Ends(c, "failed") /\ UNCHANGED <<target, stamp, last, lost, raced>>
       ELSE /\ Retarget(Fresh(call[c].data, call[c].synced), c)
            /\ stamp' = stamp + 1
            /\ lost' = [lost EXCEPT ![c] = ContentOf(target)]
            /\ To(c, "settle")
    /\ UNCHANGED <<copy, durable>>

\* os.unlink
Unlink(c) ==
    /\ At(c, "change") /\ call[c].op = "delete"
    /\ IF Has(target)
       THEN /\ Retarget(None, c)
            /\ lost' = [lost EXCEPT ![c] = ContentOf(target)]
            /\ To(c, "settle")
       ELSE Ends(c, "failed") /\ UNCHANGED <<target, last, lost, raced>>
    /\ UNCHANGED <<copy, durable, stamp>>

\* Mutant: the directory is not synced.
SettleUnsynced(c) ==
    /\ At(c, "settle")
    /\ Ends(c, "done")
    /\ UNCHANGED <<target, copy, durable, stamp, last, lost, raced>>

\* fsync of the parent directory: only now is the change acknowledged.
Settle(c) ==
    /\ At(c, "settle")
    /\ durable' = [target |-> target, copy |-> copy]
    /\ Ends(c, "done")
    /\ UNCHANGED <<target, copy, stamp, last, lost, raced>>

\* Any system call may fail, also the last one: then the caller is told of an
\* error although the target has changed.  A process that is killed leaves the
\* same state.
Error(c) ==
    /\ call[c].step \notin Ended
    /\ Ends(c, "failed")
    /\ UNCHANGED <<target, copy, durable, stamp, last, lost, raced>>

-----------------------------------------------------------------------------
(* Other programs, and the power supply                                    *)

\* An edit in place changes the stamp; a new file has a new inode.  Whether
\* other programs sync their data is not this code's affair.
Edit(content) ==
    /\ Has(target) /\ stamp < MaxStamp
    /\ Retarget([target EXCEPT !.stamp = stamp + 1, !.content = content, !.synced = TRUE], "other")
    /\ stamp' = stamp + 1
    /\ UNCHANGED <<copy, durable, call, lost>>

Swap(content) ==
    /\ stamp < MaxStamp
    /\ Retarget(Fresh(content, TRUE), "other")
    /\ stamp' = stamp + 1
    /\ UNCHANGED <<copy, durable, call, lost>>

Delete ==
    /\ Has(target)
    /\ Retarget(None, "other")
    /\ UNCHANGED <<copy, durable, stamp, call, lost>>

Survivor(file) ==
    IF Has(file) /\ ~file.synced THEN [file EXCEPT !.content = Torn] ELSE file

\* Each directory entry is the one of the last sync or the current one, in any
\* combination.  All processes die.
PowerLoss ==
    /\ \E file \in {target, durable.target}, kept \in SUBSET Calls :
           /\ target' = Survivor(file)
           /\ copy' = [c \in Calls |-> IF c \in kept THEN copy[c] ELSE durable.copy[c]]
    /\ durable' = [target |-> target', copy |-> copy']
    /\ call' = [c \in Calls |->
           IF call[c].step \in Ended THEN call[c] ELSE End(call[c], "failed")]
    /\ UNCHANGED <<stamp, last, lost, raced>>

Advance(c) ==
    \/ Inspect(c) \/ Read(c) \/ Backup(c) \/ WriteTemp(c) \/ SyncTemp(c)
    \/ Look(c) \/ Rename(c) \/ Link(c) \/ Unlink(c) \/ Settle(c)

Next ==
    \/ \E c \in Calls : Advance(c) \/ Error(c)
    \/ \E content \in Contents : Edit(content) \/ Swap(content)
    \/ Delete
    \/ PowerLoss

Spec == Init /\ [][Next]_vars

-----------------------------------------------------------------------------
(* Properties                                                              *)

\* What a call with a backup removed is in the private copy it reports, and a
\* power loss after its return does not take the copy away.
BackedUp ==
    \A c \in Calls :
        /\ call[c].step \in {"settle", "done"} /\ c \notin raced
        /\ call[c].backup /\ lost[c] # NoContent
        => copy[c] = lost[c]

\* Whoever opens the target, at any moment and after a power loss in any step
\* of any call, finds a complete content: data is synced before it gets the
\* name, and the name is changed in one system call.  (All state is typed.)
\* What a call with a backup removed is whole as well (BackedUp).
NeverTorn == TypeOK /\ ContentOf(target) # Torn /\ BackedUp

\* A call removes only the content it has read, and only what its caller
\* expected if the caller said so, whatever other calls and programs did in
\* between - unless they did it in the window between the last comparison of
\* the identity and the system call that follows it.  atomic_create takes nothing
\* away, window or not: the link itself refuses a name that exists.
NoBlindLoss ==
    \A c \in Calls : lost[c] # Untouched =>
        /\ c \notin raced => lost[c] = call[c].original
        /\ c \notin raced /\ call[c].expected # NoContent => lost[c] = call[c].expected
        /\ call[c].op = "create" => lost[c] = NoContent

\* A change that was acknowledged and that nobody followed up survives a power
\* loss.
AckDurable ==
    [][\A c \in Calls : At(c, "done") /\ last = c /\ last' = c => target' = target]_vars
=============================================================================
