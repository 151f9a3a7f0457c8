-------------------------------- MODULE Backups --------------------------------
(***************************************************************************)
(* Backup archives (create_backup, get_backup_status and verify_backup of  *)
(* src/recover.py).  The name of an archive is the last name of its source *)
(* and a stamp in seconds; the archive is opened for writing whether it    *)
(* exists or not, packed file by file, and removed when anything fails.    *)
(* Nothing locks the name.                                                 *)
(*                                                                         *)
(* Checks of the source, the confirmation (module SafetyGate) and the      *)
(* audit record (module HostActions) are left out.                         *)
(***************************************************************************)
EXTENDS Naturals, FiniteSets

CONSTANTS
    Makers,         \* processes, each with one backup under way
    BaseName,       \* BaseName[s]: the last name of source s
    MaxSecond,      \* bound on the wall clock
    MaxBackups      \* bound on the backups

ASSUME BackupsAssumption == {MaxSecond, MaxBackups} \subseteq Nat

Sources == DOMAIN BaseName

\* /var/backups/vps-guardian, and the directory used when that one is refused.
Places == {"isolated", "temporary"}

VARIABLES
    maker,      \* the backup process m works on
    archive,    \* archive[p]: the file at path p
    second,     \* the wall clock
    backups,    \* backups begun so far; the last one's number
    named,      \* history: named[b]: the name and second backup b was given
    promised    \* history: promised[b]: the path backup b reported, and its source

backupVars == <<maker, archive, second, backups, named, promised>>

NoArchive == [writers |-> {}]
NotPromised == [at |-> "nowhere"]
Paths == [place : Places, name : {BaseName[s] : s \in Sources}, second : 0..MaxSecond]
Unmade == [step |-> "idle"]

InitBackups ==
    /\ maker = [m \in Makers |-> Unmade]
    /\ archive = [p \in Paths |-> NoArchive]
    /\ second = 0
    /\ backups = 0
    /\ named = [b \in 1..MaxBackups |-> <<>>]
    /\ promised = [b \in 1..MaxBackups |-> NotPromised]

MakerAt(m, step) == maker[m].step = step
MakerTo(m, step) == maker' = [maker EXCEPT ![m].step = step]

-----------------------------------------------------------------------------

\* Mutant: the stamp has no seconds.
PathOfDay(place, s) == [place |-> place, name |-> BaseName[s], second |-> 0]

PathOf(place, s) == [place |-> place, name |-> BaseName[s], second |-> second]

StartBackup(m, s, place) ==
    /\ MakerAt(m, "idle")
    /\ backups < MaxBackups
    /\ backups' = backups + 1
    /\ named' = [named EXCEPT ![backups + 1] = <<BaseName[s], second>>]
    /\ maker' = [maker EXCEPT ![m] = [step |-> "open", number |-> backups + 1, source |-> s,
                                      path |-> PathOf(place, s)]]
    /\ UNCHANGED <<archive, second, promised>>

\* Opening truncates what is there; who has it open keeps writing to it.
OpenArchive(m) ==
    LET w == maker[m] IN
    /\ MakerAt(m, "open")
    /\ \/ /\ archive' = [archive EXCEPT ![w.path] =
                 [writers |-> archive[w.path].writers \cup {w.number}, whole |-> FALSE, of |-> w.source]]
          /\ MakerTo(m, "pack")
       \/ UNCHANGED archive /\ MakerTo(m, "clean")
    /\ UNCHANGED <<second, backups, named, promised>>

\* The files are added and the archive is closed: whole, if no other backup
\* writes to it as well.  A file that vanishes or a full disk fails the backup,
\* with what was packed so far closed properly.
PackFiles(m) ==
    LET w == maker[m]
        mine == w.number \in archive[w.path].writers
    IN
    /\ MakerAt(m, "pack")
    /\ \/ /\ IF mine
             THEN \E whole \in IF archive[w.path].writers = {w.number} THEN {TRUE} ELSE BOOLEAN :
                      archive' = [archive EXCEPT ![w.path].whole = whole, ![w.path].of = w.source]
             ELSE UNCHANGED archive
          /\ MakerTo(m, "measure")
       \/ UNCHANGED archive /\ MakerTo(m, "clean")
    /\ UNCHANGED <<second, backups, named, promised>>

\* The size is asked for by path, so an archive another backup removed fails.
MeasureArchive(m) ==
    LET w == maker[m] IN
    /\ MakerAt(m, "measure")
    /\ IF archive[w.path] = NoArchive
       THEN MakerTo(m, "clean") /\ UNCHANGED promised
       ELSE /\ promised' = [promised EXCEPT ![w.number] =
                                [at |-> "archive", path |-> w.path, source |-> w.source]]
            /\ maker' = [maker EXCEPT ![m] = Unmade]
    /\ UNCHANGED <<archive, second, backups, named>>

\* What is at the path is removed, if that works.
CleanArchive(m) ==
    /\ MakerAt(m, "clean")
    /\ \/ archive' = [archive EXCEPT ![maker[m].path] = NoArchive]
       \/ UNCHANGED archive
    /\ maker' = [maker EXCEPT ![m] = Unmade]
    /\ UNCHANGED <<second, backups, named, promised>>

MakerDies(m) ==
    /\ ~MakerAt(m, "idle")
    /\ maker' = [maker EXCEPT ![m] = Unmade]
    /\ UNCHANGED <<archive, second, backups, named, promised>>

SecondPasses ==
    /\ second < MaxSecond
    /\ second' = second + 1
    /\ UNCHANGED <<maker, archive, backups, named, promised>>

NextBackups ==
    \/ SecondPasses
    \/ \E m \in Makers :
        \/ OpenArchive(m) \/ PackFiles(m) \/ MeasureArchive(m) \/ CleanArchive(m) \/ MakerDies(m)
        \/ \E s \in Sources, place \in Places : StartBackup(m, s, place)

SpecBackups == InitBackups /\ [][NextBackups]_backupVars

-----------------------------------------------------------------------------
(* What the other two tools say of an archive                              *)

\* get_backup_status looks into the isolated directory only.
Listed(p) == p.place = "isolated" /\ archive[p] # NoArchive

\* verify_backup reads the archive to its end.
Verified(p) == Listed(p) /\ archive[p].whole

-----------------------------------------------------------------------------
(* Properties                                                              *)

Clashes(b) == \E c \in 1..backups : c # b /\ named[c] = named[b]

\* An archive create_backup reported stays what was reported and, in the
\* isolated directory, is listed and verified, whatever backups fail or are
\* made later, unless one of a source of that name began in the same second.
BackupKept ==
    \A b \in 1..backups :
        promised[b] # NotPromised /\ ~Clashes(b) =>
            LET p == promised[b].path IN
            /\ archive[p] # NoArchive
            /\ archive[p].whole /\ archive[p].of = promised[b].source
            /\ p.place = "isolated" => Listed(p) /\ Verified(p)
=============================================================================
