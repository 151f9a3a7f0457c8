---------------------------- MODULE OperationStore ----------------------------
(***************************************************************************)
(* src/operation_store.py: the table that the drafts of project patches    *)
(* and of change sets share, its size limits, its retention, and the       *)
(* paging of list_operations.                                              *)
(*                                                                         *)
(* A transaction - a `with` block of a PersistentDrafts, or one of the two *)
(* readers - holds DATABASE_LOCK and SQLite's write lock from its first to *)
(* its last statement: it is one action, the sweep at its start and, for a *)
(* `with` block, the flush at its end included.  A flush that raises rolls *)
(* all of it back and changes nothing, which is a guard here.  What the    *)
(* records say is the matter of ProjectPatches and ChangeSets; what is     *)
(* kept of it is that a record has a payload (is active) or has none.      *)
(*                                                                         *)
(* time.time() may be set back.  Record names are ordered; a name that is  *)
(* free again stands for a fresh one.                                      *)
(***************************************************************************)
EXTENDS Naturals, FiniteSets, FiniteSetsExt

CONSTANTS
    Ids,            \* operation ids, ordered as SQLite orders them
    Kind,           \* [Ids -> "patch" | "changeset"]: their prefix
    Capacity,       \* the capacity of each kind's PersistentDrafts
    Sizes,          \* payload sizes that occur
    MaxPayload,     \* MAX_PAYLOAD_BYTES
    MaxActive,      \* MAX_ACTIVE_BYTES
    MaxHistory,     \* MAX_HISTORY
    HistoryTime,    \* HISTORY_SECONDS
    Lifetimes,      \* how long records are given until they expire
    Readers,        \* clients that page through list_operations
    Limit,          \* the limit they ask for
    MaxClock        \* bound on the clock

ASSUME StoreAssumption ==
    /\ Ids \subseteq Nat
    /\ IsFiniteSet(Ids)
    /\ Kind \in [Ids -> {"patch", "changeset"}]
    /\ Capacity \in [{"patch", "changeset"} -> Nat]
    /\ Sizes \subseteq Nat \ {0}
    /\ {MaxPayload, MaxActive, MaxHistory, HistoryTime, MaxClock} \subseteq Nat
    /\ Lifetimes \subseteq Nat
    /\ Limit \in Nat \ {0}

VARIABLES
    now,        \* time.time()
    rows,       \* rows[i]: the record i
    reader      \* reader[r]: the pages r has fetched

storeVars == <<now, rows, reader>>

\* size: the length of the payload, 0 when it is NULL.
Row == [exists : BOOLEAN, size : 0..MaxPayload, updated : Nat, expires : Nat]
NoRow == [exists |-> FALSE, size |-> 0, updated |-> 0, expires |-> 0]

\* at: the cursor next_before; stable: history: the records that have not
\* changed since the first page, and those of them listed, once or twice.
Reader == [phase : {"idle", "paging", "end"}, at : Nat \X Nat,
           listed : SUBSET Ids, twice : SUBSET Ids, stable : SUBSET Ids]
NewReader == [phase |-> "idle", at |-> <<0, 0>>, listed |-> {}, twice |-> {}, stable |-> {}]

StoreTypeOK ==
    /\ now \in Nat
    /\ rows \in [Ids -> Row]
    /\ reader \in [Readers -> Reader]

InitStore ==
    /\ now = 0
    /\ rows = [i \in Ids |-> NoRow]
    /\ reader = [r \in Readers |-> NewReader]

-----------------------------------------------------------------------------
(* Transactions                                                            *)

Active(rs) == {i \in Ids : rs[i].exists /\ rs[i].size > 0}
Finished(rs) == {i \in Ids : rs[i].exists /\ rs[i].size = 0}
ActiveBytes(rs) == FoldSet(LAMBDA i, sum : sum + rs[i].size, 0, Active(rs))

\* A record without its payload; nobody reads its expiry any more.
Closed(r) == [r EXCEPT !.size = 0, !.updated = now, !.expires = 0]

\* ORDER BY updated DESC, id DESC
Before(rs, i, j) ==
    rs[i].updated > rs[j].updated \/ (rs[i].updated = rs[j].updated /\ i > j)

\* Payloads that are due are dropped; the record stays, as news.
Swept(rs) ==
    [i \in Ids |-> IF i \in Active(rs) /\ rs[i].expires <= now
                   THEN Closed(rs[i]) ELSE rs[i]]

\* updated < now - HISTORY_SECONDS
Old(r) == r.updated + HistoryTime < now

Dropping(rs, gone) == [i \in Ids |-> IF i \in gone THEN NoRow ELSE rs[i]]

\* PersistentDrafts.cleanup
Cleaned ==
    LET rs == Swept(rows)
        Newer(i) == {j \in Finished(rs) : Before(rs, j, i)}
    IN  Dropping(rs, {i \in Finished(rs) : Old(rs[i]) \/ Cardinality(Newer(i)) >= MaxHistory})

\* Mutant: the oldest records are kept.
ExcessNewest(rs) ==
    {gone \in SUBSET Finished(rs) :
        /\ Cardinality(gone) = Max({0, Cardinality(Finished(rs)) - MaxHistory})
        /\ \A i \in gone, j \in Finished(rs) \ gone : rs[i].updated >= rs[j].updated}

\* The choices of the DELETE of _flush, which leaves open which of several
\* records of one stamp is beyond the limit.
Excess(rs) ==
    {gone \in SUBSET Finished(rs) :
        /\ Cardinality(gone) = Max({0, Cardinality(Finished(rs)) - MaxHistory})
        /\ \A i \in gone, j \in Finished(rs) \ gone : rs[i].updated <= rs[j].updated}

\* What a `with` block that leaves the records rs commits (see _flush).
Flush(rs) ==
    /\ \A i \in Ids : rs[i].size <= MaxPayload
    /\ ActiveBytes(rs) <= MaxActive
    /\ \E gone \in Excess(rs) :
           rows' = Dropping(rs, gone \cup {i \in Finished(rs) : Old(rs[i])})

\* The readers' history: a record that changed is not stable any more.
Watch(page) ==
    LET same == {i \in Ids : rows'[i].exists /\ rows'[i].updated = rows[i].updated} IN
    reader' = [r \in Readers |->
        [page[r] EXCEPT !.stable = @ \cap same, !.listed = @ \cap page[r].stable \cap same,
                        !.twice = @ \cap page[r].stable \cap same]]

\* PersistentDrafts.__setitem__ with a new record.
Put(i, size, life) ==
    LET rs == Cleaned
        peers == {j \in Active(rs) : Kind[j] = Kind[i]}
    IN  /\ ~rs[i].exists
        /\ Cardinality(peers) < Capacity[Kind[i]]
        /\ Flush([rs EXCEPT ![i] = [exists |-> TRUE, size |-> size, updated |-> now,
                                    expires |-> now + life]])
        /\ Watch(reader)
        /\ UNCHANGED now

\* A record that was read in the block and modified; it may get a new expiry.
Modify(i, size, expires) ==
    LET rs == Cleaned IN
    /\ i \in Active(rs)
    /\ Flush([rs EXCEPT ![i] = [exists |-> TRUE, size |-> size, updated |-> now,
                                expires |-> expires]])
    /\ Watch(reader)
    /\ UNCHANGED now

\* PersistentDrafts.__delitem__: the payload goes, a summary stays.
Remove(i) ==
    LET rs == Cleaned IN
    /\ i \in Active(rs)
    /\ Flush([rs EXCEPT ![i] = Closed(@)])
    /\ Watch(reader)
    /\ UNCHANGED now

\* A block that changes no record (its flush finds nothing to do), and
\* get_operation.
Inspection ==
    /\ rows' = Cleaned
    /\ Watch(reader)
    /\ UNCHANGED now

-----------------------------------------------------------------------------
(* list_operations                                                         *)

\* Mutant: the cursor is a stamp only.
AfterStamp(rs, at) == {i \in Ids : rs[i].exists /\ rs[i].updated < at[1]}

\* updated < stamp OR (updated = stamp AND id < identity)
After(rs, at) ==
    {i \in Ids : rs[i].exists /\ (rs[i].updated < at[1] \/ (rs[i].updated = at[1] /\ i < at[2]))}

\* The first Limit records of a selection.
Page(rs, selected) ==
    {i \in selected : Cardinality({j \in selected : Before(rs, j, i)}) < Limit}

\* The cursor is the stamp and the id of the last record of the page.
Cursor(rs, page) ==
    LET last == CHOOSE i \in page : \A j \in page \ {i} : Before(rs, j, i)
    IN  <<rs[last].updated, last>>

\* One page; the first asks for everything.
List(r) ==
    LET rs == Cleaned
        first == reader[r].phase = "idle"
        selected == IF first THEN After(rs, <<MaxClock + 1, 0>>) ELSE After(rs, reader[r].at)
        page == Page(rs, selected)
        more == Cardinality(selected) > Limit
    IN  /\ reader[r].phase # "end"
        /\ rows' = rs
        /\ Watch([reader EXCEPT ![r] =
               [phase |-> IF more THEN "paging" ELSE "end",
                at |-> IF more THEN Cursor(rs, page) ELSE <<0, 0>>,
                listed |-> @.listed \cup page,
                twice |-> @.twice \cup (@.listed \cap page),
                stable |-> IF first THEN Active(rs) \cup Finished(rs) ELSE @.stable]])
        /\ UNCHANGED now

\* The client starts again.
Restart(r) ==
    /\ reader[r].phase = "end"
    /\ reader' = [reader EXCEPT ![r] = NewReader]
    /\ UNCHANGED <<now, rows>>

SetClock(t) ==
    /\ t # now
    /\ now' = t
    /\ UNCHANGED <<rows, reader>>

NextStore ==
    \/ \E i \in Ids, size \in Sizes, life \in Lifetimes : Put(i, size, life)
    \/ \E i \in Ids, size \in Sizes, life \in Lifetimes : Modify(i, size, now + life)
    \/ \E i \in Ids, size \in Sizes : Modify(i, size, rows[i].expires)
    \/ \E i \in Ids : Remove(i)
    \/ Inspection
    \/ \E r \in Readers : List(r) \/ Restart(r)
    \/ \E t \in 0..MaxClock : SetClock(t)

SpecStore == InitStore /\ [][NextStore]_storeVars

-----------------------------------------------------------------------------
(* Properties                                                              *)

\* After any sequence of transactions of both kinds of drafts all state is typed,
\* every payload is within its limit, the payloads fit into the shared budget,
\* no kind has more drafts than it may, and the history has no more records than
\* are retained.
Bounded ==
    /\ StoreTypeOK
    /\ ActiveBytes(rows) <= MaxActive
    /\ Cardinality(Finished(rows)) <= MaxHistory
    /\ \A k \in {"patch", "changeset"} :
           Cardinality({i \in Active(rows) : Kind[i] = k}) <= Capacity[k]

\* A record is only forgotten when it is older than the retention or when as
\* many finished records as are retained, none of them older, remain.  So the
\* outcome of an operation can be asked for until then.  (After the clock was
\* set back that may be at once.)  And the store keeps its bounds.
ForgetsOnlyExcess ==
    /\ []Bounded
    /\ [][\A i \in Ids : rows[i].exists /\ ~rows'[i].exists =>
          LET r == Swept(rows)[i]
              stamp == IF r.size = 0 THEN r.updated ELSE now
          IN  \/ stamp + HistoryTime < now
              \/ Cardinality({j \in Finished(rows') : rows'[j].updated >= stamp}) >= MaxHistory
      ]_storeVars

\* A client that follows next_before to the end has seen every operation that
\* was there at the first page and did not change in the meantime, exactly
\* once, whatever was added, changed, swept or trimmed between two pages.
PagingComplete ==
    \A r \in Readers :
        /\ reader[r].stable \cap reader[r].twice = {}
        /\ reader[r].phase = "end" => reader[r].stable \subseteq reader[r].listed
=============================================================================
