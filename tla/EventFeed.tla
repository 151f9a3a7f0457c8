------------------------------ MODULE EventFeed ------------------------------
(***************************************************************************)
(* The timeline of server events and the cursor with which an agent reads  *)
(* on (get_recent_server_events of src/agent_runtime.py and                *)
(* get_server_event_delta of src/agent_efficiency.py).                     *)
(*                                                                         *)
(* Audit events carry a UTC stamp, journal events the stamp journalctl     *)
(* prints in local time; the timeline is sorted by these texts, whose      *)
(* clocks differ by Skew.  An event stands for a distinct digest: repeated *)
(* events with one stamp and one text count as one.                        *)
(***************************************************************************)
EXTENDS Integers, FiniteSets

CONSTANTS
    Skews,          \* differences of the two printed clocks, in ticks
    Window,         \* since_minutes, in ticks
    Limit,          \* events a timeline holds (200)
    Page,           \* max_events
    MaxEvents,      \* bound on the events
    LastTick        \* bound on the clock

ASSUME FeedAssumption ==
    {Window, Limit, Page, MaxEvents, LastTick} \subseteq Nat \ {0} /\ Skews \subseteq Int

VARIABLES
    log,        \* the events so far
    tick,       \* the true time
    skew,       \* how far the journal's stamps are ahead
    cursor,     \* the digest of the last event the reader was given
    given,      \* history: events given since the cursor was last missed
    late,       \* history: events that arrived sorted before the cursor
    cut         \* history: events missing from a timeline the reader was shown

feedVars == <<log, tick, skew, cursor, given, late, cut>>

NoCursor == [n |-> 0]

InitFeed ==
    /\ log = {}
    /\ tick = 0
    /\ skew \in Skews
    /\ cursor = NoCursor
    /\ given = {}
    /\ late = {}
    /\ cut = {}

-----------------------------------------------------------------------------

Stamp(e) == IF e.source = "journal" THEN e.at + skew ELSE e.at

\* The order of the timeline: by stamp, and for equal stamps audit events
\* first, each source in its own order.
Before(e, f) ==
    \/ Stamp(e) < Stamp(f)
    \/ /\ Stamp(e) = Stamp(f)
       /\ \/ e.source = "audit" /\ f.source = "journal"
          \/ e.source = f.source /\ e.n < f.n

First(S, n) == {e \in S : Cardinality({f \in S : Before(f, e)}) < n}
Newest(S, n) == {e \in S : Cardinality({f \in S : Before(e, f)}) < n}
LastOf(S) == CHOOSE e \in S : \A f \in S : ~Before(e, f)

\* Both sources are asked for what happened since `Window` ago.  journalctl
\* gives its newest lines only, and none when it is missing, fails or times
\* out; the reply does not tell.
Recent(lines) ==
    LET since == {e \in log : e.at >= tick - Window}
        journal == {e \in since : e.source = "journal"}
    IN (since \ journal)
          \cup {e \in journal : Cardinality({f \in journal : f.n > e.n}) < lines}

Timeline(lines) == Newest(Recent(lines), Limit)

-----------------------------------------------------------------------------

Happen(source) ==
    /\ Cardinality(log) < MaxEvents
    /\ LET e == [n |-> Cardinality(log) + 1, source |-> source, at |-> tick] IN
       /\ log' = log \cup {e}
       /\ late' = IF cursor # NoCursor /\ Before(e, cursor) THEN late \cup {e} ELSE late
    /\ UNCHANGED <<tick, skew, cursor, given, cut>>

FeedTick ==
    /\ tick < LastTick
    /\ tick' = tick + 1
    /\ UNCHANGED <<log, skew, cursor, given, late, cut>>

\* The reader passes the cursor it has.  A cursor that is not in the timeline
\* is reported as missed and the timeline is given from its start.
Missed(shown) == cursor # NoCursor /\ cursor \notin shown

\* Mutant: the newest events first.
ChosenNewest(shown) ==
    Newest(IF cursor \in shown THEN {e \in shown : Before(cursor, e)} ELSE shown, Page)

Chosen(shown) ==
    First(IF cursor \in shown THEN {e \in shown : Before(cursor, e)} ELSE shown, Page)

EventDelta(lines) ==
    LET shown == Timeline(lines)
        chosen == Chosen(shown)
    IN /\ cursor' = IF chosen = {} THEN cursor ELSE LastOf(chosen)
       /\ given' = IF Missed(shown) THEN chosen ELSE given \cup chosen
       /\ cut' = cut \cup (log \ shown)
       /\ UNCHANGED <<log, tick, skew, late>>

NextFeed ==
    \/ \E source \in {"audit", "journal"} : Happen(source)
    \/ FeedTick
    \/ \E lines \in 0..MaxEvents : EventDelta(lines)

SpecFeed == InitFeed /\ [][NextFeed]_feedVars

-----------------------------------------------------------------------------
(* Properties                                                              *)

\* get_server_event_delta: what the cursor has passed was given to the reader,
\* unless it arrived sorted before the cursor (the journal's stamps are behind,
\* or an equal one) or was missing from a timeline the reader was shown.
CursorSkipsNothing ==
    \A e \in log : cursor # NoCursor /\ ~Before(cursor, e) => e \in given \cup late \cup cut
=============================================================================
