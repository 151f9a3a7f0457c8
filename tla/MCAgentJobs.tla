---------------------------- MODULE MCAgentJobs -----------------------------
(***************************************************************************)
(* An instance of AgentJobs for TLC.  The store begins empty and has one   *)
(* job of two checks on a host whose budget changes; or it begins with a   *)
(* closed job, and has room for one of two jobs more until that one goes.  *)
(***************************************************************************)
EXTENDS AgentJobs, TLC

CONSTANTS j1, j2, j3, j4, c1, c2

Plans == [j \in Jobs |-> IF j = j1 THEN <<"status", "light">> ELSE <<"status">>]

Roomy == [profile |-> "standard", concurrency |-> 2]
Shifting == {Roomy, [profile |-> "constrained", concurrency |-> 1],
             [profile |-> "critical", concurrency |-> 1],
             [profile |-> "standard", concurrency |-> 0]}

Closed(j) == Bump([NewJob(j) EXCEPT !.status = "cancelled"])

InitEither ==
    \/ Init
    \/ /\ job = [j \in Jobs |-> IF j = j4 THEN Closed(j) ELSE Unborn(j)]
       /\ call = [c \in Calls |-> Idle]
       /\ budget = Roomy
       /\ view = [j \in Jobs |-> [revision |-> 0, results |-> [i \in 1..Len(PlanOf[j]) |-> 0]]]
       /\ restarts = [j \in Jobs |-> 0]

Begins(c) == call[c].kind = "idle" /\ call'[c].kind # "idle"

\* A restart is proposed at revision 6 and claimed as 7; if its lease lapses, a
\* second one would be 9.  No other claim goes that far, and the budget changes
\* before the proposal only, to any value.
Alone ==
    /\ \A j \in Jobs \ {j1} : job'[j].status = "absent"
    /\ \A c \in Calls : Begins(c) /\ job'[j1].revision = MaxRevision => call'[c].kind = "action"
    /\ job[j1].revision >= 6 => UNCHANGED budget

\* Jobs and calls are alike, so j2 comes before j3 and c1 is used before c2;
\* bounds: one attempt a check, verifications but no other claim beyond revision 4.
Beside ==
    /\ job'[j1].status = "absent" /\ UNCHANGED <<budget, view>>
    /\ job'[j3].status # "absent" => job[j2].status # "absent"
    /\ Begins(c2) => call[c1].kind # "idle"
    /\ \A j \in Jobs : \A i \in 1..Len(PlanOf[j]) : job'[j].checks[i].attempts <= 1
    /\ \A c \in Calls : Begins(c) /\ call'[c].kind # "verify" => job[call'[c].job].revision <= 4

NextEither == Next /\ IF job[j4].status = "absent" THEN Alone ELSE Beside

SpecEither ==
    /\ InitEither /\ [][NextEither]_vars
    /\ WF_vars(List) /\ \A j \in Jobs : WF_vars(LeaseLapses(j))
=============================================================================
