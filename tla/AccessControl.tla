---------------------------- MODULE AccessControl ----------------------------
(***************************************************************************)
(* Who may call what: the operator's access policy and limits              *)
(* (src/access_policy.py, src/resource_policy.py), the agents enrolled     *)
(* through the gateway (src/gateway.py), and the check before each tool    *)
(* call (guardian_tool of src/server.py).                                  *)
(*                                                                         *)
(* Policy and limits are two files with one lock; a revision is the hash   *)
(* of the content, so contents stand for revisions here.  Enrollment and   *)
(* revocation take a lock of their own and several steps, each of which    *)
(* may fail or be the last before the process dies; both locks go with     *)
(* their process.  A lock that is held refuses the call.                   *)
(***************************************************************************)
EXTENDS Naturals, FiniteSets, SequencesExt

CONSTANTS
    Helpers,        \* operator helpers, each with one operation under way
    Agents,         \* agent identifiers of the gateway
    Sessions,       \* MCP sessions
    Tools,          \* all but get_safety_status, which is never refused
    ProfileTools,   \* the tools of the profile agents are enrolled with
    Policies,       \* the policies operators save
    RootLists,      \* the project roots a policy may name
    MaxAgents,      \* MAX_AGENTS
    MaxClock        \* bound on the clock

\* A path is the sequence of its names; AnyRoot stands for project_roots = None.
AnyRoot == {<< >>}

Nobody == "nobody"
Operator == "operator"      \* a session that does not come through the gateway

ASSUME AccessAssumption ==
    /\ Nobody \notin Helpers /\ Operator \notin Agents
    /\ MaxAgents \in Nat \ {0}
    /\ MaxClock \in Nat
    /\ RootLists \subseteq SUBSET Seq(STRING) /\ AnyRoot \in RootLists
    /\ ProfileTools \subseteq Tools
    /\ \A p \in Policies : p.roots \in RootLists /\ p.tools \subseteq Tools

VARIABLES
    store,      \* store[f]: the content of policy.json and limits.json
    holder,     \* the helper that holds policy.lock
    helper,     \* helper[h]: the operation of helper h
    enroller,   \* the helper that holds .admin.lock
    agent,      \* agent[a]: what exists on the machine for agent a
    own,        \* own[a]: the access policy in the home of agent a
    session,    \* session[s]: whose session s is and the call it works on
    clock,
    revoked     \* history: the agents whose revocation was stored

accessVars == <<store, holder, helper, enroller, agent, own, session, clock, revoked>>

\* A file that is missing or unusable; limits.json is told by its profile.
None == [missing |-> TRUE]
Broken == [missing |-> FALSE]
Values == [policy |-> Policies,
           limits |-> {[profile |-> p] : p \in {"auto", "small", "custom"}}]

Permissive == [enabled |-> TRUE, cap |-> "unrestricted", tools |-> Tools, roots |-> AnyRoot]
Paused == [enabled |-> FALSE, cap |-> "read-only", tools |-> {}, roots |-> AnyRoot]

Absent == [account |-> FALSE, home |-> FALSE, key |-> FALSE, policy |-> None]

InitAccess ==
    /\ store \in [policy : {None, Broken}, limits : {None, Broken}]
    /\ holder = Nobody
    /\ helper = [h \in Helpers |-> [step |-> "idle"]]
    /\ enroller = Nobody
    /\ agent = [a \in Agents |-> Absent]
    /\ own \in [Agents -> {None} \cup Policies]
    /\ session = [s \in Sessions |-> [step |-> "closed"]]
    /\ clock = 0
    /\ revoked = {}

-----------------------------------------------------------------------------
(* The access policy and the limits                                        *)

\* load_policy: a missing file permits everything, an unusable one nothing.
Loaded(content) ==
    CASE content = None -> Permissive
      [] content = Broken -> Paused
      [] OTHER -> content

HelperAt(h, step) == helper[h].step = step
HelperTo(h, step) == helper' = [helper EXCEPT ![h].step = step]
HelperEnds(h) == helper' = [helper EXCEPT ![h] = [step |-> "idle"]]

\* get_access_policy, get_workspace_settings: an operator looks at a file and
\* prepares a new value for it.
Review(h, f, value) ==
    /\ HelperAt(h, "idle")
    /\ helper' = [helper EXCEPT ![h] = [step |-> "save", file |-> f, seen |-> store[f], value |-> value]]
    /\ UNCHANGED <<store, holder, enroller, agent, own, session, clock, revoked>>

\* save_access_policy, save_workspace_settings: the lock of both files, or none.
SaveLocks(h) ==
    /\ HelperAt(h, "save")
    /\ IF holder = Nobody THEN holder' = h /\ HelperTo(h, "locked")
       ELSE HelperEnds(h) /\ UNCHANGED holder
    /\ UNCHANGED <<store, enroller, agent, own, session, clock, revoked>>

\* Mutant: the revision is not compared.
SaveComparesNot(h) ==
    /\ HelperAt(h, "locked")
    /\ HelperTo(h, "replace")
    /\ UNCHANGED <<store, holder, enroller, agent, own, session, clock, revoked>>

\* Under the lock: another revision than the one reviewed is a conflict.
SaveCompares(h) ==
    /\ HelperAt(h, "locked")
    /\ IF store[helper[h].file] = helper[h].seen
       THEN HelperTo(h, "replace") /\ UNCHANGED holder
       ELSE HelperEnds(h) /\ holder' = Nobody
    /\ UNCHANGED <<store, enroller, agent, own, session, clock, revoked>>

SaveReplaces(h) ==
    /\ HelperAt(h, "replace")
    /\ store' = [store EXCEPT ![helper[h].file] = helper[h].value]
    /\ holder' = Nobody
    /\ HelperEnds(h)
    /\ UNCHANGED <<enroller, agent, own, session, clock, revoked>>

-----------------------------------------------------------------------------
(* Enrollment and revocation                                               *)

\* Before the account is made everything is validated; an agent of which a
\* policy, a home or an account exists is refused, and so is one too many.
CreateAgent(h, a, roots) ==
    /\ HelperAt(h, "idle")
    /\ enroller = Nobody
    /\ agent[a] = Absent
    /\ Cardinality({b \in Agents : agent[b].policy # None}) < MaxAgents
    /\ enroller' = h
    /\ helper' = [helper EXCEPT ![h] = [step |-> "account", agent |-> a, roots |-> roots]]
    /\ UNCHANGED <<store, holder, agent, own, session, clock, revoked>>

Makes(h, step, part, next) ==
    /\ HelperAt(h, step)
    /\ agent' = [agent EXCEPT ![helper[h].agent][part] = TRUE]
    /\ HelperTo(h, next)
    /\ UNCHANGED <<store, holder, enroller, own, session, clock, revoked>>

MakeAccount(h) == Makes(h, "account", "account", "home")
MakeHome(h) == Makes(h, "home", "home", "key")
MakeKey(h) == Makes(h, "key", "key", "policy")

\* The policy comes last: until then nobody is served.
MakePolicy(h, until) ==
    /\ HelperAt(h, "policy")
    /\ until \in (clock + 1)..MaxClock
    /\ agent' = [agent EXCEPT ![helper[h].agent].policy =
                    [enabled |-> TRUE, roots |-> helper[h].roots, until |-> until]]
    /\ enroller' = Nobody
    /\ HelperEnds(h)
    /\ UNCHANGED <<store, holder, own, session, clock, revoked>>

RevokeAgent(h, a) ==
    /\ HelperAt(h, "idle")
    /\ enroller = Nobody
    /\ agent[a].policy # None
    /\ enroller' = h
    /\ agent' = [agent EXCEPT ![a].policy.enabled = FALSE]
    /\ revoked' = revoked \cup {a}
    /\ helper' = [helper EXCEPT ![h] = [step |-> "unlink", agent |-> a]]
    /\ UNCHANGED <<store, holder, own, session, clock>>

RevokeKey(h) ==
    /\ HelperAt(h, "unlink")
    /\ agent' = [agent EXCEPT ![helper[h].agent].key = FALSE]
    /\ enroller' = Nobody
    /\ HelperEnds(h)
    /\ UNCHANGED <<store, holder, own, session, clock, revoked>>

\* Any operation may fail at any step, or its process die.
HelperFails(h) ==
    /\ ~HelperAt(h, "idle")
    /\ HelperEnds(h)
    /\ holder' = IF holder = h THEN Nobody ELSE holder
    /\ enroller' = IF enroller = h THEN Nobody ELSE enroller
    /\ UNCHANGED <<store, agent, own, session, clock, revoked>>

-----------------------------------------------------------------------------
(* Sessions and calls                                                      *)

\* Mutant: an agent is live until its policy ends.
LiveToItsEnd(a) == agent[a].policy # None /\ agent[a].policy.until > clock

Live(a) == agent[a].policy # None /\ agent[a].policy.enabled /\ agent[a].policy.until > clock

\* sshd accepts the key and forces `serve`, which wants a live policy.
Login(s, a) ==
    /\ session[s].step = "closed"
    /\ agent[a].account /\ agent[a].key
    /\ Live(a)
    /\ session' = [session EXCEPT ![s] = [step |-> "open", who |-> a]]
    /\ UNCHANGED <<store, holder, helper, enroller, agent, own, clock, revoked>>

OperatorLogin(s) ==
    /\ session[s].step = "closed"
    /\ session' = [session EXCEPT ![s] = [step |-> "open", who |-> Operator]]
    /\ UNCHANGED <<store, holder, helper, enroller, agent, own, clock, revoked>>

Steps(s, next) ==
    /\ session' = [session EXCEPT ![s] = next]
    /\ UNCHANGED <<store, holder, helper, enroller, agent, own, clock, revoked>>

\* access_denial asks the gateway first: an agent that is not live is refused,
\* and so is a tool its profile does not have.
\* `since` remembers whether the agent was revoked when the call came in.
Enter(s, tool) ==
    /\ session[s].step = "open"
    /\ LET w == session[s].who IN
       /\ w # Operator => Live(w) /\ tool \in ProfileTools
       /\ Steps(s, [step |-> "entered", who |-> w, tool |-> tool, since |-> w \in revoked])

\* The shared policy is the one in the home of the account.
Shared(s) == Loaded(IF session[s].who = Operator THEN store["policy"] ELSE own[session[s].who])

Admit(s) ==
    /\ session[s].step = "entered"
    /\ LET p == Shared(s) IN
       IF p.enabled /\ session[s].tool \in p.tools
       THEN Steps(s, [session[s] EXCEPT !.step = "running"])
       ELSE Steps(s, [step |-> "open", who |-> session[s].who])

\* Mutant: a root of the agent above the operator's counts as well.
IntersectionOfEither(ours, theirs) ==
    {r \in ours : \E t \in theirs : IsPrefix(t, r) \/ IsPrefix(r, t)}

\* managed_project_roots: the directories under both lists, where within a pair
\* the deeper root counts.
Intersection(ours, theirs) ==
    {r \in ours : \E t \in theirs : IsPrefix(t, r)}
        \cup {t \in theirs : \E r \in ours : IsPrefix(r, t)}

Lower(m, n) == IF "read-only" \in {m, n} THEN "read-only"
               ELSE IF "controlled" \in {m, n} THEN "controlled" ELSE "unrestricted"

\* mode_cap and managed_project_roots, asked by a running call for its change:
\* the shared policy and, in a gateway session, the agent's, which grants
\* nothing once it is not live.
Resolve(s) ==
    /\ session[s].step = "running"
    /\ LET w == session[s].who
           p == Shared(s)
           cap == IF p.enabled THEN p.cap ELSE "read-only"
           mine == IF w = Operator THEN [cap |-> cap, roots |-> AnyRoot]
                   ELSE IF Live(w) THEN [cap |-> "controlled", roots |-> agent[w].policy.roots]
                   ELSE [cap |-> "read-only", roots |-> {}]
       IN Steps(s, [step |-> "acting", who |-> w, since |-> session[s].since,
                    cap |-> Lower(cap, mine.cap), roots |-> Intersection(mine.roots, p.roots),
                    lists |-> <<p.roots, mine.roots>>, withdrawn |-> w \in revoked])

Return(s) ==
    /\ session[s].step \in {"running", "acting"}
    /\ Steps(s, [step |-> "open", who |-> session[s].who])

Leave(s) ==
    /\ session[s].step = "open"
    /\ Steps(s, [step |-> "closed"])

AccessTick ==
    /\ clock < MaxClock
    /\ clock' = clock + 1
    /\ UNCHANGED <<store, holder, helper, enroller, agent, own, session, revoked>>

NextAccess ==
    \/ AccessTick
    \/ \E h \in Helpers :
        \/ \E f \in DOMAIN Values : \E v \in Values[f] : Review(h, f, v)
        \/ SaveLocks(h) \/ SaveCompares(h) \/ SaveReplaces(h) \/ HelperFails(h)
        \/ MakeAccount(h) \/ MakeHome(h) \/ MakeKey(h) \/ RevokeKey(h)
        \/ \E until \in 1..MaxClock : MakePolicy(h, until)
        \/ \E a \in Agents : RevokeAgent(h, a) \/ \E r \in RootLists \ {AnyRoot} : CreateAgent(h, a, r)
    \/ \E s \in Sessions :
        \/ OperatorLogin(s) \/ Admit(s) \/ Resolve(s) \/ Return(s) \/ Leave(s)
        \/ \E a \in Agents : Login(s, a)
        \/ \E tool \in Tools : Enter(s, tool)

SpecAccess == InitAccess /\ [][NextAccess]_accessVars

-----------------------------------------------------------------------------
(* Properties                                                              *)

\* save_access_policy and save_workspace_settings: a save replaces exactly the
\* content its operator looked at, for two helpers at once too.  The content
\* may have changed and changed back in between: then the hash, and with it
\* the revision, is the one reviewed.
SavesWhatWasSeen ==
    [][\A f \in DOMAIN store : store'[f] # store[f] =>
          \E h \in Helpers : /\ helper[h].step \in {"locked", "replace"}
                              /\ helper[h].file = f
                              /\ helper[h].seen = store[f]]_accessVars

\* create_agent: concurrent enrollments, failed ones included, never put more
\* policies on the machine than MAX_AGENTS, and a policy is the last part of a
\* whole account.
EnrolledWhole ==
    /\ Cardinality({a \in Agents : agent[a].policy # None}) <= MaxAgents
    /\ \A a \in Agents : agent[a].policy # None =>
          agent[a].account /\ agent[a].home /\ (agent[a].key \/ a \in revoked)

\* revoke_agent: no call that comes in after the revocation was stored runs, a
\* call that came in before obtains no more than read-only afterwards, and no
\* enrollment brings the agent back; enrollment itself is whole.
RevokedStaysOut ==
    /\ EnrolledWhole
    /\ \A a \in revoked : ~agent[a].policy.enabled
    /\ \A s \in Sessions : session[s].step \in {"running", "acting"} => ~session[s].since
    /\ \A s \in Sessions :
          session[s].step = "acting" /\ session[s].withdrawn => session[s].cap = "read-only"

Covers(list, path) == \E r \in list : IsPrefix(r, path)

\* managed_project_roots: a change may touch exactly what both lists permit,
\* whichever of two nested roots is in which list.
RootsAreCapped ==
    \A s \in Sessions : session[s].step = "acting" =>
        \A path \in UNION RootLists :
            Covers(session[s].roots, path) <=> \A i \in 1..2 : Covers(session[s].lists[i], path)
=============================================================================
