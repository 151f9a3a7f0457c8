--------------------------- MODULE OperatorProofs ---------------------------
(***************************************************************************)
(* Proofs about what the operator uses: configuration deployments, for any *)
(* number of calls, plans, contents and edits, any limits and any life of  *)
(* a plan; the panel, for any connections, requests and changes; the       *)
(* reports on the host, for any areas, items, changes and clock; and the   *)
(* access policy, for any helpers, agents, sessions, policies and roots.   *)
(***************************************************************************)
EXTENDS ConfigDeploy, Panel, HostReports, AccessControl, FiniteSetTheorems, TLAPS

-----------------------------------------------------------------------------
(* Configuration deployments                                               *)

Contents == Configs \cup {Missing}

\* The steps of a call that found a plan.
Before == {"check", "authorize", "claim", "write"}
After == {"reload", "active", "undo", "again", "finish"}

Call == [step : {"idle"}]
        \cup [step : {"plan"}, base : Contents, content : Configs]
        \cup [step : Before \cup After, plan : Plans, bearing : BOOLEAN, found : Contents,
              result : {"none", "ok", "rolled_back", "stuck", "failed"}]

Plan == [state : {"unborn"}]
        \cup [state : {"ready", "executing"}, base : Contents, content : Configs, ends : Nat]

DeployTypeOK ==
    /\ live \in Contents
    /\ plan \in [Plans -> Plan]
    /\ deployer \in [Deployers -> Call]
    /\ controlled \in BOOLEAN
    /\ token \in [Plans -> SUBSET {"issued", "spent"}]
    /\ hour \in Nat
    /\ touched \subseteq Deployers
    /\ written \in [Plans -> Nat]

\* A plan is written at most once, when it is taken and after its token is spent.
WrittenOnce ==
    \A d \in Plans :
        /\ written[d] <= 1
        /\ written[d] = 1 => plan[d].state = "executing"
        /\ written[d] = 1 /\ controlled => "spent" \in token[d]

Holds(c, d) == deployer[c].step \in Before /\ deployer[c].plan = d

\* What a call that has not written yet may rely on: its plan exists, its token
\* is spent before it claims, and the call that writes has the plan for itself.
CallsSound ==
    \A c \in Deployers, d \in Plans : Holds(c, d) =>
        /\ plan[d].state # "unborn"
        /\ DeployerAt(c, "claim") \/ DeployerAt(c, "write") => (controlled => "spent" \in token[d])
        /\ DeployerAt(c, "write") =>
              /\ plan[d].state = "executing"
              /\ written[d] = 0
              /\ \A e \in Deployers : Holds(e, d) /\ DeployerAt(e, "write") => e = c
        /\ ~DeployerAt(c, "check") => live = plan[d].base \/ c \in touched

DeployInv == DeployTypeOK /\ WrittenOnce /\ CallsSound

\* What a call nobody interfered with may say of the file and the server.
ResultsSound ==
    \A c \in Deployers : deployer[c].step \in Before \cup After =>
        /\ plan[deployer[c].plan].state # "unborn"
        /\ DeployerAt(c, "again") => deployer[c].result # "ok"
        /\ c \notin touched =>
              /\ \/ DeployerAt(c, "reload") \/ DeployerAt(c, "active")
                 \/ DeployerAt(c, "finish") /\ deployer[c].result = "ok"
                 => live = plan[deployer[c].plan].content
              /\ \/ DeployerAt(c, "active")
                 \/ DeployerAt(c, "finish") /\ deployer[c].result = "ok"
                 => running = live
              /\ \/ DeployerAt(c, "again") \/ DeployerAt(c, "finish")
                 => (deployer[c].result = "rolled_back" => live = deployer[c].found)

LEMMA InitInv == InitDeploy => DeployInv
PROOF
  BY DeployAssumption
  DEF InitDeploy, DeployInv, DeployTypeOK, WrittenOnce, CallsSound, Holds, Before, Call, Plan,
      Contents, Unborn

\* The type of every variable survives every step; what is written has one
\* because the plan of a call exists.
LEMMA TypeStep == DeployInv /\ [NextDeploy]_deployVars => DeployTypeOK'
PROOF
  <1> SUFFICES ASSUME DeployInv, [NextDeploy]_deployVars
               PROVE  DeployTypeOK'
    OBVIOUS
  <1> DeployTypeOK /\ CallsSound
    BY DEF DeployInv
  <1> USE DeployAssumption
      DEF DeployTypeOK, Contents, Call, Plan, Before, After, DeployerAt, DeployerTo, DeployerEnds
  <1>1. CASE HourPasses
    BY <1>1 DEF HourPasses
  <1>2. ASSUME NEW content \in Configs, Edit(content)
        PROVE  DeployTypeOK'
    BY <1>2 DEF Edit
  <1>3. ASSUME NEW c \in Deployers, Check(c)
        PROVE  DeployTypeOK'
    BY <1>3 DEF Check
  <1>4. ASSUME NEW c \in Deployers, Authorize(c)
        PROVE  DeployTypeOK'
    BY <1>4 DEF Authorize
  <1>5. ASSUME NEW c \in Deployers, Claim(c)
        PROVE  DeployTypeOK'
    BY <1>5 DEF Claim
  <1>6. ASSUME NEW c \in Deployers, Write(c)
        PROVE  DeployTypeOK'
    <2> DEFINE d == deployer[c].plan
    <2>1. d \in Plans
      BY <1>6 DEF Write
    <2>2. deployer' \in [Deployers -> Call]
      BY <1>6 DEF Write, Result
    <2>3. live' \in Contents /\ written' \in [Plans -> Nat] /\ touched' \subseteq Deployers
      <3>1. plan[d].state # "unborn"
        BY <1>6, <2>1 DEF Write, CallsSound, Holds
      <3>2. plan[d].content \in Configs
        BY <2>1, <3>1
      <3>3. QED
        BY <1>6, <2>1, <3>2 DEF Write, Touch
    <2>4. QED
      BY <1>6, <2>2, <2>3 DEF Write
  <1>7. ASSUME NEW c \in Deployers, Reload(c) \/ IsActive(c) \/ ReloadAgain(c) \/ Finish(c)
        PROVE  DeployTypeOK'
    BY <1>7 DEF Reload, IsActive, ReloadAgain, Finish, Result, Touch
  <1>8. ASSUME NEW c \in Deployers, Undo(c)
        PROVE  DeployTypeOK'
    BY <1>8 DEF Undo, Touch
  <1>9. ASSUME NEW c \in Deployers, NEW content \in Configs, PlanConfig(c, content)
        PROVE  DeployTypeOK'
    BY <1>9 DEF PlanConfig
  <1>10. ASSUME NEW c \in Deployers, NEW d \in Plans, StorePlan(c, d)
         PROVE  DeployTypeOK'
    BY <1>10 DEF StorePlan, Ready
  <1>11. ASSUME NEW c \in Deployers, NEW d \in Plans, NEW bearing \in BOOLEAN, Lookup(c, d, bearing)
         PROVE  DeployTypeOK'
    BY <1>11 DEF Lookup
  <1>12. CASE UNCHANGED deployVars
    BY <1>12 DEF deployVars
  <1> QED
    BY <1>1, <1>2, <1>3, <1>4, <1>5, <1>6, <1>7, <1>8, <1>9, <1>10, <1>11, <1>12 DEF NextDeploy

-----------------------------------------------------------------------------

\* So do the two parts on plans and calls.
LEMMA SoundStep == DeployInv /\ [NextDeploy]_deployVars => (WrittenOnce /\ CallsSound)'
PROOF
  <1> SUFFICES ASSUME DeployInv, [NextDeploy]_deployVars
               PROVE  (WrittenOnce /\ CallsSound)'
    OBVIOUS
  <1> DeployTypeOK /\ WrittenOnce /\ CallsSound /\ DeployTypeOK'
    BY TypeStep DEF DeployInv
  <1> USE DeployAssumption
      DEF DeployTypeOK, Contents, Call, Plan, WrittenOnce, CallsSound, Holds, Before, After,
          DeployerAt, DeployerTo, DeployerEnds
  <1>1. CASE HourPasses
    BY <1>1 DEF HourPasses
  <1>2. ASSUME NEW content \in Configs, Edit(content)
        PROVE  (WrittenOnce /\ CallsSound)'
    BY <1>2 DEF Edit
  <1>3. ASSUME NEW c \in Deployers, Check(c)
        PROVE  (WrittenOnce /\ CallsSound)'
    BY <1>3 DEF Check
  <1>4. ASSUME NEW c \in Deployers, Authorize(c)
        PROVE  (WrittenOnce /\ CallsSound)'
    BY <1>4 DEF Authorize
  <1>5. ASSUME NEW c \in Deployers, Claim(c)
        PROVE  (WrittenOnce /\ CallsSound)'
    BY <1>5 DEF Claim
  <1>6. ASSUME NEW c \in Deployers, Write(c)
        PROVE  (WrittenOnce /\ CallsSound)'
    BY <1>6 DEF Write, Result, Touch
  <1>7. ASSUME NEW c \in Deployers, Reload(c) \/ IsActive(c) \/ ReloadAgain(c) \/ Finish(c)
        PROVE  (WrittenOnce /\ CallsSound)'
    BY <1>7 DEF Reload, IsActive, ReloadAgain, Finish, Result, Touch
  <1>8. ASSUME NEW c \in Deployers, Undo(c)
        PROVE  (WrittenOnce /\ CallsSound)'
    BY <1>8 DEF Undo, Touch
  <1>9. ASSUME NEW c \in Deployers, NEW content \in Configs, PlanConfig(c, content)
        PROVE  (WrittenOnce /\ CallsSound)'
    BY <1>9 DEF PlanConfig
  <1>10. ASSUME NEW c \in Deployers, NEW d \in Plans, StorePlan(c, d)
         PROVE  (WrittenOnce /\ CallsSound)'
    BY <1>10 DEF StorePlan, Ready, Unborn
  <1>11. ASSUME NEW c \in Deployers, NEW d \in Plans, NEW bearing \in BOOLEAN, Lookup(c, d, bearing)
         PROVE  (WrittenOnce /\ CallsSound)'
    BY <1>11 DEF Lookup
  <1>12. CASE UNCHANGED deployVars
    BY <1>12 DEF deployVars
  <1> QED
    BY <1>1, <1>2, <1>3, <1>4, <1>5, <1>6, <1>7, <1>8, <1>9, <1>10, <1>11, <1>12 DEF NextDeploy

-----------------------------------------------------------------------------

\* And what a call says of its result: the others mark it when they change the
\* file or reload the server.
LEMMA ResultStep == DeployInv /\ ResultsSound /\ [NextDeploy]_deployVars => ResultsSound'
PROOF
  <1> SUFFICES ASSUME DeployInv, ResultsSound, [NextDeploy]_deployVars
               PROVE  ResultsSound'
    OBVIOUS
  <1> DeployTypeOK /\ ResultsSound /\ DeployTypeOK'
    BY TypeStep DEF DeployInv
  <1> USE DeployAssumption
      DEF DeployTypeOK, Contents, Call, Plan, ResultsSound, Before, After,
          DeployerAt, DeployerTo, DeployerEnds
  <1>1. CASE HourPasses
    BY <1>1 DEF HourPasses
  <1>2. ASSUME NEW content \in Configs, Edit(content)
        PROVE  ResultsSound'
    BY <1>2 DEF Edit
  <1>3. ASSUME NEW c \in Deployers, Check(c)
        PROVE  ResultsSound'
    BY <1>3 DEF Check
  <1>4. ASSUME NEW c \in Deployers, Authorize(c)
        PROVE  ResultsSound'
    BY <1>4 DEF Authorize
  <1>5. ASSUME NEW c \in Deployers, Claim(c)
        PROVE  ResultsSound'
    BY <1>5 DEF Claim
  <1>6. ASSUME NEW c \in Deployers, Write(c)
        PROVE  ResultsSound'
    BY <1>6 DEF Write, Result, Touch
  <1>7. ASSUME NEW c \in Deployers, Reload(c) \/ IsActive(c) \/ ReloadAgain(c) \/ Finish(c)
        PROVE  ResultsSound'
    BY <1>7 DEF Reload, IsActive, ReloadAgain, Finish, Result, Touch
  <1>8. ASSUME NEW c \in Deployers, Undo(c)
        PROVE  ResultsSound'
    BY <1>8 DEF Undo, Touch
  <1>9. ASSUME NEW c \in Deployers, NEW content \in Configs, PlanConfig(c, content)
        PROVE  ResultsSound'
    BY <1>9 DEF PlanConfig
  <1>10. ASSUME NEW c \in Deployers, NEW d \in Plans, StorePlan(c, d)
         PROVE  ResultsSound'
    BY <1>10 DEF StorePlan, Ready, Unborn
  <1>11. ASSUME NEW c \in Deployers, NEW d \in Plans, NEW bearing \in BOOLEAN, Lookup(c, d, bearing)
         PROVE  ResultsSound'
    BY <1>11 DEF Lookup
  <1>12. CASE UNCHANGED deployVars
    BY <1>12 DEF deployVars
  <1> QED
    BY <1>1, <1>2, <1>3, <1>4, <1>5, <1>6, <1>7, <1>8, <1>9, <1>10, <1>11, <1>12 DEF NextDeploy

-----------------------------------------------------------------------------

\* Every variable of the deployments keeps its type, a plan is taken before it
\* is written, and a call that is about to write has its plan for itself
\* (deploy_config_change).
THEOREM DeployInvariant == SpecDeploy => []DeployInv
PROOF
  <1>1. DeployInv /\ [NextDeploy]_deployVars => DeployInv'
    BY TypeStep, SoundStep DEF DeployInv
  <1> QED
    BY InitInv, <1>1, PTL DEF SpecDeploy

\* However many calls deploy one plan, it is written at most once, after its
\* token was spent in a controlled mode, and over the content it was reviewed
\* against unless another changed the file after the check of that call.
THEOREM DeployDeployedOnce == SpecDeploy => DeployedOnce
PROOF
  <1> DEFINE Once == \A d \in Plans :
                        written[d] <= 1 /\ (written[d] = 1 /\ controlled => "spent" \in token[d])
             Reviewed == \A c \in Deployers :
                        DeployerAt(c, "write") /\ ~DeployerAt(c, "write")' /\ live' # live =>
                            live = plan[deployer[c].plan].base \/ c \in touched
  <1>1. DeployInv => Once
    BY DEF DeployInv, WrittenOnce
  <1>2. DeployInv => Reviewed
    BY DEF DeployInv, DeployTypeOK, CallsSound, Holds, DeployerAt, Call, Before, After
  <1>3. []DeployInv => []Once /\ [][Reviewed]_deployVars
    BY <1>1, <1>2, PTL
  <1> QED
    BY <1>3, DeployInvariant DEF DeployedOnce, ReplacesTheReviewed

\* The result that deploy_config_change reports is true of a call whose file and
\* server nobody else changed since it looked: "ok" is live and running, and a
\* rollback left the file as the call had found it.
THEOREM DeployResultIsTrue == SpecDeploy => []ResultIsTrue
PROOF
  <1>1. InitDeploy => ResultsSound
    BY DEF InitDeploy, ResultsSound, Before, After, DeployerAt
  <1>2. ResultsSound => ResultIsTrue
    BY DEF ResultsSound, ResultIsTrue, Before, After, DeployerAt
  <1> QED
    BY <1>1, <1>2, ResultStep, DeployInvariant, PTL DEF SpecDeploy

-----------------------------------------------------------------------------
(* The panel                                                               *)

Names == Access \cup AgentRequests \cup MissionReview \cup MissionTask \cup {"list_operator_projects"}

Thread == [at : {"none", "greet", "loop", "poll", "settle", "raised", "complain", "exit", "leaving"}]
          \cup [at : {"operator"}, name : Names, link : Nat]
          \cup [at : {"reply"}, name : Names, outcome : {"ok", "refused", "lost"},
                seen : [Aspects -> Nat]]

PanelTypes ==
    /\ conn \in {"disconnected", "connecting", "connected", "disconnecting", "error"}
    /\ link \in Nat
    /\ stop \in BOOLEAN
    /\ busy \in BOOLEAN
    /\ job \in {NoJob} \cup [name : Names, link : Nat]
    /\ supported \subseteq {"access", "rest"}
    /\ shown \in [Fields -> {Blank} \cup [link : Nat, version : Nat]]
    /\ thread \in Thread
    /\ remote \in [Aspects -> Nat]
    /\ changed \in [Aspects -> Nat]

\* What is queued, runs or is on display belongs to the present connection.
OfThisLink ==
    /\ job # NoJob => job.link = link
    /\ At("operator") => thread.link = link
    /\ \A f \in Fields : shown[f] # Blank => ~stop /\ shown[f].link = link

\* The server is never behind what is shown, what a reply brings or what was
\* changed; and a reply is never behind either.
ServerAhead ==
    \A f \in Aspects :
        /\ changed[f] <= remote[f]
        /\ shown[f] # Blank => shown[f].version <= remote[f]
        /\ At("reply") =>
              /\ changed[f] <= thread.seen[f]
              /\ thread.seen[f] <= remote[f]
              /\ shown[f] # Blank => shown[f].version <= thread.seen[f]

\* Until its reply is stored, a request may have left behind only the fields
\* that are withdrawn if it fails.
NotBehind ==
    /\ \A f \in Aspects : shown[f] # Blank /\ (At("reply") => f \notin Withdraws(thread.name)) =>
           shown[f].version >= changed[f]
    /\ shown["projects"] # Blank /\ shown["access"] # Blank =>
           shown["projects"].version >= shown["access"].version

PanelInv == PanelTypes /\ OfThisLink /\ ServerAhead /\ NotBehind

LEMMA RequestKinds ==
    ASSUME NEW name \in Names, NEW f \in Withdraws(name)
    PROVE  f \in Aspects \ {"access"} /\ (f \in Stores(name) \/ shown[f] = Blank)
BY DEF Names, Withdraws, Stores, Access, AgentRequests, MissionReview, MissionTask, Aspects, Fields

\* A reply about the access policy, and only such a reply, is shown as one, and
\* it discards the projects; a list of projects leaves the policy as it is.
LEMMA ProjectsFollowAccess ==
    ASSUME NEW name \in Names
    PROVE  /\ Stores(name) \subseteq Fields
           /\ "access" \in Stores(name) => "projects" \in Discards(name) /\ "projects" \notin Stores(name)
           /\ "access" \notin Discards(name) /\ "access" \notin Withdraws(name)
<1>1. CASE name \in Access
  BY <1>1 DEF Names, Withdraws, Stores, Discards, Access, AgentRequests, MissionReview, MissionTask, Aspects, Fields
<1>2. CASE name \notin Access
  BY <1>2 DEF Names, Withdraws, Stores, Discards, Access, AgentRequests, MissionReview, MissionTask, Aspects, Fields
<1>3. QED BY <1>1, <1>2

LEMMA InitPanelInv == InitPanel => PanelInv
<1> SUFFICES ASSUME InitPanel PROVE PanelInv
  OBVIOUS
<1>1. \A f \in Fields : shown[f] = Blank
  BY DEF InitPanel, Cleared
<1>2. Aspects \cup {"projects", "access"} \subseteq Fields
  BY DEF Fields, Aspects
<1>3. thread \in Thread /\ thread.at = "none"
  BY DEF InitPanel, Thread
<1>4. PanelTypes
  BY <1>3 DEF InitPanel, PanelTypes, Cleared
<1> QED BY <1>1, <1>2, <1>3, <1>4 DEF InitPanel, PanelInv, OfThisLink, ServerAhead, NotBehind, At

LEMMA ConnectKeeps == PanelInv /\ Connect => PanelInv'
<1> SUFFICES ASSUME PanelInv, Connect PROVE PanelInv'
  OBVIOUS
<1>1. \A f \in Fields : shown'[f] = Blank
  BY DEF Connect, Cleared
<1>2. Aspects \cup {"projects", "access"} \subseteq Fields
  BY DEF Fields, Aspects
<1>3. thread' \in Thread /\ thread'.at = "greet"
  BY DEF Connect, To, Thread
<1>4. PanelTypes'
  <2>1. stop' \in BOOLEAN /\ busy' \in BOOLEAN
    BY Zenon DEF Connect
  <2>2. link' \in Nat /\ supported' \subseteq {"access", "rest"} /\ remote' \in [Aspects -> Nat]
    BY DEF Connect, PanelInv, PanelTypes
  <2>3. shown' \in [Fields -> {Blank} \cup [link : Nat, version : Nat]] /\ changed' \in [Aspects -> Nat]
    BY DEF Connect, Cleared
  <2> QED BY <1>3, <2>1, <2>2, <2>3 DEF Connect, PanelTypes
<1>5. \A f \in Aspects : changed'[f] = 0 /\ remote'[f] \in Nat
  BY DEF Connect, PanelInv, PanelTypes
<1> QED BY <1>1, <1>2, <1>3, <1>4, <1>5 DEF Connect, PanelInv, OfThisLink, ServerAhead, NotBehind, At

LEMMA DisconnectKeeps == PanelInv /\ Disconnect => PanelInv'
BY DEF Disconnect, PanelInv, PanelTypes, OfThisLink, ServerAhead, NotBehind, Thread, At, To, Cleared,
       Fields, Aspects

LEMMA QueueKeeps ==
    ASSUME PanelInv, NEW kinds, NEW support, Queue(kinds, support), Requests \subseteq Names
    PROVE  PanelInv'
BY DEF Queue, PanelInv, PanelTypes, OfThisLink, ServerAhead, NotBehind, At, Withdraws

LEMMA ElsewhereKeeps ==
    ASSUME PanelInv, NEW f \in Aspects, ChangeElsewhere(f)
    PROVE  PanelInv'
<1>1. PanelTypes'
  BY DEF ChangeElsewhere, PanelInv, PanelTypes
<1>2. \A g \in Aspects : remote'[g] >= remote[g] /\ remote'[g] \in Nat
  BY DEF ChangeElsewhere, PanelInv, PanelTypes
<1>3. OfThisLink' /\ NotBehind'
  BY DEF ChangeElsewhere, PanelInv, OfThisLink, NotBehind, At, Withdraws
<1>4. \A g \in Aspects : changed[g] \in Nat /\ remote[g] \in Nat
                        /\ (shown[g] # Blank => shown[g].version \in Nat)
                        /\ (At("reply") => thread.seen[g] \in Nat)
  BY DEF PanelInv, PanelTypes, Thread, At, Fields
<1>5. ServerAhead'
  BY <1>2, <1>4 DEF ChangeElsewhere, PanelInv, ServerAhead, At
<1> QED BY <1>1, <1>3, <1>5 DEF PanelInv

\* Steps of the thread that carry no request.
LEMMA IdleKeeps ==
    ASSUME PanelInv, ~At("reply"), UNCHANGED <<link, stop, job, shown, remote, changed, supported>>,
           thread' \in [at : {"none", "loop", "poll", "settle", "raised", "complain", "exit", "leaving"}],
           conn' \in {conn, "connected", "disconnected", "error"}, busy' \in BOOLEAN
    PROVE  PanelInv'
<1>1. thread' \in Thread /\ ~At("reply")' /\ ~At("operator")'
  BY DEF Thread, At
<1>2. PanelTypes'
  BY <1>1 DEF PanelInv, PanelTypes
<1> QED BY <1>1, <1>2 DEF PanelInv, OfThisLink, ServerAhead, NotBehind

LEMMA WaitingKeeps ==
    PanelInv /\ (Settle \/ Poll \/ Raised \/ Complain \/ Exit \/ Die) => PanelInv'
<1>1. PanelInv /\ Settle => PanelInv'
  <2> SUFFICES ASSUME PanelInv, Settle PROVE PanelInv'
    OBVIOUS
  <2>1. busy' \in BOOLEAN
    BY Zenon DEF Settle
  <2> QED BY <2>1, IdleKeeps DEF Settle, At, To
<1>2. PanelInv /\ Poll => PanelInv'
  BY IdleKeeps DEF Poll, At, To, PanelInv, PanelTypes
<1>3. PanelInv /\ (Raised \/ Complain \/ Exit \/ Die) => PanelInv'
  BY IdleKeeps DEF Raised, Complain, Exit, Die, At, To, PanelInv, PanelTypes
<1> QED BY <1>1, <1>2, <1>3

\* A request starts to run, on the connection it was made for.
LEMMA RequestStarts ==
    ASSUME PanelInv, ~At("reply"), NEW name \in Names,
           thread' = [at |-> "operator", name |-> name, link |-> link],
           UNCHANGED <<link, stop, conn, shown, remote, changed>>,
           job' \in {job, NoJob}, busy' \in BOOLEAN, supported' \subseteq {"access", "rest"}
    PROVE  PanelInv'
<1>1. thread' \in Thread /\ ~At("reply")' /\ thread'.link = link
  BY DEF Thread, At, PanelInv, PanelTypes
<1>2. PanelTypes'
  BY <1>1 DEF PanelInv, PanelTypes
<1> QED BY <1>1, <1>2 DEF PanelInv, OfThisLink, ServerAhead, NotBehind

LEMMA GreetKeeps == PanelInv /\ Greet => PanelInv'
<1> SUFFICES ASSUME PanelInv, Greet PROVE PanelInv'
  OBVIOUS
<1>1. CASE thread' = [at |-> "operator", name |-> "get_access_policy", link |-> link] /\ conn' = conn
  BY <1>1, RequestStarts DEF Greet, At, Names, Access, PanelInv, PanelTypes
<1>2. CASE To("loop") \/ To("exit") \/ To("raised")
  <2>1. UNCHANGED supported
    BY <1>2 DEF Greet, To
  <2> QED BY <1>2, <2>1, IdleKeeps DEF Greet, At, To, PanelInv, PanelTypes
<1> QED BY <1>1, <1>2 DEF Greet

LEMMA TurnKeeps == PanelInv /\ Turn => PanelInv'
<1> SUFFICES ASSUME PanelInv, Turn PROVE PanelInv'
  OBVIOUS
<1>1. CASE stop \/ job = NoJob
  BY <1>1, IdleKeeps DEF Turn, At, To, PanelInv, PanelTypes
<1>2. CASE ~stop /\ job # NoJob
  <2>1. job.name \in Names /\ job.link = link
    BY <1>2 DEF PanelInv, PanelTypes, OfThisLink
  <2> QED BY <1>2, <2>1, RequestStarts DEF Turn, At, To, PanelInv, PanelTypes
<1> QED BY <1>1, <1>2 DEF Turn, PanelInv, PanelTypes

LEMMA PerformKeeps == PanelInv /\ Perform => PanelInv'
<1> SUFFICES ASSUME PanelInv, Perform PROVE PanelInv'
  OBVIOUS
<1> DEFINE name == thread.name
<1>1. name \in Names /\ At("operator")
  BY DEF Perform, At, Thread, PanelInv, PanelTypes
<1>2. PICK done, outcome :
        /\ outcome \in {"ok", "refused", "lost"}
        /\ remote' = [f \in Aspects |-> IF f \in done THEN remote[f] + 1 ELSE remote[f]]
        /\ changed' = [f \in Aspects |-> IF f \in done /\ f \in Withdraws(name)
                                        THEN remote'[f] ELSE changed[f]]
        /\ thread' = [at |-> "reply", name |-> name, outcome |-> outcome, seen |-> remote']
  BY Zenon DEF Perform
<1>3. remote' \in [Aspects -> Nat] /\ changed' \in [Aspects -> Nat]
  BY <1>2 DEF PanelInv, PanelTypes
<1>4. thread' \in Thread /\ thread'.name = name /\ thread'.seen = remote' /\ thread'.at = "reply"
  BY <1>1, <1>2, <1>3 DEF Thread
<1>5. \A f \in Aspects : /\ remote'[f] >= remote[f]
                         /\ changed'[f] <= remote'[f]
                         /\ f \notin Withdraws(name) => changed'[f] = changed[f]
  BY <1>2, <1>3 DEF PanelInv, PanelTypes, ServerAhead
<1>6. PanelTypes'
  BY <1>3, <1>4 DEF Perform, PanelInv, PanelTypes
<1>7. OfThisLink'
  BY <1>4 DEF Perform, PanelInv, OfThisLink, At
<1>8. \A f \in Aspects : remote[f] \in Nat /\ (shown[f] # Blank => shown[f].version \in Nat)
  BY DEF PanelInv, PanelTypes, Fields
<1>9. ServerAhead'
  BY <1>3, <1>4, <1>5, <1>8 DEF Perform, PanelInv, ServerAhead
<1>10. NotBehind'
  <2>1. \A f \in Aspects : Withdraws(thread.name)' = Withdraws(name)
    BY <1>4 DEF Withdraws
  <2>2. UNCHANGED shown /\ ~At("reply") /\ At("reply")'
    BY <1>1, <1>4 DEF Perform, At
  <2> QED BY <1>5, <2>1, <2>2 DEF PanelInv, NotBehind
<1> QED BY <1>6, <1>7, <1>9, <1>10 DEF PanelInv

\* Without a reply to show, a request takes away what it withdraws.
LEMMA StoreFails ==
    ASSUME PanelInv, At("reply"), NEW fields,
           shown' = Blanked(fields), Withdraws(thread.name) \subseteq fields \/ stop,
           To("settle"), UNCHANGED <<conn, link, stop, job, busy, supported, remote, changed>>
    PROVE  PanelInv'
<1>1. thread' \in Thread /\ ~At("reply")' /\ ~At("operator")'
  BY DEF Thread, At, To
<1>2. \A f \in Fields : shown'[f] = Blank \/ (shown'[f] = shown[f] /\ f \notin fields)
  BY DEF Blanked
<1>3. PanelTypes'
  BY <1>1, <1>2 DEF PanelInv, PanelTypes, Blanked
<1>4. Aspects \cup {"projects", "access"} \subseteq Fields
  BY DEF Fields, Aspects
<1>5. stop => \A f \in Fields : shown'[f] = Blank
  BY <1>2 DEF PanelInv, OfThisLink
<1>6. NotBehind'
  BY <1>1, <1>2, <1>4, <1>5 DEF PanelInv, NotBehind
<1> QED BY <1>1, <1>2, <1>3, <1>4, <1>6 DEF PanelInv, OfThisLink, ServerAhead

\* A reply is shown on the connection it arrived on.
LEMMA StoreShows ==
    ASSUME PanelInv, At("reply"), ~stop, NEW name \in Names, name = thread.name,
           shown' = [f \in Fields |->
                        IF f \in Stores(name) THEN [link |-> link, version |-> VersionOf(thread.seen, f)]
                        ELSE Blanked(Discards(name))[f]],
           supported' \subseteq {"access", "rest"},
           To("settle"), UNCHANGED <<conn, link, stop, job, busy, remote, changed>>
    PROVE  PanelInv'
<1> DEFINE seen == thread.seen
<1>1. thread' \in Thread /\ ~At("reply")' /\ ~At("operator")'
  BY DEF Thread, At, To
<1>2. seen \in [Aspects -> Nat]
  BY DEF Thread, At, PanelInv, PanelTypes
<1>3. \A f \in Fields : VersionOf(seen, f) \in Nat
  BY <1>2 DEF VersionOf, Fields, Aspects
<1>4. \A f \in Fields :
         \/ f \in Stores(name) /\ shown'[f] = [link |-> link, version |-> VersionOf(seen, f)]
         \/ f \notin Stores(name) /\ (shown'[f] = Blank
                                      \/ (shown'[f] = shown[f] /\ f \notin Discards(name)))
  BY DEF Blanked
<1>5. PanelTypes'
  <2>1. shown' \in [Fields -> {Blank} \cup [link : Nat, version : Nat]]
    BY <1>3 DEF PanelInv, PanelTypes, Blanked
  <2> QED BY <1>1, <2>1 DEF PanelInv, PanelTypes
<1>6. Aspects \cup {"projects", "access"} \subseteq Fields
  BY DEF Fields, Aspects
<1>7. OfThisLink'
  BY <1>1, <1>4 DEF PanelInv, OfThisLink
<1>8. \A f \in Aspects : VersionOf(seen, f) = seen[f]
  BY DEF VersionOf, Aspects
<1>9. ServerAhead'
  BY <1>1, <1>4, <1>6, <1>8 DEF PanelInv, ServerAhead
<1>10. NotBehind'
  <2>1. ASSUME NEW f \in Aspects, shown'[f] # Blank PROVE shown'[f].version >= changed[f]
    <3>1. CASE f \in Stores(name)
      <4>1. shown'[f].version = seen[f] /\ changed[f] <= seen[f]
        BY <3>1, <1>4, <1>6, <1>8 DEF PanelInv, ServerAhead
      <4> QED BY <4>1, <1>2 DEF PanelInv, PanelTypes
    <3>2. CASE f \notin Stores(name)
      <4>1. shown'[f] = shown[f] /\ shown[f] # Blank
        BY <3>2, <2>1, <1>4, <1>6
      <4>2. f \notin Withdraws(name)
        BY <3>2, <4>1, RequestKinds
      <4> QED BY <4>1, <4>2 DEF PanelInv, NotBehind
    <3> QED BY <3>1, <3>2
  <2>2. ASSUME shown'["projects"] # Blank, shown'["access"] # Blank
        PROVE  shown'["projects"].version >= shown'["access"].version
    <3>1. "access" \notin Stores(name) /\ shown'["access"] = shown["access"]
      BY <1>4, <1>6, <2>2, ProjectsFollowAccess
    <3>2. CASE "projects" \in Stores(name)
      <4>1. shown'["projects"].version = seen["access"] /\ "access" \in Aspects
        BY <3>2, <1>4, <1>6 DEF VersionOf, Aspects
      <4>2. shown["access"].version <= seen["access"]
        BY <3>1, <4>1, <2>2 DEF PanelInv, ServerAhead
      <4>3. shown["access"].version \in Nat /\ seen["access"] \in Nat
        BY <3>1, <4>1, <1>2, <1>6, <2>2 DEF PanelInv, PanelTypes
      <4> QED BY <3>1, <4>1, <4>2, <4>3
    <3>3. CASE "projects" \notin Stores(name)
      BY <3>1, <3>3, <1>4, <1>6, <2>2 DEF PanelInv, NotBehind
    <3> QED BY <3>2, <3>3
  <2> QED BY <2>1, <2>2 DEF NotBehind
<1> QED BY <1>5, <1>7, <1>9, <1>10 DEF PanelInv

LEMMA StoreKeeps == PanelInv /\ Store => PanelInv'
<1> SUFFICES ASSUME PanelInv, Store PROVE PanelInv'
  OBVIOUS
<1> DEFINE name == thread.name
<1>1. name \in Names /\ At("reply") /\ stop \in BOOLEAN
  BY DEF Store, At, Thread, PanelInv, PanelTypes
<1>2. CASE thread.outcome = "ok" /\ stop
  <2>1. shown = Blanked({})
    BY DEF Blanked, PanelInv, PanelTypes
  <2> QED BY <1>1, <1>2, <2>1, StoreFails DEF Store
<1>3. CASE thread.outcome = "ok" /\ ~stop
  BY <1>1, <1>3, StoreShows DEF Store, PanelInv, PanelTypes
<1>4. CASE thread.outcome # "ok"
  BY <1>1, <1>4, StoreFails DEF Store
<1> QED BY <1>1, <1>2, <1>3, <1>4

LEMMA NextKeepsPanel ==
    ASSUME PanelInv, NextPanel \/ UNCHANGED panelVars
    PROVE  PanelInv'
<1>1. CASE Worker
  BY <1>1, GreetKeeps, PerformKeeps, StoreKeeps, TurnKeeps, WaitingKeeps DEF Worker
<1>2. CASE Connect \/ Disconnect
  BY <1>2, ConnectKeeps, DisconnectKeeps
<1>3. CASE PolicyRequest \/ WorkspaceRequest \/ GatewayRequest \/ MissionRequest \/ TasksRequest
  <2>1. Requests \subseteq Names
    BY PanelAssumption DEF Names
  <2> QED BY <1>3, <2>1, QueueKeeps
          DEF PolicyRequest, WorkspaceRequest, GatewayRequest, MissionRequest, TasksRequest
<1>4. CASE \E f \in Aspects : ChangeElsewhere(f)
  BY <1>4, ElsewhereKeeps
<1>5. CASE UNCHANGED panelVars
  BY <1>5 DEF panelVars, PanelInv, PanelTypes, OfThisLink, ServerAhead, NotBehind, At, Withdraws
<1> QED BY <1>1, <1>2, <1>3, <1>4, <1>5 DEF NextPanel

LEMMA InvShowsCurrent == PanelInv => ShownIsCurrent
<1> SUFFICES ASSUME PanelInv PROVE ShownIsCurrent
  OBVIOUS
<1>1. NoStaleControls
  BY DEF PanelInv, NotBehind, NoStaleControls
<1> QED BY <1>1 DEF PanelInv, OfThisLink, ShownIsCurrent

\* What the operator sees came over the present connection, nothing is shown
\* after a disconnect, a request never runs on a connection made after it was
\* queued, and no review, task or list of projects is shown that a request
\* which ended has made out of date (src/local_panel.py, _operator and _worker).
THEOREM PanelShownIsCurrent == SpecPanel => []ShownIsCurrent
<1>1. SpecPanel => []PanelInv
  <2>1. PanelInv /\ [NextPanel]_panelVars => PanelInv'
    BY NextKeepsPanel
  <2> QED BY InitPanelInv, <2>1, PTL DEF SpecPanel
<1>2. QED BY <1>1, InvShowsCurrent, PTL

-----------------------------------------------------------------------------
(* Host reports                                                            *)

\* The items of an area, as they are or as a collector replies.
Area == [Items -> {NotThere, Usual, Odd}]

SnapshotFields == {"stage", "hashes", "seen", "errors", "was", "saved"}

\* A reply never has an item the area does not have; one of a frank collector
\* that reports no error has all of them.
Faithful(a, items, truth, admitted) ==
    /\ \A k \in Items : items[k] # NotThere => items[k] = truth[k]
    /\ a \in Frank => admitted \/ items = truth

SnapshotsHonest ==
    \A n \in SnapshotIds : snapshot[n] # NotTaken =>
        /\ DOMAIN snapshot[n] = SnapshotFields
        /\ snapshot[n].hashes \in BOOLEAN
        /\ snapshot[n].seen \in [Areas -> Area]
        /\ snapshot[n].was \in [Areas -> Area]
        /\ \A a \in Areas : Faithful(a, snapshot[n].seen[a], snapshot[n].was[a], a \in snapshot[n].errors)

CacheHonest ==
    \A c \in Checks : cache[c] # NoCache =>
        LET s == cache[c].answer IN
        /\ cache[c].at = s.at
        /\ s.items = s.truth \/ s.lost

ReportHonest == report # NotTaken => report.was \cap Frank \subseteq report.troubled \cup report.unavailable

ReportsInv ==
    /\ \A a \in HostAreas : host[a] \in Area
    /\ DOMAIN host = HostAreas
    /\ DOMAIN snapshot = SnapshotIds
    /\ DOMAIN cache = Checks
    /\ SnapshotsHonest
    /\ CacheHonest
    /\ ReportHonest

LEMMA EmptyArea == Empty \in Area
BY DEF Empty, Area

\* What the collectors reply is faithful.
LEMMA RepliesAreFaithful ==
    ASSUME NEW a, NEW h \in Area, NEW hashes \in BOOLEAN, NEW r \in Replies(a, h, hashes)
    PROVE  r.items \in Area /\ Faithful(a, r.items, h, r.error)
<1>1. ASSUME r \in Parts(h) \cup {Says(Empty)}
      PROVE  r.items \in Area /\ \A k \in Items : r.items[k] # NotThere => r.items[k] = h[k]
  BY <1>1, EmptyArea DEF Parts, Says, Area, Empty
<1>2. ASSUME r \in {Says(h), Says(Empty), Fails}
      PROVE  r.items \in Area /\ \A k \in Items : r.items[k] # NotThere => r.items[k] = h[k]
  BY <1>2, EmptyArea DEF Says, Fails, Area, Empty
<1>3. ASSUME r \in {Says(h), Fails}
      PROVE  r.error \/ r.items = h
  BY <1>3 DEF Says, Fails
<1>4. CASE a \in {"open_ports", "cron_jobs", "system_health", "kernel_errors", "databases", "config_files"}
  <2>1. r \in Parts(h) \cup {Says(Empty)}
    BY <1>4 DEF Replies, OpenPorts, CronJobs, SystemHealth, KernelErrors, DatabaseHealth, ConfigManifest
  <2>2. a \notin Frank
    BY <1>4 DEF Frank
  <2> QED BY <1>1, <2>1, <2>2 DEF Faithful
<1>5. CASE a \in {"systemd_timers", "oom_events"}
  <2>1. r \in {Says(h), Says(Empty), Fails} /\ a \notin Frank
    BY <1>5 DEF Replies, SystemdTimers, OomEvents, Frank
  <2> QED BY <1>2, <2>1 DEF Faithful
<1>6. CASE a \notin {"open_ports", "cron_jobs", "system_health", "kernel_errors", "databases",
                     "config_files", "systemd_timers", "oom_events"}
  <2>1. r \in {Says(h), Fails}
    BY <1>6 DEF Replies, FailedUnits, DockerContainers, SshConfig
  <2> QED BY <1>2, <1>3, <2>1 DEF Faithful
<1> QED BY <1>4, <1>5, <1>6

LEMMA InitReportsInv == InitReports => ReportsInv
BY EmptyArea DEF InitReports, ReportsInv, SnapshotsHonest, CacheHonest, ReportHonest

LEMMA CreateKeeps ==
    ASSUME ReportsInv, NEW n \in SnapshotIds, NEW hashes \in BOOLEAN, CreateSnapshot(n, hashes)
    PROVE  ReportsInv'
<1> DEFINE fresh == [stage |-> 1, hashes |-> hashes, seen |-> [a \in Areas |-> Empty], errors |-> {},
                     was |-> [a \in Areas |-> Empty], saved |-> FALSE]
<1>1. /\ fresh.seen \in [Areas -> Area] /\ fresh.was \in [Areas -> Area]
      /\ \A a \in Areas : Faithful(a, fresh.seen[a], fresh.was[a], a \in fresh.errors)
  BY EmptyArea DEF Faithful
<1> HIDE DEF fresh
<1>2. /\ DOMAIN snapshot' = SnapshotIds
      /\ \A m \in SnapshotIds : snapshot'[m] = IF m = n THEN fresh ELSE snapshot[m]
  BY DEF CreateSnapshot, ReportsInv, fresh
<1>3. SnapshotsHonest'
  <2>1. fresh.hashes \in BOOLEAN /\ DOMAIN fresh = SnapshotFields
    BY DEF fresh, SnapshotFields
  <2> QED BY <1>1, <1>2, <2>1 DEF SnapshotsHonest, ReportsInv
<1> QED BY <1>2, <1>3 DEF CreateSnapshot, ReportsInv, CacheHonest, ReportHonest

LEMMA CollectKeeps ==
    ASSUME ReportsInv, NEW n \in SnapshotIds, CollectArea(n)
    PROVE  ReportsInv'
<1>1. PICK s, a : s = snapshot[n] /\ a = Order[s.stage]
  OBVIOUS
<1>2. PICK r \in Replies(a, host[a], s.hashes) :
         snapshot' = [snapshot EXCEPT ![n].stage = @ + 1, ![n].seen[a] = r.items,
                         ![n].errors = IF r.error THEN @ \cup {a} ELSE @,
                         ![n].was[a] = host[a]]
  BY <1>1 DEF CollectArea
<1>3. s # NotTaken /\ UNCHANGED <<host, changes, stored, report, cache, time, back>>
  BY <1>1 DEF CollectArea
<1>4. /\ DOMAIN s = SnapshotFields /\ s.hashes \in BOOLEAN
      /\ s.seen \in [Areas -> Area] /\ s.was \in [Areas -> Area]
      /\ \A x \in Areas : Faithful(x, s.seen[x], s.was[x], x \in s.errors)
  BY <1>1, <1>3 DEF ReportsInv, SnapshotsHonest
<1>5. PICK s2 : s2 = snapshot'[n]
  OBVIOUS
<1>6. /\ DOMAIN snapshot' = SnapshotIds
      /\ \A m \in SnapshotIds \ {n} : snapshot'[m] = snapshot[m]
      /\ s2 = [s EXCEPT !.stage = @ + 1, !.seen[a] = r.items,
                        !.errors = IF r.error THEN @ \cup {a} ELSE @, !.was[a] = host[a]]
  BY <1>1, <1>2, <1>5 DEF ReportsInv
<1>7. /\ DOMAIN s2 = SnapshotFields /\ s2.hashes = s.hashes
      /\ s2.seen = [s.seen EXCEPT ![a] = r.items]
      /\ s2.was = [s.was EXCEPT ![a] = host[a]]
      /\ s2.errors = IF r.error THEN s.errors \cup {a} ELSE s.errors
  BY <1>4, <1>6 DEF SnapshotFields
<1>8. /\ s2.seen \in [Areas -> Area] /\ s2.was \in [Areas -> Area]
      /\ \A x \in Areas : Faithful(x, s2.seen[x], s2.was[x], x \in s2.errors)
  <2>1. CASE a \in Areas
    <3>1. host[a] \in Area
      BY <2>1 DEF ReportsInv, HostAreas
    <3>2. r.items \in Area /\ Faithful(a, r.items, host[a], r.error)
      BY <3>1, <1>2, <1>4, RepliesAreFaithful
    <3>3. /\ s2.seen \in [Areas -> Area] /\ s2.was \in [Areas -> Area]
          /\ s2.seen[a] = r.items /\ s2.was[a] = host[a]
          /\ \A x \in Areas \ {a} : s2.seen[x] = s.seen[x] /\ s2.was[x] = s.was[x]
      BY <2>1, <3>1, <3>2, <1>4, <1>7
    <3>4. Faithful(a, s2.seen[a], s2.was[a], a \in s2.errors)
      BY <2>1, <3>2, <3>3, <1>7 DEF Faithful
    <3>5. \A x \in Areas \ {a} : Faithful(x, s2.seen[x], s2.was[x], x \in s2.errors)
      BY <3>3, <1>4, <1>7 DEF Faithful
    <3> QED BY <3>3, <3>4, <3>5
  <2>2. CASE a \notin Areas
    <3>1. s2.seen = s.seen /\ s2.was = s.was
      BY <2>2, <1>4, <1>7
    <3> QED BY <2>2, <3>1, <1>4, <1>7 DEF Faithful
  <2> QED BY <2>1, <2>2
<1>9. SnapshotsHonest'
  BY <1>3, <1>4, <1>5, <1>6, <1>7, <1>8 DEF ReportsInv, SnapshotsHonest
<1> QED BY <1>3, <1>6, <1>9 DEF ReportsInv, CacheHonest, ReportHonest

LEMMA WriteKeeps ==
    ASSUME ReportsInv, NEW n \in SnapshotIds, WriteSnapshot(n)
    PROVE  ReportsInv'
<1>1. PICK s, s2 : s = snapshot[n] /\ s2 = snapshot'[n]
  OBVIOUS
<1>2. PICK saved : snapshot' = [snapshot EXCEPT ![n].stage = @ + 1, ![n].saved = saved]
  BY DEF WriteSnapshot
<1>3. s # NotTaken /\ UNCHANGED <<host, changes, report, cache, time, back>>
  BY <1>1 DEF WriteSnapshot
<1>4. /\ DOMAIN snapshot' = SnapshotIds
      /\ \A m \in SnapshotIds \ {n} : snapshot'[m] = snapshot[m]
      /\ s2 = [s EXCEPT !.stage = @ + 1, !.saved = saved]
  BY <1>1, <1>2 DEF ReportsInv
<1>5. DOMAIN s = SnapshotFields
  BY <1>1, <1>3 DEF ReportsInv, SnapshotsHonest
<1>6. /\ DOMAIN s2 = SnapshotFields
      /\ s2.hashes = s.hashes /\ s2.seen = s.seen /\ s2.was = s.was /\ s2.errors = s.errors
  BY <1>4, <1>5 DEF SnapshotFields
<1>7. SnapshotsHonest'
  <2>1. /\ s2.hashes \in BOOLEAN /\ s2.seen \in [Areas -> Area] /\ s2.was \in [Areas -> Area]
        /\ \A x \in Areas : Faithful(x, s2.seen[x], s2.was[x], x \in s2.errors)
    BY <1>1, <1>3, <1>6 DEF ReportsInv, SnapshotsHonest
  <2> QED BY <1>1, <1>3, <1>4, <1>6, <2>1 DEF ReportsInv, SnapshotsHonest
<1> QED BY <1>3, <1>4, <1>7 DEF ReportsInv, CacheHonest, ReportHonest

LEMMA AnswersKeep ==
    ASSUME CacheHonest, DOMAIN cache = Checks, NEW c \in Checks, NEW force, NEW s, Answers(c, force, s)
    PROVE  CacheHonest' /\ DOMAIN cache' = Checks
BY DEF Answers, CacheHonest, Scans, NoCache

LEMMA ChecksKeep ==
    ASSUME ReportsInv, NEW force \in BOOLEAN, CheckSystemUpdates(force) \/ CheckGuardianUpdates(force)
    PROVE  ReportsInv'
<1>1. CacheHonest' /\ DOMAIN cache' = Checks
  BY AnswersKeep DEF CheckSystemUpdates, CheckGuardianUpdates, ReportsInv, Checks
<1> QED BY <1>1 DEF CheckSystemUpdates, CheckGuardianUpdates, ReportsInv, SnapshotsHonest, ReportHonest

LEMMA SectionKeeps ==
    ASSUME ReportHonest, report # NotTaken, NEW a, NEW reply, AddSection(a, reply),
           a \in Frank => reply.error \/ reply.items = host[a]
    PROVE  ReportHonest'
BY DEF AddSection, ReportHonest, NotTaken, Troubled

LEMMA CollectSectionKeeps == ReportsInv /\ CollectSection => ReportsInv'
<1> SUFFICES ASSUME ReportsInv, CollectSection PROVE ReportsInv'
  OBVIOUS
<1>1. PICK a : /\ a = Agenda[report.stage]
               /\ IF a = "system_updates"
                  THEN \E s \in AnyAnswer(a) : Answers(a, FALSE, s) /\ AddSection(a, Says(s.items))
                  ELSE \E r \in Replies(a, host[a], FALSE) : AddSection(a, r) /\ UNCHANGED cache
  BY DEF CollectSection
<1>2. report # NotTaken /\ ReportHonest /\ UNCHANGED <<host, changes, snapshot, stored, time, back>>
  BY DEF CollectSection, ReportsInv
<1>3. CASE a = "system_updates"
  <2>1. PICK s : Answers(a, FALSE, s) /\ AddSection(a, Says(s.items))
    BY <1>1, <1>3
  <2>2. a \in Checks /\ a \notin Frank
    BY <1>3 DEF Checks, Frank
  <2>3. CacheHonest' /\ DOMAIN cache' = Checks
    BY <2>1, <2>2, AnswersKeep DEF ReportsInv
  <2>4. ReportHonest'
    BY <1>2, <2>1, <2>2, SectionKeeps
  <2> QED BY <1>2, <2>3, <2>4 DEF ReportsInv, SnapshotsHonest
<1>4. CASE a # "system_updates"
  <2>1. PICK r \in Replies(a, host[a], FALSE) : AddSection(a, r) /\ UNCHANGED cache
    BY <1>1, <1>4
  <2>2. a \in Frank => r \in {Says(host[a]), Fails}
    BY <2>1 DEF Frank, Replies, FailedUnits, DockerContainers, SshConfig
  <2>3. a \in Frank => r.error \/ r.items = host[a]
    BY <2>2 DEF Says, Fails
  <2>4. ReportHonest'
    BY <1>2, <2>1, <2>3, SectionKeeps
  <2> QED BY <1>2, <2>1, <2>4 DEF ReportsInv, SnapshotsHonest, CacheHonest
<1> QED BY <1>3, <1>4

\* What a comparison lists, one way and the other.
LEMMA DriftLists ==
    ASSUME NEW b \in SnapshotIds, NEW c \in SnapshotIds,
           NEW old, NEW new, old = snapshot[b].seen, new = snapshot[c].seen
    PROVE  /\ \A d \in Drift(b, c) :
                 /\ d.area \in Areas /\ d.item \in Items
                 /\ old[d.area][d.item] # new[d.area][d.item]
                 /\ d.change # "added" => old[d.area][d.item] # NotThere
                 /\ d.change # "removed" => new[d.area][d.item] # NotThere
           /\ \A a \in Areas, k \in Items :
                 old[a][k] # new[a][k] /\ (a \in Valued \/ NotThere \in {old[a][k], new[a][k]}) =>
                     \E d \in Drift(b, c) : d.area = a /\ d.item = k
<1>1. ASSUME NEW d \in Drift(b, c)
      PROVE  /\ d.area \in Areas /\ d.item \in Items
             /\ old[d.area][d.item] # new[d.area][d.item]
             /\ d.change # "added" => old[d.area][d.item] # NotThere
             /\ d.change # "removed" => new[d.area][d.item] # NotThere
  BY <1>1 DEF Drift
<1>2. ASSUME NEW a \in Areas, NEW k \in Items, old[a][k] # new[a][k],
             a \in Valued \/ NotThere \in {old[a][k], new[a][k]}
      PROVE  \E d \in Drift(b, c) : d.area = a /\ d.item = k
  <2>1. CASE old[a][k] = NotThere
    <3>1. [area |-> a, item |-> k, change |-> "added"] \in Drift(b, c)
      BY <1>2, <2>1 DEF Drift
    <3> QED BY <3>1
  <2>2. CASE new[a][k] = NotThere
    <3>1. [area |-> a, item |-> k, change |-> "removed"] \in Drift(b, c)
      BY <1>2, <2>2 DEF Drift
    <3> QED BY <3>1
  <2>3. CASE old[a][k] # NotThere /\ new[a][k] # NotThere
    <3>1. [area |-> a, item |-> k, change |-> "changed"] \in Drift(b, c)
      BY <1>2, <2>3 DEF Drift
    <3> QED BY <3>1
  <2> QED BY <2>1, <2>2, <2>3
<1> QED BY <1>1, <1>2

LEMMA NextKeepsReports ==
    ASSUME ReportsInv, NextReports \/ UNCHANGED reportVars
    PROVE  ReportsInv'
<1>1. CASE TimePasses \/ TimeSetBack \/ UNCHANGED reportVars
  BY <1>1 DEF TimePasses, TimeSetBack, reportVars, ReportsInv, SnapshotsHonest, CacheHonest, ReportHonest
<1>2. CASE StartReport
  <2>1. report'.was = {}
    BY <1>2 DEF StartReport
  <2> QED BY <1>2, <2>1 DEF StartReport, ReportsInv, SnapshotsHonest, CacheHonest, ReportHonest
<1>3. ASSUME NEW a \in HostAreas, NEW k \in Items, NEW state \in {NotThere, Usual, Odd},
             HostChanges(a, k, state)
      PROVE  ReportsInv'
  <2>1. DOMAIN host' = HostAreas /\ \A b \in HostAreas : host'[b] \in Area
    BY <1>3 DEF HostChanges, ReportsInv, Area
  <2> QED BY <1>3, <2>1 DEF HostChanges, ReportsInv, SnapshotsHonest, CacheHonest, ReportHonest
<1> QED BY <1>1, <1>2, <1>3, CollectSectionKeeps, ChecksKeep, CollectKeeps, WriteKeeps, CreateKeeps
        DEF NextReports

LEMMA InvDrift == ReportsInv => DriftIsTrue
<1> SUFFICES ASSUME ReportsInv,
                    NEW b \in SnapshotIds, NEW c \in SnapshotIds,
                    snapshot[b] # NotTaken, snapshot[c] # NotTaken
             PROVE  LET old == snapshot[b].was  new == snapshot[c].was
                        failed == snapshot[b].errors \cup snapshot[c].errors
                    IN
                    /\ \A d \in Drift(b, c) :
                          /\ d.change # "added" => old[d.area][d.item] # NotThere
                          /\ d.change # "removed" => new[d.area][d.item] # NotThere
                          /\ d.area \in Frank \ failed => old[d.area][d.item] # new[d.area][d.item]
                    /\ \A a \in (Areas \cap Frank) \ failed, k \in Items :
                          \/ old[a][k] = new[a][k]
                          \/ a \notin Valued /\ NotThere \notin {old[a][k], new[a][k]}
                          \/ \E d \in Drift(b, c) : d.area = a /\ d.item = k
  BY DEF DriftIsTrue
<1>0. PICK old, new, failed : /\ old = snapshot[b].was /\ new = snapshot[c].was
                              /\ failed = snapshot[b].errors \cup snapshot[c].errors
  OBVIOUS
<1>1. PICK before, after : before = snapshot[b].seen /\ after = snapshot[c].seen
  OBVIOUS
<1>2. \A a \in Areas : /\ Faithful(a, before[a], old[a], a \in snapshot[b].errors)
                       /\ Faithful(a, after[a], new[a], a \in snapshot[c].errors)
  BY <1>0, <1>1 DEF ReportsInv, SnapshotsHonest
<1>3. \A a \in Areas, k \in Items : /\ before[a][k] # NotThere => old[a][k] = before[a][k]
                                    /\ after[a][k] # NotThere => new[a][k] = after[a][k]
  BY <1>2 DEF Faithful
<1>4. \A a \in (Areas \cap Frank) \ failed : before[a] = old[a] /\ after[a] = new[a]
  BY <1>0, <1>2 DEF Faithful
<1>5. ASSUME NEW d \in Drift(b, c)
      PROVE  /\ d.change # "added" => old[d.area][d.item] # NotThere
             /\ d.change # "removed" => new[d.area][d.item] # NotThere
             /\ d.area \in Frank \ failed => old[d.area][d.item] # new[d.area][d.item]
  <2>1. /\ d.area \in Areas /\ d.item \in Items
        /\ before[d.area][d.item] # after[d.area][d.item]
        /\ d.change # "added" => before[d.area][d.item] # NotThere
        /\ d.change # "removed" => after[d.area][d.item] # NotThere
    BY <1>1, DriftLists
  <2> QED BY <1>3, <1>4, <2>1
<1>6. ASSUME NEW a \in (Areas \cap Frank) \ failed, NEW k \in Items
      PROVE  \/ old[a][k] = new[a][k]
             \/ a \notin Valued /\ NotThere \notin {old[a][k], new[a][k]}
             \/ \E d \in Drift(b, c) : d.area = a /\ d.item = k
  BY <1>1, <1>4, DriftLists
<1> QED BY <1>0, <1>5, <1>6

LEMMA InvHealthy == ReportsInv => HealthyIsHonest
<1> SUFFICES ASSUME ReportsInv PROVE HealthyIsHonest
  OBVIOUS
<1>1. AnswersAreRecent
  BY DEF AnswersAreRecent, Fresh, ReportsInv, CacheHonest
<1>2. report # NotTaken /\ Reported /\ Severity = "healthy" =>
        report.was \cap Frank \subseteq report.unavailable
  BY DEF Severity, ReportsInv, ReportHonest
<1> QED BY <1>1, <1>2 DEF HealthyIsHonest

\* What snapshots, caches and the report hold of an area is what its collector
\* replies to the state the area was in (_collect_snapshot, generate_incident_report).
THEOREM ReportsInvariant == SpecReports => []ReportsInv
<1>1. ReportsInv /\ [NextReports]_reportVars => ReportsInv'
  BY NextKeepsReports
<1> QED BY InitReportsInv, <1>1, PTL DEF SpecReports

\* What compare_system_snapshots says of the host was so when the snapshots
\* were taken, and it leaves nothing out of the areas whose collectors admit
\* their failures (src/snapshot.py).
THEOREM ReportsDriftIsTrue == SpecReports => []DriftIsTrue
BY ReportsInvariant, InvDrift, PTL

\* The incident report says "healthy" only of a host without trouble in the
\* sections that admit their failures and are not listed as unavailable, and
\* an update check repeats no old answer (src/incident.py, src/updates.py).
THEOREM ReportsHealthyIsHonest == SpecReports => []HealthyIsHonest
BY ReportsInvariant, InvHealthy, PTL

-----------------------------------------------------------------------------
(* Policies, agents and calls                                              *)

Path == Seq(STRING)
Limits == Values["limits"]
Who == Agents \cup {Operator}

Saving == {"save", "locked", "replace"}
Enrolling == {"account", "home", "key", "policy"}

Helper == [step : {"idle"}]
          \cup [step : Saving, file : {"policy", "limits"},
                seen : {None, Broken} \cup Policies \cup Limits, value : Policies \cup Limits]
          \cup [step : Enrolling, agent : Agents, roots : RootLists]
          \cup [step : {"unlink"}, agent : Agents]

AgentPolicy == [enabled : BOOLEAN, roots : RootLists, until : Nat]

Session == [step : {"closed"}]
           \cup [step : {"open"}, who : Who]
           \cup [step : {"entered", "running"}, who : Who, tool : Tools, since : BOOLEAN]
           \cup [step : {"acting"}, who : Who, since : BOOLEAN,
                 cap : {"read-only", "controlled", "unrestricted"}, roots : SUBSET Path,
                 lists : (SUBSET Path) \X (SUBSET Path), withdrawn : BOOLEAN]

StoreTypeOK ==
    /\ store \in [{"policy", "limits"} -> {None, Broken} \cup Policies \cup Limits]
    /\ store["policy"] \in {None, Broken} \cup Policies
    /\ helper \in [Helpers -> Helper]
    /\ \A h \in Helpers : helper[h].step \in Saving /\ helper[h].file = "policy" =>
           helper[h].value \in Policies

AgentsTypeOK ==
    /\ agent \in [Agents -> [account : BOOLEAN, home : BOOLEAN, key : BOOLEAN,
                             policy : {None} \cup AgentPolicy]]
    /\ own \in [Agents -> {None} \cup Policies]
    /\ session \in [Sessions -> Session]
    /\ clock \in Nat
    /\ revoked \subseteq Agents

\* A helper past the lock has it, and replaces what it looked at.
Exclusive ==
    \A h \in Helpers :
        /\ helper[h].step \in {"locked", "replace"} => holder = h
        /\ helper[h].step = "replace" => store[helper[h].file] = helper[h].seen

Enrolled == {a \in Agents : agent[a].policy # None}

\* An enrollment has the lock, the parts it made, and room for one more policy.
HelperSound(h) ==
    /\ helper[h].step \in Enrolling \cup {"unlink"} => enroller = h
    /\ helper[h].step = "unlink" => helper[h].agent \in revoked
    /\ helper[h].step \in Enrolling =>
          agent[helper[h].agent].policy = None /\ Cardinality(Enrolled) < MaxAgents
    /\ helper[h].step \in {"home", "key", "policy"} => agent[helper[h].agent].account
    /\ helper[h].step \in {"key", "policy"} => agent[helper[h].agent].home
    /\ helper[h].step = "policy" => agent[helper[h].agent].key

PartsWhole ==
    \A a \in Agents : agent[a].policy # None =>
        agent[a].account /\ agent[a].home /\ (agent[a].key \/ a \in revoked)

EnrollmentSound ==
    /\ IsFiniteSet(Enrolled) /\ Cardinality(Enrolled) <= MaxAgents
    /\ PartsWhole
    /\ \A h \in Helpers : HelperSound(h)

\* A revoked agent has a policy that is disabled, and no call came in for it.
GrantsSound ==
    /\ \A a \in revoked : agent[a].policy # None /\ ~agent[a].policy.enabled
    /\ \A s \in Sessions :
        /\ session[s].step \in {"entered", "running", "acting"} => ~session[s].since
        /\ session[s].step = "acting" =>
              /\ session[s].withdrawn => session[s].cap = "read-only"
              /\ session[s].roots = Intersection(session[s].lists[2], session[s].lists[1])

-----------------------------------------------------------------------------
(* Paths                                                                   *)

\* A prefix agrees with its sequence, element by element.
LEMMA PrefixElements ==
    ASSUME NEW s \in Path, NEW t \in Path
    PROVE  IsPrefix(s, t) <=> Len(s) <= Len(t) /\ \A i \in 1..Len(s) : s[i] = t[i]
PROOF
  <1>1. Len(s) \in Nat /\ Len(t) \in Nat
    BY DEF Path
  <1>2. SubSeq(s, 1, Len(s)) = s
    BY DEF Path
  <1>3. ASSUME Len(s) <= Len(t)
        PROVE  /\ SubSeq(t, 1, Len(s)) \in Path
               /\ Len(SubSeq(t, 1, Len(s))) = Len(s)
               /\ \A i \in 1..Len(s) : SubSeq(t, 1, Len(s))[i] = t[i]
    BY <1>1, <1>3 DEF Path
  <1>4. ASSUME Len(s) <= Len(t), \A i \in 1..Len(s) : s[i] = t[i]
        PROVE  s = SubSeq(t, 1, Len(s))
    BY <1>1, <1>3, <1>4 DEF Path
  <1> QED
    BY <1>1, <1>2, <1>3, <1>4 DEF IsPrefix

\* The intersection of two lists of roots covers exactly what both cover.
LEMMA IntersectionCovers ==
    ASSUME NEW ours \in SUBSET Path, NEW theirs \in SUBSET Path, NEW path \in Path
    PROVE  Covers(Intersection(ours, theirs), path) <=> Covers(ours, path) /\ Covers(theirs, path)
PROOF
  <1>1. ASSUME NEW r \in Path, NEW t \in Path, IsPrefix(t, r), IsPrefix(r, path)
        PROVE  IsPrefix(t, path)
    <2>1. Len(t) <= Len(r) /\ Len(r) <= Len(path) /\ Len(t) \in Nat /\ Len(r) \in Nat /\ Len(path) \in Nat
      BY <1>1, PrefixElements DEF Path
    <2>2. \A i \in 1..Len(t) : t[i] = r[i] /\ r[i] = path[i]
      BY <1>1, <2>1, PrefixElements
    <2> QED
      BY <2>1, <2>2, PrefixElements
  <1>2. ASSUME NEW r \in Path, NEW t \in Path, IsPrefix(t, path), IsPrefix(r, path)
        PROVE  IsPrefix(t, r) \/ IsPrefix(r, t)
    <2>1. Len(t) \in Nat /\ Len(r) \in Nat /\ Len(path) \in Nat
      BY DEF Path
    <2>2. \A i \in 1..Len(t) : t[i] = path[i]
      BY <1>2, PrefixElements
    <2>3. \A i \in 1..Len(r) : r[i] = path[i]
      BY <1>2, PrefixElements
    <2>4. CASE Len(t) <= Len(r)
      BY <2>1, <2>2, <2>3, <2>4, PrefixElements
    <2>5. CASE Len(r) <= Len(t)
      BY <2>1, <2>2, <2>3, <2>5, PrefixElements
    <2> QED
      BY <2>1, <2>4, <2>5
  <1>3. ASSUME Covers(Intersection(ours, theirs), path)
        PROVE  Covers(ours, path) /\ Covers(theirs, path)
    <2>1. PICK r \in Intersection(ours, theirs) : IsPrefix(r, path)
      BY <1>3 DEF Covers
    <2>2. CASE r \in ours /\ \E t \in theirs : IsPrefix(t, r)
      BY <1>1, <2>1, <2>2 DEF Covers
    <2>3. CASE r \in theirs /\ \E u \in ours : IsPrefix(u, r)
      BY <1>1, <2>1, <2>3 DEF Covers
    <2> QED
      BY <2>1, <2>2, <2>3 DEF Intersection
  <1>4. ASSUME Covers(ours, path), Covers(theirs, path)
        PROVE  Covers(Intersection(ours, theirs), path)
    <2>1. PICK r \in ours : IsPrefix(r, path)
      BY <1>4 DEF Covers
    <2>2. PICK t \in theirs : IsPrefix(t, path)
      BY <1>4 DEF Covers
    <2>3. r \in Intersection(ours, theirs) \/ t \in Intersection(ours, theirs)
      BY <1>2, <2>1, <2>2 DEF Intersection
    <2> QED
      BY <2>1, <2>2, <2>3 DEF Covers
  <1> QED
    BY <1>3, <1>4

-----------------------------------------------------------------------------
(* Policy and limits                                                       *)

SaveInv == StoreTypeOK /\ Exclusive

LEMMA SaveInit == InitAccess => SaveInv
PROOF
  BY DEF InitAccess, SaveInv, StoreTypeOK, Exclusive, Helper, Saving

\* Nobody but the helper with the lock changes what it compared.
LEMMA SaveStep == SaveInv /\ [NextAccess]_accessVars => SaveInv'
PROOF
  <1> SUFFICES ASSUME SaveInv, [NextAccess]_accessVars
               PROVE  SaveInv'
    OBVIOUS
  <1> USE AccessAssumption
      DEF SaveInv, StoreTypeOK, Exclusive, Helper, Saving, Enrolling, HelperAt, HelperTo, HelperEnds
  <1>1. ASSUME NEW h \in Helpers, NEW f \in DOMAIN Values, NEW v \in Values[f], Review(h, f, v)
        PROVE  SaveInv'
    BY <1>1 DEF Review, Values, Limits
  <1>2. ASSUME NEW h \in Helpers, SaveLocks(h)
        PROVE  SaveInv'
    BY <1>2 DEF SaveLocks
  <1>3. ASSUME NEW h \in Helpers, SaveCompares(h)
        PROVE  SaveInv'
    BY <1>3 DEF SaveCompares
  <1>4. ASSUME NEW h \in Helpers, SaveReplaces(h)
        PROVE  SaveInv'
    BY <1>4 DEF SaveReplaces
  <1>5. ASSUME NEW h \in Helpers, HelperFails(h)
        PROVE  SaveInv'
    BY <1>5 DEF HelperFails
  <1>6. ASSUME NEW h \in Helpers, MakeAccount(h) \/ MakeHome(h) \/ MakeKey(h) \/ RevokeKey(h)
        PROVE  SaveInv'
    BY <1>6 DEF MakeAccount, MakeHome, MakeKey, Makes, RevokeKey
  <1>7. ASSUME NEW h \in Helpers, NEW until \in 1..MaxClock, MakePolicy(h, until)
        PROVE  SaveInv'
    BY <1>7 DEF MakePolicy
  <1>8. ASSUME NEW h \in Helpers, NEW a \in Agents, RevokeAgent(h, a)
        PROVE  SaveInv'
    BY <1>8 DEF RevokeAgent
  <1>9. ASSUME NEW h \in Helpers, NEW a \in Agents, NEW r \in RootLists, CreateAgent(h, a, r)
        PROVE  SaveInv'
    BY <1>9 DEF CreateAgent
  <1>10. CASE UNCHANGED <<store, holder, helper>>
    BY <1>10
  <1>11. ASSUME NEW s \in Sessions,
                \/ OperatorLogin(s) \/ Admit(s) \/ Resolve(s) \/ Return(s) \/ Leave(s)
                \/ \E a \in Agents : Login(s, a)
                \/ \E tool \in Tools : Enter(s, tool)
         PROVE  UNCHANGED <<store, holder, helper>>
    BY <1>11 DEF OperatorLogin, Admit, Resolve, Return, Leave, Login, Enter, Steps
  <1> QED
    BY <1>1, <1>2, <1>3, <1>4, <1>5, <1>6, <1>7, <1>8, <1>9, <1>10, <1>11
    DEF NextAccess, AccessTick, accessVars

\* A save replaces exactly the content its operator looked at, for any number
\* of helpers at once (save_access_policy, save_workspace_settings).
THEOREM AccessSavesWhatWasSeen == SpecAccess => SavesWhatWasSeen
PROOF
  <1> DEFINE Seen == \A f \in DOMAIN store : store'[f] # store[f] =>
                        \E h \in Helpers : /\ helper[h].step \in {"locked", "replace"}
                                            /\ helper[h].file = f
                                            /\ helper[h].seen = store[f]
  <1>1. ASSUME SaveInv, [NextAccess]_accessVars
        PROVE  [Seen]_accessVars
    <2>1. ASSUME NEW h \in Helpers, SaveReplaces(h)
          PROVE  Seen
      BY <1>1, <2>1 DEF SaveInv, StoreTypeOK, Exclusive, SaveReplaces, HelperAt
    <2>2. CASE store' = store
      BY <2>2
    <2>3. store' = store \/ \E h \in Helpers : SaveReplaces(h)
      BY <1>1
      DEF NextAccess, accessVars, AccessTick, Review, SaveLocks, SaveCompares, HelperFails,
          MakeAccount, MakeHome, MakeKey, Makes, RevokeKey, MakePolicy, RevokeAgent, CreateAgent,
          OperatorLogin, Admit, Resolve, Return, Leave, Login, Enter, Steps
    <2> QED
      BY <2>1, <2>2, <2>3
  <1>2. SpecAccess => []SaveInv
    BY SaveInit, SaveStep, PTL DEF SpecAccess
  <1> QED
    BY <1>1, <1>2, PTL DEF SpecAccess, SavesWhatWasSeen

-----------------------------------------------------------------------------
(* Agents and calls                                                        *)

AccessInv == SaveInv /\ AgentsTypeOK /\ EnrollmentSound /\ GrantsSound

LEMMA AccessInit == InitAccess => AccessInv
PROOF
  <1> SUFFICES ASSUME InitAccess
               PROVE  AccessInv
    OBVIOUS
  <1>1. Enrolled = {}
    BY DEF InitAccess, Enrolled, Absent
  <1>2. AgentsTypeOK
    BY DEF InitAccess, AgentsTypeOK, Absent, Session
  <1>3. EnrollmentSound
    <2>1. Cardinality(Enrolled) <= MaxAgents
      BY <1>1, FS_EmptySet, AccessAssumption
    <2> QED
      BY <1>1, <2>1, FS_EmptySet
      DEF InitAccess, EnrollmentSound, PartsWhole, HelperSound, Enrolling, Absent
  <1> QED
    BY <1>2, <1>3, SaveInit DEF InitAccess, AccessInv, GrantsSound

\* A policy that is loaded names one of the lists of roots.
LEMMA SharedRoots ==
    ASSUME SaveInv, AgentsTypeOK, NEW s \in Sessions, session[s].step = "running"
    PROVE  Shared(s).roots \in SUBSET Path
PROOF
  <1>1. session[s].who \in Who
    BY DEF AgentsTypeOK, Session
  <1> DEFINE content == IF session[s].who = Operator THEN store["policy"]
                          ELSE own[session[s].who]
  <1>3. content \in {None, Broken} \cup Policies
    BY <1>1 DEF SaveInv, StoreTypeOK, AgentsTypeOK, Who
  <1>4. Loaded(content).roots \in RootLists
    BY <1>3, AccessAssumption DEF Loaded, Permissive, Paused
  <1> QED
    BY <1>4, AccessAssumption DEF Shared, Path

\* The types of agents and sessions survive every step.
LEMMA AgentsTypeStep == AccessInv /\ [NextAccess]_accessVars => AgentsTypeOK'
PROOF
  <1> SUFFICES ASSUME AccessInv, [NextAccess]_accessVars
               PROVE  AgentsTypeOK'
    OBVIOUS
  <1> SaveInv /\ StoreTypeOK /\ AgentsTypeOK /\ EnrollmentSound
    BY DEF AccessInv, SaveInv
  <1> USE AccessAssumption DEF AgentsTypeOK
  <1>1. ASSUME NEW h \in Helpers, MakeAccount(h) \/ MakeHome(h) \/ MakeKey(h)
        PROVE  AgentsTypeOK'
    <2>1. helper[h].agent \in Agents
      BY <1>1 DEF StoreTypeOK, Helper, Saving, Enrolling, MakeAccount, MakeHome, MakeKey, Makes, HelperAt
    <2>2. CASE MakeAccount(h)
      BY <2>1, <2>2 DEF MakeAccount, Makes
    <2>3. CASE MakeHome(h)
      BY <2>1, <2>3 DEF MakeHome, Makes
    <2>4. CASE MakeKey(h)
      BY <2>1, <2>4 DEF MakeKey, Makes
    <2> QED
      BY <1>1, <2>2, <2>3, <2>4
  <1>2. ASSUME NEW h \in Helpers, NEW until \in 1..MaxClock, MakePolicy(h, until)
        PROVE  AgentsTypeOK'
    <2>1. helper[h].agent \in Agents /\ helper[h].roots \in RootLists
      BY <1>2 DEF StoreTypeOK, Helper, Saving, Enrolling, MakePolicy, HelperAt
    <2> DEFINE policy == [enabled |-> TRUE, roots |-> helper[h].roots, until |-> until]
    <2>2. policy \in AgentPolicy
      BY <2>1 DEF AgentPolicy
    <2>3. /\ agent' = [agent EXCEPT ![helper[h].agent].policy = policy]
          /\ UNCHANGED <<own, session, clock, revoked>>
      BY <1>2 DEF MakePolicy
    <2> HIDE DEF policy
    <2> QED
      BY <2>1, <2>2, <2>3
  <1>3. ASSUME NEW h \in Helpers, NEW a \in Agents, RevokeAgent(h, a)
        PROVE  AgentsTypeOK'
    BY <1>3 DEF RevokeAgent, AgentPolicy
  <1>4. ASSUME NEW h \in Helpers, RevokeKey(h)
        PROVE  AgentsTypeOK'
    <2>1. helper[h].agent \in Agents
      BY <1>4 DEF StoreTypeOK, Helper, Saving, Enrolling, RevokeKey, HelperAt
    <2> QED
      BY <1>4, <2>1 DEF RevokeKey
  <1>5. CASE AccessTick
    BY <1>5 DEF AccessTick
  <1>6. ASSUME NEW s \in Sessions, OperatorLogin(s) \/ Return(s) \/ Leave(s)
        PROVE  AgentsTypeOK'
    BY <1>6 DEF OperatorLogin, Return, Leave, Steps, Session, Who
  <1>7. ASSUME NEW s \in Sessions, Admit(s)
        PROVE  AgentsTypeOK'
    BY <1>7 DEF Admit, Steps, Session
  <1>8. ASSUME NEW s \in Sessions, Resolve(s)
        PROVE  AgentsTypeOK'
    <2> DEFINE w == session[s].who
               p == Shared(s)
               cap == IF p.enabled THEN p.cap ELSE "read-only"
               mine == IF w = Operator THEN [cap |-> cap, roots |-> AnyRoot]
                       ELSE IF Live(w) THEN [cap |-> "controlled", roots |-> agent[w].policy.roots]
                       ELSE [cap |-> "read-only", roots |-> {}]
               next == [step |-> "acting", who |-> w, since |-> session[s].since,
                        cap |-> Lower(cap, mine.cap), roots |-> Intersection(mine.roots, p.roots),
                        lists |-> <<p.roots, mine.roots>>, withdrawn |-> w \in revoked]
    <2>1. session[s].step = "running" /\ w \in Who /\ session[s].since \in BOOLEAN
      BY <1>8 DEF Resolve, Session
    <2>2. p.roots \in SUBSET Path
      BY <2>1, SharedRoots
    <2>3. mine.roots \in SUBSET Path
      <3>1. w \in Agents /\ Live(w) => agent[w].policy.roots \in RootLists
        BY DEF Live, AgentPolicy
      <3> QED
        BY <2>1, <3>1 DEF Who, Path
    <2>4. Intersection(mine.roots, p.roots) \in SUBSET Path
      BY <2>2, <2>3 DEF Intersection
    <2>5. Lower(cap, mine.cap) \in {"read-only", "controlled", "unrestricted"}
      BY DEF Lower
    <2> HIDE DEF mine, p, cap
    <2>6. next \in Session
      BY <2>1, <2>2, <2>3, <2>4, <2>5 DEF Session
    <2> USE DEF mine, p, cap
    <2>7. session' = [session EXCEPT ![s] = next]
      BY <1>8 DEF Resolve, Steps
    <2>8. UNCHANGED <<agent, own, clock, revoked>>
      BY <1>8 DEF Resolve, Steps
    <2> HIDE DEF next
    <2> QED
      BY <2>6, <2>7, <2>8
  <1>9. ASSUME NEW s \in Sessions, NEW a \in Agents, Login(s, a)
        PROVE  AgentsTypeOK'
    BY <1>9 DEF Login, Session, Who
  <1>10. ASSUME NEW s \in Sessions, NEW tool \in Tools, Enter(s, tool)
         PROVE  AgentsTypeOK'
    BY <1>10 DEF Enter, Steps, Session, Who
  <1>11. CASE UNCHANGED <<agent, own, session, clock, revoked>>
    BY <1>11
  <1>12. ASSUME NEW h \in Helpers,
                \/ \E f \in DOMAIN Values : \E v \in Values[f] : Review(h, f, v)
                \/ SaveLocks(h) \/ SaveCompares(h) \/ SaveReplaces(h) \/ HelperFails(h)
                \/ \E a \in Agents : \E r \in RootLists \ {AnyRoot} : CreateAgent(h, a, r)
         PROVE  UNCHANGED <<agent, own, session, clock, revoked>>
    BY <1>12 DEF Review, SaveLocks, SaveCompares, SaveReplaces, HelperFails, CreateAgent
  <1> QED
    BY <1>1, <1>2, <1>3, <1>4, <1>5, <1>6, <1>7, <1>8, <1>9, <1>10, <1>11, <1>12
    DEF NextAccess, accessVars

\* Who has the lock of the gateway enrolls alone, and adds one policy.
LEMMA EnrollmentStep == AccessInv /\ [NextAccess]_accessVars => EnrollmentSound'
PROOF
  <1> SUFFICES ASSUME AccessInv, [NextAccess]_accessVars
               PROVE  EnrollmentSound'
    OBVIOUS
  <1> SaveInv /\ StoreTypeOK /\ AgentsTypeOK /\ EnrollmentSound
    BY DEF AccessInv, SaveInv
  <1> USE AccessAssumption DEF HelperAt, HelperTo, HelperEnds
  <1>a. ASSUME NEW h \in Helpers, helper[h].step \in Enrolling \cup {"unlink"}
        PROVE  /\ helper[h].agent \in Agents
               /\ \A g \in Helpers \ {h} : helper[g].step \notin Enrolling \cup {"unlink"}
    BY <1>a DEF StoreTypeOK, Helper, Saving, Enrolling, EnrollmentSound, HelperSound
  <1>b. ASSUME Enrolled' = Enrolled, PartsWhole', \A g \in Helpers : HelperSound(g)'
        PROVE  EnrollmentSound'
    BY <1>b DEF EnrollmentSound
  <1>1. ASSUME NEW h \in Helpers, MakeAccount(h)
        PROVE  EnrollmentSound'
    <2>1. /\ helper[h].step = "account" /\ helper[h].agent \in Agents
          /\ \A g \in Helpers \ {h} : helper[g].step \notin Enrolling \cup {"unlink"}
      BY <1>1, <1>a DEF MakeAccount, Makes, Enrolling
    <2>2. \A a \in Agents : agent'[a].policy = agent[a].policy
      BY <1>1, <2>1 DEF MakeAccount, Makes, AgentsTypeOK
    <2>3. Enrolled' = Enrolled
      BY <2>2 DEF Enrolled
    <2>4. PartsWhole'
      BY <1>1, <2>1, <2>2 DEF MakeAccount, Makes, AgentsTypeOK, EnrollmentSound, PartsWhole
    <2>5. \A g \in Helpers : HelperSound(g)'
      BY <1>1, <2>1, <2>2, <2>3
      DEF MakeAccount, Makes, AgentsTypeOK, EnrollmentSound, HelperSound, Enrolling, StoreTypeOK, Helper, Saving
    <2> QED
      BY <1>b, <2>3, <2>4, <2>5
  <1>2. ASSUME NEW h \in Helpers, MakeHome(h)
        PROVE  EnrollmentSound'
    <2>1. /\ helper[h].step = "home" /\ helper[h].agent \in Agents
          /\ \A g \in Helpers \ {h} : helper[g].step \notin Enrolling \cup {"unlink"}
      BY <1>2, <1>a DEF MakeHome, Makes, Enrolling
    <2>2. \A a \in Agents : agent'[a].policy = agent[a].policy
      BY <1>2, <2>1 DEF MakeHome, Makes, AgentsTypeOK
    <2>3. Enrolled' = Enrolled
      BY <2>2 DEF Enrolled
    <2>4. PartsWhole'
      BY <1>2, <2>1, <2>2 DEF MakeHome, Makes, AgentsTypeOK, EnrollmentSound, PartsWhole
    <2>5. \A g \in Helpers : HelperSound(g)'
      BY <1>2, <2>1, <2>2, <2>3
      DEF MakeHome, Makes, AgentsTypeOK, EnrollmentSound, HelperSound, Enrolling, StoreTypeOK, Helper, Saving
    <2> QED
      BY <1>b, <2>3, <2>4, <2>5
  <1>3. ASSUME NEW h \in Helpers, MakeKey(h)
        PROVE  EnrollmentSound'
    <2>1. /\ helper[h].step = "key" /\ helper[h].agent \in Agents
          /\ \A g \in Helpers \ {h} : helper[g].step \notin Enrolling \cup {"unlink"}
      BY <1>3, <1>a DEF MakeKey, Makes, Enrolling
    <2>2. \A a \in Agents : agent'[a].policy = agent[a].policy
      BY <1>3, <2>1 DEF MakeKey, Makes, AgentsTypeOK
    <2>3. Enrolled' = Enrolled
      BY <2>2 DEF Enrolled
    <2>4. PartsWhole'
      BY <1>3, <2>1, <2>2 DEF MakeKey, Makes, AgentsTypeOK, EnrollmentSound, PartsWhole
    <2>5. \A g \in Helpers : HelperSound(g)'
      BY <1>3, <2>1, <2>2, <2>3
      DEF MakeKey, Makes, AgentsTypeOK, EnrollmentSound, HelperSound, Enrolling, StoreTypeOK, Helper, Saving
    <2> QED
      BY <1>b, <2>3, <2>4, <2>5
  <1>4. ASSUME NEW h \in Helpers, NEW until \in 1..MaxClock, MakePolicy(h, until)
        PROVE  EnrollmentSound'
    <2> DEFINE a == helper[h].agent
               policy == [enabled |-> TRUE, roots |-> helper[h].roots, until |-> until]
    <2>1. /\ helper[h].step = "policy" /\ a \in Agents
          /\ \A g \in Helpers \ {h} : helper[g].step \notin Enrolling \cup {"unlink"}
      BY <1>4, <1>a DEF MakePolicy, Enrolling
    <2>2. agent[a].policy = None /\ agent[a].account /\ agent[a].home /\ agent[a].key
          /\ Cardinality(Enrolled) < MaxAgents
      BY <2>1 DEF EnrollmentSound, HelperSound, Enrolling
    <2>3. policy # None
      BY DEF None
    <2>4. agent' = [agent EXCEPT ![a].policy = policy] /\ revoked' = revoked
      BY <1>4 DEF MakePolicy
    <2>5. Enrolled' = Enrolled \cup {a} /\ a \notin Enrolled
      <3> HIDE DEF a, policy
      <3> QED
        BY <2>1, <2>2, <2>3, <2>4 DEF Enrolled, AgentsTypeOK
    <2>6. IsFiniteSet(Enrolled)' /\ Cardinality(Enrolled') = Cardinality(Enrolled) + 1
      BY <2>5, FS_AddElement DEF EnrollmentSound
    <2>7. Cardinality(Enrolled') <= MaxAgents
      BY <2>2, <2>6, FS_CardinalityType DEF EnrollmentSound
    <2>8. PartsWhole'
      <3> HIDE DEF a, policy
      <3> QED
        BY <2>1, <2>2, <2>4 DEF EnrollmentSound, PartsWhole, AgentsTypeOK
    <2>9. \A g \in Helpers : helper'[g].step \notin Enrolling \cup {"unlink"}
      BY <1>4, <2>1 DEF MakePolicy, Enrolling, StoreTypeOK
    <2> QED
      BY <2>6, <2>7, <2>8, <2>9 DEF EnrollmentSound, HelperSound, Enrolling
  <1>5. ASSUME NEW h \in Helpers, NEW a \in Agents, RevokeAgent(h, a)
        PROVE  EnrollmentSound'
    <2>1. \A g \in Helpers : helper[g].step \notin Enrolling \cup {"unlink"}
      BY <1>5, <1>a DEF RevokeAgent, EnrollmentSound, HelperSound
    <2>2. agent[a].policy \in AgentPolicy /\ agent[a].policy # None
      BY <1>5 DEF RevokeAgent, AgentsTypeOK
    <2>3. /\ agent'[a].policy = [agent[a].policy EXCEPT !.enabled = FALSE]
          /\ \A b \in Agents \ {a} : agent'[b] = agent[b]
          /\ agent'[a].account = agent[a].account /\ agent'[a].home = agent[a].home
          /\ agent'[a].key = agent[a].key
      BY <1>5 DEF RevokeAgent, AgentsTypeOK
    <2>4. agent'[a].policy # None
      BY <2>2, <2>3 DEF AgentPolicy, None
    <2>5. Enrolled' = Enrolled
      BY <2>2, <2>3, <2>4 DEF Enrolled
    <2>6. PartsWhole'
      BY <1>5, <2>2, <2>3 DEF RevokeAgent, EnrollmentSound, PartsWhole
    <2>7. \A g \in Helpers : HelperSound(g)'
      BY <1>5, <2>1 DEF RevokeAgent, HelperSound, Enrolling, StoreTypeOK
    <2> QED
      BY <1>b, <2>5, <2>6, <2>7
  <1>6. ASSUME NEW h \in Helpers, RevokeKey(h)
        PROVE  EnrollmentSound'
    <2>1. /\ helper[h].step = "unlink" /\ helper[h].agent \in revoked
          /\ \A g \in Helpers \ {h} : helper[g].step \notin Enrolling \cup {"unlink"}
      BY <1>6, <1>a DEF RevokeKey, EnrollmentSound, HelperSound
    <2>2. \A b \in Agents : /\ agent'[b].policy = agent[b].policy
                            /\ agent'[b].account = agent[b].account
                            /\ agent'[b].home = agent[b].home
                            /\ b # helper[h].agent => agent'[b].key = agent[b].key
      BY <1>6 DEF RevokeKey, AgentsTypeOK
    <2>3. Enrolled' = Enrolled
      BY <2>2 DEF Enrolled
    <2>4. PartsWhole'
      BY <1>6, <2>1, <2>2 DEF RevokeKey, EnrollmentSound, PartsWhole
    <2>5. \A g \in Helpers : HelperSound(g)'
      BY <1>6, <2>1 DEF RevokeKey, HelperSound, Enrolling, StoreTypeOK
    <2> QED
      BY <1>b, <2>3, <2>4, <2>5
  <1>7. ASSUME NEW h \in Helpers, NEW a \in Agents, NEW r \in RootLists, CreateAgent(h, a, r)
        PROVE  EnrollmentSound'
    <2>1. \A g \in Helpers : helper[g].step \notin Enrolling \cup {"unlink"}
      BY <1>7, <1>a DEF CreateAgent, EnrollmentSound, HelperSound
    <2>2. agent[a].policy = None /\ Cardinality(Enrolled) < MaxAgents
      BY <1>7 DEF CreateAgent, Absent, Enrolled
    <2>3. agent' = agent /\ revoked' = revoked /\ Enrolled' = Enrolled
      BY <1>7 DEF CreateAgent, Enrolled
    <2>4. \A g \in Helpers : HelperSound(g)'
      BY <1>7, <2>1, <2>2, <2>3 DEF CreateAgent, HelperSound, Enrolling, StoreTypeOK
    <2> QED
      BY <1>b, <2>3, <2>4 DEF EnrollmentSound, PartsWhole
  <1>8. ASSUME NEW h \in Helpers,
               \/ \E f \in DOMAIN Values : \E v \in Values[f] : Review(h, f, v)
               \/ SaveLocks(h) \/ SaveCompares(h) \/ SaveReplaces(h) \/ HelperFails(h)
        PROVE  EnrollmentSound'
    <2>1. agent' = agent /\ revoked' = revoked /\ Enrolled' = Enrolled
      BY <1>8 DEF Review, SaveLocks, SaveCompares, SaveReplaces, HelperFails, Enrolled
    <2>2. /\ helper'[h].step \notin Enrolling \cup {"unlink"}
          /\ \A g \in Helpers \ {h} : helper'[g] = helper[g]
          /\ enroller' = enroller \/ enroller = h
      BY <1>8
      DEF Review, SaveLocks, SaveCompares, SaveReplaces, HelperFails, Enrolling, StoreTypeOK, Helper, Saving
    <2>3. \A g \in Helpers : HelperSound(g)'
      BY <2>1, <2>2 DEF EnrollmentSound, HelperSound, Enrolling
    <2> QED
      BY <1>b, <2>1, <2>3 DEF EnrollmentSound, PartsWhole
  <1>9. ASSUME UNCHANGED <<helper, enroller, agent, revoked>>
        PROVE  EnrollmentSound'
    <2>1. Enrolled' = Enrolled
      BY <1>9 DEF Enrolled
    <2> QED
      BY <1>9, <2>1, <1>b DEF EnrollmentSound, PartsWhole, HelperSound
  <1>10. ASSUME NEW s \in Sessions,
                \/ OperatorLogin(s) \/ Admit(s) \/ Resolve(s) \/ Return(s) \/ Leave(s)
                \/ \E a \in Agents : Login(s, a)
                \/ \E tool \in Tools : Enter(s, tool)
         PROVE  UNCHANGED <<helper, enroller, agent, revoked>>
    BY <1>10 DEF OperatorLogin, Admit, Resolve, Return, Leave, Login, Enter, Steps
  <1> QED
    BY <1>1, <1>2, <1>3, <1>4, <1>5, <1>6, <1>7, <1>8, <1>9, <1>10
    DEF NextAccess, AccessTick, accessVars

\* What a policy grants to a call: a revoked agent is not live.
LEMMA CallsStep == AccessInv /\ [NextAccess]_accessVars => GrantsSound'
PROOF
  <1> SUFFICES ASSUME AccessInv, [NextAccess]_accessVars
               PROVE  GrantsSound'
    OBVIOUS
  <1> SaveInv /\ AgentsTypeOK /\ EnrollmentSound /\ GrantsSound
    BY DEF AccessInv
  <1> USE AccessAssumption
  <1> DEFINE Disabled == \A a \in revoked : agent[a].policy # None /\ ~agent[a].policy.enabled
             CallSound(s) ==
                /\ session[s].step \in {"entered", "running", "acting"} => ~session[s].since
                /\ session[s].step = "acting" =>
                      /\ session[s].withdrawn => session[s].cap = "read-only"
                      /\ session[s].roots = Intersection(session[s].lists[2], session[s].lists[1])
  <1>a. Disabled /\ \A s \in Sessions : CallSound(s)
    BY DEF GrantsSound
  <1>b. ASSUME Disabled', \A s \in Sessions : CallSound(s)'
        PROVE  GrantsSound'
    BY <1>b DEF GrantsSound
  <1>c. ASSUME session' = session, Disabled'
        PROVE  GrantsSound'
    BY <1>a, <1>b, <1>c
  <1>d. ASSUME NEW s \in Sessions, NEW next, Steps(s, next),
               /\ next.step \in {"entered", "running", "acting"} => ~next.since
               /\ next.step = "acting" =>
                     /\ next.withdrawn => next.cap = "read-only"
                     /\ next.roots = Intersection(next.lists[2], next.lists[1])
        PROVE  GrantsSound'
    <2>1. session'[s] = next /\ \A t \in Sessions \ {s} : session'[t] = session[t]
      BY <1>d DEF Steps, AgentsTypeOK
    <2>2. Disabled'
      BY <1>a, <1>d DEF Steps
    <2>3. \A t \in Sessions : CallSound(t)'
      BY <1>a, <1>d, <2>1
    <2> QED
      BY <1>b, <2>2, <2>3
  <1>e. \A a \in revoked : a \in Agents /\ ~Live(a) /\ a # Operator
    BY <1>a DEF Live, AgentsTypeOK
  <1>1. ASSUME NEW h \in Helpers, MakeAccount(h) \/ MakeHome(h) \/ MakeKey(h) \/ RevokeKey(h)
        PROVE  GrantsSound'
    <2>1. \A a \in Agents : agent'[a].policy = agent[a].policy
      BY <1>1 DEF MakeAccount, MakeHome, MakeKey, Makes, RevokeKey, AgentsTypeOK
    <2>2. session' = session /\ revoked' = revoked
      BY <1>1 DEF MakeAccount, MakeHome, MakeKey, Makes, RevokeKey
    <2> QED
      BY <1>a, <1>c, <2>1, <2>2 DEF AgentsTypeOK
  <1>2. ASSUME NEW h \in Helpers, NEW until \in 1..MaxClock, MakePolicy(h, until)
        PROVE  GrantsSound'
    <2>1. agent[helper[h].agent].policy = None
      BY <1>2 DEF MakePolicy, HelperAt, EnrollmentSound, HelperSound, Enrolling
    <2>2. helper[h].agent \notin revoked
      BY <1>a, <2>1
    <2>3. \A a \in revoked : agent'[a] = agent[a]
      BY <1>2, <2>2 DEF MakePolicy, AgentsTypeOK
    <2>4. session' = session /\ revoked' = revoked
      BY <1>2 DEF MakePolicy
    <2> QED
      BY <1>a, <1>c, <2>3, <2>4
  <1>3. ASSUME NEW h \in Helpers, NEW a \in Agents, RevokeAgent(h, a)
        PROVE  GrantsSound'
    <2>1. agent[a].policy \in AgentPolicy
      BY <1>3 DEF RevokeAgent, AgentsTypeOK
    <2>2. /\ agent'[a].policy = [agent[a].policy EXCEPT !.enabled = FALSE]
          /\ \A b \in Agents \ {a} : agent'[b] = agent[b]
          /\ revoked' = revoked \cup {a} /\ session' = session
      BY <1>3 DEF RevokeAgent, AgentsTypeOK
    <2>3. agent'[a].policy # None /\ ~agent'[a].policy.enabled
      BY <2>1, <2>2 DEF AgentPolicy, None
    <2>4. Disabled'
      BY <1>a, <2>2, <2>3 DEF AgentsTypeOK
    <2> QED
      BY <1>c, <2>2, <2>4
  <1>4. ASSUME NEW s \in Sessions, NEW tool \in Tools, Enter(s, tool)
        PROVE  GrantsSound'
    <2> DEFINE w == session[s].who
               next == [step |-> "entered", who |-> w, tool |-> tool, since |-> w \in revoked]
    <2>1. w \notin revoked
      BY <1>4, <1>e DEF Enter
    <2>2. Steps(s, next)
      BY <1>4 DEF Enter
    <2>3. next.step = "entered" /\ ~next.since
      BY <2>1
    <2> HIDE DEF next
    <2> QED
      BY <1>d, <2>2, <2>3
  <1>5. ASSUME NEW s \in Sessions, Admit(s)
        PROVE  GrantsSound'
    <2> DEFINE on == [session[s] EXCEPT !.step = "running"]
               again == [step |-> "open", who |-> session[s].who]
    <2>1. Steps(s, on) \/ Steps(s, again)
      BY <1>5 DEF Admit
    <2>2. on.step = "running" /\ ~on.since
      BY <1>5, <1>a DEF Admit, AgentsTypeOK, Session
    <2>3. again.step = "open"
      OBVIOUS
    <2> HIDE DEF on, again
    <2> QED
      BY <1>d, <2>1, <2>2, <2>3
  <1>6. ASSUME NEW s \in Sessions, Resolve(s)
        PROVE  GrantsSound'
    <2> DEFINE w == session[s].who
               p == Shared(s)
               cap == IF p.enabled THEN p.cap ELSE "read-only"
               mine == IF w = Operator THEN [cap |-> cap, roots |-> AnyRoot]
                       ELSE IF Live(w) THEN [cap |-> "controlled", roots |-> agent[w].policy.roots]
                       ELSE [cap |-> "read-only", roots |-> {}]
               next == [step |-> "acting", who |-> w, since |-> session[s].since,
                        cap |-> Lower(cap, mine.cap), roots |-> Intersection(mine.roots, p.roots),
                        lists |-> <<p.roots, mine.roots>>, withdrawn |-> w \in revoked]
    <2>1. Steps(s, next) /\ session[s].step = "running"
      BY <1>6 DEF Resolve
    <2>2. ~next.since /\ next.step = "acting"
      BY <1>a, <2>1
    <2>3. w \in revoked => mine.cap = "read-only"
      BY <1>e
    <2>4. next.withdrawn => next.cap = "read-only"
      <3> HIDE DEF mine, p, cap
      <3> QED
        BY <2>3 DEF Lower
    <2>5. next.roots = Intersection(next.lists[2], next.lists[1])
      <3> HIDE DEF mine, p, cap
      <3> QED
        OBVIOUS
    <2> HIDE DEF next
    <2> QED
      BY <1>d, <2>1, <2>2, <2>4, <2>5
  <1>7. ASSUME NEW s \in Sessions, Return(s)
        PROVE  GrantsSound'
    <2> DEFINE again == [step |-> "open", who |-> session[s].who]
    <2>1. Steps(s, again) /\ again.step = "open"
      BY <1>7 DEF Return
    <2> HIDE DEF again
    <2> QED
      BY <1>d, <2>1
  <1>8. ASSUME NEW s \in Sessions, OperatorLogin(s) \/ Leave(s) \/ \E a \in Agents : Login(s, a)
        PROVE  GrantsSound'
    <2>1. PICK next : /\ next.step \in {"open", "closed"}
                      /\ session' = [session EXCEPT ![s] = next]
                      /\ UNCHANGED <<agent, revoked>>
      BY <1>8 DEF OperatorLogin, Leave, Login, Steps
    <2>2. session'[s] = next /\ \A t \in Sessions \ {s} : session'[t] = session[t]
      BY <2>1 DEF AgentsTypeOK
    <2>3. \A t \in Sessions : CallSound(t)'
      BY <1>a, <2>1, <2>2
    <2> QED
      BY <1>a, <1>b, <2>1, <2>3
  <1>9. CASE UNCHANGED <<agent, session, revoked>>
    BY <1>9, <1>a, <1>c
  <1>10. ASSUME NEW h \in Helpers,
                \/ \E f \in DOMAIN Values : \E v \in Values[f] : Review(h, f, v)
                \/ SaveLocks(h) \/ SaveCompares(h) \/ SaveReplaces(h) \/ HelperFails(h)
                \/ \E a \in Agents : \E r \in RootLists \ {AnyRoot} : CreateAgent(h, a, r)
         PROVE  UNCHANGED <<agent, session, revoked>>
    BY <1>10 DEF Review, SaveLocks, SaveCompares, SaveReplaces, HelperFails, CreateAgent
  <1> QED
    BY <1>1, <1>2, <1>3, <1>4, <1>5, <1>6, <1>7, <1>8, <1>9, <1>10
    DEF NextAccess, AccessTick, accessVars

\* Types, saves, enrollments and calls stay sound in every behaviour
\* (access_policy.py, resource_policy.py, gateway.py and guardian_tool).
THEOREM AccessInvariant == SpecAccess => []AccessInv
PROOF
  <1>1. AccessInv /\ [NextAccess]_accessVars => AccessInv'
    BY SaveStep, AgentsTypeStep, EnrollmentStep, CallsStep DEF AccessInv
  <1> QED
    BY AccessInit, <1>1, PTL DEF SpecAccess

\* A revoked agent obtains nothing beyond read-only, however many calls,
\* enrollments and revocations are under way (revoke_agent, access_denial,
\* mode_cap).
THEOREM AccessRevokedStaysOut == SpecAccess => []RevokedStaysOut
PROOF
  <1>1. AccessInv => RevokedStaysOut
    BY DEF AccessInv, EnrollmentSound, PartsWhole, Enrolled, GrantsSound, RevokedStaysOut, EnrolledWhole
  <1> QED
    BY <1>1, AccessInvariant, PTL

\* A change may touch exactly what both lists permit, for any lists of roots
\* and any depth of directories (managed_project_roots).
THEOREM AccessRootsAreCapped == SpecAccess => []RootsAreCapped
PROOF
  <1>1. ASSUME AccessInv
        PROVE  RootsAreCapped
    <2> SUFFICES ASSUME NEW s \in Sessions, session[s].step = "acting", NEW path \in UNION RootLists
                 PROVE  Covers(session[s].roots, path)
                            <=> \A i \in 1..2 : Covers(session[s].lists[i], path)
      BY DEF RootsAreCapped
    <2>1. session[s].lists[1] \in SUBSET Path /\ session[s].lists[2] \in SUBSET Path
      BY <1>1 DEF AccessInv, AgentsTypeOK, Session
    <2>2. session[s].roots = Intersection(session[s].lists[2], session[s].lists[1])
      BY <1>1 DEF AccessInv, GrantsSound
    <2>3. path \in Path
      BY AccessAssumption DEF Path
    <2> QED
      BY <2>1, <2>2, <2>3, IntersectionCovers
  <1> QED
    BY <1>1, AccessInvariant, PTL
=============================================================================
