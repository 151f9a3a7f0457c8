-------------------------- MODULE SafetyGateProofs --------------------------
(***************************************************************************)
(* Proofs about the confirmation gate, for any number of processes, calls, *)
(* tokens and demands, any TTL and any limit on the pending map.           *)
(***************************************************************************)
EXTENDS SafetyGate, FiniteSetTheorems, TLAPS

\* What one token is worth: while it is pending it was issued, in one process
\* only, and has authorised nothing.
TokensSound ==
    /\ \A s \in Servers : \A t \in pending[s] : grant[t] # NoDemand /\ t \notin redeemed
    /\ \A s, r \in Servers : s # r => pending[s] \cap pending[r] = {}
    /\ \A t \in redeemed : grant[t] # NoDemand

\* What a call under way has been told.
CallsSound ==
    \A c \in Calls :
        /\ call[c].stage # "idle" => call[c].server \in Servers /\ call[c].demand \in Demands
        /\ call[c].stage = "waiting" => call[c].mode = "controlled"
        /\ Confirmed(c) =>
              /\ call[c].token \in redeemed
              /\ grant[call[c].token] = call[c].demand
              /\ call[c].at < expires[call[c].token]

GateInv == TypeOK /\ TokensSound /\ CallsSound /\ NoSharedApproval

\* What the entry purge leaves is a part of the map without expired tokens.
LEMMA SurvivorsSound ==
    ASSUME NEW s \in Servers, NEW now \in Nat, NEW held \in Survivors(s, now)
    PROVE  /\ held \subseteq pending[s]
           /\ \A t \in held : now < expires[t]
PROOF
  BY DEF Survivors, Unexpired, Oldest

LEMMA InitInv == Init => GateInv
PROOF
  BY GateAssumption
  DEF Init, GateInv, TypeOK, TokensSound, CallsSound, NoSharedApproval, Confirmed,
      Call, Idle, Stages, Modes

\* The mode a call reads is one of the three, and decides its first stage.
LEMMA ModeType ==
    ASSUME TypeOK, NEW s \in Servers
    PROVE  /\ SafetyMode(s) \in Modes
           /\ StageIn(SafetyMode(s)) \in Stages \ {"idle", "confirmation_required"}
           /\ StageIn(SafetyMode(s)) = "waiting" => SafetyMode(s) = "controlled"
           /\ StageIn(SafetyMode(s)) = "authorized" => SafetyMode(s) = "unrestricted"
PROOF
  BY GateAssumption DEF TypeOK, SafetyMode, StageIn, Modes, Stages

\* Answering a call changes the stage of that call and nothing else.
LEMMA AnswerSound ==
    ASSUME TypeOK, NEW c \in Calls, NEW stage \in Stages, call' = Answer(c, stage)
    PROVE  /\ call' \in [Calls -> Call]
           /\ \A e \in Calls \ {c} : call'[e] = call[e]
           /\ call'[c].stage = stage
           /\ call'[c].server = call[c].server /\ call'[c].mode = call[c].mode
           /\ call'[c].demand = call[c].demand /\ call'[c].token = call[c].token
           /\ call'[c].at = call[c].at
PROOF
  BY DEF TypeOK, Answer, Call

LEMMA NextInv == GateInv /\ [Next]_vars => GateInv'
PROOF
<1> SUFFICES ASSUME GateInv, [Next]_vars PROVE GateInv'
  OBVIOUS
<1> USE DEF GateInv
<1>1. ASSUME NEW c \in Calls, NEW s \in Servers, NEW d \in Demands,
             NEW t \in Tokens \cup {NoToken}, Enter(c, s, d, t)
      PROVE  GateInv'
  <2>1. TypeOK'
    BY <1>1, ModeType DEF Enter, TypeOK, Call
  <2>2. TokensSound'
    BY <1>1 DEF Enter, TokensSound
  <2>3. call' = [call EXCEPT ![c] = call'[c]] /\ ~Confirmed(c)'
    BY <1>1, ModeType DEF Enter, TypeOK, Confirmed
  <2>4. CallsSound'
    BY <1>1, <2>3, ModeType DEF Enter, TypeOK, CallsSound, Confirmed
  <2>5. NoSharedApproval'
    BY <1>1, <2>3 DEF Enter, TypeOK, NoSharedApproval, Confirmed
  <2> QED BY <2>1, <2>2, <2>4, <2>5
<1>2. ASSUME NEW c \in Calls, Confirm(c) PROVE GateInv'
  <2> DEFINE s == call[c].server  t == call[c].token
  <2>1. s \in Servers /\ call[c].demand \in Demands /\ call[c].at \in Nat
    BY <1>2 DEF Confirm, CallsSound, TypeOK, Call
  <2>2. PICK held \in Survivors(s, call[c].at) :
            /\ t \in held
            /\ grant[t] = call[c].demand
            /\ pending' = [pending EXCEPT ![s] = held \ {t}]
    BY <1>2 DEF Confirm
  <2>3. held \subseteq pending[s] /\ call[c].at < expires[t]
    BY <2>1, <2>2, SurvivorsSound
  <2>4. t \in Tokens /\ t \notin redeemed /\ grant[t] # NoDemand
    BY <2>1, <2>2, <2>3 DEF TypeOK, TokensSound
  <2>5. call' = Answer(c, "authorized") /\ redeemed' = redeemed \cup {t}
    BY <1>2 DEF Confirm
  <2>6. "authorized" \in Stages /\ call[c].mode = "controlled"
    BY <1>2 DEF Confirm, Stages, CallsSound
  <2>7. /\ call' \in [Calls -> Call]
        /\ \A e \in Calls \ {c} : call'[e] = call[e]
        /\ call'[c].stage = "authorized"
        /\ call'[c].server = call[c].server /\ call'[c].mode = call[c].mode
        /\ call'[c].demand = call[c].demand /\ call'[c].token = call[c].token
        /\ call'[c].at = call[c].at
    BY <2>5, <2>6, AnswerSound
  <2>8. TypeOK'
    BY <1>2, <2>1, <2>2, <2>3, <2>4, <2>5, <2>7 DEF Confirm, TypeOK
  <2>9. TokensSound'
    BY <1>2, <2>1, <2>2, <2>3, <2>4, <2>5 DEF Confirm, TypeOK, TokensSound
  <2>10. UNCHANGED <<grant, expires>>
    BY <1>2 DEF Confirm
  <2>11. CallsSound'
    <3> SUFFICES ASSUME NEW e \in Calls
                 PROVE  /\ call'[e].stage # "idle" =>
                             call'[e].server \in Servers /\ call'[e].demand \in Demands
                        /\ call'[e].stage = "waiting" => call'[e].mode = "controlled"
                        /\ Confirmed(e)' =>
                             /\ call'[e].token \in redeemed'
                             /\ grant'[call'[e].token] = call'[e].demand
                             /\ call'[e].at < expires'[call'[e].token]
      BY DEF CallsSound
    <3>1. CASE e = c
      <4>1. call'[c].server \in Servers /\ call'[c].demand \in Demands
        BY <2>1, <2>7
      <4>2. call'[c].token = t /\ t \in redeemed'
        BY <2>5, <2>7
      <4>3. grant'[t] = call'[c].demand /\ call'[c].at < expires'[t]
        BY <2>2, <2>3, <2>7, <2>10
      <4> QED BY <3>1, <4>1, <4>2, <4>3, <2>7
    <3>2. CASE e # c
      BY <3>2, <2>5, <2>7, <2>10 DEF CallsSound, Confirmed
    <3> QED BY <3>1, <3>2
  <2>12. NoSharedApproval'
    <3>1. \A e \in Calls : e # c /\ Confirmed(e)' => Confirmed(e) /\ call'[e].token # t
      BY <2>4, <2>7 DEF CallsSound, Confirmed
    <3> QED BY <3>1, <2>7 DEF NoSharedApproval
  <2> QED BY <2>8, <2>9, <2>11, <2>12
<1>3. ASSUME NEW c \in Calls, Reject(c) PROVE GateInv'
  <2> DEFINE s == call[c].server  t == call[c].token
  <2>1. s \in Servers /\ call[c].at \in Nat
    BY <1>3 DEF Reject, CallsSound, TypeOK, Call
  <2>2. PICK held \in Survivors(s, call[c].at) :
            pending' = [pending EXCEPT ![s] = held \ {t}]
    BY <1>3 DEF Reject
  <2>3. held \subseteq pending[s]
    BY <2>1, <2>2, SurvivorsSound
  <2>4. /\ call' \in [Calls -> Call]
        /\ \A e \in Calls \ {c} : call'[e] = call[e]
        /\ call'[c].stage = "forbidden"
        /\ call'[c].server = call[c].server /\ call'[c].demand = call[c].demand
    BY <1>3, AnswerSound DEF Reject, Stages
  <2>5. TypeOK'
    BY <1>3, <2>1, <2>2, <2>3, <2>4 DEF Reject, TypeOK
  <2>6. TokensSound'
    BY <1>3, <2>1, <2>2, <2>3 DEF Reject, TypeOK, TokensSound
  <2>7. call[c].stage # "idle" /\ UNCHANGED <<grant, expires, redeemed>>
    BY <1>3 DEF Reject
  <2>8. \A e \in Calls : Confirmed(e)' => e # c /\ Confirmed(e)
    BY <2>4 DEF Confirmed
  <2>9. CallsSound'
    BY <2>4, <2>7, <2>8 DEF CallsSound
  <2>10. NoSharedApproval'
    BY <2>4, <2>8 DEF NoSharedApproval
  <2> QED BY <2>5, <2>6, <2>9, <2>10
<1>4. ASSUME NEW c \in Calls, NEW t \in Tokens, Plan(c, t) PROVE GateInv'
  <2> DEFINE s == call[c].server
  <2>1. s \in Servers /\ call[c].demand \in Demands /\ call[c].at \in Nat
    BY <1>4 DEF Plan, CallsSound, TypeOK, Call
  <2>2. PICK held \in Survivors(s, call[c].at) :
            pending' = [pending EXCEPT ![s] = held \cup {t}]
    BY <1>4 DEF Plan
  <2>3. held \subseteq pending[s]
    BY <2>1, <2>2, SurvivorsSound
  <2>4. /\ call' \in [Calls -> Call]
        /\ \A e \in Calls \ {c} : call'[e] = call[e]
        /\ call'[c].stage = "confirmation_required"
        /\ call'[c].server = call[c].server /\ call'[c].demand = call[c].demand
    BY <1>4, AnswerSound DEF Plan, Stages
  <2>5. t \notin redeemed /\ \A r \in Servers : t \notin pending[r]
    BY <1>4 DEF Plan, TokensSound
  <2>6. call[c].at + TTL \in Nat /\ call[c].demand # NoDemand
    BY <2>1, GateAssumption
  <2>7. TypeOK'
    BY <1>4, <2>1, <2>2, <2>3, <2>4, <2>6 DEF Plan, TypeOK
  <2>8. TokensSound'
    BY <1>4, <2>1, <2>2, <2>3, <2>5, <2>6 DEF Plan, TypeOK, TokensSound
  <2>9. \A e \in Calls : Confirmed(e)' => e # c /\ Confirmed(e)
    BY <2>4 DEF Confirmed
  <2>10. \A u \in Tokens : u # t => grant'[u] = grant[u] /\ expires'[u] = expires[u]
    BY <1>4 DEF Plan, TypeOK
  <2>11. redeemed' = redeemed /\ redeemed \subseteq Tokens /\ call[c].stage # "idle"
    BY <1>4 DEF Plan, TypeOK
  <2>12. CallsSound'
    <3> SUFFICES ASSUME NEW e \in Calls
                 PROVE  /\ call'[e].stage # "idle" =>
                             call'[e].server \in Servers /\ call'[e].demand \in Demands
                        /\ call'[e].stage = "waiting" => call'[e].mode = "controlled"
                        /\ Confirmed(e)' =>
                             /\ call'[e].token \in redeemed'
                             /\ grant'[call'[e].token] = call'[e].demand
                             /\ call'[e].at < expires'[call'[e].token]
      BY DEF CallsSound
    <3>1. CASE e = c
      BY <3>1, <2>1, <2>4, <2>9
    <3>2. CASE e # c
      BY <3>2, <2>4, <2>5, <2>9, <2>10, <2>11 DEF CallsSound
    <3> QED BY <3>1, <3>2
  <2>13. NoSharedApproval'
    BY <2>4, <2>9 DEF NoSharedApproval
  <2> QED BY <2>7, <2>8, <2>12, <2>13
<1>5. ASSUME NEW c \in Calls, Leave(c) PROVE GateInv'
  BY <1>5, GateAssumption
  DEF Leave, TypeOK, TokensSound, CallsSound, NoSharedApproval, Confirmed, Call, Idle,
      Stages, Modes
<1>6. ASSUME NEW m \in Modes, OperatorSetsCap(m) PROVE GateInv'
  BY <1>6 DEF OperatorSetsCap, TypeOK, TokensSound, CallsSound, NoSharedApproval, Confirmed
<1>7. ASSUME NEW s \in Servers, Restart(s) PROVE GateInv'
  <2>1. \A c \in Calls : call'[c] = Idle \/ call'[c] = call[c]
    BY <1>7 DEF Restart
  <2>2. TypeOK'
    BY <1>7, GateAssumption DEF Restart, TypeOK, Call, Idle, Stages, Modes
  <2>3. TokensSound'
    BY <1>7 DEF Restart, TypeOK, TokensSound
  <2>4. CallsSound' /\ NoSharedApproval'
    BY <1>7, <2>1 DEF Restart, CallsSound, NoSharedApproval, Confirmed, Idle
  <2> QED BY <2>2, <2>3, <2>4
<1>8. CASE Tick
  BY <1>8 DEF Tick, TypeOK, TokensSound, CallsSound, NoSharedApproval, Confirmed
<1>9. CASE UNCHANGED vars
  BY <1>9 DEF vars, TypeOK, TokensSound, CallsSound, NoSharedApproval, Confirmed
<1> QED
  BY <1>1, <1>2, <1>3, <1>4, <1>5, <1>6, <1>7, <1>8, <1>9 DEF Next

\* Every reachable state is well typed and its tokens and calls are sound.
THEOREM GateInvariant == Spec => []GateInv
PROOF
  BY InitInv, NextInv, PTL DEF Spec

\* Every variable keeps its type.
THEOREM GateTypeOK == Spec => []TypeOK
PROOF
  BY GateInvariant, PTL DEF GateInv

\* A call let through in controlled mode presented an unexpired token issued
\* for exactly its demand, and no process can accept that token again.
THEOREM GateApprovalIsExact == Spec => []ApprovalIsExact
PROOF
<1>1. GateInv => ApprovalIsExact
  BY DEF GateInv, ApprovalIsExact, CallsSound, TokensSound
<1> QED
  BY <1>1, GateInvariant, PTL

\* No token lets two calls through.
THEOREM GateNoSharedApproval == Spec => []NoSharedApproval
PROOF
  BY GateInvariant, PTL DEF GateInv

-----------------------------------------------------------------------------
(* The pending map stays within its limit.  Purge and eviction bring it    *)
(* strictly below the limit before the one new token is added.             *)

PendingInv ==
    \A s \in Servers : IsFiniteSet(pending[s]) /\ Cardinality(pending[s]) <= MaxPending

\* What survives the purge leaves room for one more token.
LEMMA SurvivorsFit ==
    ASSUME PendingInv, NEW s \in Servers, NEW now, NEW held \in Survivors(s, now)
    PROVE  /\ held \subseteq pending[s] /\ IsFiniteSet(held)
           /\ Cardinality(held) \in Nat /\ Cardinality(held) < MaxPending
PROOF
<1> DEFINE fresh == Unexpired(s, now)
<1>1. /\ fresh \subseteq pending[s] /\ IsFiniteSet(fresh)
      /\ Cardinality(fresh) \in Nat /\ Cardinality(fresh) <= MaxPending
  <2>1. fresh \subseteq pending[s]
    BY DEF Unexpired
  <2>2. IsFiniteSet(fresh) /\ Cardinality(fresh) <= Cardinality(pending[s])
    BY <2>1, FS_Subset DEF PendingInv
  <2>3. Cardinality(fresh) \in Nat /\ Cardinality(pending[s]) \in Nat
    BY <2>2, FS_CardinalityType DEF PendingInv
  <2> QED BY <2>1, <2>2, <2>3, GateAssumption DEF PendingInv
<1>2. CASE Cardinality(fresh) >= MaxPending
  <2>1. PICK t \in Oldest(fresh) : held = fresh \ {t}
    BY <1>2 DEF Survivors
  <2>2. t \in fresh
    BY <2>1 DEF Oldest
  <2>3. IsFiniteSet(held) /\ Cardinality(held) = Cardinality(fresh) - 1
    BY <1>1, <2>1, <2>2, FS_RemoveElement
  <2> QED BY <1>1, <2>1, <2>3, FS_CardinalityType, GateAssumption
<1>3. CASE ~(Cardinality(fresh) >= MaxPending)
  BY <1>1, <1>3, GateAssumption DEF Survivors
<1> QED BY <1>2, <1>3

LEMMA PendingNext == GateInv /\ PendingInv /\ [Next]_vars => PendingInv'
PROOF
<1> SUFFICES ASSUME GateInv, PendingInv, [Next]_vars PROVE PendingInv'
  OBVIOUS
<1>0. pending \in [Servers -> SUBSET Tokens]
  BY DEF GateInv, TypeOK
<1>1. ASSUME NEW c \in Calls, call[c].stage = "waiting",
             NEW held \in Survivors(call[c].server, call[c].at), NEW extra,
             \/ pending' = [pending EXCEPT ![call[c].server] = held \ {extra}]
             \/ pending' = [pending EXCEPT ![call[c].server] = held \cup {extra}]
      PROVE  PendingInv'
  <2> DEFINE s == call[c].server
  <2>1. s \in Servers
    BY <1>1 DEF GateInv, CallsSound
  <2>2. /\ IsFiniteSet(held)
        /\ Cardinality(held) \in Nat /\ Cardinality(held) < MaxPending
    BY <1>1, <2>1, SurvivorsFit
  <2>3. pending'[s] = held \ {extra} \/ pending'[s] = held \cup {extra}
    BY <1>0, <1>1, <2>1
  <2>4. ASSUME pending'[s] = held \ {extra}
       PROVE  IsFiniteSet(pending'[s]) /\ Cardinality(pending'[s]) <= MaxPending
    <3>1. /\ IsFiniteSet(held \ {extra})
          /\ Cardinality(held \ {extra}) =
                 IF extra \in held THEN Cardinality(held) - 1 ELSE Cardinality(held)
      BY <2>2, FS_RemoveElement, Zenon
    <3>2. Cardinality(held \ {extra}) <= MaxPending
      BY <2>2, <3>1, GateAssumption
    <3> QED BY <2>4, <3>1, <3>2, Zenon
  <2>5. ASSUME pending'[s] = held \cup {extra}
       PROVE  IsFiniteSet(pending'[s]) /\ Cardinality(pending'[s]) <= MaxPending
    <3>1. /\ IsFiniteSet(held \cup {extra})
          /\ Cardinality(held \cup {extra}) =
                 IF extra \in held THEN Cardinality(held) ELSE Cardinality(held) + 1
      BY <2>2, FS_AddElement, Zenon
    <3>2. Cardinality(held \cup {extra}) <= MaxPending
      BY <2>2, <3>1, GateAssumption
    <3> QED BY <2>5, <3>1, <3>2, Zenon
  <2>6. IsFiniteSet(pending'[s]) /\ Cardinality(pending'[s]) <= MaxPending
    BY <2>3, <2>4, <2>5, Zenon
  <2>7. \A r \in Servers \ {s} : pending'[r] = pending[r]
    BY <1>0, <1>1
  <2> QED BY <2>6, <2>7 DEF PendingInv
<1>2. ASSUME NEW c \in Calls, Confirm(c) PROVE PendingInv'
  BY <1>1, <1>2 DEF Confirm
<1>3. ASSUME NEW c \in Calls, Reject(c) PROVE PendingInv'
  <2>1. PICK held \in Survivors(call[c].server, call[c].at) :
            pending' = [pending EXCEPT ![call[c].server] = held \ {call[c].token}]
    BY <1>3 DEF Reject
  <2>2. call[c].stage = "waiting"
    BY <1>3 DEF Reject
  <2> QED BY <1>1, <2>1, <2>2
<1>4. ASSUME NEW c \in Calls, NEW t \in Tokens, Plan(c, t) PROVE PendingInv'
  BY <1>1, <1>4 DEF Plan
<1>5. ASSUME NEW s \in Servers, Restart(s) PROVE PendingInv'
  BY <1>0, <1>5, FS_EmptySet, GateAssumption DEF Restart, PendingInv
<1>6. ASSUME UNCHANGED pending PROVE PendingInv'
  BY <1>6 DEF PendingInv
<1> QED
  BY <1>2, <1>3, <1>4, <1>5, <1>6
  DEF Next, vars, Enter, Leave, OperatorSetsCap, Tick

\* The pending map never outgrows its limit, in any process.
THEOREM GatePendingBounded == Spec => []PendingBounded
PROOF
<1>1. Init => PendingInv
  BY FS_EmptySet, GateAssumption DEF Init, PendingInv
<1>2. PendingInv => PendingBounded
  BY DEF PendingInv, PendingBounded
<1> QED
  BY <1>1, <1>2, PendingNext, GateInvariant, PTL DEF Spec

-----------------------------------------------------------------------------
(* The gate implements the contract: each step under the lock is a step of *)
(* the contract that loses what the purge and the eviction dropped.        *)

LEMMA GateStepRefines == GateInv /\ [Next]_vars => [Contract!Next]_(Contract!grantVars)
PROOF
<1> SUFFICES ASSUME GateInv, [Next]_vars
             PROVE  Contract!Next \/ UNCHANGED <<grant, pending, redeemed>>
  BY DEF Contract!grantVars
<1>0. pending \in [Servers -> SUBSET Tokens]
  BY DEF GateInv, TypeOK
<1>1. ASSUME NEW c \in Calls, Confirm(c) PROVE Contract!Next
  <2> DEFINE s == call[c].server  t == call[c].token
  <2>1. s \in Servers /\ call[c].demand \in Demands /\ call[c].at \in Nat
    BY <1>1 DEF Confirm, GateInv, CallsSound, TypeOK, Call
  <2>2. PICK held \in Survivors(s, call[c].at) :
            t \in held /\ grant[t] = call[c].demand
            /\ pending' = [pending EXCEPT ![s] = held \ {t}]
    BY <1>1 DEF Confirm
  <2>3. held \subseteq pending[s]
    BY <2>1, SurvivorsSound
  <2> DEFINE lost == pending[s] \ held
  <2>4. lost \in SUBSET Tokens /\ t \in Tokens /\ t \notin redeemed
    BY <1>0, <2>1, <2>2, <2>3 DEF GateInv, TokensSound
  <2>5. held \ {t} = pending[s] \ (lost \cup {t})
    BY <2>3
  <2>6. Contract!Redeem(s, t, call[c].demand, lost)
    BY <1>1, <2>2, <2>3, <2>4, <2>5 DEF Contract!Redeem, Confirm
  <2> QED BY <2>1, <2>4, <2>6 DEF Contract!Next
<1>2. ASSUME NEW c \in Calls, Reject(c) PROVE Contract!Next
  <2> DEFINE s == call[c].server  t == call[c].token
  <2>1. s \in Servers /\ call[c].at \in Nat
    BY <1>2 DEF Reject, GateInv, CallsSound, TypeOK, Call
  <2>2. PICK held \in Survivors(s, call[c].at) :
            pending' = [pending EXCEPT ![s] = held \ {t}]
    BY <1>2 DEF Reject
  <2>3. held \subseteq pending[s]
    BY <2>1, SurvivorsSound
  <2> DEFINE lost == pending[s] \ (held \ {t})
  <2>4. lost \in SUBSET Tokens /\ held \ {t} = pending[s] \ lost
    BY <1>0, <2>1, <2>3
  <2>5. Contract!Lose(s, lost)
    BY <1>2, <2>2, <2>4 DEF Contract!Lose, Reject
  <2> QED BY <2>1, <2>4, <2>5 DEF Contract!Next
<1>3. ASSUME NEW c \in Calls, NEW t \in Tokens, Plan(c, t) PROVE Contract!Next
  <2> DEFINE s == call[c].server
  <2>1. s \in Servers /\ call[c].demand \in Demands /\ call[c].at \in Nat
    BY <1>3 DEF Plan, GateInv, CallsSound, TypeOK, Call
  <2>2. PICK held \in Survivors(s, call[c].at) :
            pending' = [pending EXCEPT ![s] = held \cup {t}]
    BY <1>3 DEF Plan
  <2>3. held \subseteq pending[s]
    BY <2>1, SurvivorsSound
  <2> DEFINE lost == pending[s] \ held
  <2>4. lost \in SUBSET Tokens /\ held \cup {t} = (pending[s] \ lost) \cup {t}
    BY <1>0, <2>1, <2>3
  <2>5. Contract!Issue(s, t, call[c].demand, lost)
    BY <1>3, <2>2, <2>4 DEF Contract!Issue, Plan
  <2> QED BY <2>1, <2>4, <2>5 DEF Contract!Next
<1>4. ASSUME NEW s \in Servers, Restart(s) PROVE Contract!Next
  <2>1. Contract!Lose(s, pending[s])
    BY <1>4 DEF Restart, Contract!Lose
  <2> QED BY <1>0, <2>1 DEF Contract!Next
<1> QED
  BY <1>1, <1>2, <1>3, <1>4
  DEF Next, vars, Enter, Leave, OperatorSetsCap, Tick

\* The gate, with its clock, its capacity and its stale reads, implements the
\* contract that ProjectPatches is built on.
THEOREM GateImplementsContract == Spec => ImplementsContract
PROOF
<1>1. Init => Contract!Init
  BY DEF Init, Contract!Init
<1> QED
  BY <1>1, GateStepRefines, GateInvariant, PTL
  DEF Spec, ImplementsContract, Contract!Spec

-----------------------------------------------------------------------------
(* What a process forgets                                                  *)

\* What does not survive the purge has expired, or is the oldest of a full map.
LEMMA SurvivorsKept ==
    ASSUME GateInv, PendingInv, NEW s \in Servers, NEW now \in Nat, NEW held \in Survivors(s, now),
           NEW t \in pending[s] \ held
    PROVE  \/ expires[t] <= now
           \/ /\ Cardinality(pending[s]) >= MaxPending
              /\ \A u \in held : expires[t] <= expires[u]
PROOF
<1>1. PICK fresh : fresh = Unexpired(s, now)
  OBVIOUS
<1>2. pending[s] \subseteq Tokens /\ expires \in [Tokens -> Nat]
  BY DEF GateInv, TypeOK
<1>3. t \in fresh \/ expires[t] <= now
  BY <1>1, <1>2 DEF Unexpired
<1>4. CASE t \in fresh
  <2>1. Cardinality(fresh) >= MaxPending /\ held \in {fresh \ {u} : u \in Oldest(fresh)}
    BY <1>1, <1>4 DEF Survivors
  <2>2. PICK oldest \in Oldest(fresh) : held = fresh \ {oldest}
    BY <2>1
  <2>3. \A u \in held : expires[t] <= expires[u]
    BY <1>4, <2>2 DEF Oldest
  <2>4. fresh \subseteq pending[s] /\ IsFiniteSet(pending[s])
    BY <1>1 DEF Unexpired, PendingInv
  <2>5. IsFiniteSet(fresh) /\ Cardinality(fresh) <= Cardinality(pending[s])
    BY <2>4, FS_Subset
  <2>6. Cardinality(fresh) \in Nat /\ Cardinality(pending[s]) \in Nat
    BY <2>4, <2>5, FS_CardinalityType
  <2> QED BY <2>1, <2>3, <2>5, <2>6, GateAssumption
<1> QED BY <1>3, <1>4

\* A process forgets a token only because the token was presented, had expired,
\* was the oldest of a full map, or because the process restarted
\* (src/safety.py, _pending_confirmations).
THEOREM GateTokenKept == Spec => TokenKept
PROOF
<1> DEFINE Excused(s, t) ==
               \/ pending'[s] = {} /\ \A c \in Calls : call'[c].server # s
               \/ \E c \in Calls :
                     /\ call[c].stage = "waiting" /\ call'[c].stage # "waiting"
                     /\ call[c].server = s
                     /\ \/ call[c].token = t
                        \/ expires[t] <= call[c].at
                        \/ /\ Cardinality(pending[s]) >= MaxPending
                           /\ \A u \in pending[s] \cap pending'[s] :
                                  expires[t] <= expires[u]
           Kept == \A s \in Servers : \A t \in pending[s] \ pending'[s] : Excused(s, t)
<1>1. ASSUME GateInv, PendingInv, NEW c \in Calls, call[c].stage = "waiting",
             NEW held \in Survivors(call[c].server, call[c].at), NEW gone, NEW new,
             pending' = [pending EXCEPT ![call[c].server] = (held \ gone) \cup new],
             \A t \in gone : t = call[c].token, new \cap pending[call[c].server] = {},
             call'[c].stage # "waiting"
      PROVE  Kept
  <2>1. PICK server, at : server = call[c].server /\ at = call[c].at
    OBVIOUS
  <2>2. server \in Servers /\ at \in Nat /\ pending \in [Servers -> SUBSET Tokens]
    BY <1>1, <2>1 DEF GateInv, TypeOK, CallsSound, Call
  <2>3. SUFFICES ASSUME NEW s \in Servers, NEW t \in pending[s] \ pending'[s]
                 PROVE  Excused(s, t)
    OBVIOUS
  <2>4. s = server /\ pending'[s] = (held \ gone) \cup new
    BY <1>1, <2>1, <2>2
  <2>5. CASE t \in gone
    BY <1>1, <2>1, <2>4, <2>5
  <2>6. CASE t \notin held
    <3>1. \/ expires[t] <= at
          \/ /\ Cardinality(pending[s]) >= MaxPending
             /\ \A u \in held : expires[t] <= expires[u]
      BY <1>1, <2>1, <2>2, <2>4, <2>6, SurvivorsKept
    <3>2. \A u \in pending[s] \cap pending'[s] : u \in held
      BY <1>1, <2>1, <2>4
    <3> QED BY <1>1, <2>1, <2>4, <3>1, <3>2
  <2> QED BY <2>4, <2>5, <2>6
<1>2. ASSUME GateInv, PendingInv, NEW c \in Calls, Confirm(c) \/ Reject(c) PROVE Kept
  <2>1. call[c].stage = "waiting" /\ call'[c].stage # "waiting"
    BY <1>2, AnswerSound DEF Confirm, Reject, GateInv, Stages
  <2>2. PICK held \in Survivors(call[c].server, call[c].at) :
            pending' = [pending EXCEPT ![call[c].server] = held \ {call[c].token}]
    BY <1>2 DEF Confirm, Reject
  <2>3. PICK gone, new : gone = {call[c].token} /\ new = {}
    OBVIOUS
  <2>4. pending' = [pending EXCEPT ![call[c].server] = (held \ gone) \cup new]
    BY <2>2, <2>3
  <2>5. (\A t \in gone : t = call[c].token) /\ new \cap pending[call[c].server] = {}
    BY <2>3
  <2> QED BY <1>1, <1>2, <2>1, <2>4, <2>5
<1>3. ASSUME GateInv, PendingInv, NEW c \in Calls, NEW t \in Tokens, Plan(c, t) PROVE Kept
  <2>1. call[c].stage = "waiting" /\ call'[c].stage # "waiting"
    BY <1>3, AnswerSound DEF Plan, GateInv, Stages
  <2>2. PICK held \in Survivors(call[c].server, call[c].at) :
            pending' = [pending EXCEPT ![call[c].server] = held \cup {t}]
    BY <1>3 DEF Plan
  <2>3. held \cup {t} = (held \ {}) \cup {t}
    OBVIOUS
  <2>4. call[c].server \in Servers
    BY <1>3, <2>1 DEF GateInv, CallsSound
  <2>5. {t} \cap pending[call[c].server] = {}
    BY <1>3, <2>4 DEF Plan, GateInv, TokensSound
  <2> QED BY <1>1, <1>3, <2>1, <2>2, <2>3, <2>5
<1>4. ASSUME GateInv, NEW r \in Servers, Restart(r) PROVE Kept
  <2>1. /\ pending'[r] = {} /\ \A s \in Servers \ {r} : pending'[s] = pending[s]
        /\ \A c \in Calls : call'[c] = IF call[c].server = r THEN Idle ELSE call[c]
    BY <1>4 DEF Restart, GateInv, TypeOK
  <2>2. \A c \in Calls : call'[c].server # r
    BY <2>1, GateAssumption DEF Idle
  <2> QED BY <2>1, <2>2
<1>5. ASSUME pending' = pending PROVE Kept
  BY <1>5
<1>6. ASSUME GateInv, PendingInv, Next PROVE Kept
  BY <1>2, <1>3, <1>4, <1>5, <1>6 DEF Next, Enter, Leave, OperatorSetsCap, Tick
<1>7. GateInv /\ PendingInv /\ [Next]_vars => [Kept]_vars
  BY <1>6
<1>8. Init => PendingInv
  BY FS_EmptySet, GateAssumption DEF Init, PendingInv
<1> QED
  BY <1>7, <1>8, GateInvariant, PendingNext, PTL DEF Spec, TokenKept
=============================================================================
