----------------------------- MODULE SafetyGate -----------------------------
(***************************************************************************)
(* src/safety.py: the confirmation gate every state-changing tool passes.  *)
(*                                                                         *)
(* MCP tools run in a thread pool, so a call is an actor of its own.       *)
(* request_authorization computes the mode, the fingerprint and `now`      *)
(* BEFORE it takes _confirmation_lock; what it read may be stale when the  *)
(* lock is granted.  The model keeps those two steps apart: Enter, then    *)
(* one of Confirm, Reject and Plan under the lock.  The pending map lives in   *)
(* the memory of its process and dies with it.                             *)
(***************************************************************************)
EXTENDS Naturals, FiniteSets

CONSTANTS
    Servers,        \* server processes
    Calls,          \* slots for tool calls in flight
    Tokens,         \* values secrets.token_urlsafe may return
    Demands,        \* fingerprints of (operation, parameters)
    EnvMode,        \* [Servers -> Modes]: VPS_GUARDIAN_MODE of each process
    TTL,            \* _token_ttl_seconds()
    MaxPending,     \* 1024 in the code
    MaxTime,        \* bound on the clock
    NoServer, NoDemand, NoToken

Modes == {"read-only", "controlled", "unrestricted"}
Rank == [m \in Modes |-> CASE m = "read-only" -> 0
                           [] m = "controlled" -> 1
                           [] m = "unrestricted" -> 2]

ASSUME GateAssumption ==
    /\ EnvMode \in [Servers -> Modes]
    /\ TTL \in Nat \ {0}
    /\ MaxPending \in Nat \ {0}
    /\ MaxTime \in Nat
    /\ NoServer \notin Servers
    /\ NoDemand \notin Demands
    /\ NoToken \notin Tokens

VARIABLES
    clock,      \* time.time()
    cap,        \* the operator's mode cap (access_policy.mode_cap)
    pending,    \* pending[s]: the keys of _pending_confirmations in process s
    grant,      \* grant[t]: the fingerprint stored with token t
    expires,    \* expires[t]: the expires_at stored with token t
    call,       \* call[c]: what the call in slot c has read and been answered
    redeemed    \* history: the tokens that authorised a call

vars == <<clock, cap, pending, grant, expires, call, redeemed>>

Stages == {"idle", "waiting", "authorized", "forbidden", "confirmation_required"}

Call == [stage : Stages, server : Servers \cup {NoServer}, mode : Modes,
         demand : Demands \cup {NoDemand}, token : Tokens \cup {NoToken},
         at : Nat]

Idle == [stage |-> "idle", server |-> NoServer, mode |-> "read-only",
         demand |-> NoDemand, token |-> NoToken, at |-> 0]

TypeOK ==
    /\ clock \in Nat
    /\ cap \in Modes
    /\ pending \in [Servers -> SUBSET Tokens]
    /\ grant \in [Tokens -> Demands \cup {NoDemand}]
    /\ expires \in [Tokens -> Nat]
    /\ call \in [Calls -> Call]
    /\ redeemed \in SUBSET Tokens

Init ==
    /\ clock = 0
    /\ cap \in Modes
    /\ pending = [s \in Servers |-> {}]
    /\ grant = [t \in Tokens |-> NoDemand]
    /\ expires = [t \in Tokens |-> 0]
    /\ call = [c \in Calls |-> Idle]
    /\ redeemed = {}

\* get_safety_mode: the process's own mode, lowered to the operator's cap.
SafetyMode(s) == IF Rank[EnvMode[s]] <= Rank[cap] THEN EnvMode[s] ELSE cap

\* The calls that answer without the lock: unrestricted goes ahead,
\* read-only refuses, controlled goes on to the lock.
StageIn(mode) == CASE mode = "unrestricted" -> "authorized"
                   [] mode = "read-only" -> "forbidden"
                   [] mode = "controlled" -> "waiting"

Enter(c, s, d, t) ==
    /\ call[c].stage = "idle"
    /\ call' = [call EXCEPT ![c] =
                    [stage |-> StageIn(SafetyMode(s)), server |-> s,
                     mode |-> SafetyMode(s), demand |-> d, token |-> t,
                     at |-> clock]]
    /\ UNCHANGED <<clock, cap, pending, grant, expires, redeemed>>

-----------------------------------------------------------------------------
(* Under _confirmation_lock                                                *)

Unexpired(s, now) == {t \in pending[s] : expires[t] > now}

\* Mutant: the newest token goes instead of the oldest.
OldestReversed(held) == {t \in held : \A u \in held : expires[u] <= expires[t]}

Oldest(held) == {t \in held : \A u \in held : expires[t] <= expires[u]}

\* What is left of the map once expired tokens are dropped and, when it is
\* full, one token with the smallest expiry is evicted.  Ties: any of them.
Survivors(s, now) ==
    LET held == Unexpired(s, now)
    IN  IF Cardinality(held) >= MaxPending
        THEN {held \ {t} : t \in Oldest(held)}
        ELSE {held}

Answer(c, stage) == [call EXCEPT ![c].stage = stage]

\* Mutant: the token is looked up and not popped.
ConfirmKeeps(c) ==
    LET s == call[c].server  t == call[c].token IN
    /\ call[c].stage = "waiting"
    /\ \E held \in Survivors(s, call[c].at) :
           /\ t \in held
           /\ grant[t] = call[c].demand
           /\ pending' = [pending EXCEPT ![s] = held]
    /\ call' = Answer(c, "authorized")
    /\ redeemed' = redeemed \cup {t}
    /\ UNCHANGED <<clock, cap, grant, expires>>

\* Mutant: the fingerprint is not compared.
ConfirmBlind(c) ==
    LET s == call[c].server  t == call[c].token IN
    /\ call[c].stage = "waiting"
    /\ \E held \in Survivors(s, call[c].at) :
           /\ t \in held
           /\ pending' = [pending EXCEPT ![s] = held \ {t}]
    /\ call' = Answer(c, "authorized")
    /\ redeemed' = redeemed \cup {t}
    /\ UNCHANGED <<clock, cap, grant, expires>>

\* A presented token is popped whatever it turns out to be worth; it
\* authorises the call exactly when it survived and its fingerprint matches.
Confirm(c) ==
    LET s == call[c].server  t == call[c].token IN
    /\ call[c].stage = "waiting"
    /\ \E held \in Survivors(s, call[c].at) :
           /\ t \in held
           /\ grant[t] = call[c].demand
           /\ pending' = [pending EXCEPT ![s] = held \ {t}]
    /\ call' = Answer(c, "authorized")
    /\ redeemed' = redeemed \cup {t}
    /\ UNCHANGED <<clock, cap, grant, expires>>

Reject(c) ==
    LET s == call[c].server  t == call[c].token IN
    /\ call[c].stage = "waiting"
    /\ t # NoToken
    /\ \E held \in Survivors(s, call[c].at) :
           /\ t \in held => grant[t] # call[c].demand
           /\ pending' = [pending EXCEPT ![s] = held \ {t}]
    /\ call' = Answer(c, "forbidden")
    /\ UNCHANGED <<clock, cap, grant, expires, redeemed>>

\* Without a token the call gets one: a fresh value, bound to its fingerprint.
Plan(c, t) ==
    LET s == call[c].server IN
    /\ call[c].stage = "waiting"
    /\ call[c].token = NoToken
    /\ grant[t] = NoDemand
    /\ \E held \in Survivors(s, call[c].at) :
           pending' = [pending EXCEPT ![s] = held \cup {t}]
    /\ grant' = [grant EXCEPT ![t] = call[c].demand]
    /\ expires' = [expires EXCEPT ![t] = call[c].at + TTL]
    /\ call' = Answer(c, "confirmation_required")
    /\ UNCHANGED <<clock, cap, redeemed>>

\* The caller acts on the answer and the slot is free again.
Leave(c) ==
    /\ call[c].stage \in {"authorized", "forbidden", "confirmation_required"}
    /\ call' = [call EXCEPT ![c] = Idle]
    /\ UNCHANGED <<clock, cap, pending, grant, expires, redeemed>>

-----------------------------------------------------------------------------
(* The world around the gate                                               *)

OperatorSetsCap(m) ==
    /\ cap' = m
    /\ UNCHANGED <<clock, pending, grant, expires, call, redeemed>>

\* A process restart loses its pending map and the calls it was serving.
Restart(s) ==
    /\ pending' = [pending EXCEPT ![s] = {}]
    /\ call' = [c \in Calls |-> IF call[c].server = s THEN Idle ELSE call[c]]
    /\ UNCHANGED <<clock, cap, grant, expires, redeemed>>

Tick ==
    /\ clock < MaxTime
    /\ clock' = clock + 1
    /\ UNCHANGED <<cap, pending, grant, expires, call, redeemed>>

Next ==
    \/ \E c \in Calls :
          \/ \E s \in Servers, d \in Demands, t \in Tokens \cup {NoToken} :
                Enter(c, s, d, t)
          \/ Confirm(c)
          \/ Reject(c)
          \/ \E t \in Tokens : Plan(c, t)
          \/ Leave(c)
    \/ \E m \in Modes : OperatorSetsCap(m)
    \/ \E s \in Servers : Restart(s)
    \/ Tick

Spec == Init /\ [][Next]_vars

-----------------------------------------------------------------------------
(* Properties                                                              *)

Confirmed(c) == call[c].stage = "authorized" /\ call[c].mode = "controlled"

\* A call let through in controlled mode presented a token issued for exactly
\* its operation and parameters, that had not expired when the call began and
\* that no process can accept again.
ApprovalIsExact ==
    \A c \in Calls : Confirmed(c) =>
        /\ grant[call[c].token] = call[c].demand
        /\ call[c].at < expires[call[c].token]
        /\ \A s \in Servers : call[c].token \notin pending[s]

\* Two calls are never let through by the same token, whichever threads and
\* processes serve them and however their steps interleave.
NoSharedApproval ==
    \A c, e \in Calls :
        c # e /\ Confirmed(c) /\ Confirmed(e) => call[c].token # call[e].token

\* The pending map never outgrows its limit, in any process.
PendingBounded == \A s \in Servers : Cardinality(pending[s]) <= MaxPending

\* A process forgets a token only because the token was presented, had expired,
\* was the oldest of a full map, or because the process restarted.
TokenKept ==
    [][ \A s \in Servers : \A t \in pending[s] \ pending'[s] :
            \/ pending'[s] = {} /\ \A c \in Calls : call'[c].server # s
            \/ \E c \in Calls :
                  /\ call[c].stage = "waiting" /\ call'[c].stage # "waiting"
                  /\ call[c].server = s
                  /\ \/ call[c].token = t
                     \/ expires[t] <= call[c].at
                     \/ /\ Cardinality(pending[s]) >= MaxPending
                        /\ \A u \in pending[s] \cap pending'[s] :
                               expires[t] <= expires[u] ]_vars

\* The gate implements the contract of Grants.
Contract == INSTANCE Grants WITH live <- pending
ImplementsContract == Contract!Spec
=============================================================================
