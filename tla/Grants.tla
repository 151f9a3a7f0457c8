------------------------------- MODULE Grants -------------------------------
(***************************************************************************)
(* What src/safety.py promises its callers about confirmation tokens, with *)
(* no clock, no capacity and no locks: a token is issued by one server     *)
(* process for one demand (an operation with its exact parameters), may be *)
(* lost at any moment (expiry, eviction, restart), and authorises that     *)
(* demand, in that process, at most once.                                  *)
(*                                                                         *)
(* SafetyGate implements this contract; ProjectPatches is built on it.     *)
(***************************************************************************)
CONSTANTS
    Servers,    \* server processes, each with a private pending map
    Tokens,     \* the unguessable values a process may draw
    Demands,    \* fingerprints: (operation, parameters)
    NoDemand    \* the demand of a token that was never issued

VARIABLES
    grant,      \* grant[t]: the demand token t was issued for
    live,       \* live[s]: the tokens process s still remembers
    redeemed    \* the tokens that have authorised a call

grantVars == <<grant, live, redeemed>>

GrantsTypeOK ==
    /\ grant \in [Tokens -> Demands \cup {NoDemand}]
    /\ live \in [Servers -> SUBSET Tokens]
    /\ redeemed \in SUBSET Tokens

Init ==
    /\ grant = [t \in Tokens |-> NoDemand]
    /\ live = [s \in Servers |-> {}]
    /\ redeemed = {}

\* Process s draws the fresh token t for demand d, forgetting `lost` on the way.
Issue(s, t, d, lost) ==
    /\ grant[t] = NoDemand
    /\ grant' = [grant EXCEPT ![t] = d]
    /\ live' = [live EXCEPT ![s] = (@ \ lost) \cup {t}]
    /\ UNCHANGED redeemed

\* Process s accepts t for the very demand it was issued for, and forgets it.
Redeem(s, t, d, lost) ==
    /\ t \in live[s] \ lost
    /\ t \notin redeemed
    /\ grant[t] = d
    /\ live' = [live EXCEPT ![s] = @ \ (lost \cup {t})]
    /\ redeemed' = redeemed \cup {t}
    /\ UNCHANGED grant

\* Process s forgets tokens: expired, evicted, burnt by a mismatch, or restarted.
Lose(s, lost) ==
    /\ live' = [live EXCEPT ![s] = @ \ lost]
    /\ UNCHANGED <<grant, redeemed>>

Next ==
    \E s \in Servers, lost \in SUBSET Tokens :
        \/ Lose(s, lost)
        \/ \E t \in Tokens, d \in Demands :
               Issue(s, t, d, lost) \/ Redeem(s, t, d, lost)

Spec == Init /\ [][Next]_grantVars
=============================================================================
