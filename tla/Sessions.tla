------------------------------ MODULE Sessions -------------------------------
(***************************************************************************)
(* What refresh promises a client of the tokens it holds: a login begins a *)
(* session, a token is exchanged for one new token of the same session, is *)
(* useless by then and never useful again.  Only a token that two requests *)
(* exchange at the same moment may be exchanged twice.                     *)
(***************************************************************************)
EXTENDS Naturals

CONSTANTS Ids, None

VARIABLES
    standing,  \* of each token: "none" until the client holds it, "usable", "dead"
    session,   \* of each token the client holds, the token that began its session
    uses,      \* how often the client was given another token for it, up to 2
    forked     \* the tokens two requests met at

vars == <<standing, session, uses, forked>>

Init ==
    /\ standing = [i \in Ids |-> "none"]
    /\ session = [i \in Ids |-> None]
    /\ uses = [i \in Ids |-> 0]
    /\ forked = {}

Begin(i) ==
    /\ standing[i] = "none"
    /\ standing' = [standing EXCEPT ![i] = "usable"]
    /\ session' = [session EXCEPT ![i] = i]
    /\ UNCHANGED <<uses, forked>>

\* What the client is given may be dead on arrival: a logout or a replay was faster.
Exchange(i, j) ==
    /\ standing[i] = "dead" /\ standing[j] = "none"
    /\ uses[i] = 0 \/ i \in forked
    /\ \E s \in {"usable", "dead"} : standing' = [standing EXCEPT ![j] = s]
    /\ session' = [session EXCEPT ![j] = session[i]]
    /\ uses' = [uses EXCEPT ![i] = IF @ = 0 THEN 1 ELSE 2]
    /\ UNCHANGED forked

\* Requests meet at tokens the client holds.
Meet ==
    /\ forked \subseteq forked'
    /\ \A i \in forked' \ forked : i \in Ids /\ standing[i] # "none"

\* Tokens are revoked or expire.
Lapse ==
    \E lost \in SUBSET {i \in Ids : standing[i] = "usable"} :
        standing' = [i \in Ids |-> IF i \in lost THEN "dead" ELSE standing[i]]

Next ==
    \/ (UNCHANGED standing \/ Lapse) /\ Meet /\ UNCHANGED <<session, uses>>
    \/ \E i \in Ids : Begin(i) \/ \E j \in Ids : Exchange(i, j)

Spec == Init /\ [][Next]_vars

=============================================================================
