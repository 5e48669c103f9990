--------------------------- MODULE AlertLifecycle ---------------------------
(***************************************************************************)
(* What the service promises of an alert, whichever table it is kept in: a *)
(* workflow active -> acknowledged -> resolved that never goes back, in    *)
(* which the acknowledgement, once written, stays what it is.  The last    *)
(* resolution is the one that counts.                                      *)
(***************************************************************************)
CONSTANTS Ids, Users, None

VARIABLES
    status,  \* of each alert; "none" before it is raised, "removed" once deleted
    ackBy,   \* who acknowledged it
    resBy    \* who resolved it last

vars == <<status, ackBy, resBy>>

Open(i) == status[i] \in {"active", "acknowledged"}

Init ==
    /\ status = [i \in Ids |-> "none"]
    /\ ackBy = [i \in Ids |-> None]
    /\ resBy = [i \in Ids |-> None]

\* One or several alerts are raised at once.
Raise ==
    /\ \E new \in SUBSET {i \in Ids : status[i] = "none"} :
        status' = [i \in Ids |-> IF i \in new THEN "active" ELSE status[i]]
    /\ UNCHANGED <<ackBy, resBy>>

Acknowledge(i, u) ==
    /\ status[i] = "active"
    /\ status' = [status EXCEPT ![i] = "acknowledged"]
    /\ ackBy' = [ackBy EXCEPT ![i] = u]
    /\ UNCHANGED resBy

Resolve(i, u) ==
    /\ Open(i) \/ status[i] = "resolved"
    /\ status' = [status EXCEPT ![i] = "resolved"]
    /\ ackBy' = IF status[i] = "active" THEN [ackBy EXCEPT ![i] = u] ELSE ackBy
    /\ resBy' = [resBy EXCEPT ![i] = u]

Remove(i) ==
    /\ Open(i) \/ status[i] = "resolved"
    /\ status' = [status EXCEPT ![i] = "removed"]
    /\ ackBy' = [ackBy EXCEPT ![i] = None]
    /\ resBy' = [resBy EXCEPT ![i] = None]

Next ==
    \/ Raise
    \/ \E i \in Ids : Remove(i) \/ \E u \in Users : Acknowledge(i, u) \/ Resolve(i, u)

Spec == Init /\ [][Next]_vars

=============================================================================
