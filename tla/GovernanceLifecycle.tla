------------------------ MODULE GovernanceLifecycle ------------------------
(***************************************************************************)
(* What the governance domain promises of permissions, abstracted from     *)
(* histories, timestamps, scopes and the audit log: an authorization is    *)
(* requested, decided once, and revoked at most once after an approval; a  *)
(* violation is waived under an authorization that stands approved, and    *)
(* leaves the waiver only by being detected again.                         *)
(***************************************************************************)
CONSTANTS
    Authorizations,  \* authorization identifiers
    Violations,      \* violation identifiers
    None             \* no waiver

VARIABLES
    status,  \* of each authorization; "NONE" before it is requested
    waiver   \* the authorization a violation is waived under, or None

lifecycleVars == <<status, waiver>>

LifecycleInit ==
    /\ status = [a \in Authorizations |-> "NONE"]
    /\ waiver = [v \in Violations |-> None]

Move(a, from, to) ==
    /\ status[a] = from
    /\ status' = [status EXCEPT ![a] = to]
    /\ UNCHANGED waiver

\* A revocation does not undo what was waived before it.
Waive(v, a) ==
    /\ waiver[v] = None
    /\ status[a] = "APPROVED"
    /\ waiver' = [waiver EXCEPT ![v] = a]
    /\ UNCHANGED status

DetectAgain(v) ==
    /\ waiver' = [waiver EXCEPT ![v] = None]
    /\ UNCHANGED status

LifecycleNext ==
    \/ \E a \in Authorizations :
        \/ Move(a, "NONE", "REQUESTED")
        \/ Move(a, "REQUESTED", "APPROVED")
        \/ Move(a, "REQUESTED", "REJECTED")
        \/ Move(a, "APPROVED", "REVOKED")
    \/ \E v \in Violations, a \in Authorizations : Waive(v, a)
    \/ \E v \in Violations : DetectAgain(v)

LifecycleSpec == LifecycleInit /\ [][LifecycleNext]_lifecycleVars
=============================================================================
