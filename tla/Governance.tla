----------------------------- MODULE Governance -----------------------------
(***************************************************************************)
(* GovernanceService over an append-only governance repository             *)
(* (src/backend/app/governance_audit/service.py, repositories.py):         *)
(* authorizations, violations, manual overrides and the audit log.         *)
(*                                                                         *)
(* Every authorization and every violation is a history of versions, the   *)
(* last one being its state.  A write appends a version to one repository  *)
(* and then an event to the audit log; the two are separate appends to     *)
(* separate files.  The second may not happen: the process may die between *)
(* them, and the log refuses an event whose identifier it has, which is    *)
(* derived from the event's fields.  Then the version stays.               *)
(*                                                                         *)
(* Timestamps are the caller's and in no order.  Subjects and one policy   *)
(* are registered; descriptions, reasons, conditions and artifacts are not *)
(* modelled, so two versions differ by the fields below only.              *)
(***************************************************************************)
EXTENDS Naturals, Sequences, FiniteSets

CONSTANTS
    Subjects,        \* governance subjects
    Authorizations,  \* authorization identifiers
    Violations,      \* violation identifiers
    Overrides,       \* manual override identifiers
    Actors,          \* who decides
    None,            \* no actor, no authorization
    MayCrash,        \* whether the process may die between two appends
    MaxTime,         \* bound of the model: timestamps
    MaxVersions      \* bound of the model: versions of a violation

ASSUME GovernanceAssumption ==
    /\ IsFiniteSet(Violations) /\ IsFiniteSet(Authorizations) /\ IsFiniteSet(Overrides)
    /\ None \notin Actors \union Authorizations
    /\ MayCrash \in BOOLEAN
    /\ MaxTime \in Nat
    /\ MaxVersions \in Nat

VARIABLES
    authorizations,  \* _authorization_history
    violations,      \* _violation_history
    overrides,       \* _overrides, None for an identifier not used
    audit            \* the audit events, without their order

governanceVars == <<authorizations, violations, overrides, audit>>

Times == 1..MaxTime
Scopes == {"MANUAL_OVERRIDE", "OTHER"}  \* authorization types
Statuses == {"REQUESTED", "APPROVED", "REJECTED", "REVOKED"}

\* AuthorizationRecord with its validator; 0 is no expiry and no decision yet.
AuthorizationVersions ==
    {r \in [status : Statuses, subject : Subjects, scope : Scopes, requestedAt : Times,
            expiresAt : 0..MaxTime, by : Actors \union {None}, decidedAt : 0..MaxTime] :
        /\ r.expiresAt = 0 \/ r.expiresAt > r.requestedAt
        /\ IF r.status = "REQUESTED"
           THEN r.by = None /\ r.decidedAt = 0
           ELSE r.by # None /\ r.decidedAt >= r.requestedAt}

\* GovernanceViolation with its validator; the service adds the waiver, and only then.
ViolationVersions ==
    {r \in [status : {"OPEN", "ACKNOWLEDGED", "RESOLVED", "WAIVED"}, subject : Subjects,
            detectedAt : Times, resolvedAt : 0..MaxTime, waiver : Authorizations \union {None}] :
        /\ IF r.status \in {"OPEN", "ACKNOWLEDGED"}
           THEN r.resolvedAt = 0
           ELSE r.resolvedAt >= r.detectedAt
        /\ (r.status = "WAIVED") <=> (r.waiver # None)}

OverrideRecords ==
    [subject : Subjects, by : Actors, createdAt : Times, authorization : Authorizations]

AuditEvents ==
    [action : Statuses \union {"DETECT", "ACKNOWLEDGE", "RESOLVE", "WAIVE", "OVERRIDE"},
     subject : Subjects, at : Times, authorization : Authorizations \union {None}]

-----------------------------------------------------------------------------
(* Repositories. *)

Latest(history) == history[Len(history)]

\* The moment of a version: its decision or, before it, the request.
Moment(r) == IF r.decidedAt # 0 THEN r.decidedAt ELSE r.requestedAt

\* A plausible mistake: the identity is compared and the time is not.
AcceptsAtAnyTime(history, r) ==
    history # <<>> =>
        /\ r # Latest(history)
        /\ r.subject = Latest(history).subject
        /\ r.scope = Latest(history).scope
        /\ r.requestedAt = Latest(history).requestedAt

\* append_authorization: a new version continues the same request, and later.
AcceptsAuthorization(history, r) ==
    history # <<>> =>
        /\ r # Latest(history)
        /\ r.subject = Latest(history).subject
        /\ r.scope = Latest(history).scope
        /\ r.requestedAt = Latest(history).requestedAt
        /\ Moment(r) > Moment(Latest(history))

\* append_violation: the same detection in another state; the order is not checked.
AcceptsViolation(history, r) ==
    history # <<>> =>
        /\ r # Latest(history)
        /\ r.subject = Latest(history).subject
        /\ r.detectedAt = Latest(history).detectedAt

AppendAuthorization(a, r) ==
    /\ AcceptsAuthorization(authorizations[a], r)
    /\ authorizations' = [authorizations EXCEPT ![a] = Append(@, r)]
    /\ UNCHANGED <<violations, overrides>>

AppendViolation(v, r) ==
    /\ AcceptsViolation(violations[v], r)
    /\ Len(violations[v]) < MaxVersions
    /\ violations' = [violations EXCEPT ![v] = Append(@, r)]
    /\ UNCHANGED <<authorizations, overrides>>

\* The fields the identifier of an audit event is derived from.
Event(action, subject, at, a) ==
    [action |-> action, subject |-> subject, at |-> at, authorization |-> a]

\* _append_generated_audit, after the version is stored: the event is new and
\* appended, or known and refused, or the process dies before it.
Audited(event) ==
    \/ audit' = audit \union {event}
    \/ MayCrash /\ audit' = audit

-----------------------------------------------------------------------------
(* Authorizations. *)

NoAuthorization(a) == authorizations[a] = <<>>
Status(a) == IF NoAuthorization(a) THEN "NONE" ELSE Latest(authorizations[a]).status

\* The event of a version, a request or a decision.
AuthorizationEvent(a, r) == Event(r.status, r.subject, Moment(r), a)

\* request_authorization: whatever its history, the record must be REQUESTED.
RequestAuthorization(a, subject, scope, at, expires) ==
    LET record == [status |-> "REQUESTED", subject |-> subject, scope |-> scope,
                   requestedAt |-> at, expiresAt |-> expires, by |-> None, decidedAt |-> 0]
    IN  /\ expires # 0 => expires > at
        /\ AppendAuthorization(a, record)
        /\ Audited(AuthorizationEvent(a, record))

\* The transitions that the public methods ask for; NOT_REQUIRED and EXPIRED are
\* allowed too, and no method asks for them.
Allowed(from) ==
    CASE from = "REQUESTED" -> {"APPROVED", "REJECTED"}
      [] from = "APPROVED" -> {"REVOKED"}
      [] OTHER -> {}

\* A plausible mistake: expiry counts from the moment after it.
ExpiredLate(r, at) == r.expiresAt # 0 /\ at > r.expiresAt
Expired(r, at) == r.expiresAt # 0 /\ at >= r.expiresAt

\* A plausible mistake: who decided is not carried into the version.
DecidedByNobody(r, to, by, at) == [r EXCEPT !.status = to, !.decidedAt = at]
Decided(r, to, by, at) == [r EXCEPT !.status = to, !.by = by, !.decidedAt = at]

\* _decide_authorization: approve, reject and revoke.
DecideAuthorization(a, to, by, at) ==
    LET current == Latest(authorizations[a])
        updated == Decided(current, to, by, at)
    IN  /\ ~NoAuthorization(a)
        /\ to \in Allowed(current.status)
        /\ ~Expired(current, at)
        /\ at >= current.requestedAt
        /\ AppendAuthorization(a, updated)
        /\ Audited(AuthorizationEvent(a, updated))

\* A plausible mistake: any approval for the subject will do.
PermitsAnyScope(a, subject, at) ==
    /\ ~NoAuthorization(a)
    /\ LET r == Latest(authorizations[a]) IN
        /\ r.subject = subject
        /\ r.status = "APPROVED"
        /\ ~Expired(r, at)

\* require_active_authorization for a manual override of the subject.
Permits(a, subject, at) ==
    /\ ~NoAuthorization(a)
    /\ LET r == Latest(authorizations[a]) IN
        /\ r.scope = "MANUAL_OVERRIDE"
        /\ r.subject = subject
        /\ r.status = "APPROVED"
        /\ ~Expired(r, at)

-----------------------------------------------------------------------------
(* Violations and overrides. *)

\* record_violation: whatever its history, the record must be OPEN.
RecordViolation(v, subject, at) ==
    /\ AppendViolation(v,
          [status |-> "OPEN", subject |-> subject, detectedAt |-> at, resolvedAt |-> 0,
           waiver |-> None])
    /\ Audited(Event("DETECT", subject, at, None))

ViolationIs(v, states) ==
    violations[v] # <<>> /\ Latest(violations[v]).status \in states

AcknowledgeViolation(v, at) ==
    LET current == Latest(violations[v]) IN
    /\ ViolationIs(v, {"OPEN"})
    /\ AppendViolation(v, [current EXCEPT !.status = "ACKNOWLEDGED"])
    /\ Audited(Event("ACKNOWLEDGE", current.subject, at, None))

ResolveViolation(v, at) ==
    LET current == Latest(violations[v]) IN
    /\ ViolationIs(v, {"OPEN", "ACKNOWLEDGED"})
    /\ at >= current.detectedAt
    /\ AppendViolation(v, [current EXCEPT !.status = "RESOLVED", !.resolvedAt = at])
    /\ Audited(Event("RESOLVE", current.subject, at, None))

WaiveViolation(v, a, at) ==
    LET current == Latest(violations[v]) IN
    /\ ViolationIs(v, {"OPEN", "ACKNOWLEDGED"})
    /\ Permits(a, current.subject, at)
    /\ at >= current.detectedAt
    /\ AppendViolation(v,
          [current EXCEPT !.status = "WAIVED", !.resolvedAt = at, !.waiver = a])
    /\ Audited(Event("WAIVE", current.subject, at, a))

\* The approver named must be the authorization's.
RecordOverride(o, a, subject, by, at) ==
    /\ overrides[o] = None
    /\ Permits(a, subject, at)
    /\ Latest(authorizations[a]).by = by
    /\ overrides' = [overrides EXCEPT ![o] =
          [subject |-> subject, by |-> by, createdAt |-> at, authorization |-> a]]
    /\ Audited(Event("OVERRIDE", subject, at, a))
    /\ UNCHANGED <<authorizations, violations>>

-----------------------------------------------------------------------------

GovernanceInit ==
    /\ authorizations = [a \in Authorizations |-> <<>>]
    /\ violations = [v \in Violations |-> <<>>]
    /\ overrides = [o \in Overrides |-> None]
    /\ audit = {}

AuthorizationStep ==
    \/ \E a \in Authorizations, subject \in Subjects, scope \in Scopes, at \in Times,
          expires \in 0..MaxTime : RequestAuthorization(a, subject, scope, at, expires)
    \/ \E a \in Authorizations, to \in Statuses \ {"REQUESTED"}, by \in Actors, at \in Times :
          DecideAuthorization(a, to, by, at)

ViolationStep ==
    \/ \E v \in Violations, subject \in Subjects, at \in Times : RecordViolation(v, subject, at)
    \/ \E v \in Violations, at \in Times : AcknowledgeViolation(v, at) \/ ResolveViolation(v, at)
    \/ \E v \in Violations, a \in Authorizations, at \in Times : WaiveViolation(v, a, at)

OverrideStep ==
    \E o \in Overrides, a \in Authorizations, subject \in Subjects, by \in Actors, at \in Times :
        RecordOverride(o, a, subject, by, at)

GovernanceNext == AuthorizationStep \/ ViolationStep \/ OverrideStep

\* No step is owed: every write is a caller's.
GovernanceSpec == GovernanceInit /\ [][GovernanceNext]_governanceVars

-----------------------------------------------------------------------------
(* Properties. *)

\* Types, among them what the models' validators demand of every version.
GovernanceTypeOK ==
    /\ authorizations \in [Authorizations -> Seq(AuthorizationVersions)]
    /\ violations \in [Violations -> Seq(ViolationVersions)]
    /\ overrides \in [Overrides -> OverrideRecords \union {None}]
    /\ audit \subseteq AuditEvents

\* The histories implement the life cycle: no sequence of requests, decisions and
\* renewed requests, at whatever times, decides an authorization twice or reopens
\* it, and no violation is waived unless its authorization stands approved.
Lifecycle == INSTANCE GovernanceLifecycle WITH
    status <- [a \in Authorizations |-> Status(a)],
    waiver <- [v \in Violations |->
                  IF violations[v] = <<>> THEN None ELSE Latest(violations[v]).waiver]

LifecycleImplemented == Lifecycle!LifecycleSpec

\* Some version of a permitted a manual override of the subject at that time, by
\* whom if anybody is named.
Permitted(a, subject, at, by) ==
    \E n \in 1..Len(authorizations[a]) :
        LET r == authorizations[a][n] IN
        /\ r.status = "APPROVED"
        /\ r.scope = "MANUAL_OVERRIDE"
        /\ r.subject = subject
        /\ ~(r.expiresAt # 0 /\ at >= r.expiresAt)
        /\ by = None \/ r.by = by

\* Whatever was revoked or requested since, every waiver and every override on
\* record was permitted by its authorization, for its subject, before the expiry,
\* and an override by the approver it names.
ExceptionsWerePermitted ==
    /\ \A v \in Violations : \A n \in 1..Len(violations[v]) :
          LET r == violations[v][n] IN
          r.status = "WAIVED" => Permitted(r.waiver, r.subject, r.resolvedAt, None)
    /\ \A o \in Overrides :
          LET r == overrides[o] IN
          r # None => Permitted(r.authorization, r.subject, r.createdAt, r.by)

\* get_integrity_summary: histories that are no life cycle ...
InvalidAuthorizations ==
    {a \in Authorizations : ~NoAuthorization(a) /\
        LET h == authorizations[a] IN
        \/ h[1].status # "REQUESTED"
        \/ \E n \in 1..Len(h) - 1 :
              <<h[n].status, h[n + 1].status>> \notin
                  {<<"REQUESTED", "APPROVED">>, <<"REQUESTED", "REJECTED">>,
                   <<"APPROVED", "REVOKED">>}}

\* ... overrides whose authorization does not stand approved now ...
OverridesWithoutAuthorization ==
    {o \in Overrides : overrides[o] # None /\
        LET r == overrides[o] IN
        \/ NoAuthorization(r.authorization)
        \/ LET current == Latest(authorizations[r.authorization]) IN
              \/ current.status # "APPROVED"
              \/ current.scope # "MANUAL_OVERRIDE"
              \/ current.subject # r.subject}

\* ... and overrides made when their authorization had expired.
ExpiredUsage ==
    {o \in Overrides \ OverridesWithoutAuthorization : overrides[o] # None /\
        LET r == overrides[o]
            current == Latest(authorizations[r.authorization])
        IN  current.expiresAt # 0 /\ r.createdAt >= current.expiresAt}

\* The integrity summary blames the guarded writes for nothing but this: an override
\* counts as unauthorized once its authorization has been revoked.
IntegrityBlamesRevocationsOnly ==
    /\ InvalidAuthorizations = {}
    /\ ExpiredUsage = {}
    /\ \A o \in OverridesWithoutAuthorization :
          Status(overrides[o].authorization) = "REVOKED"

\* The event of a request or of a decision is never refused: no other version of the
\* authorization, whatever was asked for in between and at whatever times, took its
\* identifier before.  (Violations have no such luck: see EveryWriteIsAudited.)
DecisionsAreNeverRefused ==
    [][\A a \in Authorizations : authorizations'[a] # authorizations[a] =>
          AuthorizationEvent(a, Latest(authorizations'[a])) \notin audit]_governanceVars

\* docs/governance-audit-domain-v1.md:23 "Every governed write emits an immutable
\* `AuditEvent`", as long as the process lives: a write that changes a record adds an
\* event to the log.
EveryWriteIsAudited == [][audit' # audit]_governanceVars
=============================================================================
