-------------------------- MODULE Governance_proofs --------------------------
(***************************************************************************)
(* Theorems about Governance for every set of subjects, authorizations,    *)
(* violations, overrides and actors, whether or not the process dies.      *)
(*                                                                         *)
(* Every step is of one of three kinds: it appends a version to one        *)
(* authorization, or to one violation, or records an override.  What each  *)
(* kind guarantees is stated once (AuthorizationGrows, ViolationGrows,     *)
(* OverrideMade) and the invariants are preserved by the kinds.            *)
(***************************************************************************)
EXTENDS Governance, SequenceTheorems, TLAPS

\* A first request, or a decision on the latest version and later than it.
Follows(a, r) ==
    \/ authorizations[a] = <<>> /\ r.status = "REQUESTED"
    \/ /\ authorizations[a] # <<>>
       /\ LET c == Latest(authorizations[a]) IN
          /\ r.status \in Allowed(c.status)
          /\ r.subject = c.subject
          /\ r.scope = c.scope
          /\ r.expiresAt = c.expiresAt
          /\ Moment(r) > Moment(c)

AuthorizationGrows(a, r) ==
    /\ r \in AuthorizationVersions
    /\ Follows(a, r)
    /\ authorizations' = [authorizations EXCEPT ![a] = Append(@, r)]
    /\ audit' \in {audit, audit \union {AuthorizationEvent(a, r)}}
    /\ UNCHANGED <<violations, overrides>>

\* The waiver of a violation changes when it is waived and when it is detected again.
ViolationGrows(v, r, event) ==
    /\ r \in ViolationVersions
    /\ \/ r.status = "WAIVED" /\ Permits(r.waiver, r.subject, r.resolvedAt)
       \/ r.status # "WAIVED"
    /\ r.status # "OPEN" => violations[v] # <<>> /\ Latest(violations[v]).waiver = None
    /\ r.status # "WAIVED" => r.waiver = None
    /\ violations' = [violations EXCEPT ![v] = Append(@, r)]
    /\ event \in AuditEvents /\ event.action \notin Statuses
    /\ audit' \in {audit, audit \union {event}}
    /\ UNCHANGED <<authorizations, overrides>>

OverrideMade(o, r, event) ==
    /\ r \in OverrideRecords
    /\ Permits(r.authorization, r.subject, r.createdAt)
    /\ Latest(authorizations[r.authorization]).by = r.by
    /\ overrides' = [overrides EXCEPT ![o] = r]
    /\ event \in AuditEvents /\ event.action \notin Statuses
    /\ audit' \in {audit, audit \union {event}}
    /\ UNCHANGED <<authorizations, violations>>

-----------------------------------------------------------------------------
(* Histories. *)

LEMMA AppendGrows ==
    ASSUME NEW S, NEW h \in Seq(S), NEW x \in S
    PROVE  /\ Append(h, x) \in Seq(S)
           /\ Append(h, x) # <<>>
           /\ Len(Append(h, x)) = Len(h) + 1
           /\ Len(h) \in Nat
           /\ Latest(Append(h, x)) = x
           /\ Append(h, x)[Len(h) + 1] = x
           /\ \A n \in 1..Len(h) : Append(h, x)[n] = h[n]
  BY AppendProperties, LenProperties DEF Latest

LEMMA LatestIsIn ==
    ASSUME NEW S, NEW h \in Seq(S), h # <<>>
    PROVE  Latest(h) \in S /\ Len(h) \in 1..Len(h)
  BY EmptySeq, LenProperties, ElementOfSeq DEF Latest

\* A version has a moment, and it is not before the request.
LEMMA MomentAfterRequest ==
    ASSUME NEW r \in AuthorizationVersions
    PROVE  Moment(r) \in Nat /\ Moment(r) >= r.requestedAt /\ Moment(r) \in Times
  BY GovernanceAssumption DEF AuthorizationVersions, Moment, Times, Statuses

-----------------------------------------------------------------------------
(* The three kinds of steps. *)

LEMMA RequestGrows ==
    ASSUME GovernanceTypeOK,
           NEW a \in Authorizations, NEW subject \in Subjects, NEW scope \in Scopes,
           NEW at \in Times, NEW expires \in 0..MaxTime,
           RequestAuthorization(a, subject, scope, at, expires)
    PROVE  \E r \in AuthorizationVersions : AuthorizationGrows(a, r)
  <1> DEFINE r == [status |-> "REQUESTED", subject |-> subject, scope |-> scope,
                   requestedAt |-> at, expiresAt |-> expires, by |-> None, decidedAt |-> 0]
  <1>1. r \in AuthorizationVersions
    BY GovernanceAssumption DEF AuthorizationVersions, RequestAuthorization, Statuses, Times
  <1>2. AppendAuthorization(a, r) /\ Audited(AuthorizationEvent(a, r))
    BY DEF RequestAuthorization
  <1>3. authorizations[a] = <<>>
    <2>1. SUFFICES ASSUME authorizations[a] # <<>> PROVE FALSE
      OBVIOUS
    <2>2. Latest(authorizations[a]) \in AuthorizationVersions
      BY <2>1, LatestIsIn DEF GovernanceTypeOK
    <2>3. /\ r.requestedAt = Latest(authorizations[a]).requestedAt
          /\ Moment(r) > Moment(Latest(authorizations[a]))
      BY <1>2, <2>1 DEF AppendAuthorization, AcceptsAuthorization
    <2>4. Moment(r) = at /\ r.requestedAt = at
      BY DEF Moment
    <2> QED
      BY <2>2, <2>3, <2>4, MomentAfterRequest, GovernanceAssumption DEF Times
  <1>4. r.status = "REQUESTED"
    OBVIOUS
  <1> HIDE DEF r
  <1>5. AuthorizationGrows(a, r)
    BY <1>1, <1>2, <1>3, <1>4
    DEF AuthorizationGrows, Follows, AppendAuthorization, Audited
  <1> QED
    BY <1>1, <1>5

LEMMA DecisionGrows ==
    ASSUME GovernanceTypeOK,
           NEW a \in Authorizations, NEW to \in Statuses \ {"REQUESTED"},
           NEW by \in Actors, NEW at \in Times,
           DecideAuthorization(a, to, by, at)
    PROVE  \E r \in AuthorizationVersions : AuthorizationGrows(a, r)
  <1> DEFINE c == Latest(authorizations[a])
             r == Decided(c, to, by, at)
  <1>1. authorizations[a] # <<>> /\ c \in AuthorizationVersions
    BY LatestIsIn DEF GovernanceTypeOK, DecideAuthorization, NoAuthorization
  <1>2. /\ to \in Allowed(c.status)
        /\ at >= c.requestedAt
        /\ AppendAuthorization(a, r)
        /\ Audited(AuthorizationEvent(a, r))
    BY DEF DecideAuthorization
  <1> HIDE DEF c
  <1>3. r = [c EXCEPT !.status = to, !.by = by, !.decidedAt = at]
    BY DEF Decided
  <1> HIDE DEF r
  <1>4. /\ r \in AuthorizationVersions
        /\ r.status = to
        /\ r.subject = c.subject
        /\ r.scope = c.scope
        /\ r.expiresAt = c.expiresAt
    <2>1. c \in [status : Statuses, subject : Subjects, scope : Scopes, requestedAt : Times,
                 expiresAt : 0..MaxTime, by : Actors \union {None}, decidedAt : 0..MaxTime]
      BY <1>1 DEF AuthorizationVersions
    <2>2. r = [status |-> to, subject |-> c.subject, scope |-> c.scope,
               requestedAt |-> c.requestedAt, expiresAt |-> c.expiresAt, by |-> by,
               decidedAt |-> at]
      BY <1>3, <2>1
    <2>3. /\ r.status = to /\ r.subject = c.subject /\ r.scope = c.scope
          /\ r.expiresAt = c.expiresAt /\ r.requestedAt = c.requestedAt
          /\ r.by = by /\ r.decidedAt = at
      BY <2>2
    <2>4. at \in 0..MaxTime /\ at # 0 /\ by # None
      BY GovernanceAssumption DEF Times
    <2>5. r \in [status : Statuses, subject : Subjects, scope : Scopes, requestedAt : Times,
                 expiresAt : 0..MaxTime, by : Actors \union {None}, decidedAt : 0..MaxTime]
      BY <2>1, <2>2, <2>4
    <2>6. c.expiresAt = 0 \/ c.expiresAt > c.requestedAt
      BY <1>1 DEF AuthorizationVersions
    <2> QED
      BY <1>2, <2>3, <2>4, <2>5, <2>6 DEF AuthorizationVersions
  <1>5. Moment(r) > Moment(c)
    BY <1>1, <1>2 DEF AppendAuthorization, AcceptsAuthorization, c
  <1>6. Follows(a, r)
    BY <1>1, <1>2, <1>4, <1>5 DEF Follows, c
  <1>7. AuthorizationGrows(a, r)
    BY <1>2, <1>4, <1>6 DEF AuthorizationGrows, AppendAuthorization, Audited
  <1> QED
    BY <1>4, <1>7

LEMMA LatestViolation ==
    ASSUME GovernanceTypeOK, NEW v \in Violations, violations[v] # <<>>
    PROVE  Latest(violations[v]) \in ViolationVersions
  BY LatestIsIn DEF GovernanceTypeOK

LEMMA FieldsOfViolation ==
    ASSUME NEW c \in ViolationVersions
    PROVE  c \in [status : {"OPEN", "ACKNOWLEDGED", "RESOLVED", "WAIVED"}, subject : Subjects,
                  detectedAt : Times, resolvedAt : 0..MaxTime,
                  waiver : Authorizations \union {None}]
  BY DEF ViolationVersions

LEMMA ViolationEvent ==
    ASSUME NEW action \in {"DETECT", "ACKNOWLEDGE", "RESOLVE", "WAIVE", "OVERRIDE"},
           NEW subject \in Subjects, NEW at \in Times,
           NEW a \in Authorizations \union {None}
    PROVE  /\ Event(action, subject, at, a) \in AuditEvents
           /\ Event(action, subject, at, a).action \notin Statuses
  BY DEF Event, AuditEvents, Statuses

LEMMA DetectionGrows ==
    ASSUME GovernanceTypeOK, NEW v \in Violations, NEW subject \in Subjects, NEW at \in Times,
           RecordViolation(v, subject, at)
    PROVE  \E r \in ViolationVersions, event \in AuditEvents : ViolationGrows(v, r, event)
  <1> DEFINE r == [status |-> "OPEN", subject |-> subject, detectedAt |-> at,
                   resolvedAt |-> 0, waiver |-> None]
             event == Event("DETECT", subject, at, None)
  <1>1. r \in ViolationVersions /\ r.status = "OPEN" /\ r.waiver = None
    BY GovernanceAssumption DEF ViolationVersions, Times
  <1>2. event \in AuditEvents /\ event.action \notin Statuses
    BY ViolationEvent
  <1>3. AppendViolation(v, r) /\ Audited(event)
    BY DEF RecordViolation
  <1> HIDE DEF r, event
  <1>4. ViolationGrows(v, r, event)
    BY <1>1, <1>2, <1>3 DEF ViolationGrows, AppendViolation, Audited
  <1> QED
    BY <1>1, <1>2, <1>4

LEMMA AcknowledgementGrows ==
    ASSUME GovernanceTypeOK, NEW v \in Violations, NEW at \in Times,
           AcknowledgeViolation(v, at)
    PROVE  \E r \in ViolationVersions, event \in AuditEvents : ViolationGrows(v, r, event)
  <1> DEFINE c == Latest(violations[v])
             r == [c EXCEPT !.status = "ACKNOWLEDGED"]
             event == Event("ACKNOWLEDGE", c.subject, at, None)
  <1>1. violations[v] # <<>> /\ c.status = "OPEN" /\ c \in ViolationVersions
    BY LatestViolation DEF AcknowledgeViolation, ViolationIs
  <1>2. AppendViolation(v, r) /\ Audited(event)
    BY DEF AcknowledgeViolation
  <1> HIDE DEF c
  <1>3. r = [status |-> "ACKNOWLEDGED", subject |-> c.subject, detectedAt |-> c.detectedAt,
             resolvedAt |-> c.resolvedAt, waiver |-> c.waiver]
    BY <1>1 DEF ViolationVersions
  <1>4. event \in AuditEvents /\ event.action \notin Statuses
    BY <1>1, ViolationEvent DEF ViolationVersions
  <1> HIDE DEF r, event
  <1>5. r \in ViolationVersions /\ r.status = "ACKNOWLEDGED" /\ r.waiver = None /\ c.waiver = None
    BY <1>1, <1>3, GovernanceAssumption DEF ViolationVersions
  <1>6. ViolationGrows(v, r, event)
    BY <1>1, <1>2, <1>4, <1>5 DEF ViolationGrows, AppendViolation, Audited, c
  <1> QED
    BY <1>4, <1>5, <1>6

LEMMA ResolutionGrows ==
    ASSUME GovernanceTypeOK, NEW v \in Violations, NEW at \in Times,
           ResolveViolation(v, at)
    PROVE  \E r \in ViolationVersions, event \in AuditEvents : ViolationGrows(v, r, event)
  <1> DEFINE c == Latest(violations[v])
             r == [c EXCEPT !.status = "RESOLVED", !.resolvedAt = at]
             event == Event("RESOLVE", c.subject, at, None)
  <1>1. /\ violations[v] # <<>> /\ c.status \in {"OPEN", "ACKNOWLEDGED"}
        /\ c \in ViolationVersions /\ at >= c.detectedAt
    BY LatestViolation DEF ResolveViolation, ViolationIs
  <1>2. AppendViolation(v, r) /\ Audited(event)
    BY DEF ResolveViolation
  <1> HIDE DEF c
  <1>3. r = [status |-> "RESOLVED", subject |-> c.subject, detectedAt |-> c.detectedAt,
             resolvedAt |-> at, waiver |-> c.waiver]
    <2>1. c \in [status : {"OPEN", "ACKNOWLEDGED", "RESOLVED", "WAIVED"}, subject : Subjects,
                 detectedAt : Times, resolvedAt : 0..MaxTime,
                 waiver : Authorizations \union {None}]
      BY <1>1, FieldsOfViolation
    <2>2. r = [c EXCEPT !.status = "RESOLVED", !.resolvedAt = at]
      OBVIOUS
    <2> HIDE DEF r
    <2> QED
      BY <2>1, <2>2
  <1>4. event \in AuditEvents /\ event.action \notin Statuses
    BY <1>1, ViolationEvent DEF ViolationVersions
  <1> HIDE DEF r, event
  <1>5. r \in ViolationVersions /\ r.status = "RESOLVED" /\ r.waiver = None /\ c.waiver = None
    BY <1>1, <1>3, GovernanceAssumption DEF ViolationVersions, Times
  <1>6. ViolationGrows(v, r, event)
    BY <1>1, <1>2, <1>4, <1>5 DEF ViolationGrows, AppendViolation, Audited, c
  <1> QED
    BY <1>4, <1>5, <1>6

LEMMA WaiverGrows ==
    ASSUME GovernanceTypeOK, NEW v \in Violations, NEW a \in Authorizations, NEW at \in Times,
           WaiveViolation(v, a, at)
    PROVE  \E r \in ViolationVersions, event \in AuditEvents : ViolationGrows(v, r, event)
  <1> DEFINE c == Latest(violations[v])
             r == [c EXCEPT !.status = "WAIVED", !.resolvedAt = at, !.waiver = a]
             event == Event("WAIVE", c.subject, at, a)
  <1>1. /\ violations[v] # <<>> /\ c.status \in {"OPEN", "ACKNOWLEDGED"}
        /\ c \in ViolationVersions /\ at >= c.detectedAt
        /\ Permits(a, c.subject, at)
    BY LatestViolation DEF WaiveViolation, ViolationIs
  <1>2. AppendViolation(v, r) /\ Audited(event)
    BY DEF WaiveViolation
  <1> HIDE DEF c
  <1>3. r = [status |-> "WAIVED", subject |-> c.subject, detectedAt |-> c.detectedAt,
             resolvedAt |-> at, waiver |-> a]
    <2>1. c \in [status : {"OPEN", "ACKNOWLEDGED", "RESOLVED", "WAIVED"}, subject : Subjects,
                 detectedAt : Times, resolvedAt : 0..MaxTime,
                 waiver : Authorizations \union {None}]
      BY <1>1, FieldsOfViolation
    <2>2. r = [c EXCEPT !.status = "WAIVED", !.resolvedAt = at, !.waiver = a]
      OBVIOUS
    <2> HIDE DEF r
    <2> QED
      BY <2>1, <2>2
  <1>4. event \in AuditEvents /\ event.action \notin Statuses
    BY <1>1, ViolationEvent DEF ViolationVersions
  <1> HIDE DEF r, event
  <1>5. /\ r \in ViolationVersions /\ r.status = "WAIVED" /\ c.waiver = None
        /\ r.waiver = a /\ r.subject = c.subject /\ r.resolvedAt = at
    BY <1>1, <1>3, GovernanceAssumption DEF ViolationVersions, Times
  <1>6. ViolationGrows(v, r, event)
    BY <1>1, <1>2, <1>4, <1>5 DEF ViolationGrows, AppendViolation, Audited, c
  <1> QED
    BY <1>4, <1>5, <1>6

LEMMA OverrideIsMade ==
    ASSUME GovernanceTypeOK, NEW o \in Overrides, NEW a \in Authorizations,
           NEW subject \in Subjects, NEW by \in Actors, NEW at \in Times,
           RecordOverride(o, a, subject, by, at)
    PROVE  \E r \in OverrideRecords, event \in AuditEvents : OverrideMade(o, r, event)
  <1> DEFINE r == [subject |-> subject, by |-> by, createdAt |-> at, authorization |-> a]
             event == Event("OVERRIDE", subject, at, a)
  <1>1. r \in OverrideRecords
    BY DEF OverrideRecords
  <1>2. event \in AuditEvents /\ event.action \notin Statuses
    BY ViolationEvent
  <1>3. OverrideMade(o, r, event)
    BY <1>1, <1>2 DEF OverrideMade, RecordOverride, Audited
  <1> QED
    BY <1>1, <1>2, <1>3

\* Every step is of one of the three kinds or changes nothing.
LEMMA StepKinds ==
    ASSUME GovernanceTypeOK, [GovernanceNext]_governanceVars
    PROVE  \/ \E a \in Authorizations, r \in AuthorizationVersions : AuthorizationGrows(a, r)
           \/ \E v \in Violations, r \in ViolationVersions, event \in AuditEvents :
                 ViolationGrows(v, r, event)
           \/ \E o \in Overrides, r \in OverrideRecords, event \in AuditEvents :
                 OverrideMade(o, r, event)
           \/ UNCHANGED governanceVars
  <1>1. CASE AuthorizationStep
    BY <1>1, RequestGrows, DecisionGrows DEF AuthorizationStep
  <1>2. CASE ViolationStep
    BY <1>2, DetectionGrows, AcknowledgementGrows, ResolutionGrows, WaiverGrows
    DEF ViolationStep
  <1>3. CASE OverrideStep
    BY <1>3, OverrideIsMade DEF OverrideStep
  <1>4. CASE UNCHANGED governanceVars
    BY <1>4
  <1> QED
    BY <1>1, <1>2, <1>3, <1>4 DEF GovernanceNext

-----------------------------------------------------------------------------
(* Types. *)

\* The records keep the shape their validators demand.
THEOREM GovernanceTypeCorrect == GovernanceSpec => []GovernanceTypeOK
<1>1. GovernanceInit => GovernanceTypeOK
  <2>1. \A S : <<>> \in Seq(S)
    OBVIOUS
  <2> QED
    BY <2>1 DEF GovernanceInit, GovernanceTypeOK
<1>2. GovernanceTypeOK /\ [GovernanceNext]_governanceVars => GovernanceTypeOK'
  <2> SUFFICES ASSUME GovernanceTypeOK, [GovernanceNext]_governanceVars
               PROVE  GovernanceTypeOK'
    OBVIOUS
  <2>1. ASSUME NEW a \in Authorizations, NEW r \in AuthorizationVersions,
               AuthorizationGrows(a, r)
        PROVE  GovernanceTypeOK'
    <3>1. Append(authorizations[a], r) \in Seq(AuthorizationVersions)
      BY AppendGrows DEF GovernanceTypeOK
    <3>2. authorizations' \in [Authorizations -> Seq(AuthorizationVersions)]
      BY <2>1, <3>1 DEF GovernanceTypeOK, AuthorizationGrows
    <3>3. AuthorizationEvent(a, r) \in AuditEvents
      BY MomentAfterRequest
      DEF AuthorizationEvent, Event, AuditEvents, AuthorizationVersions
    <3> QED
      BY <2>1, <3>2, <3>3 DEF GovernanceTypeOK, AuthorizationGrows
  <2>2. ASSUME NEW v \in Violations, NEW r \in ViolationVersions, NEW event \in AuditEvents,
               ViolationGrows(v, r, event)
        PROVE  GovernanceTypeOK'
    <3>1. Append(violations[v], r) \in Seq(ViolationVersions)
      BY AppendGrows DEF GovernanceTypeOK
    <3>2. violations' \in [Violations -> Seq(ViolationVersions)]
      BY <2>2, <3>1 DEF GovernanceTypeOK, ViolationGrows
    <3> QED
      BY <2>2, <3>2 DEF GovernanceTypeOK, ViolationGrows
  <2>3. ASSUME NEW o \in Overrides, NEW r \in OverrideRecords, NEW event \in AuditEvents,
               OverrideMade(o, r, event)
        PROVE  GovernanceTypeOK'
    BY <2>3 DEF GovernanceTypeOK, OverrideMade
  <2>4. CASE UNCHANGED governanceVars
    BY <2>4 DEF GovernanceTypeOK, governanceVars
  <2> QED
    BY <2>1, <2>2, <2>3, <2>4, StepKinds
<1> QED
  BY <1>1, <1>2, PTL DEF GovernanceSpec

-----------------------------------------------------------------------------
(* Exceptions. *)

\* An approval that permits stands in the history of its authorization, also after a
\* further version.
LEMMA PermitsIsPermitted ==
    ASSUME GovernanceTypeOK, NEW a \in Authorizations, NEW subject, NEW at, Permits(a, subject, at)
    PROVE  /\ Permitted(a, subject, at, None)
           /\ Permitted(a, subject, at, Latest(authorizations[a]).by)
  <1>1. authorizations[a] # <<>> /\ Len(authorizations[a]) \in 1..Len(authorizations[a])
    BY LatestIsIn DEF Permits, NoAuthorization, GovernanceTypeOK
  <1> QED
    BY <1>1 DEF Permits, Permitted, Latest, Expired

LEMMA PermittedStays ==
    ASSUME GovernanceTypeOK, NEW a \in Authorizations, NEW r \in AuthorizationVersions,
           AuthorizationGrows(a, r),
           NEW b \in Authorizations, NEW subject, NEW at, NEW by, Permitted(b, subject, at, by)
    PROVE  Permitted(b, subject, at, by)'
  <1>1. CASE a = b
    <2>1. authorizations'[b] = Append(authorizations[b], r)
      BY <1>1 DEF GovernanceTypeOK, AuthorizationGrows
    <2>2. \A n \in 1..Len(authorizations[b]) :
             n \in 1..Len(authorizations'[b]) /\ authorizations'[b][n] = authorizations[b][n]
      BY <2>1, AppendGrows DEF GovernanceTypeOK
    <2> QED
      BY <2>2 DEF Permitted
  <1>2. CASE a # b
    BY <1>2 DEF Permitted, GovernanceTypeOK, AuthorizationGrows
  <1> QED
    BY <1>1, <1>2

\* Every waiver and override on record was permitted by its authorization.
THEOREM ExceptionsPermitted == GovernanceSpec => []ExceptionsWerePermitted
<1>1. GovernanceInit => ExceptionsWerePermitted
  BY DEF GovernanceInit, ExceptionsWerePermitted
<1>2. GovernanceTypeOK /\ ExceptionsWerePermitted /\ [GovernanceNext]_governanceVars
         => ExceptionsWerePermitted'
  <2> SUFFICES ASSUME GovernanceTypeOK, ExceptionsWerePermitted, [GovernanceNext]_governanceVars
               PROVE  ExceptionsWerePermitted'
    OBVIOUS
  <2>1. ASSUME NEW a \in Authorizations, NEW r \in AuthorizationVersions,
               AuthorizationGrows(a, r)
        PROVE  ExceptionsWerePermitted'
    <3>1. \A b \in Authorizations : \A subject, at, by :
             Permitted(b, subject, at, by) => Permitted(b, subject, at, by)'
      BY <2>1, PermittedStays
    <3>2. \A v \in Violations : \A n \in 1..Len(violations[v]) :
             violations[v][n].status = "WAIVED" => violations[v][n].waiver \in Authorizations
      <4> SUFFICES ASSUME NEW v \in Violations, NEW n \in 1..Len(violations[v]),
                          violations[v][n].status = "WAIVED"
                   PROVE  violations[v][n].waiver \in Authorizations
        OBVIOUS
      <4>1. violations[v][n] \in ViolationVersions
        BY ElementOfSeq DEF GovernanceTypeOK
      <4> QED
        BY <4>1 DEF ViolationVersions
    <3>3. \A o \in Overrides : overrides[o] # None => overrides[o].authorization \in Authorizations
      BY DEF GovernanceTypeOK, OverrideRecords
    <3>4. UNCHANGED <<violations, overrides>>
      BY <2>1 DEF AuthorizationGrows
    <3> QED
      BY <3>1, <3>2, <3>3, <3>4 DEF ExceptionsWerePermitted
  <2>2. ASSUME NEW v \in Violations, NEW r \in ViolationVersions, NEW event \in AuditEvents,
               ViolationGrows(v, r, event)
        PROVE  ExceptionsWerePermitted'
    <3>1. UNCHANGED <<authorizations, overrides>>
      BY <2>2 DEF ViolationGrows
    <3>2. \A a, subject, at, by : Permitted(a, subject, at, by)' <=> Permitted(a, subject, at, by)
      BY <3>1 DEF Permitted
    <3>3. ASSUME NEW w \in Violations, NEW n \in 1..Len(violations'[w]),
                 violations'[w][n].status = "WAIVED"
          PROVE  LET x == violations'[w][n] IN Permitted(x.waiver, x.subject, x.resolvedAt, None)
      <4>1. CASE w # v
        <5>1. violations'[w] = violations[w]
          BY <2>2, <4>1 DEF ViolationGrows, GovernanceTypeOK
        <5> QED
          BY <3>3, <5>1 DEF ExceptionsWerePermitted
      <4>2. CASE w = v
        <5>1. violations'[v] = Append(violations[v], r) /\ violations[v] \in Seq(ViolationVersions)
          BY <2>2 DEF ViolationGrows, GovernanceTypeOK
        <5>2. CASE n \in 1..Len(violations[v])
          BY <3>3, <4>2, <5>1, <5>2, AppendGrows DEF ExceptionsWerePermitted
        <5>3. CASE n \notin 1..Len(violations[v])
          <6>1. violations'[w][n] = r
            BY <4>2, <5>1, <5>3, AppendGrows
          <6>2. r.waiver \in Authorizations /\ Permits(r.waiver, r.subject, r.resolvedAt)
            BY <2>2, <3>3, <6>1 DEF ViolationGrows, ViolationVersions
          <6> QED
            BY <6>1, <6>2, PermitsIsPermitted
        <5> QED
          BY <5>2, <5>3
      <4> QED
        BY <4>1, <4>2
    <3> QED
      BY <3>1, <3>2, <3>3 DEF ExceptionsWerePermitted
  <2>3. ASSUME NEW o \in Overrides, NEW r \in OverrideRecords, NEW event \in AuditEvents,
               OverrideMade(o, r, event)
        PROVE  ExceptionsWerePermitted'
    <3>1. UNCHANGED <<authorizations, violations>>
      BY <2>3 DEF OverrideMade
    <3>2. \A a, subject, at, by : Permitted(a, subject, at, by)' <=> Permitted(a, subject, at, by)
      BY <3>1 DEF Permitted
    <3>3. Permitted(r.authorization, r.subject, r.createdAt, r.by)
      BY <2>3, PermitsIsPermitted DEF OverrideMade, OverrideRecords
    <3>4. overrides' = [overrides EXCEPT ![o] = r]
      BY <2>3 DEF OverrideMade
    <3> QED
      BY <3>1, <3>2, <3>3, <3>4 DEF ExceptionsWerePermitted, GovernanceTypeOK
  <2>4. CASE UNCHANGED governanceVars
    BY <2>4 DEF ExceptionsWerePermitted, Permitted, governanceVars
  <2> QED
    BY <2>1, <2>2, <2>3, <2>4, StepKinds
<1> QED
  BY <1>1, <1>2, GovernanceTypeCorrect, PTL DEF GovernanceSpec

-----------------------------------------------------------------------------
(* The audit of requests and decisions.                                    *)
(*                                                                         *)
(* That an event is new is not inductive: it needs the versions behind the *)
(* events in the log, and that the versions of an authorization ascend.    *)

MomentsAscend ==
    \A a \in Authorizations : \A n, m \in 1..Len(authorizations[a]) :
        n < m => Moment(authorizations[a][n]) < Moment(authorizations[a][m])

EventsHaveVersions ==
    \A e \in audit : e.action \in Statuses =>
        /\ e.authorization \in Authorizations
        /\ \E n \in 1..Len(authorizations[e.authorization]) :
              Moment(authorizations[e.authorization][n]) = e.at

\* A new version is later than all versions before it.
LEMMA NewestIsLatest ==
    ASSUME GovernanceTypeOK, MomentsAscend,
           NEW a \in Authorizations, NEW r \in AuthorizationVersions, AuthorizationGrows(a, r),
           NEW n \in 1..Len(authorizations[a])
    PROVE  Moment(authorizations[a][n]) < Moment(r)
  <1>1. authorizations[a] \in Seq(AuthorizationVersions)
    BY DEF GovernanceTypeOK
  <1>2. authorizations[a] # <<>>
    BY <1>1
  <1>3. Moment(r) > Moment(Latest(authorizations[a]))
    BY <1>2 DEF AuthorizationGrows, Follows
  <1>4. Len(authorizations[a]) \in 1..Len(authorizations[a])
    BY <1>1, <1>2, LatestIsIn
  <1>5. /\ Moment(authorizations[a][n]) \in Nat /\ Moment(r) \in Nat
        /\ Moment(Latest(authorizations[a])) \in Nat
    BY <1>1, <1>2, ElementOfSeq, LatestIsIn, MomentAfterRequest
  <1>6. n = Len(authorizations[a]) \/ n < Len(authorizations[a])
    BY <1>4
  <1> QED
    BY <1>3, <1>4, <1>5, <1>6 DEF MomentsAscend, Latest

LEMMA EventIsNew ==
    ASSUME GovernanceTypeOK, MomentsAscend, EventsHaveVersions,
           NEW a \in Authorizations, NEW r \in AuthorizationVersions, AuthorizationGrows(a, r)
    PROVE  AuthorizationEvent(a, r) \notin audit
  <1> SUFFICES ASSUME AuthorizationEvent(a, r) \in audit PROVE FALSE
    OBVIOUS
  <1>1. /\ AuthorizationEvent(a, r).action \in Statuses
        /\ AuthorizationEvent(a, r).authorization = a
        /\ AuthorizationEvent(a, r).at = Moment(r)
    BY DEF AuthorizationEvent, Event, AuthorizationVersions
  <1>2. PICK n \in 1..Len(authorizations[a]) : Moment(authorizations[a][n]) = Moment(r)
    BY <1>1 DEF EventsHaveVersions
  <1> QED
    BY <1>2, NewestIsLatest, MomentAfterRequest

LEMMA HistoryStep ==
    ASSUME GovernanceTypeOK, MomentsAscend, EventsHaveVersions, [GovernanceNext]_governanceVars
    PROVE  MomentsAscend' /\ EventsHaveVersions'
  <1>1. ASSUME NEW a \in Authorizations, NEW r \in AuthorizationVersions, AuthorizationGrows(a, r)
        PROVE  MomentsAscend' /\ EventsHaveVersions'
    <2> DEFINE h == authorizations[a]
    <2>1. h \in Seq(AuthorizationVersions) /\ Len(h) \in Nat
      BY DEF GovernanceTypeOK
    <2>2. /\ authorizations'[a] = Append(h, r)
          /\ \A b \in Authorizations \ {a} : authorizations'[b] = authorizations[b]
      BY <1>1 DEF AuthorizationGrows, GovernanceTypeOK
    <2>3. /\ Len(authorizations'[a]) = Len(h) + 1
          /\ authorizations'[a][Len(h) + 1] = r
          /\ \A n \in 1..Len(h) : authorizations'[a][n] = h[n]
      BY <2>1, <2>2, AppendGrows
    <2>4. \A n \in 1..Len(h) : Moment(h[n]) < Moment(r)
      BY <1>1, NewestIsLatest
    <2>5. MomentsAscend'
      <3> SUFFICES ASSUME NEW b \in Authorizations, NEW n \in 1..Len(authorizations'[b]),
                          NEW m \in 1..Len(authorizations'[b]), n < m
                   PROVE  Moment(authorizations'[b][n]) < Moment(authorizations'[b][m])
        BY DEF MomentsAscend, Moment
      <3>1. CASE b # a
        BY <2>2, <3>1 DEF MomentsAscend
      <3>2. CASE b = a /\ m \in 1..Len(h)
        BY <2>1, <2>3, <3>2 DEF MomentsAscend
      <3>3. CASE b = a /\ m \notin 1..Len(h)
        <4>1. m = Len(h) + 1 /\ n \in 1..Len(h)
          BY <2>1, <2>3, <3>3
        <4> QED
          BY <2>3, <2>4, <3>3, <4>1
      <3> QED
        BY <3>1, <3>2, <3>3
    <2>6. EventsHaveVersions'
      <3> SUFFICES ASSUME NEW e \in audit', e.action \in Statuses
                   PROVE  /\ e.authorization \in Authorizations
                          /\ \E n \in 1..Len(authorizations'[e.authorization]) :
                                Moment(authorizations'[e.authorization][n]) = e.at
        BY DEF EventsHaveVersions, Moment
      <3>1. CASE e \in audit
        <4>1. e.authorization \in Authorizations
          BY <3>1 DEF EventsHaveVersions
        <4>2. PICK n \in 1..Len(authorizations[e.authorization]) :
                 Moment(authorizations[e.authorization][n]) = e.at
          BY <3>1 DEF EventsHaveVersions
        <4>3. /\ n \in 1..Len(authorizations'[e.authorization])
              /\ authorizations'[e.authorization][n] = authorizations[e.authorization][n]
          BY <2>1, <2>2, <2>3, <4>1
        <4> QED
          BY <4>1, <4>2, <4>3
      <3>2. CASE e = AuthorizationEvent(a, r)
        <4>1. e.authorization = a /\ e.at = Moment(r)
          BY <3>2 DEF AuthorizationEvent, Event
        <4>2. Len(h) + 1 \in 1..Len(authorizations'[a])
          BY <2>1, <2>3
        <4> QED
          BY <2>3, <4>1, <4>2
      <3> QED
        BY <1>1, <3>1, <3>2 DEF AuthorizationGrows
    <2> QED
      BY <2>5, <2>6
  <1>2. ASSUME NEW event \in AuditEvents, event.action \notin Statuses,
               audit' \in {audit, audit \union {event}}, UNCHANGED authorizations
        PROVE  MomentsAscend' /\ EventsHaveVersions'
    BY <1>2 DEF MomentsAscend, EventsHaveVersions, Moment
  <1>3. CASE UNCHANGED governanceVars
    BY <1>3 DEF MomentsAscend, EventsHaveVersions, Moment, governanceVars
  <1> QED
    BY <1>1, <1>2, <1>3, StepKinds DEF ViolationGrows, OverrideMade

\* The audit event of a request or decision is never refused.
THEOREM DecisionsNeverRefused == GovernanceSpec => DecisionsAreNeverRefused
<1>1. GovernanceInit => MomentsAscend /\ EventsHaveVersions
  BY DEF GovernanceInit, MomentsAscend, EventsHaveVersions
<1>2. GovernanceTypeOK /\ MomentsAscend /\ EventsHaveVersions /\ [GovernanceNext]_governanceVars
         => (MomentsAscend /\ EventsHaveVersions)'
  BY HistoryStep
<1>3. GovernanceTypeOK /\ MomentsAscend /\ EventsHaveVersions /\ [GovernanceNext]_governanceVars
         => [\A a \in Authorizations : authorizations'[a] # authorizations[a] =>
                AuthorizationEvent(a, Latest(authorizations'[a])) \notin audit]_governanceVars
  <2> SUFFICES ASSUME GovernanceTypeOK, MomentsAscend, EventsHaveVersions,
                      [GovernanceNext]_governanceVars,
                      NEW a \in Authorizations, authorizations'[a] # authorizations[a]
               PROVE  AuthorizationEvent(a, Latest(authorizations'[a])) \notin audit
    OBVIOUS
  <2>1. authorizations' # authorizations
    OBVIOUS
  <2>2. PICK b \in Authorizations, r \in AuthorizationVersions : AuthorizationGrows(b, r)
    BY <2>1, StepKinds DEF ViolationGrows, OverrideMade, governanceVars
  <2>3. a = b /\ authorizations'[a] = Append(authorizations[a], r)
    BY <2>2 DEF AuthorizationGrows, GovernanceTypeOK
  <2>4. Latest(authorizations'[a]) = r
    BY <2>3, AppendGrows DEF GovernanceTypeOK
  <2> QED
    BY <2>2, <2>3, <2>4, EventIsNew
<1> QED
  BY <1>1, <1>2, <1>3, GovernanceTypeCorrect, PTL DEF GovernanceSpec, DecisionsAreNeverRefused

-----------------------------------------------------------------------------
(* The life cycle. *)

\* The variables of GovernanceLifecycle, as Lifecycle defines them.
StatusOf == [a \in Authorizations |-> Status(a)]
WaiverOf == [v \in Violations |->
                IF violations[v] = <<>> THEN None ELSE Latest(violations[v]).waiver]

\* What the growth of one history does to the status of its authorization.
LEMMA StatusMoves ==
    ASSUME GovernanceTypeOK,
           NEW a \in Authorizations, NEW r \in AuthorizationVersions, AuthorizationGrows(a, r)
    PROVE  /\ StatusOf' = [StatusOf EXCEPT ![a] = r.status]
           /\ \/ StatusOf[a] = "NONE" /\ r.status = "REQUESTED"
              \/ StatusOf[a] = "REQUESTED" /\ r.status \in {"APPROVED", "REJECTED"}
              \/ StatusOf[a] = "APPROVED" /\ r.status = "REVOKED"
  <1>1. /\ authorizations'[a] = Append(authorizations[a], r)
        /\ \A b \in Authorizations \ {a} : authorizations'[b] = authorizations[b]
    BY DEF AuthorizationGrows, GovernanceTypeOK
  <1>2. authorizations'[a] # <<>> /\ Latest(authorizations'[a]) = r
    BY <1>1, AppendGrows DEF GovernanceTypeOK
  <1>3. StatusOf' = [b \in Authorizations |->
                       IF b = a THEN r.status ELSE Status(b)]
    BY <1>1, <1>2 DEF StatusOf, Status, NoAuthorization, Latest
  <1>4. CASE authorizations[a] = <<>>
    BY <1>3, <1>4 DEF AuthorizationGrows, Follows, StatusOf, Status, NoAuthorization
  <1>5. CASE authorizations[a] # <<>>
    <2>1. StatusOf[a] = Latest(authorizations[a]).status
      BY <1>5 DEF StatusOf, Status, NoAuthorization
    <2>2. r.status \in Allowed(StatusOf[a])
      BY <1>5, <2>1 DEF AuthorizationGrows, Follows
    <2>3. \/ StatusOf[a] = "REQUESTED" /\ r.status \in {"APPROVED", "REJECTED"}
          \/ StatusOf[a] = "APPROVED" /\ r.status = "REVOKED"
      BY <2>2 DEF Allowed
    <2> QED
      BY <1>3, <2>3 DEF StatusOf
  <1> QED
    BY <1>4, <1>5

LEMMA WaiverMoves ==
    ASSUME GovernanceTypeOK,
           NEW v \in Violations, NEW r \in ViolationVersions, NEW event,
           ViolationGrows(v, r, event)
    PROVE  /\ WaiverOf' = [WaiverOf EXCEPT ![v] = r.waiver]
           /\ r.status # "OPEN" => WaiverOf[v] = None
  <1>1. /\ violations'[v] = Append(violations[v], r)
        /\ \A w \in Violations \ {v} : violations'[w] = violations[w]
    BY DEF ViolationGrows, GovernanceTypeOK
  <1>2. violations'[v] # <<>> /\ Latest(violations'[v]) = r
    BY <1>1, AppendGrows DEF GovernanceTypeOK
  <1>3. WaiverOf' = [w \in Violations |-> IF w = v THEN r.waiver ELSE WaiverOf[w]]
    BY <1>1, <1>2 DEF WaiverOf, Latest
  <1> QED
    BY <1>3 DEF WaiverOf, ViolationGrows

\* The histories implement the life cycle of authorizations and waivers.
THEOREM GovernanceImplementsLifecycle == GovernanceSpec => LifecycleImplemented
<1>1. GovernanceInit => Lifecycle!LifecycleInit
  BY DEF GovernanceInit, Lifecycle!LifecycleInit, Status, NoAuthorization
<1>2. GovernanceTypeOK /\ [GovernanceNext]_governanceVars
         => [Lifecycle!LifecycleNext]_(Lifecycle!lifecycleVars)
  <2> SUFFICES ASSUME GovernanceTypeOK, [GovernanceNext]_governanceVars
               PROVE  [Lifecycle!LifecycleNext]_(Lifecycle!lifecycleVars)
    OBVIOUS
  <2>1. ASSUME NEW a \in Authorizations, NEW r \in AuthorizationVersions, AuthorizationGrows(a, r)
        PROVE  Lifecycle!LifecycleNext
    <3>1. UNCHANGED WaiverOf
      BY <2>1 DEF WaiverOf, AuthorizationGrows
    <3>2. \/ Lifecycle!Move(a, "NONE", "REQUESTED")
          \/ Lifecycle!Move(a, "REQUESTED", "APPROVED")
          \/ Lifecycle!Move(a, "REQUESTED", "REJECTED")
          \/ Lifecycle!Move(a, "APPROVED", "REVOKED")
      BY <2>1, <3>1, StatusMoves DEF Lifecycle!Move, StatusOf, WaiverOf
    <3> QED
      BY <3>2 DEF Lifecycle!LifecycleNext
  <2>2. ASSUME NEW v \in Violations, NEW r \in ViolationVersions, NEW event \in AuditEvents,
               ViolationGrows(v, r, event)
        PROVE  [Lifecycle!LifecycleNext]_(Lifecycle!lifecycleVars)
    <3>1. UNCHANGED StatusOf
      BY <2>2 DEF StatusOf, Status, NoAuthorization, ViolationGrows
    <3>2. /\ WaiverOf' = [WaiverOf EXCEPT ![v] = r.waiver]
          /\ r.status # "OPEN" => WaiverOf[v] = None
      BY <2>2, WaiverMoves
    <3>3. CASE r.status = "OPEN"
      <4>1. r.waiver = None
        BY <2>2, <3>3 DEF ViolationGrows
      <4>2. Lifecycle!DetectAgain(v)
        BY <3>1, <3>2, <4>1 DEF Lifecycle!DetectAgain, StatusOf, WaiverOf
      <4> QED
        BY <4>2 DEF Lifecycle!LifecycleNext
    <3>4. CASE r.status = "WAIVED"
      <4>1. r.waiver \in Authorizations /\ Permits(r.waiver, r.subject, r.resolvedAt)
        BY <2>2, <3>4 DEF ViolationGrows, ViolationVersions
      <4>2. StatusOf[r.waiver] = "APPROVED"
        BY <4>1 DEF Permits, StatusOf, Status, NoAuthorization
      <4>3. Lifecycle!Waive(v, r.waiver)
        BY <3>1, <3>2, <3>4, <4>2 DEF Lifecycle!Waive, StatusOf, WaiverOf
      <4> QED
        BY <4>1, <4>3 DEF Lifecycle!LifecycleNext
    <3>5. CASE r.status \notin {"OPEN", "WAIVED"}
      <4>1. r.waiver = None
        BY <2>2, <3>5 DEF ViolationGrows
      <4>2. WaiverOf' = WaiverOf
        BY <3>2, <3>5, <4>1 DEF WaiverOf
      <4> QED
        BY <3>1, <4>2 DEF Lifecycle!lifecycleVars, StatusOf, WaiverOf
    <3> QED
      BY <3>3, <3>4, <3>5
  <2>3. CASE UNCHANGED <<authorizations, violations>>
    BY <2>3 DEF Lifecycle!lifecycleVars, Status, NoAuthorization
  <2> QED
    BY <2>1, <2>2, <2>3, StepKinds DEF OverrideMade, governanceVars
<1> QED
  BY <1>1, <1>2, GovernanceTypeCorrect, PTL
  DEF GovernanceSpec, LifecycleImplemented, Lifecycle!LifecycleSpec

-----------------------------------------------------------------------------
(* The integrity summary.                                                  *)
(*                                                                         *)
(* That it blames revocations only is not inductive: it says nothing of an *)
(* override's authorization while that stands, so that a decision other    *)
(* than a revocation could come next.                                      *)

HistoriesAreLives ==
    \A a \in Authorizations : authorizations[a] # <<>> =>
        /\ authorizations[a][1].status = "REQUESTED"
        /\ \A n \in 1..Len(authorizations[a]) - 1 :
              <<authorizations[a][n].status, authorizations[a][n + 1].status>> \in
                  {<<"REQUESTED", "APPROVED">>, <<"REQUESTED", "REJECTED">>,
                   <<"APPROVED", "REVOKED">>}

OverrideStands(o) ==
    LET r == overrides[o]
        c == Latest(authorizations[r.authorization])
    IN  /\ authorizations[r.authorization] # <<>>
        /\ c.status \in {"APPROVED", "REVOKED"}
        /\ c.scope = "MANUAL_OVERRIDE"
        /\ c.subject = r.subject
        /\ ~Expired(c, r.createdAt)

OverridesStand == \A o \in Overrides : overrides[o] # None => OverrideStands(o)

LEMMA AllowedPairs ==
    ASSUME NEW from, NEW to \in Allowed(from)
    PROVE  <<from, to>> \in {<<"REQUESTED", "APPROVED">>, <<"REQUESTED", "REJECTED">>,
                            <<"APPROVED", "REVOKED">>}
  BY DEF Allowed

LEMMA LivesStep ==
    ASSUME GovernanceTypeOK, HistoriesAreLives, [GovernanceNext]_governanceVars
    PROVE  HistoriesAreLives'
  <1>1. ASSUME NEW a \in Authorizations, NEW r \in AuthorizationVersions, AuthorizationGrows(a, r)
        PROVE  HistoriesAreLives'
    <2> DEFINE h == authorizations[a]
    <2>1. h \in Seq(AuthorizationVersions) /\ Len(h) \in Nat
      BY DEF GovernanceTypeOK
    <2>2. /\ authorizations'[a] = Append(h, r)
          /\ \A b \in Authorizations \ {a} : authorizations'[b] = authorizations[b]
      BY <1>1 DEF AuthorizationGrows, GovernanceTypeOK
    <2>3. /\ Len(authorizations'[a]) = Len(h) + 1
          /\ authorizations'[a][Len(h) + 1] = r
          /\ \A n \in 1..Len(h) : authorizations'[a][n] = h[n]
      BY <2>1, <2>2, AppendGrows
    <2>4. authorizations'[a][1].status = "REQUESTED"
      <3>1. CASE h = <<>>
        BY <1>1, <2>3, <3>1 DEF AuthorizationGrows, Follows
      <3>2. CASE h # <<>>
        BY <2>1, <2>3, <3>2, LatestIsIn DEF HistoriesAreLives
      <3> QED
        BY <3>1, <3>2
    <2>5. ASSUME NEW n \in 1..Len(authorizations'[a]) - 1
          PROVE  <<authorizations'[a][n].status, authorizations'[a][n + 1].status>> \in
                    {<<"REQUESTED", "APPROVED">>, <<"REQUESTED", "REJECTED">>,
                     <<"APPROVED", "REVOKED">>}
      <3>1. n \in 1..Len(h) /\ h # <<>>
        BY <2>1, <2>3
      <3>2. CASE n = Len(h)
        <4>1. authorizations'[a][n] = Latest(h) /\ authorizations'[a][n + 1] = r
          BY <2>3, <3>1, <3>2 DEF Latest
        <4>2. r.status \in Allowed(Latest(h).status)
          BY <1>1, <3>1 DEF AuthorizationGrows, Follows
        <4> QED
          BY <4>1, <4>2, AllowedPairs
      <3>3. CASE n # Len(h)
        <4>1. n \in 1..Len(h) - 1 /\ n + 1 \in 1..Len(h)
          BY <2>1, <3>1, <3>3
        <4> QED
          BY <2>3, <3>1, <4>1 DEF HistoriesAreLives
      <3> QED
        BY <3>2, <3>3
    <2> SUFFICES ASSUME NEW b \in Authorizations, authorizations'[b] # <<>>
                 PROVE  /\ authorizations'[b][1].status = "REQUESTED"
                        /\ \A n \in 1..Len(authorizations'[b]) - 1 :
                              <<authorizations'[b][n].status, authorizations'[b][n + 1].status>> \in
                                  {<<"REQUESTED", "APPROVED">>, <<"REQUESTED", "REJECTED">>,
                                   <<"APPROVED", "REVOKED">>}
      BY DEF HistoriesAreLives
    <2>6. CASE b = a
      BY <2>4, <2>5, <2>6
    <2>7. CASE b # a
      BY <2>2, <2>7 DEF HistoriesAreLives
    <2> QED
      BY <2>6, <2>7
  <1>2. CASE UNCHANGED authorizations
    BY <1>2 DEF HistoriesAreLives
  <1> QED
    BY <1>1, <1>2, StepKinds DEF ViolationGrows, OverrideMade, governanceVars

LEMMA OverridesStandStep ==
    ASSUME GovernanceTypeOK, OverridesStand, [GovernanceNext]_governanceVars
    PROVE  OverridesStand'
  <1>1. ASSUME NEW a \in Authorizations, NEW r \in AuthorizationVersions, AuthorizationGrows(a, r)
        PROVE  OverridesStand'
    <2> SUFFICES ASSUME NEW o \in Overrides, overrides'[o] # None
                 PROVE  OverrideStands(o)'
      BY DEF OverridesStand
    <2>1. overrides' = overrides /\ OverrideStands(o)
      BY <1>1 DEF AuthorizationGrows, OverridesStand
    <2> DEFINE b == overrides[o].authorization
    <2>2. b \in Authorizations
      BY <2>1 DEF GovernanceTypeOK, OverrideRecords
    <2>3. CASE b # a
      <3>1. authorizations'[b] = authorizations[b]
        BY <1>1, <2>2, <2>3 DEF AuthorizationGrows, GovernanceTypeOK
      <3> QED
        BY <2>1, <3>1 DEF OverrideStands, Latest, Expired
    <2>4. CASE b = a
      <3>1. authorizations'[a] = Append(authorizations[a], r)
        BY <1>1 DEF AuthorizationGrows, GovernanceTypeOK
      <3>2. authorizations'[a] # <<>> /\ Latest(authorizations'[a]) = r
        BY <3>1, AppendGrows DEF GovernanceTypeOK
      <3> DEFINE c == Latest(authorizations[a])
      <3>3. /\ c.status \in {"APPROVED", "REVOKED"}
            /\ r.status \in Allowed(c.status)
            /\ r.subject = c.subject /\ r.scope = c.scope /\ r.expiresAt = c.expiresAt
        BY <1>1, <2>1, <2>4 DEF OverrideStands, AuthorizationGrows, Follows
      <3>4. r.status = "REVOKED"
        BY <3>3 DEF Allowed
      <3>5. /\ c.scope = "MANUAL_OVERRIDE" /\ c.subject = overrides[o].subject
            /\ ~Expired(c, overrides[o].createdAt)
        BY <2>1, <2>4 DEF OverrideStands
      <3>6. ~Expired(r, overrides[o].createdAt)
        BY <3>3, <3>5 DEF Expired
      <3>7. overrides'[o].authorization = a
        BY <2>1, <2>4
      <3> HIDE DEF c
      <3>8. /\ authorizations'[overrides'[o].authorization] # <<>>
            /\ Latest(authorizations'[overrides'[o].authorization]) = r
        BY <3>2, <3>7
      <3> QED
        BY <2>1, <3>3, <3>4, <3>5, <3>6, <3>8 DEF OverrideStands, Expired, Latest
    <2> QED
      BY <2>3, <2>4
  <1>2. ASSUME NEW o \in Overrides, NEW r \in OverrideRecords, NEW event \in AuditEvents,
               OverrideMade(o, r, event)
        PROVE  OverridesStand'
    <2> SUFFICES ASSUME NEW p \in Overrides, overrides'[p] # None
                 PROVE  OverrideStands(p)'
      BY DEF OverridesStand
    <2>1. authorizations' = authorizations
      BY <1>2 DEF OverrideMade
    <2>2. CASE p # o
      <3>1. overrides'[p] = overrides[p]
        BY <1>2, <2>2 DEF OverrideMade, GovernanceTypeOK
      <3> QED
        BY <2>1, <3>1 DEF OverridesStand, OverrideStands, Latest, Expired
    <2>3. CASE p = o
      <3>1. overrides'[p] = r
        BY <1>2, <2>3 DEF OverrideMade, GovernanceTypeOK
      <3>2. Permits(r.authorization, r.subject, r.createdAt)
        BY <1>2 DEF OverrideMade
      <3> QED
        BY <2>1, <3>1, <3>2 DEF OverrideStands, Permits, NoAuthorization, Latest, Expired
    <2> QED
      BY <2>2, <2>3
  <1>3. CASE UNCHANGED <<authorizations, overrides>>
    BY <1>3 DEF OverridesStand, OverrideStands, Latest, Expired
  <1> QED
    BY <1>1, <1>2, <1>3, StepKinds DEF ViolationGrows, governanceVars

\* The integrity summary blames the guarded writes for revocations only.
THEOREM IntegrityBlamesOnlyRevocations == GovernanceSpec => []IntegrityBlamesRevocationsOnly
<1>1. GovernanceInit => HistoriesAreLives /\ OverridesStand
  BY DEF GovernanceInit, HistoriesAreLives, OverridesStand
<1>2. GovernanceTypeOK /\ HistoriesAreLives /\ OverridesStand /\ [GovernanceNext]_governanceVars
         => (HistoriesAreLives /\ OverridesStand)'
  BY LivesStep, OverridesStandStep
<1>3. HistoriesAreLives /\ OverridesStand => IntegrityBlamesRevocationsOnly
  <2> SUFFICES ASSUME HistoriesAreLives, OverridesStand
               PROVE  IntegrityBlamesRevocationsOnly
    OBVIOUS
  <2>1. InvalidAuthorizations = {}
    BY DEF HistoriesAreLives, InvalidAuthorizations, NoAuthorization
  <2>2. ExpiredUsage = {}
    BY DEF OverridesStand, OverrideStands, ExpiredUsage, Expired
  <2>3. \A o \in OverridesWithoutAuthorization : Status(overrides[o].authorization) = "REVOKED"
    BY DEF OverridesStand, OverrideStands, OverridesWithoutAuthorization, Status, NoAuthorization
  <2> QED
    BY <2>1, <2>2, <2>3 DEF IntegrityBlamesRevocationsOnly
<1> QED
  BY <1>1, <1>2, <1>3, GovernanceTypeCorrect, PTL DEF GovernanceSpec
=============================================================================
