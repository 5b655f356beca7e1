\* One authorization, one violation, one override; every scope, time and expiry.
CONSTANTS
    s1 = s1
    s2 = s2
    a1 = a1
    a2 = a2
    v1 = v1
    v2 = v2
    o1 = o1
    alice = alice
    bob = bob
    None = None
    Subjects = {s1, s2}
    Authorizations = {a1}
    Violations = {v1}
    Overrides = {o1}
    Actors = {alice, bob}
    MayCrash = TRUE
    MaxTime = 3
    MaxVersions = 3

SPECIFICATION GovernanceSpec
SYMMETRY Symmetric
INVARIANTS
    GovernanceTypeOK
    ExceptionsWerePermitted
    IntegrityBlamesRevocationsOnly
PROPERTIES
    LifecycleImplemented
    DecisionsAreNeverRefused
CHECK_DEADLOCK FALSE
