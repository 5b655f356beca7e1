\* Two violations and no crash: does every write reach the audit log?
CONSTANTS
    s1 = s1
    s2 = s2
    a1 = a1
    a2 = a2
    v1 = v1
    v2 = v2
    o1 = o1
    alice = alice
    bob = bob
    None = None
    Subjects = {s1}
    Authorizations = {a1}
    Violations = {v1, v2}
    Overrides = {o1}
    Actors = {alice}
    MayCrash = FALSE
    MaxTime = 2
    MaxVersions = 3

SPECIFICATION GovernanceSpec
PROPERTIES
    EveryWriteIsAudited
CHECK_DEADLOCK FALSE
