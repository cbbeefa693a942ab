\* One browser whose sessions are replaced, two requests that race for the one
\* place among the approvals, operations of every kind, with targets that
\* change; the life of every grant; liveness under the daemon's own timers.
SPECIFICATION FairSpec
CONSTANTS
    Browsers = {b1}
    Requests = {r1, r2}
    Operations <- MCOperations
    AttachOperations = {"attach"}
    CredentialOperations = {"fill"}
    OversizeOperations = {"huge"}
    Fingerprints = {f1, f2}
    NoFingerprint = none
    AnyBrowser = any
    Categories = {covered, manual}
    AutonomousCategories = {covered}
    MaxPendingCommands = 2
    MaxPendingApprovals = 1
    MaxPolicyApprovals = 1
    MaxIds = 5
    MaxGenerations = 2
INVARIANTS
    TypeOK
    GrantAuthorised
    SingleUse
    Consistent
PROPERTIES
    ImplementsGate
    AllEnd
