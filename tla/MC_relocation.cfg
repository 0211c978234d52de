\* A Kata agent on two hosts: cold relocation and restore share the queue.
CONSTANTS
    None = None
    Runtimes = {r1}
    Hosts = {h1, h2}
    Artifacts = {a1}
    BaseArtifact = a1
    MaxRequests = 5
    RequestIds <- MCRequestIds
    SupportedKinds = {"restart", "stop", "destroy", "archive_trial", "reclaim_trial"}
    Supported <- MCSupported
    Kata = {r1}
    ProviderMetadata = {r1}
    HalfRetired = {}
    Retirable = {}
    Revocable = {}
    TrialArchivesEnabled = TRUE
    MaxExplicit = 2
    MaxBilling = 2
    MaxFaults = 2
SPECIFICATION Spec
INVARIANTS RestoreNotStranded  DepartedIsInert
PROPERTIES PinnedRestoreStays
\* The budgets run out and an idle Core has nothing to do.
CHECK_DEADLOCK FALSE
