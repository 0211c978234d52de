\* An owner Stop while the agent is being archived and reclaimed.
CONSTANTS
    None = None
    Runtimes = {r1}
    Hosts = {h1}
    Artifacts = {a1}
    BaseArtifact = a1
    MaxRequests = 4
    RequestIds <- MCRequestIds
    SupportedKinds = {"restart", "stop", "archive_trial", "reclaim_trial"}
    Supported <- MCSupported
    Kata = {}
    ProviderMetadata = {r1}
    HalfRetired = {}
    Retirable = {}
    Revocable = {}
    TrialArchivesEnabled = TRUE
    MaxExplicit = 1
    MaxBilling = 2
    MaxFaults = 0
SPECIFICATION Spec
INVARIANT ReclaimedCanReturn
\* The budgets run out and an idle Core has nothing to do.
CHECK_DEADLOCK FALSE
