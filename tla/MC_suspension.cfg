\* One agent through lapse, archive, reclaim, return and restore.
CONSTANTS
    None = None
    Runtimes = {r1}
    Hosts = {h1}
    Artifacts = {a1}
    BaseArtifact = a1
    MaxRequests = 6
    RequestIds <- MCRequestIds
    SupportedKinds = {"restart", "stop", "destroy", "archive_trial", "reclaim_trial"}
    Supported <- MCSupported
    Kata = {}
    ProviderMetadata = {r1}
    HalfRetired = {}
    Retirable = {}
    Revocable = {r1}
    TrialArchivesEnabled = TRUE
    MaxExplicit = 2
    MaxBilling = 3
    MaxFaults = 2
SPECIFICATION Spec
INVARIANTS TypeOK OneActivePerRuntime ExplicitStopWins
           ResidencyRowWaits  
PROPERTIES SettledIsFinal OffboardingForward
\* The budgets run out and an idle Core has nothing to do.
CHECK_DEADLOCK FALSE
