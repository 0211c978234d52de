\* The agent settles once billing does.  No credential is revoked: a restore then
\* fails closed for good.  No Destroy: a failed one leaves the phase that refuses
\* the completion of a restore.
CONSTANTS
    None = None
    Runtimes = {r1}
    Hosts = {h1}
    Artifacts = {a1}
    BaseArtifact = a1
    MaxRequests = 9
    RequestIds <- MCRequestIds
    SupportedKinds = {"restart", "stop", "archive_trial", "reclaim_trial"}
    Supported <- MCSupported
    Kata = {}
    ProviderMetadata = {r1}
    HalfRetired = {}
    Retirable = {}
    Revocable = {}
    TrialArchivesEnabled = TRUE
    MaxExplicit = 1
    MaxBilling = 2
    MaxFaults = 2
SPECIFICATION FairSpec
PROPERTIES RequestsSettle  PaidAgentsReturn
\* The budgets run out and an idle Core has nothing to do.
CHECK_DEADLOCK FALSE
