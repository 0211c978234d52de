\* A relocation in launch and an owner Restart.
CONSTANTS
    None = None
    Runtimes = {r1}
    Hosts = {h1, h2}
    Artifacts = {a1}
    BaseArtifact = a1
    MaxRequests = 3
    RequestIds <- MCRequestIds
    SupportedKinds = {"restart", "stop"}
    Supported <- MCSupported
    Kata = {r1}
    ProviderMetadata = {r1}
    HalfRetired = {}
    Retirable = {}
    Revocable = {}
    TrialArchivesEnabled = FALSE
    MaxExplicit = 3
    MaxBilling = 0
    MaxFaults = 0
SPECIFICATION Spec
INVARIANT RelocationSourceStaysStopped
\* The budgets run out and an idle Core has nothing to do.
CHECK_DEADLOCK FALSE
