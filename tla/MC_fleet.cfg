\* Two agents on one queue, a legacy one without provider metadata and a
\* half-retired ghost; upgrades whose target artifact may be retired.
CONSTANTS
    None = None
    Runtimes = {r1, r2}
    Hosts = {h1}
    Artifacts = {a1, a2}
    BaseArtifact = a1
    MaxRequests = 3
    RequestIds <- MCRequestIds
    SupportedKinds = {"upgrade", "stop", "destroy"}
    Supported <- MCSupported
    Kata = {}
    ProviderMetadata = {r2}
    HalfRetired = {r2}
    Retirable = {a2}
    Revocable = {}
    TrialArchivesEnabled = FALSE
    MaxExplicit = 3
    MaxBilling = 1
    MaxFaults = 2
SPECIFICATION Spec
INVARIANTS NewestLeaseCompletes DepartedIsInert
\* The budgets run out and an idle Core has nothing to do.
CHECK_DEADLOCK FALSE
