\* Two Kata requests of one owner on two hosts, with crashes and expiring leases.
SPECIFICATION FairSpec
CONSTANTS
    q1 = q1
    q2 = q2
    w1 = w1
    w2 = w2
    o1 = o1
    o2 = o2
    c1 = c1
    None = None
    Request = {q1, q2}
    Owner = {o1}
    OwnerOf <- OneOwner
    Code = {}
    Paying = {o1}
    Phala = {}
    Runner = {w1, w2}
    PhalaRunner = {}
    HostOf <- OwnHost
    Artifact = {1}
    Retirable = {}
    Enrolled = TRUE
    Cached = FALSE
    Lossy = FALSE
    Crashes = TRUE
    MaxLease = 2
    MaxCvm = 1
INVARIANTS RunningHasCompute OneContainerPerAgent RunningIsEnrolled SpecTellsChat CancelledHoldsNoKey EntitlementHeld
 
\* Every request has ended and nobody retires or preflights.
CHECK_DEADLOCK FALSE
