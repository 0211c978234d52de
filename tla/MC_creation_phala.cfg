\* One Phala request, paid or with a launch code; Runners crash, stall and lose answers.
SPECIFICATION Spec
CONSTANTS
    q1 = q1
    q2 = q2
    w1 = w1
    w2 = w2
    o1 = o1
    o2 = o2
    c1 = c1
    None = None
    Request = {q1}
    Owner = {o1}
    OwnerOf <- OneOwner
    Code = {c1}
    Paying = {o1}
    Phala = {q1}
    Runner = {w1, w2}
    PhalaRunner = {w1, w2}
    HostOf <- SharedHost
    Artifact = {1, 2}
    Retirable = {1, 2}
    Enrolled = TRUE
    Cached = TRUE
    Lossy = TRUE
    Crashes = TRUE
    MaxLease = 3
    MaxCvm = 1
INVARIANTS TypeOK OneCvmPerRequest ClosedBoughtNothing ReadyMeansRunning
\* Every request has ended and nobody retires or preflights.
CHECK_DEADLOCK FALSE
