--------------------------- MODULE RuntimeControl ---------------------------
(***************************************************************************)
(* The runtime-control half of Finite Core (finite-saas-core): owners,     *)
(* operators and the trial sweep enqueue lifecycle requests for a Runtime; *)
(* Runners lease, renew, retry, fail and complete them; offboarding is a   *)
(* forward-only phase.  Every action is one committed Postgres             *)
(* transaction.  Module TrialResidency adds the sweep itself, the trial    *)
(* archives, restore and cold relocation, and the complete specification.  *)
(*                                                                         *)
(* Abstractions.  Wall-clock time is the age of a lease: "live", "due"     *)
(* (now = lease_expires_at, where the claim's <= and the completion's >=   *)
(* both hold) and "expired".  A lease token is the number of the attempt   *)
(* that received it; 0 is NULL.  compute_up and ready are not statuses     *)
(* here: completion passes through them inside one transaction.            *)
(***************************************************************************)
EXTENDS Naturals, FiniteSets

CONSTANTS
    Runtimes,         \* the Runtimes of one redeemed event-trial org
    Hosts,            \* source hosts, each served by its own Runners
    Artifacts,        \* promoted runtime artifacts
    BaseArtifact,     \* the artifact every Runtime was created from
    None,             \* SQL NULL
    RequestIds,       \* control request ids in creation order
    Supported,        \* per Runtime: the kinds its capabilities advertise
    Kata,             \* Runtimes placed in the Kata runner class
    ProviderMetadata, \* Runtimes with a provider handle or contact endpoint
    HalfRetired,      \* Runtimes with a verified receipt and an active link
    Retirable,        \* artifacts an operator may retire during the run
    Revocable,        \* Runtimes whose credential may be revoked during the run
    TrialArchivesEnabled, \* FC_CORE_TRIAL_ARCHIVES_ENABLED
    MaxExplicit,      \* bound on owner and operator requests
    MaxBilling,       \* bound on changes of the billing predicate
    MaxFaults         \* bound on expiries, failures, retries, revocations

VARIABLES
    requests,   \* runtime_control_requests
    agent,      \* agent_runtimes, project_runtime_links, credentials, receipts
    retired,    \* runtime_artifacts.retired_at IS NOT NULL
    marker,     \* trial_runtime_suspensions
    archive,    \* trial_runtime_archives with restored_at IS NULL
    move,       \* active relocation or restore in agent_creation_requests
    blocked,    \* core_trial_access_blocked for the org
    cooling,    \* per Runtime: kinds whose failure backoff has not elapsed
    intent,     \* history: what the owner or operator last asked for
    mayRun,     \* history: compute was or may have been started on the host the
                \* Runtime is bound to since it was last confirmed down there
    budget      \* what is left of the three bounds

vars == <<requests, agent, retired, marker, archive, move, blocked, cooling,
          intent, mayRun, budget>>

UpBound == {"restart", "recover_known_good_chat_runtime", "upgrade"}
Explicit == UpBound \cup {"stop", "destroy"}
Residency == {"archive_trial", "reclaim_trial"}
Kinds == Explicit \cup Residency
Swept == {"stop", "restart"} \* the kinds the sweep retries with backoff

\* OffboardingPhase::rank; 0 is "no phase": the Runtime is live.
RetirementRequested == 1
ReceiptVerified == 2
ComputeRemoved == 3
LinkDeactivated == 4
Archived == 5

ASSUME ConstantsAssumption ==
    /\ RequestIds \subseteq Nat \ {0}
    /\ None \notin Runtimes \cup Hosts \cup Artifacts \cup Kinds
    /\ Supported \in [Runtimes -> SUBSET Kinds]
    /\ BaseArtifact \in Artifacts
    /\ Kata \subseteq Runtimes
    /\ ProviderMetadata \subseteq Runtimes
    /\ HalfRetired \subseteq Runtimes
    /\ Retirable \subseteq Artifacts
    /\ Revocable \subseteq Runtimes
    /\ TrialArchivesEnabled \in BOOLEAN
    /\ {MaxExplicit, MaxBilling, MaxFaults} \subseteq Nat

\* A row of runtime_control_requests.  `fenced` is the failure message "Trial
\* access requires payment"; `attempts` counts the leases granted and `by` is
\* the attempt whose completion was accepted (history, not columns).
Request ==
    [runtime  : Runtimes \cup {None},
     kind     : Kinds \cup {None},
     target   : Artifacts \cup {None},
     host     : Hosts \cup {None},
     status   : {"absent", "requested", "launching", "succeeded", "stopped", "failed"},
     token    : Nat,
     lease    : {"none", "live", "due", "expired"},
     fenced   : BOOLEAN,
     attempts : Nat,
     by       : Nat]

NoRequest ==
    [runtime |-> None, kind |-> None, target |-> None, host |-> None,
     status |-> "absent", token |-> 0, lease |-> "none", fenced |-> FALSE,
     attempts |-> 0, by |-> 0]

Agent ==
    [status     : {"online", "offline", "stale"},
     linked     : BOOLEAN,
     phase      : 0..5,
     artifact   : Artifacts,
     host       : Hosts,
     credential : {"active", "suspended", "revoked"},
     receipt    : BOOLEAN]

Marker == [stop : RequestIds \cup {0}, resume : RequestIds \cup {0}, allowed : BOOLEAN]
NoMarker == [stop |-> 0, resume |-> 0, allowed |-> FALSE]

Archive ==
    [state   : {"none", "stored", "reclaimed"},
     reclaim : RequestIds \cup {0},
     restore : BOOLEAN]
NoArchive == [state |-> "none", reclaim |-> 0, restore |-> FALSE]

Move ==
    [kind     : {"none", "restore", "relocate"},
     status   : {"none", "requested", "launching"},
     target   : Hosts \cup {None},
     absent   : BOOLEAN,
     token    : Nat,
     lease    : {"none", "live", "expired"},
     attempts : Nat]
NoMove ==
    [kind |-> "none", status |-> "none", target |-> None, absent |-> FALSE,
     token |-> 0, lease |-> "none", attempts |-> 0]

(***************************************************************************)
(* Reading the tables.                                                     *)
(***************************************************************************)
IsActive(req) == req.status \in {"requested", "launching"}

ActiveOn(r) == {i \in RequestIds : requests[i].runtime = r /\ IsActive(requests[i])}

\* Request ids embed their creation time, so a new row is later than every row.
Fresh(id) ==
    /\ requests[id].status = "absent"
    /\ \A j \in RequestIds : j < id => requests[j].status # "absent"
    /\ \A j \in RequestIds : j > id => requests[j].status = "absent"

Spend(what) ==
    /\ budget[what] > 0
    /\ budget' = [budget EXCEPT ![what] = @ - 1]

\* A Runtime whose creation completed, and the "half-retired ghost" a Core older
\* than the phase column left behind: receipt stored, link still active.
LiveAgent(h) ==
    [status |-> "online", linked |-> TRUE, phase |-> 0, artifact |-> BaseArtifact,
     host |-> h, credential |-> "active", receipt |-> FALSE]
HalfRetiredAgent(h) ==
    [LiveAgent(h) EXCEPT !.status = "offline", !.phase = ComputeRemoved, !.receipt = TRUE]

Init ==
    /\ requests = [i \in RequestIds |-> NoRequest]
    /\ \E place \in [Runtimes -> Hosts] :
         agent = [r \in Runtimes |->
                   IF r \in HalfRetired THEN HalfRetiredAgent(place[r])
                                        ELSE LiveAgent(place[r])]
    /\ retired = {}
    /\ marker = [r \in Runtimes |-> NoMarker]
    /\ archive = [r \in Runtimes |-> NoArchive]
    /\ move = [r \in Runtimes |-> NoMove]
    /\ blocked = FALSE
    /\ cooling = [r \in Runtimes |-> {}]
    /\ intent = [r \in Runtimes |-> "run"]
    /\ mayRun = [r \in Runtimes |-> r \notin HalfRetired]
    /\ budget = [explicit |-> MaxExplicit, billing |-> MaxBilling, faults |-> MaxFaults]

(***************************************************************************)
(* Enqueue: postgres_enqueue_runtime_control_request_bound.                *)
(***************************************************************************)
NewRequest(r, k, t) ==
    [NoRequest EXCEPT !.runtime = r, !.kind = k, !.target = t,
                      !.host = agent[r].host, !.status = "requested"]

\* A Runtime with a verified receipt is offboarded by the operator, not destroyed
\* again.
NotRetired(r, k) == k = "destroy" => agent[r].phase < ReceiptVerified

\* An archived Runtime may only be stopped.  Slip: the archive row is ignored.
StartsWithoutTree(k, residency) == TRUE
TreeIsLocal(k, residency) == k \notin Residency \cup {"stop"} => residency.state = "none"

\* A restore owns the lifecycle.
NoRestore(r) == move[r].kind # "restore"

\* The checks before the dedupe, with `residency` the archive row they read.
Admits(r, k, t, residency) ==
    /\ k \in UpBound => ~blocked
    /\ agent[r].linked
    /\ NotRetired(r, k)
    /\ TreeIsLocal(k, residency)
    /\ NoRestore(r)
    /\ k \in Supported[r]
    /\ IF k = "upgrade" THEN t \in Artifacts \ retired ELSE t = None

\* record_explicit_trial_runtime_intent
RecordIntent(r, k, id) ==
    marker' = [marker EXCEPT ![r] =
        IF k \in {"stop", "destroy"}
        THEN [stop |-> id, resume |-> 0, allowed |-> FALSE]
        ELSE NoMarker]

\* An owner's or operator's request: a new row, or an acknowledgement of the
\* active request when kind and target agree (any other active one conflicts).
RequestControl(r, k, t, id) ==
    /\ k \in Explicit
    /\ Admits(r, k, t, archive[r])
    /\ \/ /\ ActiveOn(r) = {} /\ Fresh(id)
          /\ requests' = [requests EXCEPT ![id] = NewRequest(r, k, t)]
       \/ /\ id \in ActiveOn(r) /\ requests[id].kind = k /\ requests[id].target = t
          /\ UNCHANGED requests
    /\ agent' = IF k = "destroy"
                THEN [agent EXCEPT ![r].phase = RetirementRequested]
                ELSE agent
    /\ RecordIntent(r, k, id)
    /\ intent' = [intent EXCEPT ![r] = IF k \in UpBound THEN "run" ELSE "stop"]
    /\ Spend("explicit")
    /\ UNCHANGED <<retired, archive, move, blocked, cooling, mayRun>>

(***************************************************************************)
(* Leases.                                                                 *)
(***************************************************************************)
\* Slip: a lease whose Runner is gone is never taken over.
LeasableOnce(i) ==
    /\ requests[i].status = "requested"
    /\ requests[i].kind \in UpBound => ~blocked
    /\ requests[i].kind \in Supported[requests[i].runtime]

\* The candidate query of postgres_lease_runtime_control_request.
Leasable(i) ==
    /\ \/ requests[i].status = "requested"
       \/ requests[i].status = "launching" /\ requests[i].lease \in {"due", "expired"}
    /\ requests[i].kind \in UpBound => ~blocked
    /\ requests[i].kind \in Supported[requests[i].runtime]

\* runtime_upgrade_prelease_rejection_is_terminal
Rejected(i) ==
    /\ Leasable(i)
    /\ requests[i].kind = "upgrade"
    /\ requests[i].target \in retired

\* Slip: COALESCE(lease_token, $1) keeps the token of the abandoned lease.
LeasedAgain(req) ==
    [req EXCEPT !.status = "launching", !.attempts = @ + 1,
                !.token = IF req.token = 0 THEN req.attempts + 1 ELSE req.token,
                !.lease = "live"]

Leased(req) ==
    [req EXCEPT !.status = "launching", !.attempts = @ + 1, !.token = req.attempts + 1,
                !.lease = "live"]

\* The lease columns are cleared.
Released(req, status) == [req EXCEPT !.status = status, !.token = 0, !.lease = "none"]
Reject(req) == Released(req, "failed")

\* One poll of a Runner on host h: the loop fails each rejected upgrade at the
\* head of the queue and leases the first other candidate.  SKIP LOCKED may hide
\* any candidate another transaction holds, hence the subset.
LeaseControl(h, i) ==
    /\ Leasable(i) /\ requests[i].host = h /\ ~Rejected(i)
    /\ \E D \in SUBSET {j \in RequestIds : j < i /\ requests[j].host = h /\ Rejected(j)} :
         requests' = [j \in RequestIds |-> IF j = i THEN Leased(requests[j])
                                      ELSE IF j \in D THEN Reject(requests[j])
                                      ELSE requests[j]]
    /\ mayRun' = IF requests[i].kind \in UpBound
                 THEN [mayRun EXCEPT ![requests[i].runtime] = TRUE]
                 ELSE mayRun
    /\ UNCHANGED <<agent, retired, marker, archive, move, blocked, cooling, intent, budget>>

\* The same poll when nothing else is leasable.
RejectUpgrades(h) ==
    /\ \E D \in SUBSET {j \in RequestIds : requests[j].host = h /\ Rejected(j)} :
         /\ D # {}
         /\ requests' = [j \in RequestIds |-> IF j \in D THEN Reject(requests[j])
                                                         ELSE requests[j]]
    /\ UNCHANGED <<agent, retired, marker, archive, move, blocked, cooling, intent,
                   mayRun, budget>>

\* Time passes over a lease: the Runner crashed, stalled or lost its answer.
LeaseAges(i) ==
    /\ requests[i].status = "launching"
    /\ \/ /\ requests[i].lease = "live"
          /\ requests' = [requests EXCEPT ![i].lease = "due"]
          /\ Spend("faults")
       \/ /\ requests[i].lease = "due"
          /\ requests' = [requests EXCEPT ![i].lease = "expired"]
          /\ UNCHANGED budget
    /\ UNCHANGED <<agent, retired, marker, archive, move, blocked, cooling, intent, mayRun>>

\* Slip: the token is good in any status.
TokenMatches(i, token) == requests[i].token = token

\* verify_runtime_control_lease
HoldsLease(i, token) ==
    /\ requests[i].status = "launching"
    /\ requests[i].token = token

\* verify_postgres_runtime_control_lease_at
HoldsLiveLease(i, token) ==
    /\ HoldsLease(i, token)
    /\ requests[i].lease \in {"live", "due"}

RenewControl(i, token) ==
    /\ HoldsLiveLease(i, token)
    /\ requests' = [requests EXCEPT ![i].lease = "live"]
    /\ UNCHANGED <<agent, retired, marker, archive, move, blocked, cooling, intent,
                   mayRun, budget>>

\* What the failed attempt left behind is unknown.
Stale(a) == [a EXCEPT !.status = "stale"]

\* Destroy and the residency operations requeue under their own id.
RetryControl(i, token) ==
    /\ HoldsLiveLease(i, token)
    /\ requests[i].kind \in Residency \cup {"destroy"}
    /\ requests' = [requests EXCEPT ![i] = Released(@, "requested")]
    /\ agent' = [agent EXCEPT ![requests[i].runtime] = Stale(@)]
    /\ Spend("faults")
    /\ UNCHANGED <<retired, marker, archive, move, blocked, cooling, intent, mayRun>>

\* Failing needs the token but not an unexpired lease.
FailControl(i, token) ==
    LET r == requests[i].runtime IN
    /\ HoldsLease(i, token)
    /\ requests' = [requests EXCEPT ![i] = Released(@, "failed")]
    /\ agent' = [agent EXCEPT ![r] = Stale(@)]
    /\ cooling' = [cooling EXCEPT ![r] = @ \cup ({requests[i].kind} \cap Swept)]
    /\ Spend("faults")
    /\ UNCHANGED <<retired, marker, archive, move, blocked, intent, mayRun>>

(***************************************************************************)
(* Completion: postgres_complete_runtime_control_request, per shape.       *)
(***************************************************************************)
Settled(req, token, terminal) == [Released(req, terminal) EXCEPT !.by = token]
Settle(i, token, terminal) == requests' = [requests EXCEPT ![i] = Settled(@, token, terminal)]

\* Slip: a restart re-activates whatever it finds.
Reactivated(credential, up) == IF up THEN "active" ELSE "suspended"

\* apply_runtime_control_completion: an explicit revocation is irreversible.
Activated(credential, up) ==
    IF credential = "revoked" THEN "revoked" ELSE IF up THEN "active" ELSE "suspended"

\* Only an upgrade moves the artifact.  Slip: every up-bound kind does.
TargetArtifact(req, current) == req.target
RunningArtifact(req, current) == IF req.kind = "upgrade" THEN req.target ELSE current

Up(a, req) ==
    [a EXCEPT !.status = "online", !.credential = Activated(a.credential, TRUE),
              !.artifact = RunningArtifact(req, a.artifact)]
Down(a) == [a EXCEPT !.status = "offline", !.credential = Activated(a.credential, FALSE)]

\* Restart, recover and upgrade.  The upgrade target's lifecycle policy was
\* checked at request and lease; a retired target still commits.
CompleteUp(i, token) ==
    LET r == requests[i].runtime IN
    /\ HoldsLiveLease(i, token)
    /\ requests[i].kind \in UpBound
    /\ Settle(i, token, "succeeded")
    /\ agent' = [agent EXCEPT ![r] = Up(@, requests[i])]
    /\ UNCHANGED <<retired, marker, archive, move, blocked, cooling, intent, mayRun, budget>>

GoesDown(r) ==
    /\ agent' = [agent EXCEPT ![r] = Down(@)]
    /\ mayRun' = [mayRun EXCEPT ![r] = FALSE]

CompleteStop(i, token) ==
    /\ HoldsLiveLease(i, token)
    /\ requests[i].kind = "stop"
    /\ Settle(i, token, "stopped")
    /\ GoesDown(requests[i].runtime)
    /\ UNCHANGED <<retired, marker, archive, move, blocked, cooling, intent, budget>>

\* trial_archives::store_snapshot; the unique index admits one residency row.
CompleteArchive(i, token) ==
    LET r == requests[i].runtime IN
    /\ HoldsLiveLease(i, token)
    /\ requests[i].kind = "archive_trial"
    /\ archive[r].state = "none"
    /\ Settle(i, token, "stopped")
    /\ GoesDown(r)
    /\ archive' = [archive EXCEPT ![r] = [NoArchive EXCEPT !.state = "stored"]]
    /\ UNCHANGED <<retired, marker, move, blocked, cooling, intent, budget>>

\* Exactly one residency row must name this reclaim request.
CompleteReclaim(i, token) ==
    LET r == requests[i].runtime IN
    /\ HoldsLiveLease(i, token)
    /\ requests[i].kind = "reclaim_trial"
    /\ archive[r].state # "none" /\ archive[r].reclaim = i
    /\ Settle(i, token, "stopped")
    /\ GoesDown(r)
    /\ archive' = [archive EXCEPT ![r].state = "reclaimed"]
    /\ UNCHANGED <<retired, marker, move, blocked, cooling, intent, budget>>

(***************************************************************************)
(* Offboarding.                                                            *)
(***************************************************************************)
\* set_offboarding_phase moves forward or restates, never back.
PhaseAllows(r, phase) == agent[r].phase <= phase

\* Slip: the link survives.
OffboardedLinked(a) == [a EXCEPT !.phase = Archived, !.credential = "revoked"]

\* postgres_offboard_runtime followed by the Archived phase.
Offboarded(a) == [a EXCEPT !.linked = FALSE, !.phase = Archived, !.credential = "revoked"]

Destroyed(a) == [Offboarded(a) EXCEPT !.status = "offline", !.receipt = TRUE]

\* The receipt, compute_removed, link_deactivated and archived phases are
\* written in the completing transaction.
CompleteDestroy(i, token) ==
    LET r == requests[i].runtime IN
    /\ HoldsLiveLease(i, token)
    /\ requests[i].kind = "destroy"
    /\ PhaseAllows(r, ReceiptVerified)
    /\ Settle(i, token, "stopped")
    /\ agent' = [agent EXCEPT ![r] = Destroyed(@)]
    /\ mayRun' = [mayRun EXCEPT ![r] = FALSE]
    /\ UNCHANGED <<retired, marker, archive, move, blocked, cooling, intent, budget>>

AdminArchiveUnrecoverable(r) ==
    /\ agent[r].linked
    /\ r \notin ProviderMetadata
    /\ ActiveOn(r) = {}
    /\ ~agent[r].receipt
    /\ PhaseAllows(r, LinkDeactivated)
    /\ agent' = [agent EXCEPT ![r] = Offboarded(@)]
    /\ Spend("explicit")
    /\ UNCHANGED <<requests, retired, marker, archive, move, blocked, cooling, intent, mayRun>>

AdminOffboardRetired(r) ==
    /\ agent[r].linked
    /\ ActiveOn(r) = {}
    /\ agent[r].receipt
    /\ PhaseAllows(r, ComputeRemoved)
    /\ agent' = [agent EXCEPT ![r] = Offboarded(@)]
    /\ Spend("explicit")
    /\ UNCHANGED <<requests, retired, marker, archive, move, blocked, cooling, intent, mayRun>>

RevokeCredential(r) ==
    /\ r \in Revocable
    /\ agent[r].credential # "revoked"
    /\ agent' = [agent EXCEPT ![r].credential = "revoked"]
    /\ Spend("faults")
    /\ UNCHANGED <<requests, retired, marker, archive, move, blocked, cooling, intent, mayRun>>

\* An operator retires an artifact (SQL outside the service).
RetireArtifact(a) ==
    /\ a \in Retirable \ retired
    /\ retired' = retired \cup {a}
    /\ Spend("faults")
    /\ UNCHANGED <<requests, agent, marker, archive, move, blocked, cooling, intent, mayRun>>

ControlNext ==
    \/ \E r \in Runtimes, k \in Explicit, t \in Artifacts \cup {None}, id \in RequestIds :
         RequestControl(r, k, t, id)
    \/ \E h \in Hosts : \E i \in RequestIds : LeaseControl(h, i)
    \/ \E h \in Hosts : RejectUpgrades(h)
    \/ \E i \in RequestIds : LeaseAges(i)
    \/ \E i \in RequestIds : \E token \in 1..requests[i].attempts :
         \/ RenewControl(i, token)
         \/ RetryControl(i, token)
         \/ FailControl(i, token)
         \/ CompleteUp(i, token)
         \/ CompleteStop(i, token)
         \/ CompleteArchive(i, token)
         \/ CompleteReclaim(i, token)
         \/ CompleteDestroy(i, token)
    \/ \E r \in Runtimes :
         \/ AdminArchiveUnrecoverable(r)
         \/ AdminOffboardRetired(r)
         \/ RevokeCredential(r)
    \/ \E a \in Artifacts : RetireArtifact(a)
=============================================================================
