--------------------------- MODULE TrialResidency ---------------------------
(***************************************************************************)
(* What happens to the agents of an event-trial org when its access lapses *)
(* and returns: the five-second sweep (trial_runtime_suspensions.rs), the  *)
(* archive, reclaim and restore of a suspended agent's local state         *)
(* (trial_archives.rs) and the operator's cold relocation, which shares    *)
(* the creation queue with restore.  Composed with RuntimeControl, whose   *)
(* requests the sweep enqueues; this module has the whole specification.   *)
(*                                                                         *)
(* A sweep reconciles every Runtime of the org in one transaction, each in *)
(* its own savepoint.  One Reconcile step is one savepoint: the Runtimes   *)
(* share only `blocked`, which the transaction has locked.  An error       *)
(* inside a savepoint rolls it back, so an inadmissible enqueue disables   *)
(* the step.                                                               *)
(***************************************************************************)
EXTENDS RuntimeControl

\* The deadline passes or the billing account changes.
BillingChanges ==
    /\ blocked' = ~blocked
    /\ Spend("billing")
    /\ UNCHANGED <<requests, agent, retired, marker, archive, move, cooling, intent, mayRun>>

(***************************************************************************)
(* The sweep.                                                              *)
(***************************************************************************)
\* Failed operations of kind k created after the last one that did not fail.
ConsecutiveFailures(r, k) ==
    LET Of(i) == requests[i].runtime = r /\ requests[i].kind = k IN
    {i \in RequestIds :
        /\ Of(i) /\ requests[i].status = "failed" /\ ~requests[i].fenced
        /\ \A j \in RequestIds : Of(j) /\ requests[j].status # "failed" => j < i}

\* Slip: the second branch of the OR is lost, and with it every later retry.
FirstRetryOnly(r, k) == Cardinality(ConsecutiveFailures(r, k)) <= 1

\* retry_backoff_elapsed: the first retry is immediate.
BackoffElapsed(r, k) ==
    Cardinality(ConsecutiveFailures(r, k)) <= 1 \/ k \notin cooling[r]

BackoffElapses(r, k) ==
    /\ k \in cooling[r]
    /\ cooling' = [cooling EXCEPT ![r] = @ \ {k}]
    /\ UNCHANGED <<requests, agent, retired, marker, archive, move, blocked, intent,
                   mayRun, budget>>

\* Only a queued or abandoned up-bound request gives way to the sweep; a live
\* lease never does.
Fenceable(i) ==
    /\ blocked
    /\ requests[i].kind \in UpBound
    /\ requests[i].status = "launching" => requests[i].lease \in {"due", "expired"}

\* Slip: no early return for an operation that may not be fenced.
ProceedsAnyway(r) == agent[r].linked

Proceeds(r) == agent[r].linked /\ \A i \in ActiveOn(r) : Fenceable(i)

\* Slip: the offline latch is believed.
Certain(r) == FALSE

Uncertain(r) == \E i \in ActiveOn(r) : requests[i].status = "launching"

\* Failed, its token kept: the terminal status is what fences the old holder.
Fenced(req) == [req EXCEPT !.status = "failed", !.fenced = TRUE]

\* Slip: the lifecycle slot is not freed.
NotFenced(r) == requests

\* The requests once the active one is fenced.
FencedOn(r) ==
    [i \in RequestIds |-> IF i \in ActiveOn(r)
                          THEN Fenced(requests[i])
                          ELSE requests[i]]

Enqueues(r, k, id, residency) ==
    /\ Admits(r, k, None, residency)
    /\ Fresh(id)
    /\ requests' = [FencedOn(r) EXCEPT ![id] = NewRequest(r, k, None)]

\* The last condition of trial_archives::reconcile.
WantsArchive(r) ==
    /\ blocked /\ archive[r].state = "none"
    /\ marker[r].allowed
    /\ agent[r].status = "offline"
    /\ "archive_trial" \in Supported[r]
    /\ TrialArchivesEnabled

WantsStop(r) ==
    /\ blocked /\ archive[r].state = "none" /\ ~WantsArchive(r)
    /\ agent[r].status = "offline" => Uncertain(r)

ReconcileArchive(r, id) ==
    /\ Proceeds(r)
    /\ WantsArchive(r)
    /\ Enqueues(r, "archive_trial", id, archive[r])
    /\ UNCHANGED <<agent, retired, marker, archive, move, blocked, cooling, intent,
                   mayRun, budget>>

ReconcileReclaim(r, id) ==
    /\ Proceeds(r)
    /\ blocked /\ archive[r].state = "stored"
    /\ Enqueues(r, "reclaim_trial", id, archive[r])
    /\ archive' = [archive EXCEPT ![r].reclaim = id]
    /\ UNCHANGED <<agent, retired, marker, move, blocked, cooling, intent, mayRun, budget>>

\* The marker keeps an explicit no-resume intent.  Slip: the upsert resets it.
FreshMarker(r, id) == [stop |-> id, resume |-> 0, allowed |-> TRUE]
SuspensionMarker(r, id) ==
    [stop |-> id, resume |-> 0,
     allowed |-> IF marker[r] = NoMarker THEN TRUE ELSE marker[r].allowed]

ReconcileStop(r, id) ==
    /\ Proceeds(r)
    /\ WantsStop(r)
    /\ BackoffElapsed(r, "stop")
    /\ Enqueues(r, "stop", id, archive[r])
    /\ marker' = [marker EXCEPT ![r] = SuspensionMarker(r, id)]
    /\ UNCHANGED <<agent, retired, archive, move, blocked, cooling, intent, mayRun, budget>>

\* The fence commits although nothing is enqueued in its place.
ReconcileFence(r) ==
    /\ Proceeds(r) /\ ActiveOn(r) # {}
    /\ blocked /\ ~WantsArchive(r) /\ archive[r].state # "stored"
    /\ WantsStop(r) => ~BackoffElapsed(r, "stop")
    /\ requests' = FencedOn(r)
    /\ UNCHANGED <<agent, retired, marker, archive, move, blocked, cooling, intent,
                   mayRun, budget>>

\* enqueue_restore: a creation request for the same Runtime, any host.
ReconcileRestore(r) ==
    /\ Proceeds(r)
    /\ ~blocked /\ marker[r].allowed
    /\ archive[r].state = "reclaimed" /\ ~archive[r].restore
    /\ move[r] = NoMove
    /\ move' = [move EXCEPT ![r] = [NoMove EXCEPT !.kind = "restore", !.absent = TRUE,
                                                  !.status = "requested"]]
    /\ archive' = [archive EXCEPT ![r].restore = TRUE]
    /\ UNCHANGED <<requests, agent, retired, marker, blocked, cooling, intent, mayRun, budget>>

\* Payment won before the reclaim was queued: the local state stays and the
\* archive row closes in the transaction that goes on to the marker.
KeptLocal(r) == [archive EXCEPT ![r] = IF @.state = "stored" THEN NoArchive ELSE @]

Recovers(r) ==
    /\ Proceeds(r)
    /\ ~blocked /\ archive[r].state # "reclaimed"

Resumed(r) ==
    marker[r].allowed /\ marker[r].resume # 0
        /\ requests[marker[r].resume].status = "succeeded"

\* Slip: only a successful Stop is followed by a Restart.
ResumesOnlyStopped(r) ==
    /\ marker[r].allowed /\ ~Resumed(r)
    /\ requests[marker[r].stop].status = "stopped"
    /\ BackoffElapsed(r, "restart")

WantsResume(r) ==
    /\ marker[r].allowed /\ ~Resumed(r)
    /\ requests[marker[r].stop].status \in {"stopped", "failed"}
    /\ BackoffElapsed(r, "restart")

ReconcileResume(r, id) ==
    /\ Recovers(r)
    /\ WantsResume(r)
    /\ Enqueues(r, "restart", id, KeptLocal(r)[r])
    /\ marker' = [marker EXCEPT ![r].resume = id]
    /\ archive' = KeptLocal(r)
    /\ UNCHANGED <<agent, retired, move, blocked, cooling, intent, mayRun, budget>>

ReconcileSettle(r) ==
    /\ Recovers(r)
    /\ Resumed(r)
    /\ marker' = [marker EXCEPT ![r] = NoMarker]
    /\ archive' = KeptLocal(r)
    /\ UNCHANGED <<requests, agent, retired, move, blocked, cooling, intent, mayRun, budget>>

ReconcileKeepLocal(r) ==
    /\ Recovers(r)
    /\ archive[r].state = "stored" /\ ~Resumed(r) /\ ~WantsResume(r)
    /\ archive' = KeptLocal(r)
    /\ UNCHANGED <<requests, agent, retired, marker, move, blocked, cooling, intent,
                   mayRun, budget>>

Reconcile(r) ==
    \/ \E id \in RequestIds :
         \/ ReconcileArchive(r, id)
         \/ ReconcileReclaim(r, id)
         \/ ReconcileStop(r, id)
         \/ ReconcileResume(r, id)
    \/ ReconcileFence(r)
    \/ ReconcileRestore(r)
    \/ ReconcileSettle(r)
    \/ ReconcileKeepLocal(r)

(***************************************************************************)
(* Restore and cold relocation through the creation queue.                 *)
(***************************************************************************)
\* Offline is cleanly stopped; the operator's compute-absent attestation also
\* freezes the other two.
SourceFrozen(r, absent) == agent[r].status = "offline" \/ absent

\* The creation request that carries the relocation envelope.
Relocating(h, absent) ==
    [NoMove EXCEPT !.kind = "relocate", !.target = h, !.absent = absent, !.status = "requested"]

RequestRelocation(r, h, absent) ==
    /\ agent[r].linked
    /\ r \in Kata
    /\ SourceFrozen(r, absent)
    /\ h = agent[r].host => absent
    /\ ActiveOn(r) = {}
    /\ absent \/ \E i \in RequestIds : /\ requests[i].runtime = r
                                       /\ requests[i].host = agent[r].host
                                       /\ requests[i].kind = "stop"
                                       /\ requests[i].status = "stopped"
    /\ ~agent[r].receipt
    /\ move[r] = NoMove
    /\ move' = [move EXCEPT ![r] = Relocating(h, absent)]
    /\ Spend("explicit")
    /\ UNCHANGED <<requests, agent, retired, marker, archive, blocked, cooling, intent, mayRun>>

\* authorize_restore
Authorized(r) ==
    move[r].kind = "restore" =>
        /\ ~blocked
        /\ archive[r].state = "reclaimed" /\ archive[r].restore
        /\ marker[r].allowed
        /\ ActiveOn(r) = {}

Claimed(m, h, authorized) ==
    [m EXCEPT !.status = "launching", !.target = h, !.lease = "live",
              !.attempts = IF authorized THEN m.attempts + 1 ELSE m.attempts,
              !.token = IF authorized THEN m.attempts + 1 ELSE 0]

\* A Runner on host h claims the request.  The first claim of a restore pins it
\* to h.  A pinned restore that billing denies is leased only to stop its
\* target: its token (0) completes nothing.
LeaseMove(r, h) ==
    /\ \/ move[r].status = "requested"
       \/ move[r].status = "launching" /\ move[r].lease = "expired"
    /\ move[r].target \in {None, h}
    /\ blocked => move[r].kind = "restore" /\ move[r].target = h
    /\ Authorized(r) \/ move[r].target = h
    /\ agent[r].artifact \notin retired
    /\ move' = [move EXCEPT ![r] = Claimed(@, h, Authorized(r))]
    /\ UNCHANGED <<requests, agent, retired, marker, archive, blocked, cooling, intent,
                   mayRun, budget>>

MoveLeaseExpires(r) ==
    /\ move[r].lease = "live"
    /\ move' = [move EXCEPT ![r].lease = "expired"]
    /\ Spend("faults")
    /\ UNCHANGED <<requests, agent, retired, marker, archive, blocked, cooling, intent, mayRun>>

HoldsMove(r, token) == move[r].status = "launching" /\ move[r].token = token

\* Slips: a failed restore ends like a relocation; it is queued without target.
Ended(m) == NoMove
Unpinned(m) ==
    IF m.kind = "restore"
    THEN [NoMove EXCEPT !.kind = "restore", !.status = "requested", !.absent = TRUE,
                        !.attempts = m.attempts]
    ELSE NoMove

\* A failed restore is queued again with its target; a failed relocation ends.
Requeued(m) ==
    IF m.kind = "restore"
    THEN [m EXCEPT !.status = "requested", !.token = 0, !.lease = "none"]
    ELSE NoMove

FailMove(r, token) ==
    /\ HoldsMove(r, token)
    /\ move' = [move EXCEPT ![r] = Requeued(@)]
    /\ Spend("faults")
    /\ UNCHANGED <<requests, agent, retired, marker, archive, blocked, cooling, intent, mayRun>>

\* The Runner of a denied restore stops the target and gives the lease back.
PauseMove(r) ==
    /\ HoldsMove(r, 0)
    /\ move' = [move EXCEPT ![r] = Requeued(@)]
    /\ UNCHANGED <<requests, agent, retired, marker, archive, blocked, cooling, intent,
                   mayRun, budget>>

CancelRelocation(r) ==
    /\ move[r].kind = "relocate"
    /\ move' = [move EXCEPT ![r] = NoMove]
    /\ Spend("explicit")
    /\ UNCHANGED <<requests, agent, retired, marker, archive, blocked, cooling, intent, mayRun>>

\* The source is checked again at completion: requests and offboarding may have
\* run since the move was requested.  Slip: the checks at request time are trusted.
SourceAsRequested(r) == TRUE
SourceReady(r) ==
    /\ agent[r].artifact \notin retired
    /\ SourceFrozen(r, move[r].absent)
    /\ ~agent[r].receipt
    /\ agent[r].phase = 0
    /\ ActiveOn(r) = {}
    /\ agent[r].credential # "revoked"

\* The successor credential takes over from a predecessor that is not revoked.
HandedOver(a) == [a EXCEPT !.credential = "active"]

\* The switched binding.  Slip: host_facts keeps the frozen source's status.
SwitchedOnly(a, h) == [HandedOver(a) EXCEPT !.host = h, !.linked = TRUE]
Switched(a, h) == [SwitchedOnly(a, h) EXCEPT !.status = "online"]

\* update_agent_creation_completed: a restore closes the archive row and the
\* suspension marker with its request.
ClosesMove(r) ==
    /\ move' = [move EXCEPT ![r] = NoMove]
    /\ IF move[r].kind = "restore"
       THEN /\ archive' = [archive EXCEPT ![r] = NoArchive]
            /\ marker' = [marker EXCEPT ![r] = NoMarker]
       ELSE UNCHANGED <<archive, marker>>

\* One transaction switches the binding, hands the credential over and closes
\* the request.
CompleteMove(r, token) ==
    /\ HoldsMove(r, token) /\ move[r].lease = "live"
    /\ Authorized(r)
    /\ SourceReady(r)
    /\ agent' = [agent EXCEPT ![r] = Switched(@, move[r].target)]
    /\ ClosesMove(r)
    /\ mayRun' = [mayRun EXCEPT ![r] = TRUE]
    /\ UNCHANGED <<requests, retired, blocked, cooling, intent, budget>>

MoveNext ==
    \E r \in Runtimes :
       \/ \E h \in Hosts, absent \in BOOLEAN : RequestRelocation(r, h, absent)
       \/ \E h \in Hosts : LeaseMove(r, h)
       \/ MoveLeaseExpires(r)
       \/ PauseMove(r)
       \/ CancelRelocation(r)
       \/ \E token \in 1..move[r].attempts :
            \/ FailMove(r, token)
            \/ CompleteMove(r, token)

Next ==
    \/ ControlNext
    \/ BillingChanges
    \/ \E r \in Runtimes, k \in Swept : BackoffElapses(r, k)
    \/ \E r \in Runtimes : Reconcile(r)
    \/ MoveNext

Spec == Init /\ [][Next]_vars

(***************************************************************************)
(* Fairness.  A Runner polls forever and works off what it leases: unless  *)
(* a fault is charged, the holder of a lease finishes it.  Core sweeps     *)
(* every five seconds, and the backoff is bounded by 30 minutes.           *)
(***************************************************************************)
HolderFinishes(i) ==
    LET token == requests[i].token IN
    \/ CompleteUp(i, token)
    \/ CompleteStop(i, token)
    \/ CompleteArchive(i, token)
    \/ CompleteReclaim(i, token)
    \/ CompleteDestroy(i, token)

Fairness ==
    /\ \A i \in RequestIds : /\ WF_vars(\E h \in Hosts : LeaseControl(h, i))
                             /\ WF_vars(HolderFinishes(i))
    /\ \A h \in Hosts : WF_vars(RejectUpgrades(h))
    /\ \A r \in Runtimes : /\ WF_vars(Reconcile(r))
                           /\ WF_vars(\E h \in Hosts : LeaseMove(r, h))
                           /\ WF_vars(PauseMove(r))
                           /\ WF_vars(CompleteMove(r, move[r].token))
                           /\ \A k \in Swept : WF_vars(BackoffElapses(r, k))

FairSpec == Spec /\ Fairness

(***************************************************************************)
(* Safety.                                                                 *)
(***************************************************************************)
\* Every column holds a value its table admits, whatever completion, fence or
\* requeue wrote it.
TypeOK ==
    /\ requests \in [RequestIds -> Request]
    /\ agent \in [Runtimes -> Agent]
    /\ retired \subseteq Artifacts
    /\ marker \in [Runtimes -> Marker]
    /\ archive \in [Runtimes -> Archive]
    /\ move \in [Runtimes -> Move]
    /\ blocked \in BOOLEAN
    /\ cooling \in [Runtimes -> SUBSET Swept]
    /\ intent \in [Runtimes -> {"run", "stop"}]
    /\ mayRun \in [Runtimes -> BOOLEAN]
    /\ budget \in [{"explicit", "billing", "faults"} -> Nat]

\* "Exactly one control operation may be active for a Runtime": whatever owners,
\* operators, the sweep and retrying Runners do, no two requests hold it at once.
OneActivePerRuntime ==
    \A i, j \in RequestIds :
        /\ IsActive(requests[i]) /\ IsActive(requests[j])
        /\ requests[i].runtime = requests[j].runtime
        => i = j

\* A request that is leased again belongs to the newest lease alone: a Runner
\* that was presumed dead cannot complete it with the token it still has.
NewestLeaseCompletes ==
    \A i \in RequestIds :
        requests[i].status \in {"succeeded", "stopped"} =>
            requests[i].by = requests[i].attempts /\ requests[i].by > 0

\* A settled request never changes again, neither by a late Runner call nor by
\* the sweep; in particular a fenced request stays failed.
SettledIsFinal ==
    [][\A i \in RequestIds :
         requests[i].status \in {"succeeded", "stopped", "failed"} =>
            requests'[i] = requests[i]]_vars

\* "Payment must never start an agent its owner/operator asked to stop": after
\* an accepted Stop or Destroy no start is queued or running, neither a control
\* request nor a restore, until somebody explicitly asks for one.
ExplicitStopWins ==
    \A r \in Runtimes : intent[r] = "stop" =>
        /\ \A i \in ActiveOn(r) : requests[i].kind \notin UpBound
        /\ move[r].kind # "restore"

\* The residency row an operation in flight needs to complete is there: an
\* archive finds the slot free, a reclaim finds the very row that names it.
ResidencyRowWaits ==
    \A r \in Runtimes : \A i \in ActiveOn(r) :
        /\ requests[i].kind = "archive_trial" => archive[r].state = "none"
        /\ requests[i].kind = "reclaim_trial" =>
              archive[r].state = "stored" /\ archive[r].reclaim = i

\* Once the local durable tree is reclaimed nothing may have started compute on
\* the host that held it: no start is queued and compute is confirmed down.
ReclaimedIsDark ==
    \A r \in Runtimes : archive[r].state = "reclaimed" =>
        /\ ~mayRun[r] /\ agent[r].status # "online"
        /\ \A i \in ActiveOn(r) : requests[i].kind \notin UpBound

\* A restore owns the lifecycle and cannot be stranded: its row, its marker and
\* an empty control slot are there, so that billing alone decides its claim.
RestoreNotStranded ==
    \A r \in Runtimes :
        /\ archive[r].restore <=> move[r].kind = "restore"
        /\ move[r].kind = "restore" =>
              /\ archive[r].state = "reclaimed" /\ marker[r].allowed
              /\ ActiveOn(r) = {}

\* "Subsequent retries never retarget": a restore claimed by one host stays on
\* it through expiry, failure, pause and new claims.
PinnedRestoreStays ==
    [][\A r \in Runtimes :
         /\ move[r].kind = "restore" /\ move'[r].kind = "restore"
         /\ move[r].target # None
         => move'[r].target = move[r].target]_vars

\* The offline latch is trusted by the sweep and by relocation: an agent shown
\* offline with no operation in flight has had no start on the host it is bound
\* to since its last stop there.
OfflineMeansDown ==
    \A r \in Runtimes :
        agent[r].linked /\ agent[r].status = "offline" /\ ActiveOn(r) = {} => ~mayRun[r]

\* An offboarded agent is gone for good: no link, no credential, no operation in
\* flight, and no relocation, sweep or late completion brings the link back.
DepartedIsInert ==
    \A r \in Runtimes : agent[r].phase >= LinkDeactivated =>
        /\ ~agent[r].linked
        /\ agent[r].credential = "revoked"
        /\ ActiveOn(r) = {}

\* Offboarding only moves forward, a verified receipt is never lost and a
\* revoked credential is never revived by a restart or a handoff.
OffboardingForward ==
    [][\A r \in Runtimes :
         /\ agent[r].phase <= agent'[r].phase
         /\ agent[r].receipt => agent'[r].receipt
         /\ agent[r].credential = "revoked" => agent'[r].credential = "revoked"]_vars

(***************************************************************************)
(* Liveness.                                                               *)
(***************************************************************************)
\* Every accepted operation settles: completed, failed, or fenced when its org
\* lost access before a Runner took it.
RequestsSettle ==
    \A i \in RequestIds : IsActive(requests[i]) ~> ~IsActive(requests[i])

\* When access lapses for good, every linked agent ends confirmed down.
LapsedAgentsGoDown ==
    <>[]blocked => \A r \in Runtimes : <>[](agent[r].linked => ~mayRun[r])

\* When access returns for good, every suspension that billing may lift is
\* lifted: the agent is resumed or restored and its marker is gone.
PaidAgentsReturn ==
    <>[]~blocked => \A r \in Runtimes : marker[r].allowed ~> ~marker[r].allowed

(***************************************************************************)
(* What a comment, a test or the runtime-control contract says and the     *)
(* code does not keep.                                                     *)
(***************************************************************************)
\* "Billing-authorized return after reclamation creates a restore operation":
\* the sweep does so only while the marker allows a resume.
ReclaimedCanReturn ==
    \A r \in Runtimes : archive[r].state = "reclaimed" => marker[r].allowed

\* "After billing recovers, Core ... requests a Restart": an agent nobody asked
\* to stop that sits offline is remembered by a marker.
SuspendedIsRemembered ==
    \A r \in Runtimes :
        /\ agent[r].linked /\ agent[r].status = "offline"
        /\ intent[r] = "run" /\ ActiveOn(r) = {}
        => marker[r].allowed

\* "The stopped source remains the rollback boundary and must not be started
\* concurrently": no start is leased on the source of a relocation in launch.
RelocationSourceStaysStopped ==
    \A r \in Runtimes :
        move[r].kind = "relocate" /\ move[r].status = "launching" =>
            \A i \in ActiveOn(r) :
                ~(requests[i].kind \in UpBound /\ requests[i].status = "launching")
=============================================================================
