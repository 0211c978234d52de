------------------------- MODULE TrialResidencyTypes -------------------------
(***************************************************************************)
(* What a step of TrialResidency may do to a request row, and type         *)
(* correctness, for every value of the constants.  TrialResidencySafety    *)
(* builds on both.                                                         *)
(***************************************************************************)
EXTENDS TrialResidency, TLAPS

\* A new row is a well-typed request.
LEMMA NewRequestType ==
    ASSUME TypeOK, NEW r \in Runtimes, NEW k \in Kinds, NEW t \in Artifacts \cup {None}
    PROVE  NewRequest(r, k, t) \in Request
BY DEF TypeOK, NewRequest, NoRequest, Request, Agent

\* Fencing keeps every row well-typed.
LEMMA FencedType ==
    ASSUME TypeOK, NEW r \in Runtimes
    PROVE  FencedOn(r) \in [RequestIds -> Request]
<1>1. \A req \in Request : Fenced(req) \in Request
  BY DEF Request, Fenced
<1>2. requests \in [RequestIds -> Request]
  BY DEF TypeOK
<1> QED
  BY <1>1, <1>2 DEF FencedOn

LEMMA EnqueuesType ==
    ASSUME TypeOK, NEW r \in Runtimes, NEW k \in Kinds, NEW id \in RequestIds, NEW row,
           Enqueues(r, k, id, row)
    PROVE  requests' \in [RequestIds -> Request]
<1>1. NewRequest(r, k, None) \in Request
  BY NewRequestType
<1> QED
  BY <1>1, FencedType DEF Enqueues

\* Initially the state is well-typed.
LEMMA InitType == Init => TypeOK
<1> SUFFICES ASSUME Init PROVE TypeOK
  OBVIOUS
<1>1. requests \in [RequestIds -> Request]
  BY DEF Init, NoRequest, Request
<1>2. agent \in [Runtimes -> Agent]
  <2>1. PICK place \in [Runtimes -> Hosts] :
          agent = [r \in Runtimes |->
                   IF r \in HalfRetired THEN HalfRetiredAgent(place[r])
                                        ELSE LiveAgent(place[r])]
    BY DEF Init
  <2>2. \A h \in Hosts : LiveAgent(h) \in Agent
    BY ConstantsAssumption DEF LiveAgent, Agent
  <2>3. \A h \in Hosts : HalfRetiredAgent(h) \in Agent
    <3>1. ComputeRemoved \in 0..5
      BY DEF ComputeRemoved
    <3>2. \A a \in Agent : [a EXCEPT !.status = "offline", !.phase = ComputeRemoved,
                                    !.receipt = TRUE] \in Agent
      BY <3>1 DEF Agent
    <3> QED
      BY <2>2, <3>2 DEF HalfRetiredAgent
  <2> QED
    BY <2>1, <2>2, <2>3
<1>3. budget \in [{"explicit", "billing", "faults"} -> Nat]
  BY ConstantsAssumption DEF Init
<1> QED
  BY <1>1, <1>2, <1>3
     DEF Init, TypeOK, Marker, NoMarker, Archive, NoArchive, Move, NoMove

LEMMA SpendType ==
    ASSUME TypeOK, NEW what \in {"explicit", "billing", "faults"}, Spend(what)
    PROVE  budget' \in [{"explicit", "billing", "faults"} -> Nat]
BY DEF TypeOK, Spend

(***************************************************************************)
(* What one step may do to a row of runtime_control_requests.              *)
(***************************************************************************)
\* What Core has checked when it inserts row i of kind k for Runtime r.
Grounds(i, r, k) ==
    /\ agent[r].linked
    /\ NoRestore(r) /\ UNCHANGED move
    /\ k \in UpBound => \/ intent'[r] = "run"
                        \/ marker[r].allowed /\ UNCHANGED intent
    /\ k \in UpBound => archive'[r].state = "none"
    /\ k = "archive_trial" => /\ archive[r].state = "none" /\ UNCHANGED archive
                              /\ agent[r].status = "offline"
    /\ k = "reclaim_trial" => /\ archive[r].state = "stored"
                              /\ archive' = [archive EXCEPT ![r].reclaim = i]

Created(i) ==
    /\ Fresh(i)
    /\ \E r \in Runtimes, k \in Kinds, t \in Artifacts \cup {None} :
         /\ requests'[i] = NewRequest(r, k, t)
         /\ k = "upgrade" => t \in Artifacts
         /\ Grounds(i, r, k)
         /\ \A j \in RequestIds \ {i} :
              requests'[j].runtime = r => ~IsActive(requests'[j])

Changed(i) ==
    \/ requests'[i] = Leased(requests[i])
    \/ requests'[i] = Released(requests[i], "requested")
    \/ requests'[i] = Released(requests[i], "failed")
    \/ \E lease \in {"live", "due", "expired"} :
         /\ requests[i].status = "launching"
         /\ requests'[i] = [requests[i] EXCEPT !.lease = lease]
    \/ requests'[i] = Fenced(requests[i])

Completed(i) ==
    /\ requests[i].status = "launching"
    /\ requests[i].token \in 1..requests[i].attempts
    /\ \E terminal \in {"succeeded", "stopped"} :
         requests'[i] = Settled(requests[i], requests[i].token, terminal)

RowStep(i) ==
    \/ requests'[i] = requests[i]
    \/ Created(i)
    \/ IsActive(requests[i]) /\ Changed(i)
    \/ Completed(i)

RowSteps == \A i \in RequestIds : RowStep(i)

LEMMA RequestControlRows ==
    ASSUME TypeOK, NEW r \in Runtimes, NEW k \in Explicit, NEW t \in Artifacts \cup {None},
           NEW id \in RequestIds, RequestControl(r, k, t, id)
    PROVE  RowSteps
<1>1. CASE UNCHANGED requests
  BY <1>1 DEF RowSteps, RowStep
<1>2. CASE /\ ActiveOn(r) = {} /\ Fresh(id)
           /\ requests' = [requests EXCEPT ![id] = NewRequest(r, k, t)]
  <2>1. \A i \in RequestIds \ {id} : requests'[i] = requests[i]
    BY <1>2 DEF TypeOK
  <2>2. requests'[id] = NewRequest(r, k, t)
    BY <1>2 DEF TypeOK
  <2>3. \A j \in RequestIds \ {id} : requests'[j].runtime = r => ~IsActive(requests'[j])
    BY <1>2, <2>1 DEF ActiveOn
  <2>4. k = "upgrade" => t \in Artifacts
    BY DEF RequestControl, Admits
  <2>5. Grounds(id, r, k)
    <3>1. k # "archive_trial" /\ k # "reclaim_trial"
      BY DEF Explicit, UpBound
    <3>2. k \in UpBound => intent'[r] = "run"
      BY DEF RequestControl, TypeOK
    <3>3. agent[r].linked /\ NoRestore(r) /\ UNCHANGED move
      BY DEF RequestControl, Admits
    <3>4. k \in UpBound => archive'[r].state = "none"
      BY DEF RequestControl, Admits, TreeIsLocal, UpBound, Residency
    <3> QED
      BY <3>1, <3>2, <3>3, <3>4 DEF Grounds
  <2>6. Created(id)
    BY <1>2, <2>2, <2>3, <2>4, <2>5 DEF Created, Kinds
  <2> QED
    BY <2>1, <2>6 DEF RowSteps, RowStep
<1> QED
  BY <1>1, <1>2 DEF RequestControl

LEMMA EnqueuesRows ==
    ASSUME TypeOK, NEW r \in Runtimes, NEW k \in Kinds, NEW id \in RequestIds, NEW residency,
           Enqueues(r, k, id, residency), k # "upgrade", Grounds(id, r, k)
    PROVE  RowSteps
<1>1. requests' = [FencedOn(r) EXCEPT ![id] = NewRequest(r, k, None)]
  BY DEF Enqueues
<1>2. requests'[id] = NewRequest(r, k, None)
  BY <1>1 DEF FencedOn
<1>3. \A i \in RequestIds \ {id} : requests'[i] = FencedOn(r)[i]
  BY <1>1
<1>4. \A i \in ActiveOn(r) : FencedOn(r)[i] = Fenced(requests[i])
  BY DEF FencedOn, ActiveOn
<1>5. \A i \in RequestIds \ ActiveOn(r) : FencedOn(r)[i] = requests[i]
  BY DEF FencedOn
<1>6. \A i \in RequestIds : ~IsActive(Fenced(requests[i]))
  BY DEF TypeOK, Request, Fenced, IsActive
<1>7. \A j \in RequestIds \ {id} : requests'[j].runtime = r => ~IsActive(requests'[j])
  BY <1>3, <1>4, <1>5, <1>6 DEF ActiveOn
<1>8. Created(id)
  BY <1>2, <1>7 DEF Created, Enqueues
<1>9. \A i \in RequestIds \ {id} : RowStep(i)
  BY <1>3, <1>4, <1>5 DEF RowStep, Changed, ActiveOn
<1> QED
  BY <1>8, <1>9 DEF RowSteps, RowStep

LEMMA LeaseRows ==
    ASSUME TypeOK, NEW h \in Hosts, NEW i \in RequestIds, LeaseControl(h, i)
    PROVE  RowSteps
<1>1. PICK D \in SUBSET {j \in RequestIds : j < i /\ requests[j].host = h /\ Rejected(j)} :
        requests' = [j \in RequestIds |-> IF j = i THEN Leased(requests[j])
                                      ELSE IF j \in D THEN Reject(requests[j])
                                      ELSE requests[j]]
  BY DEF LeaseControl
<1>2. IsActive(requests[i]) /\ \A j \in D : IsActive(requests[j])
  BY <1>1 DEF LeaseControl, Leasable, Rejected, IsActive
<1> QED
  BY <1>1, <1>2 DEF RowSteps, RowStep, Changed, Reject

LEMMA RejectRows ==
    ASSUME TypeOK, NEW h \in Hosts, RejectUpgrades(h)
    PROVE  RowSteps
<1>1. PICK D \in SUBSET {j \in RequestIds : requests[j].host = h /\ Rejected(j)} :
        requests' = [j \in RequestIds |-> IF j \in D THEN Reject(requests[j]) ELSE requests[j]]
  BY DEF RejectUpgrades
<1>2. \A j \in D : IsActive(requests[j])
  BY <1>1 DEF Leasable, Rejected, IsActive
<1> QED
  BY <1>1, <1>2 DEF RowSteps, RowStep, Changed, Reject

LEMMA FenceRows ==
    ASSUME TypeOK, NEW r \in Runtimes, ReconcileFence(r)
    PROVE  RowSteps
<1>1. requests' = FencedOn(r)
  BY DEF ReconcileFence
<1> QED
  BY <1>1 DEF FencedOn, RowSteps, RowStep, Changed, ActiveOn

LEMMA CompletionRows ==
    ASSUME TypeOK, NEW i \in RequestIds, NEW token \in 1..requests[i].attempts,
           NEW terminal \in {"succeeded", "stopped"},
           HoldsLiveLease(i, token), Settle(i, token, terminal)
    PROVE  RowSteps
<1>1. requests[i].status = "launching" /\ requests[i].token = token
  BY DEF HoldsLiveLease, HoldsLease
<1>2. requests' = [requests EXCEPT ![i] = Settled(requests[i], token, terminal)]
  BY DEF Settle
<1>3. Completed(i)
  BY <1>1, <1>2 DEF Completed, TypeOK
<1> QED
  BY <1>2, <1>3 DEF RowSteps, RowStep, TypeOK

LEMMA HolderRows ==
    ASSUME TypeOK, NEW i \in RequestIds, NEW token,
           RenewControl(i, token) \/ RetryControl(i, token) \/ FailControl(i, token)
    PROVE  RowSteps
<1>1. requests[i].status = "launching"
  BY DEF RenewControl, RetryControl, FailControl, HoldsLiveLease, HoldsLease
<1>2. \A j \in RequestIds \ {i} : requests'[j] = requests[j]
  BY DEF RenewControl, RetryControl, FailControl, TypeOK
<1>3. Changed(i)
  BY <1>1 DEF RenewControl, RetryControl, FailControl, TypeOK, Changed
<1> QED
  BY <1>1, <1>2, <1>3 DEF RowSteps, RowStep, IsActive

LEMMA AgesRows ==
    ASSUME TypeOK, NEW i \in RequestIds, LeaseAges(i)
    PROVE  RowSteps
<1>1. \A j \in RequestIds \ {i} : requests'[j] = requests[j]
  BY DEF LeaseAges, TypeOK
<1>2. Changed(i)
  BY DEF LeaseAges, TypeOK, Changed
<1> QED
  BY <1>1, <1>2 DEF RowSteps, RowStep, IsActive, LeaseAges

\* Every step of the specification treats every row as RowStep says.
LEMMA NextRows ==
    ASSUME TypeOK, [Next]_vars
    PROVE  RowSteps
<1>0. ASSUME UNCHANGED requests PROVE RowSteps
  BY <1>0 DEF RowSteps, RowStep
<1>1. CASE ControlNext
  <2>1. ASSUME NEW r \in Runtimes, NEW k \in Explicit, NEW t \in Artifacts \cup {None},
               NEW id \in RequestIds, RequestControl(r, k, t, id)
        PROVE  RowSteps
    BY <2>1, RequestControlRows
  <2>2. ASSUME NEW h \in Hosts, NEW i \in RequestIds, LeaseControl(h, i) PROVE RowSteps
    BY <2>2, LeaseRows
  <2>3. ASSUME NEW h \in Hosts, RejectUpgrades(h) PROVE RowSteps
    BY <2>3, RejectRows
  <2>4. ASSUME NEW i \in RequestIds, LeaseAges(i) PROVE RowSteps
    BY <2>4, AgesRows
  <2>5. ASSUME NEW i \in RequestIds, NEW token \in 1..requests[i].attempts,
               RenewControl(i, token) \/ RetryControl(i, token) \/ FailControl(i, token)
        PROVE  RowSteps
    BY <2>5, HolderRows
  <2>6. ASSUME NEW i \in RequestIds, NEW token \in 1..requests[i].attempts,
               \/ CompleteUp(i, token) \/ CompleteStop(i, token)
               \/ CompleteArchive(i, token) \/ CompleteReclaim(i, token)
               \/ CompleteDestroy(i, token)
        PROVE  RowSteps
    <3>1. HoldsLiveLease(i, token)
      BY <2>6 DEF CompleteUp, CompleteStop, CompleteArchive, CompleteReclaim, CompleteDestroy
    <3>2. Settle(i, token, "succeeded") \/ Settle(i, token, "stopped")
      BY <2>6 DEF CompleteUp, CompleteStop, CompleteArchive, CompleteReclaim, CompleteDestroy
    <3> QED
      BY <3>1, <3>2, CompletionRows
  <2>7. ASSUME NEW r \in Runtimes, \/ AdminArchiveUnrecoverable(r) \/ AdminOffboardRetired(r)
                                   \/ RevokeCredential(r)
        PROVE  RowSteps
    BY <2>7, <1>0 DEF AdminArchiveUnrecoverable, AdminOffboardRetired, RevokeCredential
  <2>8. ASSUME NEW a \in Artifacts, RetireArtifact(a) PROVE RowSteps
    BY <2>8, <1>0 DEF RetireArtifact
  <2> QED
    BY <1>1, <2>1, <2>2, <2>3, <2>4, <2>5, <2>6, <2>7, <2>8 DEF ControlNext
<1>2. ASSUME NEW r \in Runtimes, Reconcile(r) PROVE RowSteps
  <2>1. ASSUME NEW id \in RequestIds, \/ ReconcileArchive(r, id) \/ ReconcileReclaim(r, id)
                                      \/ ReconcileStop(r, id) \/ ReconcileResume(r, id)
        PROVE  RowSteps
    <3> USE DEF Grounds, Enqueues, Admits
    <3>1. CASE ReconcileArchive(r, id)
      <4>1. Enqueues(r, "archive_trial", id, archive[r]) /\ Grounds(id, r, "archive_trial")
        BY <3>1 DEF ReconcileArchive, WantsArchive, UpBound
      <4> QED
        BY <4>1, EnqueuesRows DEF Kinds, Residency
    <3>2. CASE ReconcileReclaim(r, id)
      <4>1. Enqueues(r, "reclaim_trial", id, archive[r]) /\ Grounds(id, r, "reclaim_trial")
        BY <3>2 DEF ReconcileReclaim, UpBound
      <4> QED
        BY <4>1, EnqueuesRows DEF Kinds, Residency
    <3>3. CASE ReconcileStop(r, id)
      <4>1. Enqueues(r, "stop", id, archive[r]) /\ Grounds(id, r, "stop")
        BY <3>3 DEF ReconcileStop, UpBound
      <4> QED
        BY <4>1, EnqueuesRows DEF Kinds, Explicit
    <3>4. CASE ReconcileResume(r, id)
      <4>1. Enqueues(r, "restart", id, KeptLocal(r)[r]) /\ Grounds(id, r, "restart")
        BY <3>4 DEF ReconcileResume, WantsResume, TreeIsLocal, UpBound, Residency
      <4> QED
        BY <4>1, EnqueuesRows DEF Kinds, Explicit, UpBound
    <3> QED
      BY <2>1, <3>1, <3>2, <3>3, <3>4
  <2>2. ASSUME ReconcileFence(r) PROVE RowSteps
    BY <2>2, FenceRows
  <2>3. ASSUME ReconcileRestore(r) \/ ReconcileSettle(r) \/ ReconcileKeepLocal(r)
        PROVE  RowSteps
    BY <2>3, <1>0 DEF ReconcileRestore, ReconcileSettle, ReconcileKeepLocal
  <2> QED
    BY <1>2, <2>1, <2>2, <2>3 DEF Reconcile
<1>3. CASE MoveNext
  BY <1>3, <1>0 DEF MoveNext, RequestRelocation, Relocating, LeaseMove, MoveLeaseExpires, PauseMove,
                    CancelRelocation, FailMove, CompleteMove, ClosesMove
<1>4. CASE BillingChanges \/ \E r \in Runtimes, k \in Swept : BackoffElapses(r, k)
  BY <1>4, <1>0 DEF BillingChanges, BackoffElapses
<1>5. CASE UNCHANGED vars
  BY <1>5, <1>0 DEF vars
<1> QED
  BY <1>1, <1>2, <1>3, <1>4, <1>5 DEF Next

(***************************************************************************)
(* Type correctness.                                                       *)
(***************************************************************************)
LEMMA RequestControlType ==
    ASSUME TypeOK, NEW r \in Runtimes, NEW k \in Explicit, NEW t \in Artifacts \cup {None},
           NEW id \in RequestIds, RequestControl(r, k, t, id)
    PROVE  TypeOK'
<1>1. requests' \in [RequestIds -> Request]
  <2>1. NewRequest(r, k, t) \in Request
    BY NewRequestType DEF Kinds
  <2> QED
    BY <2>1 DEF TypeOK, RequestControl
<1>2. agent' \in [Runtimes -> Agent]
  <2>1. RetirementRequested \in 0..5
    BY DEF RetirementRequested
  <2>2. [agent[r] EXCEPT !.phase = RetirementRequested] \in Agent
    BY <2>1 DEF TypeOK, Agent
  <2> QED
    BY <2>2 DEF TypeOK, RequestControl
<1>3. marker' \in [Runtimes -> Marker]
  BY DEF TypeOK, RequestControl, RecordIntent, Marker, NoMarker
<1>4. budget' \in [{"explicit", "billing", "faults"} -> Nat]
  BY SpendType DEF RequestControl
<1>5. intent' \in [Runtimes -> {"run", "stop"}]
  BY DEF TypeOK, RequestControl
<1> QED
  BY <1>1, <1>2, <1>3, <1>4, <1>5 DEF TypeOK, RequestControl

\* What the record updates return.
LEMMA ReleasedType ==
    ASSUME NEW req \in Request,
           NEW status \in {"requested", "succeeded", "stopped", "failed"}
    PROVE  Released(req, status) \in Request
BY DEF Released, Request

LEMMA SettledType ==
    ASSUME NEW req \in Request, NEW token \in Nat, NEW terminal \in {"succeeded", "stopped"}
    PROVE  Settled(req, token, terminal) \in Request
<1>1. Released(req, terminal) \in Request
  BY ReleasedType
<1> QED
  BY <1>1 DEF Settled, Request

LEMMA StaleType == \A a \in Agent : Stale(a) \in Agent
BY DEF Stale, Agent

LEMMA ActivatedType ==
    \A a \in Agent, up \in BOOLEAN : Activated(a.credential, up) \in {"active", "suspended", "revoked"}
BY DEF Activated, Agent

LEMMA DownType == \A a \in Agent : Down(a) \in Agent
<1> SUFFICES ASSUME NEW a \in Agent PROVE Down(a) \in Agent
  OBVIOUS
<1>1. Activated(a.credential, FALSE) \in {"active", "suspended", "revoked"}
  BY ActivatedType
<1> QED
  BY <1>1 DEF Down, Agent

LEMMA OffboardedType == \A a \in Agent : Offboarded(a) \in Agent
<1>1. Archived \in 0..5
  BY DEF Archived
<1> QED
  BY <1>1 DEF Offboarded, Agent

LEMMA DestroyedType == \A a \in Agent : Destroyed(a) \in Agent
<1> SUFFICES ASSUME NEW a \in Agent PROVE Destroyed(a) \in Agent
  OBVIOUS
<1>1. Offboarded(a) \in Agent
  BY OffboardedType
<1> QED
  BY <1>1 DEF Destroyed, Agent

LEMMA LeaseControlType ==
    ASSUME TypeOK, NEW h \in Hosts, NEW i \in RequestIds, LeaseControl(h, i)
    PROVE  TypeOK'
<1>1. \A req \in Request : Leased(req) \in Request
  <2> SUFFICES ASSUME NEW req \in Request PROVE Leased(req) \in Request
    OBVIOUS
  <2>1. req.attempts + 1 \in Nat
    BY DEF Request
  <2> QED
    BY <2>1 DEF Leased, Request
<1>2. \A req \in Request : Reject(req) \in Request
  BY ReleasedType DEF Reject
<1>3. requests' \in [RequestIds -> Request]
  BY <1>1, <1>2 DEF TypeOK, LeaseControl
<1>4. mayRun' \in [Runtimes -> BOOLEAN]
  BY DEF TypeOK, LeaseControl
<1> QED
  BY <1>3, <1>4 DEF TypeOK, LeaseControl

LEMMA RejectUpgradesType ==
    ASSUME TypeOK, NEW h \in Hosts, RejectUpgrades(h)
    PROVE  TypeOK'
<1>1. \A req \in Request : Reject(req) \in Request
  BY ReleasedType DEF Reject
<1>2. requests' \in [RequestIds -> Request]
  BY <1>1 DEF TypeOK, RejectUpgrades
<1> QED
  BY <1>2 DEF TypeOK, RejectUpgrades

LEMMA LeaseAgesType ==
    ASSUME TypeOK, NEW i \in RequestIds, LeaseAges(i)
    PROVE  TypeOK'
<1>0. \A req \in Request, lease \in {"due", "expired"} :
        [req EXCEPT !.lease = lease] \in Request
  BY DEF Request
<1>1. requests' \in [RequestIds -> Request]
  <2>1. PICK lease \in {"due", "expired"} : requests' = [requests EXCEPT ![i].lease = lease]
    BY DEF LeaseAges
  <2>2. requests \in [RequestIds -> Request]
    BY DEF TypeOK
  <2> QED
    BY <1>0, <2>1, <2>2
<1>2. budget' \in [{"explicit", "billing", "faults"} -> Nat]
  BY SpendType DEF LeaseAges, TypeOK
<1> QED
  BY <1>1, <1>2 DEF TypeOK, LeaseAges

LEMMA RenewControlType ==
    ASSUME TypeOK, NEW i \in RequestIds, NEW token, RenewControl(i, token)
    PROVE  TypeOK'
<1>1. requests' \in [RequestIds -> Request]
  BY DEF TypeOK, RenewControl, Request
<1> QED
  BY <1>1 DEF TypeOK, RenewControl

LEMMA RetryControlType ==
    ASSUME TypeOK, NEW i \in RequestIds, NEW token, RetryControl(i, token)
    PROVE  TypeOK'
<1>1. requests' \in [RequestIds -> Request]
  BY ReleasedType DEF TypeOK, RetryControl
<1>2. agent' \in [Runtimes -> Agent]
  BY StaleType DEF TypeOK, RetryControl
<1>3. budget' \in [{"explicit", "billing", "faults"} -> Nat]
  BY SpendType DEF RetryControl
<1> QED
  BY <1>1, <1>2, <1>3 DEF TypeOK, RetryControl

LEMMA FailControlType ==
    ASSUME TypeOK, NEW i \in RequestIds, NEW token, FailControl(i, token)
    PROVE  TypeOK'
<1>1. requests' \in [RequestIds -> Request]
  BY ReleasedType DEF TypeOK, FailControl
<1>2. agent' \in [Runtimes -> Agent]
  BY StaleType DEF TypeOK, FailControl
<1>3. cooling' \in [Runtimes -> SUBSET Swept]
  BY DEF TypeOK, FailControl
<1>4. budget' \in [{"explicit", "billing", "faults"} -> Nat]
  BY SpendType DEF FailControl
<1> QED
  BY <1>1, <1>2, <1>3, <1>4 DEF TypeOK, FailControl

LEMMA SettleType ==
    ASSUME TypeOK, NEW i \in RequestIds, NEW token \in Nat,
           NEW terminal \in {"succeeded", "stopped"}, Settle(i, token, terminal)
    PROVE  requests' \in [RequestIds -> Request]
BY SettledType DEF TypeOK, Settle

LEMMA GoesDownType ==
    ASSUME TypeOK, NEW r, GoesDown(r)
    PROVE  agent' \in [Runtimes -> Agent] /\ mayRun' \in [Runtimes -> BOOLEAN]
<1>1. agent' \in [Runtimes -> Agent]
  BY DownType DEF TypeOK, GoesDown
<1>2. mayRun' \in [Runtimes -> BOOLEAN]
  BY DEF TypeOK, GoesDown
<1> QED
  BY <1>1, <1>2

\* What makes type correctness inductive: an upgrade names its artifact, and a
\* move in launch the host that launches it.
UpgradesTargeted ==
    \A i \in RequestIds : requests[i].kind = "upgrade" => requests[i].target \in Artifacts

LaunchesHosted ==
    \A r \in Runtimes : move[r].status = "launching" => move[r].target \in Hosts

TypeInv == TypeOK /\ UpgradesTargeted /\ LaunchesHosted

LEMMA CompleteUpType ==
    ASSUME TypeInv, NEW i \in RequestIds, NEW token \in Nat, CompleteUp(i, token)
    PROVE  TypeOK'
<1>1. requests' \in [RequestIds -> Request]
  BY SettleType DEF CompleteUp, TypeInv
<1>2. \A a \in Agent : Up(a, requests[i]) \in Agent
  <2> SUFFICES ASSUME NEW a \in Agent PROVE Up(a, requests[i]) \in Agent
    OBVIOUS
  <2>1. Activated(a.credential, TRUE) \in {"active", "suspended", "revoked"}
    BY ActivatedType
  <2>2. RunningArtifact(requests[i], a.artifact) \in Artifacts
    BY DEF RunningArtifact, TypeInv, UpgradesTargeted, Agent
  <2> QED
    BY <2>1, <2>2 DEF Up, Agent
<1>3. agent' \in [Runtimes -> Agent]
  BY <1>2 DEF TypeInv, TypeOK, CompleteUp
<1> QED
  BY <1>1, <1>3 DEF TypeInv, TypeOK, CompleteUp

LEMMA CompleteStopType ==
    ASSUME TypeOK, NEW i \in RequestIds, NEW token \in Nat, CompleteStop(i, token)
    PROVE  TypeOK'
BY SettleType, GoesDownType DEF TypeOK, CompleteStop

LEMMA CompleteArchiveType ==
    ASSUME TypeOK, NEW i \in RequestIds, NEW token \in Nat, CompleteArchive(i, token)
    PROVE  TypeOK'
<1>1. requests' \in [RequestIds -> Request]
  BY SettleType DEF CompleteArchive
<1>2. agent' \in [Runtimes -> Agent] /\ mayRun' \in [Runtimes -> BOOLEAN]
  BY GoesDownType DEF CompleteArchive
<1>3. archive' \in [Runtimes -> Archive]
  BY DEF TypeOK, CompleteArchive, Archive, NoArchive
<1> QED
  BY <1>1, <1>2, <1>3 DEF TypeOK, CompleteArchive

LEMMA CompleteReclaimType ==
    ASSUME TypeOK, NEW i \in RequestIds, NEW token \in Nat, CompleteReclaim(i, token)
    PROVE  TypeOK'
<1>1. requests' \in [RequestIds -> Request]
  BY SettleType DEF CompleteReclaim
<1>2. agent' \in [Runtimes -> Agent] /\ mayRun' \in [Runtimes -> BOOLEAN]
  BY GoesDownType DEF CompleteReclaim
<1>3. \A a \in Archive : [a EXCEPT !.state = "reclaimed"] \in Archive
  BY DEF Archive
<1>4. archive' \in [Runtimes -> Archive]
  BY <1>3 DEF TypeOK, CompleteReclaim
<1> QED
  BY <1>1, <1>2, <1>4 DEF TypeOK, CompleteReclaim

LEMMA CompleteDestroyType ==
    ASSUME TypeOK, NEW i \in RequestIds, NEW token \in Nat, CompleteDestroy(i, token)
    PROVE  TypeOK'
<1>1. requests' \in [RequestIds -> Request]
  BY SettleType DEF CompleteDestroy
<1>2. agent' \in [Runtimes -> Agent]
  BY DestroyedType DEF TypeOK, CompleteDestroy
<1>3. mayRun' \in [Runtimes -> BOOLEAN]
  BY DEF TypeOK, CompleteDestroy
<1> QED
  BY <1>1, <1>2, <1>3 DEF TypeOK, CompleteDestroy

LEMMA OperatorType ==
    ASSUME TypeOK, NEW r \in Runtimes,
           AdminArchiveUnrecoverable(r) \/ AdminOffboardRetired(r) \/ RevokeCredential(r)
    PROVE  TypeOK'
<1>1. \A a \in Agent : [a EXCEPT !.credential = "revoked"] \in Agent
  BY DEF Agent
<1>2. agent' \in [Runtimes -> Agent]
  BY <1>1, OffboardedType
     DEF TypeOK, AdminArchiveUnrecoverable, AdminOffboardRetired, RevokeCredential
<1>3. budget' \in [{"explicit", "billing", "faults"} -> Nat]
  BY SpendType DEF AdminArchiveUnrecoverable, AdminOffboardRetired, RevokeCredential
<1> QED
  BY <1>2, <1>3
     DEF TypeOK, AdminArchiveUnrecoverable, AdminOffboardRetired, RevokeCredential

LEMMA EnvironmentType ==
    ASSUME TypeOK,
           \/ \E a \in Artifacts : RetireArtifact(a)
           \/ BillingChanges
           \/ \E r \in Runtimes, k \in Swept : BackoffElapses(r, k)
    PROVE  TypeOK'
<1>1. CASE \E a \in Artifacts : RetireArtifact(a)
  BY <1>1, SpendType DEF TypeOK, RetireArtifact
<1>2. CASE BillingChanges
  BY <1>2, SpendType DEF TypeOK, BillingChanges
<1>3. CASE \E r \in Runtimes, k \in Swept : BackoffElapses(r, k)
  <2>1. cooling' \in [Runtimes -> SUBSET Swept]
    BY <1>3 DEF TypeOK, BackoffElapses
  <2> QED
    BY <1>3, <2>1 DEF TypeOK, BackoffElapses
<1> QED
  BY <1>1, <1>2, <1>3

LEMMA ReconcileType ==
    ASSUME TypeOK, NEW r \in Runtimes, Reconcile(r)
    PROVE  TypeOK'
<1>1. KeptLocal(r) \in [Runtimes -> Archive]
  BY DEF TypeOK, KeptLocal, Archive, NoArchive
<1>2. ASSUME NEW id \in RequestIds, ReconcileArchive(r, id) PROVE TypeOK'
  <2>1. requests' \in [RequestIds -> Request]
    BY <1>2, EnqueuesType DEF ReconcileArchive, Kinds, Residency
  <2> QED
    BY <1>2, <2>1 DEF TypeOK, ReconcileArchive
<1>3. ASSUME NEW id \in RequestIds, ReconcileReclaim(r, id) PROVE TypeOK'
  <2>1. requests' \in [RequestIds -> Request]
    BY <1>3, EnqueuesType DEF ReconcileReclaim, Kinds, Residency
  <2>2. \A a \in Archive : [a EXCEPT !.reclaim = id] \in Archive
    BY DEF Archive
  <2>3. archive' \in [Runtimes -> Archive]
    BY <1>3, <2>2 DEF TypeOK, ReconcileReclaim
  <2> QED
    BY <1>3, <2>1, <2>3 DEF TypeOK, ReconcileReclaim
<1>4. ASSUME NEW id \in RequestIds, ReconcileStop(r, id) PROVE TypeOK'
  <2>1. requests' \in [RequestIds -> Request]
    BY <1>4, EnqueuesType DEF ReconcileStop, Kinds, Explicit
  <2>2. SuspensionMarker(r, id) \in Marker
    BY DEF TypeOK, SuspensionMarker, Marker
  <2>3. marker' \in [Runtimes -> Marker]
    BY <1>4, <2>2 DEF TypeOK, ReconcileStop
  <2> QED
    BY <1>4, <2>1, <2>3 DEF TypeOK, ReconcileStop
<1>5. ASSUME NEW id \in RequestIds, ReconcileResume(r, id) PROVE TypeOK'
  <2>1. requests' \in [RequestIds -> Request]
    BY <1>5, EnqueuesType DEF ReconcileResume, Kinds, Explicit, UpBound
  <2>2. \A m \in Marker : [m EXCEPT !.resume = id] \in Marker
    BY DEF Marker
  <2>3. marker' \in [Runtimes -> Marker]
    BY <1>5, <2>2 DEF TypeOK, ReconcileResume
  <2> QED
    BY <1>1, <1>5, <2>1, <2>3 DEF TypeOK, ReconcileResume
<1>6. ASSUME ReconcileFence(r) PROVE TypeOK'
  BY <1>6, FencedType DEF TypeOK, ReconcileFence
<1>7. ASSUME ReconcileRestore(r) PROVE TypeOK'
  <2>1. \A a \in Archive : [a EXCEPT !.restore = TRUE] \in Archive
    BY DEF Archive
  <2>2. archive' \in [Runtimes -> Archive]
    BY <1>7, <2>1 DEF TypeOK, ReconcileRestore
  <2>3. [NoMove EXCEPT !.kind = "restore", !.absent = TRUE, !.status = "requested"] \in Move
    BY DEF NoMove, Move
  <2>4. move' \in [Runtimes -> Move]
    BY <1>7, <2>3 DEF TypeOK, ReconcileRestore
  <2> QED
    BY <1>7, <2>2, <2>4 DEF TypeOK, ReconcileRestore
<1>8. ASSUME ReconcileSettle(r) \/ ReconcileKeepLocal(r) PROVE TypeOK'
  <2>1. NoMarker \in Marker
    BY DEF NoMarker, Marker
  <2> QED
    BY <1>1, <1>8, <2>1 DEF TypeOK, ReconcileSettle, ReconcileKeepLocal
<1> QED
  BY <1>2, <1>3, <1>4, <1>5, <1>6, <1>7, <1>8 DEF Reconcile

LEMMA NoMoveType == NoMove \in Move
BY DEF NoMove, Move

LEMMA MoveNextType ==
    ASSUME TypeInv, MoveNext
    PROVE  TypeOK'
<1> USE DEF TypeInv
<1>1. ASSUME NEW r \in Runtimes, NEW h \in Hosts, NEW absent \in BOOLEAN,
             RequestRelocation(r, h, absent)
      PROVE  TypeOK'
  <2>1. [NoMove EXCEPT !.kind = "relocate", !.target = h, !.absent = absent,
                       !.status = "requested"] \in Move
    BY DEF NoMove, Move
  <2>2. move' \in [Runtimes -> Move]
    BY <1>1, <2>1 DEF TypeOK, RequestRelocation, Relocating
  <2> QED
    BY <1>1, <2>2, SpendType DEF TypeOK, RequestRelocation, Relocating
<1>2. ASSUME NEW r \in Runtimes, NEW h \in Hosts, LeaseMove(r, h) PROVE TypeOK'
  <2>1. move[r].attempts \in Nat /\ move[r].attempts + 1 \in Nat
    BY DEF TypeOK, Move
  <2>2. Claimed(move[r], h, Authorized(r)) \in Move
    <3>1. \A m \in Move, n \in Nat, token \in Nat :
            [m EXCEPT !.status = "launching", !.target = h, !.lease = "live",
                      !.attempts = n, !.token = token] \in Move
      BY DEF Move
    <3>2. 0 \in Nat /\ move[r] \in Move
      BY DEF TypeOK
    <3> QED
      BY <2>1, <3>1, <3>2 DEF Claimed
  <2>3. move' \in [Runtimes -> Move]
    BY <1>2, <2>2 DEF TypeOK, LeaseMove
  <2> QED
    BY <1>2, <2>3 DEF TypeOK, LeaseMove
<1>3. ASSUME NEW r \in Runtimes, MoveLeaseExpires(r) PROVE TypeOK'
  <2>1. \A m \in Move : [m EXCEPT !.lease = "expired"] \in Move
    BY DEF Move
  <2>2. move' \in [Runtimes -> Move]
    BY <1>3, <2>1 DEF TypeOK, MoveLeaseExpires
  <2> QED
    BY <1>3, <2>2, SpendType DEF TypeOK, MoveLeaseExpires
<1>4. \A m \in Move : Requeued(m) \in Move
  BY NoMoveType DEF Requeued, Move
<1>5. ASSUME NEW r \in Runtimes, PauseMove(r) PROVE TypeOK'
  BY <1>4, <1>5 DEF TypeOK, PauseMove
<1>6. ASSUME NEW r \in Runtimes, CancelRelocation(r) PROVE TypeOK'
  BY <1>6, NoMoveType, SpendType DEF TypeOK, CancelRelocation
<1>7. ASSUME NEW r \in Runtimes, NEW token, FailMove(r, token) PROVE TypeOK'
  BY <1>4, <1>7, SpendType DEF TypeOK, FailMove
<1>8. ASSUME NEW r \in Runtimes, NEW token, CompleteMove(r, token) PROVE TypeOK'
  <2>1. move[r].target \in Hosts
    BY <1>8 DEF CompleteMove, ClosesMove, HoldsMove, LaunchesHosted
  <2>2. Switched(agent[r], move[r].target) \in Agent
    <3>1. SwitchedOnly(agent[r], move[r].target) \in Agent
      <4>1. \A a \in Agent, h \in Hosts : SwitchedOnly(a, h) \in Agent
        BY DEF SwitchedOnly, HandedOver, Agent
      <4> QED
        BY <2>1, <4>1 DEF TypeOK
    <3> QED
      BY <3>1 DEF Switched, Agent
  <2>3. agent' \in [Runtimes -> Agent]
    BY <1>8, <2>2 DEF TypeOK, CompleteMove, ClosesMove
  <2>4. archive' \in [Runtimes -> Archive] /\ marker' \in [Runtimes -> Marker]
    <3>1. NoArchive \in Archive /\ NoMarker \in Marker
      BY DEF Archive, NoArchive, Marker, NoMarker
    <3> QED
      BY <1>8, <3>1 DEF TypeOK, CompleteMove, ClosesMove
  <2>5. mayRun' \in [Runtimes -> BOOLEAN]
    BY <1>8 DEF TypeOK, CompleteMove, ClosesMove
  <2>6. move' \in [Runtimes -> Move]
    BY <1>8, NoMoveType DEF TypeOK, CompleteMove, ClosesMove
  <2> QED
    BY <1>8, <2>3, <2>4, <2>5, <2>6 DEF TypeOK, CompleteMove, ClosesMove
<1> QED
  BY <1>1, <1>2, <1>3, <1>5, <1>6, <1>7, <1>8 DEF MoveNext

LEMMA ControlNextType ==
    ASSUME TypeInv, ControlNext
    PROVE  TypeOK'
<1> USE DEF TypeInv
<1>1. ASSUME NEW i \in RequestIds, NEW token \in 1..requests[i].attempts,
             \/ RenewControl(i, token) \/ RetryControl(i, token) \/ FailControl(i, token)
             \/ CompleteUp(i, token) \/ CompleteStop(i, token)
             \/ CompleteArchive(i, token) \/ CompleteReclaim(i, token)
             \/ CompleteDestroy(i, token)
      PROVE  TypeOK'
  <2>1. token \in Nat
    BY DEF TypeOK, Request
  <2> QED
    BY <1>1, <2>1, RenewControlType, RetryControlType, FailControlType, CompleteUpType,
       CompleteStopType, CompleteArchiveType, CompleteReclaimType, CompleteDestroyType
<1> QED
  BY <1>1, RequestControlType, LeaseControlType, RejectUpgradesType, LeaseAgesType,
     OperatorType, EnvironmentType
     DEF ControlNext

LEMMA TypeStep ==
    ASSUME TypeInv, [Next]_vars
    PROVE  TypeOK'
<1>1. CASE UNCHANGED vars
  BY <1>1 DEF vars, TypeInv, TypeOK
<1> QED
  BY <1>1, ControlNextType, EnvironmentType, ReconcileType, MoveNextType DEF Next, TypeInv

\* The rows keep their kind and target, so a row that names no artifact is no upgrade.
LEMMA UpgradesStep ==
    ASSUME TypeInv, RowSteps
    PROVE  UpgradesTargeted'
<1> SUFFICES ASSUME NEW i \in RequestIds, requests'[i].kind = "upgrade"
             PROVE  requests'[i].target \in Artifacts
  BY DEF UpgradesTargeted
<1>1. requests[i] \in Request /\ RowStep(i)
  BY DEF TypeInv, TypeOK, RowSteps
<1>2. CASE Created(i)
  BY <1>2 DEF Created, NewRequest, NoRequest
<1>3. CASE Changed(i) \/ Completed(i) \/ requests'[i] = requests[i]
  <2>1. requests'[i].kind = requests[i].kind /\ requests'[i].target = requests[i].target
    BY <1>1, <1>3 DEF Changed, Completed, Leased, Released, Settled, Fenced, Request
  <2> QED
    BY <2>1 DEF TypeInv, UpgradesTargeted
<1> QED
  BY <1>1, <1>2, <1>3 DEF RowStep

LEMMA LaunchesStep ==
    ASSUME TypeInv, [Next]_vars
    PROVE  LaunchesHosted'
<1> SUFFICES ASSUME NEW r \in Runtimes, move'[r].status = "launching"
             PROVE  move'[r].target \in Hosts
  BY DEF LaunchesHosted
<1> USE DEF TypeInv
<1>1. CASE UNCHANGED move
  BY <1>1 DEF LaunchesHosted
<1>2. CASE \E s \in Runtimes : ReconcileRestore(s)
  BY <1>2 DEF ReconcileRestore, TypeOK, NoMove, LaunchesHosted
<1>3. CASE MoveNext
  <2>1. PICK s \in Runtimes :
           \/ \E h \in Hosts, absent \in BOOLEAN : RequestRelocation(s, h, absent)
           \/ \E h \in Hosts : LeaseMove(s, h)
           \/ MoveLeaseExpires(s)
           \/ PauseMove(s)
           \/ CancelRelocation(s)
           \/ \E token \in 1..move[s].attempts : FailMove(s, token) \/ CompleteMove(s, token)
    BY <1>3 DEF MoveNext
  <2>2. CASE r # s
    BY <2>1, <2>2 DEF LaunchesHosted, TypeOK, RequestRelocation, Relocating, LeaseMove, MoveLeaseExpires,
                      PauseMove, CancelRelocation, FailMove, CompleteMove, ClosesMove
  <2>3. CASE r = s
    <3>0. move[r] \in Move
      BY DEF TypeOK
    <3>1. CASE \E h \in Hosts : LeaseMove(r, h)
      BY <3>0, <3>1 DEF LeaseMove, Claimed, Move, TypeOK
    <3>2. CASE MoveLeaseExpires(r)
      BY <3>0, <3>2 DEF MoveLeaseExpires, Move, TypeOK, LaunchesHosted
    <3>3. CASE \E h \in Hosts, absent \in BOOLEAN : RequestRelocation(r, h, absent)
      <4>1. PICK h \in Hosts, absent \in BOOLEAN :
              move'[r] = [NoMove EXCEPT !.kind = "relocate", !.target = h,
                                        !.absent = absent, !.status = "requested"]
        BY <3>3 DEF RequestRelocation, Relocating, TypeOK
      <4>2. move'[r].status = "requested"
        BY <4>1 DEF NoMove
      <4> QED
        BY <4>2
    <3>5. CASE \/ CancelRelocation(r)
               \/ \E token \in 1..move[r].attempts : CompleteMove(r, token)
      <4>1. move'[r] = NoMove
        BY <3>5 DEF CancelRelocation, CompleteMove, ClosesMove, TypeOK
      <4> QED
        BY <4>1 DEF NoMove
    <3>4. CASE PauseMove(r) \/ \E token \in 1..move[r].attempts : FailMove(r, token)
      <4>1. move'[r] = Requeued(move[r])
        BY <3>4 DEF PauseMove, FailMove, TypeOK
      <4>2. \A m \in Move : Requeued(m).status # "launching"
        BY DEF Requeued, NoMove, Move
      <4> QED
        BY <3>0, <4>1, <4>2
    <3> QED
      BY <2>1, <2>3, <3>1, <3>2, <3>3, <3>4, <3>5
  <2> QED
    BY <2>2, <2>3
<1>4. CASE ControlNext \/ BillingChanges
            \/ \E s \in Runtimes, k \in Swept : BackoffElapses(s, k)
  BY <1>1, <1>4 DEF ControlNext, RequestControl, LeaseControl, RejectUpgrades, LeaseAges,
                    RenewControl, RetryControl, FailControl, CompleteUp, CompleteStop,
                    CompleteArchive, CompleteReclaim, CompleteDestroy,
                    AdminArchiveUnrecoverable, AdminOffboardRetired, RevokeCredential,
                    RetireArtifact, BillingChanges, BackoffElapses
<1>5. CASE \E s \in Runtimes : Reconcile(s)
  BY <1>1, <1>2, <1>5 DEF Reconcile, ReconcileArchive, ReconcileReclaim, ReconcileStop,
                    ReconcileResume, ReconcileFence, ReconcileSettle, ReconcileKeepLocal
<1>6. CASE UNCHANGED vars
  BY <1>1, <1>6 DEF vars
<1> QED
  BY <1>3, <1>4, <1>5, <1>6 DEF Next

LEMMA TypeInvariance == Spec => []TypeInv
<1>1. Init => TypeInv
  <2> SUFFICES ASSUME Init PROVE UpgradesTargeted /\ LaunchesHosted
    BY InitType DEF TypeInv
  <2>1. NoRequest.kind = None /\ NoMove.status = "none"
    BY DEF NoRequest, NoMove
  <2> QED
    BY <2>1, ConstantsAssumption
       DEF Init, UpgradesTargeted, LaunchesHosted, Kinds, Explicit, UpBound
<1>2. TypeInv /\ [Next]_vars => TypeInv'
  BY TypeStep, NextRows, UpgradesStep, LaunchesStep DEF TypeInv
<1> QED
  BY <1>1, <1>2, PTL DEF Spec

\* Every reachable state is well-typed: no completion stores a NULL artifact or
\* binds a Runtime to no host.
THEOREM TypeCorrect == Spec => []TypeOK
<1>1. TypeInv => TypeOK
  BY DEF TypeInv
<1> QED
  BY <1>1, TypeInvariance, PTL
=============================================================================
