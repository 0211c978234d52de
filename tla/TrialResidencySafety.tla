------------------------ MODULE TrialResidencySafety ------------------------
(***************************************************************************)
(* The safety theorems about TrialResidency, for every number of Runtimes, *)
(* hosts, requests and faults.                                             *)
(***************************************************************************)
EXTENDS TrialResidencyTypes

(***************************************************************************)
(* The lifecycle slot and its leases.                                      *)
(***************************************************************************)
\* A request holds no token but the one of its newest lease.
TokenIsNewest ==
    \A i \in RequestIds : requests[i].token \in {0, requests[i].attempts}

SlotInv == OneActivePerRuntime /\ TokenIsNewest /\ NewestLeaseCompletes

LEMMA SurvivingRows ==
    ASSUME TypeOK, NEW i \in RequestIds, RowStep(i), ~Created(i)
    PROVE  /\ requests'[i].runtime = requests[i].runtime
           /\ requests'[i].kind = requests[i].kind
           /\ IsActive(requests'[i]) => IsActive(requests[i])
<1>1. requests[i] \in Request
  BY DEF TypeOK
<1> QED
  BY <1>1 DEF RowStep, Changed, Completed, Leased, Released, Settled, Fenced, Request, IsActive

\* The slot stays exclusive: a row is created only where no other is active.
LEMMA OneActiveStep ==
    ASSUME TypeOK, RowSteps, OneActivePerRuntime
    PROVE  OneActivePerRuntime'
<1> SUFFICES ASSUME NEW i \in RequestIds, NEW j \in RequestIds,
                    IsActive(requests'[i]), IsActive(requests'[j]),
                    requests'[i].runtime = requests'[j].runtime
             PROVE  i = j
  BY DEF OneActivePerRuntime, IsActive
<1>1. CASE Created(i)
  <2>1. PICK r \in Runtimes :
          /\ requests'[i].runtime = r
          /\ \A k \in RequestIds \ {i} : requests'[k].runtime = r => ~IsActive(requests'[k])
    BY <1>1 DEF Created, NewRequest, NoRequest
  <2> QED
    BY <2>1
<1>2. CASE Created(j)
  <2>1. PICK r \in Runtimes :
          /\ requests'[j].runtime = r
          /\ \A k \in RequestIds \ {j} : requests'[k].runtime = r => ~IsActive(requests'[k])
    BY <1>2 DEF Created, NewRequest, NoRequest
  <2> QED
    BY <2>1
<1>3. CASE ~Created(i) /\ ~Created(j)
  BY <1>3, SurvivingRows DEF RowSteps, OneActivePerRuntime
<1> QED
  BY <1>1, <1>2, <1>3

LEMMA TokenStep ==
    ASSUME TypeOK, RowSteps, TokenIsNewest, NewestLeaseCompletes
    PROVE  TokenIsNewest' /\ NewestLeaseCompletes'
<1> SUFFICES ASSUME NEW i \in RequestIds
             PROVE  /\ requests'[i].token \in {0, requests'[i].attempts}
                    /\ requests'[i].status \in {"succeeded", "stopped"} =>
                          requests'[i].by = requests'[i].attempts /\ requests'[i].by > 0
  BY DEF TokenIsNewest, NewestLeaseCompletes
<1>0. /\ requests[i] \in Request /\ RowStep(i)
      /\ requests[i].token \in {0, requests[i].attempts}
  BY DEF TypeOK, RowSteps, TokenIsNewest
<1>1. CASE requests'[i] = requests[i]
  BY <1>0, <1>1 DEF NewestLeaseCompletes
<1>2. CASE Created(i)
  BY <1>2 DEF Created, NewRequest, NoRequest
<1>3. CASE IsActive(requests[i]) /\ Changed(i)
  BY <1>0, <1>3 DEF IsActive, Changed, Leased, Released, Fenced, Request
<1>4. CASE Completed(i)
  BY <1>0, <1>4 DEF Completed, Settled, Released, Request
<1> QED
  BY <1>0, <1>1, <1>2, <1>3, <1>4 DEF RowStep

LEMMA SlotInvariance == Spec => []SlotInv
<1>1. Init => SlotInv
  <2>1. NoRequest.status = "absent" /\ NoRequest.token = 0
    BY DEF NoRequest
  <2> QED
    BY <2>1 DEF Init, SlotInv, OneActivePerRuntime, TokenIsNewest, NewestLeaseCompletes,
                IsActive
<1>2. TypeInv /\ SlotInv /\ [Next]_vars => SlotInv'
  BY NextRows, OneActiveStep, TokenStep DEF TypeInv, SlotInv
<1> QED
  BY <1>1, <1>2, TypeInvariance, PTL DEF Spec

\* Whatever owners, operators, the sweep and the Runners do, at most one control
\* request is active for a Runtime.
THEOREM OneActive == Spec => []OneActivePerRuntime
<1>1. SlotInv => OneActivePerRuntime
  BY DEF SlotInv
<1> QED
  BY <1>1, SlotInvariance, PTL

\* Only the holder of the newest lease ever completes a request.
THEOREM NewestLease == Spec => []NewestLeaseCompletes
<1>1. SlotInv => NewestLeaseCompletes
  BY DEF SlotInv
<1> QED
  BY <1>1, SlotInvariance, PTL

\* No late Runner call and no sweep changes a settled request.
THEOREM SettledFinal == Spec => SettledIsFinal
<1>1. TypeInv /\ [Next]_vars =>
        [\A i \in RequestIds :
           requests[i].status \in {"succeeded", "stopped", "failed"} =>
              requests'[i] = requests[i]]_vars
  BY NextRows DEF TypeInv, RowSteps, RowStep, Created, Fresh, Completed, IsActive
<1> QED
  BY <1>1, TypeInvariance, PTL DEF Spec, SettledIsFinal

(***************************************************************************)
(* Offboarding.                                                            *)
(***************************************************************************)
\* The only row the step touches is i, and i is no longer active.
ClosesSlot(i) ==
    /\ ~IsActive(requests'[i])
    /\ \A j \in RequestIds \ {i} : requests'[j] = requests[j]

\* What one step may do to an agent record.
AgentStep(r) ==
    \/ agent'[r] = agent[r]
    \/ /\ agent[r].phase < ReceiptVerified
       /\ agent'[r] = [agent[r] EXCEPT !.phase = RetirementRequested]
    \/ agent'[r] = Stale(agent[r])
    \/ \E i \in RequestIds : agent'[r] = Up(agent[r], requests[i])
    \/ agent'[r] = Down(agent[r])
    \/ /\ agent'[r] = Destroyed(agent[r])
       /\ \E i \in ActiveOn(r) : ClosesSlot(i)
    \/ /\ agent'[r] = Offboarded(agent[r])
       /\ ActiveOn(r) = {} /\ UNCHANGED requests
    \/ agent'[r] = [agent[r] EXCEPT !.credential = "revoked"]
    \/ /\ agent[r].phase = 0 /\ agent[r].credential # "revoked"
       /\ \E h : agent'[r] = Switched(agent[r], h)

AgentSteps == \A r \in Runtimes : AgentStep(r)

LEMMA CompletionAgents ==
    ASSUME TypeOK, NEW i \in RequestIds, NEW token \in Nat,
           \/ CompleteUp(i, token) \/ CompleteStop(i, token)
           \/ CompleteArchive(i, token) \/ CompleteReclaim(i, token)
           \/ CompleteDestroy(i, token)
    PROVE  AgentSteps
<1>1. CASE CompleteUp(i, token)
  BY <1>1 DEF CompleteUp, AgentSteps, AgentStep, TypeOK
<1>2. CASE CompleteStop(i, token) \/ CompleteArchive(i, token) \/ CompleteReclaim(i, token)
  <2>1. GoesDown(requests[i].runtime)
    BY <1>2 DEF CompleteStop, CompleteArchive, CompleteReclaim
  <2> QED
    BY <2>1 DEF GoesDown, AgentSteps, AgentStep, TypeOK
<1>3. CASE CompleteDestroy(i, token)
  <2> SUFFICES ASSUME NEW r \in Runtimes PROVE AgentStep(r)
    BY DEF AgentSteps
  <2>1. CASE r # requests[i].runtime
    BY <1>3, <2>1 DEF CompleteDestroy, AgentStep, TypeOK
  <2>2. CASE r = requests[i].runtime
    <3>1. i \in ActiveOn(r)
      BY <1>3, <2>2 DEF CompleteDestroy, HoldsLiveLease, HoldsLease, ActiveOn, IsActive
    <3>2. requests'[i] = Settled(requests[i], token, "stopped") /\ requests[i] \in Request
      BY <1>3 DEF CompleteDestroy, Settle, TypeOK
    <3>3. ClosesSlot(i)
      <4>1. ~IsActive(requests'[i])
        BY <3>2 DEF Settled, Released, IsActive, Request
      <4>2. \A j \in RequestIds \ {i} : requests'[j] = requests[j]
        BY <1>3 DEF CompleteDestroy, Settle, TypeOK
      <4> QED
        BY <4>1, <4>2 DEF ClosesSlot
    <3>4. agent'[r] = Destroyed(agent[r])
      BY <1>3, <2>2 DEF CompleteDestroy, TypeOK
    <3> QED
      BY <3>1, <3>3, <3>4 DEF AgentStep
  <2> QED
    BY <2>1, <2>2
<1> QED
  BY <1>1, <1>2, <1>3

LEMMA NextAgents ==
    ASSUME TypeOK, [Next]_vars
    PROVE  AgentSteps
<1>0. ASSUME UNCHANGED agent PROVE AgentSteps
  BY <1>0 DEF AgentSteps, AgentStep
<1>1. CASE ControlNext
  <2>1. ASSUME NEW r \in Runtimes, NEW k \in Explicit, NEW t \in Artifacts \cup {None},
               NEW id \in RequestIds, RequestControl(r, k, t, id)
        PROVE  AgentSteps
    <3>1. CASE k # "destroy"
      BY <1>0, <2>1, <3>1 DEF RequestControl
    <3>2. CASE k = "destroy"
      <4>1. agent[r].phase < ReceiptVerified
        BY <2>1, <3>2 DEF RequestControl, Admits, NotRetired
      <4>2. agent' = [agent EXCEPT ![r].phase = RetirementRequested]
        BY <2>1, <3>2 DEF RequestControl
      <4> QED
        BY <4>1, <4>2 DEF AgentSteps, AgentStep, TypeOK
    <3> QED
      BY <3>1, <3>2
  <2>2. ASSUME NEW i \in RequestIds, NEW token,
               RetryControl(i, token) \/ FailControl(i, token)
        PROVE  AgentSteps
    <3>1. agent' = [agent EXCEPT ![requests[i].runtime] = Stale(agent[requests[i].runtime])]
      BY <2>2 DEF RetryControl, FailControl
    <3> QED
      BY <3>1 DEF AgentSteps, AgentStep, TypeOK
  <2>3. ASSUME NEW i \in RequestIds, NEW token \in 1..requests[i].attempts,
               \/ CompleteUp(i, token) \/ CompleteStop(i, token)
               \/ CompleteArchive(i, token) \/ CompleteReclaim(i, token)
               \/ CompleteDestroy(i, token)
        PROVE  AgentSteps
    <3>1. token \in Nat
      BY DEF TypeOK, Request
    <3> QED
      BY <2>3, <3>1, CompletionAgents
  <2>4. ASSUME NEW r \in Runtimes, AdminArchiveUnrecoverable(r) \/ AdminOffboardRetired(r)
        PROVE  AgentSteps
    BY <2>4 DEF AdminArchiveUnrecoverable, AdminOffboardRetired, AgentSteps, AgentStep, TypeOK
  <2>5. ASSUME NEW r \in Runtimes, RevokeCredential(r) PROVE AgentSteps
    BY <2>5 DEF RevokeCredential, AgentSteps, AgentStep, TypeOK
  <2>6. ASSUME \/ \E h \in Hosts : RejectUpgrades(h) \/ \E i \in RequestIds : LeaseControl(h, i)
               \/ \E i \in RequestIds : \/ LeaseAges(i)
                                       \/ \E token \in 1..requests[i].attempts :
                                              RenewControl(i, token)
               \/ \E a \in Artifacts : RetireArtifact(a)
        PROVE  AgentSteps
    BY <1>0, <2>6 DEF RejectUpgrades, LeaseControl, LeaseAges, RenewControl, RetireArtifact
  <2> QED
    BY <1>1, <2>1, <2>2, <2>3, <2>4, <2>5, <2>6 DEF ControlNext
<1>2. ASSUME NEW r \in Runtimes, Reconcile(r) PROVE AgentSteps
  BY <1>0, <1>2 DEF Reconcile, ReconcileArchive, ReconcileReclaim, ReconcileStop,
                    ReconcileResume, ReconcileFence, ReconcileRestore, ReconcileSettle,
                    ReconcileKeepLocal
<1>3. CASE MoveNext
  <2>1. ASSUME NEW r \in Runtimes, NEW token, CompleteMove(r, token) PROVE AgentSteps
    BY <2>1 DEF CompleteMove, ClosesMove, SourceReady, AgentSteps, AgentStep, TypeOK
  <2> QED
    BY <1>0, <1>3, <2>1 DEF MoveNext, RequestRelocation, Relocating, LeaseMove, MoveLeaseExpires, PauseMove,
                            CancelRelocation, FailMove
<1>4. CASE BillingChanges \/ \E r \in Runtimes, k \in Swept : BackoffElapses(r, k)
  BY <1>0, <1>4 DEF BillingChanges, BackoffElapses
<1>5. CASE UNCHANGED vars
  BY <1>0, <1>5 DEF vars
<1> QED
  BY <1>1, <1>2, <1>3, <1>4, <1>5 DEF Next

LEMMA Forward ==
    ASSUME TypeOK, NEW r \in Runtimes, AgentStep(r)
    PROVE  /\ agent[r].phase <= agent'[r].phase
           /\ agent[r].receipt => agent'[r].receipt
           /\ agent[r].credential = "revoked" => agent'[r].credential = "revoked"
<1>0. agent[r] \in Agent
  BY DEF TypeOK
<1>1. agent[r].phase <= agent'[r].phase
  <2>1. \/ agent'[r].phase = agent[r].phase
        \/ agent[r].phase < ReceiptVerified /\ agent'[r].phase = RetirementRequested
        \/ agent'[r].phase = Archived
    BY <1>0 DEF AgentStep, Agent, Stale, Up, Down, Destroyed, Offboarded, Switched, SwitchedOnly, HandedOver
  <2>2. agent[r].phase \in 0..5
    BY <1>0 DEF Agent
  <2> QED
    BY <2>1, <2>2 DEF ReceiptVerified, RetirementRequested, Archived
<1>2. agent[r].receipt => agent'[r].receipt
  BY <1>0 DEF AgentStep, Agent, Stale, Up, Down, Destroyed, Offboarded, Switched, SwitchedOnly, HandedOver
<1>3. agent[r].credential = "revoked" => agent'[r].credential = "revoked"
  BY <1>0 DEF AgentStep, Agent, Stale, Up, Down, Destroyed, Offboarded, Activated
<1> QED
  BY <1>1, <1>2, <1>3

\* Offboarding moves forward only, a receipt is never lost, and neither a Runner's
\* completion nor a credential handoff revives a revoked credential.
THEOREM ForwardOnly == Spec => OffboardingForward
<1>1. TypeInv /\ [Next]_vars =>
        [\A r \in Runtimes :
           /\ agent[r].phase <= agent'[r].phase
           /\ agent[r].receipt => agent'[r].receipt
           /\ agent[r].credential = "revoked" => agent'[r].credential = "revoked"]_vars
  BY NextAgents, Forward DEF TypeInv, AgentSteps
<1> QED
  BY <1>1, TypeInvariance, PTL DEF Spec, OffboardingForward

LEMMA CreatedRow ==
    ASSUME NEW i \in RequestIds, Created(i)
    PROVE  \E k \in Kinds :
             /\ requests'[i].runtime \in Runtimes
             /\ requests'[i].kind = k
             /\ Grounds(i, requests'[i].runtime, k)
<1>1. PICK r \in Runtimes, k \in Kinds, t \in Artifacts \cup {None} :
        requests'[i] = NewRequest(r, k, t) /\ Grounds(i, r, k)
  BY DEF Created
<1>2. requests'[i].runtime = r /\ requests'[i].kind = k
  BY <1>1 DEF NewRequest, NoRequest
<1> QED
  BY <1>1, <1>2

\* A row is active on r after a step only if it was before or was just created.
LEMMA ActiveAfter ==
    ASSUME TypeOK, RowSteps, NEW r \in Runtimes, NEW i \in RequestIds,
           requests'[i].runtime = r, IsActive(requests'[i])
    PROVE  \/ i \in ActiveOn(r) /\ requests'[i].kind = requests[i].kind
           \/ \E k \in Kinds : requests'[i].kind = k /\ Grounds(i, r, k)
<1>1. CASE Created(i)
  BY <1>1, CreatedRow
<1>2. CASE ~Created(i)
  BY <1>2, SurvivingRows DEF RowSteps, ActiveOn
<1> QED
  BY <1>1, <1>2

LEMMA DepartedStep ==
    ASSUME TypeOK, RowSteps, AgentSteps, OneActivePerRuntime, DepartedIsInert
    PROVE  DepartedIsInert'
<1> SUFFICES ASSUME NEW r \in Runtimes, agent'[r].phase >= LinkDeactivated
             PROVE  /\ ~agent'[r].linked
                    /\ agent'[r].credential = "revoked"
                    /\ \A i \in RequestIds :
                          requests'[i].runtime = r => ~IsActive(requests'[i])
  BY DEF DepartedIsInert, ActiveOn, IsActive
<1>0. agent[r] \in Agent /\ AgentStep(r) /\ agent[r].phase \in 0..5
  BY DEF TypeOK, AgentSteps, Agent
<1>1. CASE agent[r].phase >= LinkDeactivated
  <2>1. ~agent[r].linked /\ agent[r].credential = "revoked" /\ ActiveOn(r) = {}
    BY <1>1 DEF DepartedIsInert
  <2>2. agent'[r].credential = "revoked"
    BY <1>0, <2>1, Forward
  <2>3. ~agent'[r].linked
    BY <1>0, <2>1 DEF AgentStep, Agent, Stale, Up, Down, Destroyed, Offboarded
  <2>4. ASSUME NEW i \in RequestIds, requests'[i].runtime = r, IsActive(requests'[i])
        PROVE  FALSE
    <3>1. \A k \in Kinds : ~Grounds(i, r, k)
      BY <2>1 DEF Grounds
    <3> QED
      BY <2>1, <2>4, <3>1, ActiveAfter
  <2> QED
    BY <2>2, <2>3, <2>4
<1>2. CASE ~(agent[r].phase >= LinkDeactivated)
  <2>1. agent'[r] = Destroyed(agent[r]) \/ agent'[r] = Offboarded(agent[r])
    <3>1. \/ agent'[r] = Destroyed(agent[r])
          \/ agent'[r] = Offboarded(agent[r])
          \/ agent'[r].phase = agent[r].phase
          \/ agent'[r].phase = RetirementRequested
      BY <1>0 DEF AgentStep, Agent, Stale, Up, Down, Switched, SwitchedOnly, HandedOver
    <3> QED
      BY <1>0, <1>2, <3>1 DEF RetirementRequested, LinkDeactivated
  <2>2. ~agent'[r].linked /\ agent'[r].credential = "revoked"
    BY <1>0, <2>1 DEF Destroyed, Offboarded, Agent
  <2>3. \/ \E i \in ActiveOn(r) : ClosesSlot(i)
        \/ ActiveOn(r) = {} /\ UNCHANGED requests
    <3>1. /\ agent'[r].phase # agent[r].phase
          /\ agent'[r].phase # RetirementRequested
      BY <1>0, <1>2 DEF RetirementRequested, LinkDeactivated
    <3> QED
      BY <1>0, <3>1 DEF AgentStep, Agent, Stale, Up, Down, Switched, SwitchedOnly, HandedOver
  <2>4. ASSUME NEW i \in RequestIds, requests'[i].runtime = r, IsActive(requests'[i])
        PROVE  FALSE
    <3>1. CASE ActiveOn(r) = {} /\ UNCHANGED requests
      BY <2>4, <3>1 DEF ActiveOn
    <3>2. CASE \E j \in ActiveOn(r) : ClosesSlot(j)
      <4>1. PICK j \in ActiveOn(r) : ClosesSlot(j)
        BY <3>2
      <4>2. i # j /\ requests'[i] = requests[i]
        BY <2>4, <4>1 DEF ClosesSlot
      <4> QED
        BY <2>4, <4>1, <4>2 DEF ActiveOn, OneActivePerRuntime
    <3> QED
      BY <2>3, <3>1, <3>2
  <2> QED
    BY <2>2, <2>4
<1> QED
  BY <1>1, <1>2

\* An offboarded agent is gone for good: no link, no credential, no operation.
THEOREM DepartedInert == Spec => []DepartedIsInert
<1>1. Init => DepartedIsInert
  <2> SUFFICES ASSUME Init, NEW r \in Runtimes PROVE ~(agent[r].phase >= LinkDeactivated)
    BY DEF DepartedIsInert
  <2>1. PICK h : agent[r] = LiveAgent(h) \/ agent[r] = HalfRetiredAgent(h)
    BY DEF Init
  <2>2. LiveAgent(h).phase = 0
    BY DEF LiveAgent
  <2>3. HalfRetiredAgent(h).phase = ComputeRemoved
    BY DEF LiveAgent, HalfRetiredAgent
  <2> QED
    BY <2>1, <2>2, <2>3 DEF LinkDeactivated, ComputeRemoved
<1>2. TypeInv /\ SlotInv /\ DepartedIsInert /\ [Next]_vars => DepartedIsInert'
  BY NextRows, NextAgents, DepartedStep DEF TypeInv, SlotInv
<1> QED
  BY <1>1, <1>2, TypeInvariance, SlotInvariance, PTL DEF Spec
=============================================================================
