----------------------- MODULE TrialResidencyBilling ------------------------
(***************************************************************************)
(* What billing may and may not do to an agent: the theorems about the     *)
(* suspension marker, the owner's intent and restores, for every value of  *)
(* the constants.                                                          *)
(***************************************************************************)
EXTENDS TrialResidencySafety

(***************************************************************************)
(* Payment never starts what an owner or operator stopped.                 *)
(***************************************************************************)
\* An explicit Stop or Destroy for r: recorded in the marker, and accepted only
\* where no start is active and no restore owns the lifecycle.
StopAccepted(r) ==
    /\ intent'[r] = "stop"
    /\ \E id \in RequestIds : marker'[r] = [stop |-> id, resume |-> 0, allowed |-> FALSE]
    /\ NoRestore(r) /\ UNCHANGED move
    /\ \A i \in ActiveOn(r) : requests[i].kind \notin UpBound

\* What one step may do to the intent and the marker of r.
IntentStep(r) ==
    \/ intent'[r] = "run"
    \/ StopAccepted(r)
    \/ /\ intent'[r] = intent[r]
       /\ \/ marker'[r] = marker[r]
          \/ \E id \in RequestIds : marker'[r] = SuspensionMarker(r, id)
          \/ \E id \in RequestIds : marker'[r] = [marker[r] EXCEPT !.resume = id]
          \/ marker[r].allowed
          \/ move[r].kind = "restore"

IntentSteps == \A r \in Runtimes : IntentStep(r)

LEMMA RequestControlIntent ==
    ASSUME TypeOK, OneActivePerRuntime, NEW s \in Runtimes, NEW k \in Explicit,
           NEW t \in Artifacts \cup {None}, NEW id \in RequestIds, RequestControl(s, k, t, id)
    PROVE  IntentSteps
<1> SUFFICES ASSUME NEW r \in Runtimes PROVE IntentStep(r)
  BY DEF IntentSteps
<1>1. CASE r # s
  BY <1>1 DEF RequestControl, RecordIntent, IntentStep, TypeOK
<1>2. CASE r = s /\ k \in UpBound
  BY <1>2 DEF RequestControl, IntentStep, TypeOK
<1>3. CASE r = s /\ k \notin UpBound
  <2>1. k \in {"stop", "destroy"}
    BY <1>3 DEF Explicit
  <2>2. intent'[r] = "stop"
    BY <1>3 DEF RequestControl, TypeOK
  <2>3. marker'[r] = [stop |-> id, resume |-> 0, allowed |-> FALSE]
    BY <1>3, <2>1 DEF RequestControl, RecordIntent, TypeOK
  <2>4. \A i \in ActiveOn(r) : requests[i].kind = k
    BY <1>3 DEF RequestControl, ActiveOn, OneActivePerRuntime
  <2>5. NoRestore(r) /\ UNCHANGED move
    BY <1>3 DEF RequestControl, Admits
  <2> QED
    BY <1>3, <2>2, <2>3, <2>4, <2>5 DEF IntentStep, StopAccepted
<1> QED
  BY <1>1, <1>2, <1>3

LEMMA NextIntent ==
    ASSUME TypeOK, OneActivePerRuntime, [Next]_vars
    PROVE  IntentSteps
<1>0. ASSUME UNCHANGED <<intent, marker>> PROVE IntentSteps
  BY <1>0 DEF IntentSteps, IntentStep
<1>1. CASE ControlNext
  <2>1. ASSUME NEW r \in Runtimes, NEW k \in Explicit, NEW t \in Artifacts \cup {None},
               NEW id \in RequestIds, RequestControl(r, k, t, id)
        PROVE  IntentSteps
    BY <2>1, RequestControlIntent
  <2> QED
    BY <1>0, <1>1, <2>1
       DEF ControlNext, LeaseControl, RejectUpgrades, LeaseAges, RenewControl, RetryControl,
           FailControl, CompleteUp, CompleteStop, CompleteArchive, CompleteReclaim,
           CompleteDestroy, AdminArchiveUnrecoverable, AdminOffboardRetired,
           RevokeCredential, RetireArtifact
<1>2. ASSUME NEW s \in Runtimes, Reconcile(s) PROVE IntentSteps
  <2>1. ASSUME NEW id \in RequestIds, ReconcileStop(s, id) PROVE IntentSteps
    BY <2>1 DEF ReconcileStop, IntentSteps, IntentStep, TypeOK
  <2>2. ASSUME NEW id \in RequestIds, ReconcileResume(s, id) PROVE IntentSteps
    BY <2>2 DEF ReconcileResume, IntentSteps, IntentStep, TypeOK
  <2>3. ASSUME ReconcileSettle(s) PROVE IntentSteps
    BY <2>3 DEF ReconcileSettle, Resumed, IntentSteps, IntentStep, TypeOK
  <2> QED
    BY <1>0, <1>2, <2>1, <2>2, <2>3
       DEF Reconcile, ReconcileArchive, ReconcileReclaim, ReconcileFence, ReconcileRestore,
           ReconcileKeepLocal
<1>3. CASE MoveNext
  <2>1. ASSUME NEW s \in Runtimes, NEW token, CompleteMove(s, token) PROVE IntentSteps
    BY <2>1 DEF CompleteMove, ClosesMove, IntentSteps, IntentStep, TypeOK
  <2> QED
    BY <1>0, <1>3, <2>1 DEF MoveNext, RequestRelocation, Relocating, LeaseMove, MoveLeaseExpires, PauseMove,
                            CancelRelocation, FailMove
<1>4. CASE BillingChanges \/ \E r \in Runtimes, k \in Swept : BackoffElapses(r, k)
  BY <1>0, <1>4 DEF BillingChanges, BackoffElapses
<1>5. CASE UNCHANGED vars
  BY <1>0, <1>5 DEF vars
<1> QED
  BY <1>1, <1>2, <1>3, <1>4, <1>5 DEF Next

\* A restore appears only where the marker lets billing resume.
RestoreSteps ==
    \A r \in Runtimes :
        move'[r].kind = "restore" =>
            \/ move[r].kind = "restore"
            \/ marker[r].allowed /\ UNCHANGED <<intent, marker, requests>>

LEMMA NextRestore ==
    ASSUME TypeOK, [Next]_vars
    PROVE  RestoreSteps
<1>0. ASSUME UNCHANGED move PROVE RestoreSteps
  BY <1>0 DEF RestoreSteps
<1>1. CASE ControlNext
  BY <1>0, <1>1
     DEF ControlNext, RequestControl, LeaseControl, RejectUpgrades, LeaseAges, RenewControl,
         RetryControl, FailControl, CompleteUp, CompleteStop, CompleteArchive,
         CompleteReclaim, CompleteDestroy, AdminArchiveUnrecoverable, AdminOffboardRetired,
         RevokeCredential, RetireArtifact
<1>2. ASSUME NEW s \in Runtimes, Reconcile(s) PROVE RestoreSteps
  <2>1. ASSUME ReconcileRestore(s) PROVE RestoreSteps
    BY <2>1 DEF ReconcileRestore, RestoreSteps, TypeOK
  <2> QED
    BY <1>0, <1>2, <2>1
       DEF Reconcile, ReconcileArchive, ReconcileReclaim, ReconcileStop, ReconcileResume,
           ReconcileFence, ReconcileSettle, ReconcileKeepLocal
<1>3. CASE MoveNext
  <2> SUFFICES ASSUME NEW s \in Runtimes, NEW r \in Runtimes, move'[r].kind = "restore",
                 \/ \E h \in Hosts, absent \in BOOLEAN : RequestRelocation(s, h, absent)
                 \/ \E h \in Hosts : LeaseMove(s, h)
                 \/ MoveLeaseExpires(s)
                 \/ PauseMove(s)
                 \/ CancelRelocation(s)
                 \/ \E token \in 1..move[s].attempts : FailMove(s, token) \/ CompleteMove(s, token)
               PROVE  move[r].kind = "restore"
    BY <1>3 DEF MoveNext, RestoreSteps
  <2>0. move[r] \in Move /\ NoMove.kind = "none"
    BY DEF TypeOK, NoMove
  <2>1. CASE r # s
    BY <2>1 DEF TypeOK, RequestRelocation, Relocating, LeaseMove, MoveLeaseExpires, PauseMove,
                CancelRelocation, FailMove, CompleteMove, ClosesMove
  <2>2. CASE r = s
    <3>1. CASE \E h \in Hosts, absent \in BOOLEAN : RequestRelocation(r, h, absent)
      <4>1. PICK h \in Hosts, absent \in BOOLEAN :
              move'[r] = [NoMove EXCEPT !.kind = "relocate", !.target = h,
                                        !.absent = absent, !.status = "requested"]
        BY <3>1 DEF RequestRelocation, Relocating, TypeOK
      <4>2. move'[r].kind = "relocate"
        BY <4>1 DEF NoMove
      <4> QED
        BY <4>2
    <3>2. CASE \E h \in Hosts : LeaseMove(r, h)
      <4>1. PICK h \in Hosts : move'[r] = Claimed(move[r], h, Authorized(r))
        BY <3>2 DEF LeaseMove, TypeOK
      <4>2. \A b : Claimed(move[r], h, b).kind = move[r].kind
        BY <2>0 DEF Claimed, Move
      <4> QED
        BY <4>1, <4>2
    <3>3. CASE MoveLeaseExpires(r)
      BY <2>0, <3>3 DEF MoveLeaseExpires, Move, TypeOK
    <3>4. CASE \/ CancelRelocation(r)
               \/ \E token \in 1..move[r].attempts : CompleteMove(r, token)
      BY <2>0, <3>4 DEF CancelRelocation, CompleteMove, ClosesMove, TypeOK
    <3>5. CASE PauseMove(r) \/ \E token \in 1..move[r].attempts : FailMove(r, token)
      <4>1. move'[r] = Requeued(move[r])
        BY <3>5 DEF PauseMove, FailMove, TypeOK
      <4> QED
        BY <2>0, <4>1 DEF Requeued
    <3> QED
      BY <2>2, <3>1, <3>2, <3>3, <3>4, <3>5
  <2> QED
    BY <2>1, <2>2
<1>4. CASE BillingChanges \/ \E r \in Runtimes, k \in Swept : BackoffElapses(r, k)
  BY <1>0, <1>4 DEF BillingChanges, BackoffElapses
<1>5. CASE UNCHANGED vars
  BY <1>0, <1>5 DEF vars
<1> QED
  BY <1>1, <1>2, <1>3, <1>4, <1>5 DEF Next

\* The strengthening: the marker still carries the explicit no-resume intent.
StopRemembered ==
    \A r \in Runtimes :
        intent[r] = "stop" => marker[r].stop \in RequestIds /\ ~marker[r].allowed

LEMMA StopRememberedStep ==
    ASSUME TypeOK, IntentSteps, StopRemembered, ExplicitStopWins
    PROVE  StopRemembered'
<1> SUFFICES ASSUME NEW r \in Runtimes, intent'[r] = "stop"
             PROVE  marker'[r].stop \in RequestIds /\ ~marker'[r].allowed
  BY DEF StopRemembered
<1>1. CASE StopAccepted(r)
  BY <1>1 DEF StopAccepted
<1>2. CASE intent[r] = "stop"
  <2>1. /\ marker[r] \in Marker
        /\ marker[r].stop \in RequestIds
        /\ ~marker[r].allowed
        /\ move[r].kind # "restore"
    BY <1>2 DEF TypeOK, StopRemembered, ExplicitStopWins
  <2>2. marker[r] # NoMarker
    BY <2>1, ConstantsAssumption DEF NoMarker
  <2>3. CASE marker'[r] = marker[r]
    BY <2>1, <2>3
  <2>4. CASE \E id \in RequestIds : marker'[r] = SuspensionMarker(r, id)
    <3>1. PICK id \in RequestIds :
            marker'[r] = [stop |-> id, resume |-> 0, allowed |-> marker[r].allowed]
      BY <2>2, <2>4 DEF SuspensionMarker
    <3> QED
      BY <2>1, <3>1
  <2>5. CASE \E id \in RequestIds : marker'[r] = [marker[r] EXCEPT !.resume = id]
    BY <2>1, <2>5 DEF Marker
  <2>6. CASE StopAccepted(r)
    BY <1>1, <2>6
  <2> QED
    BY <2>1, <2>3, <2>4, <2>5, <2>6 DEF IntentSteps, IntentStep
<1>3. intent[r] = "stop" \/ StopAccepted(r)
  BY DEF IntentSteps, IntentStep
<1> QED
  BY <1>1, <1>2, <1>3

LEMMA ExplicitStopStep ==
    ASSUME TypeOK, RowSteps, IntentSteps, RestoreSteps, StopRemembered, ExplicitStopWins
    PROVE  ExplicitStopWins'
<1> SUFFICES ASSUME NEW r \in Runtimes, intent'[r] = "stop"
             PROVE  /\ \A i \in RequestIds :
                          requests'[i].runtime = r /\ IsActive(requests'[i]) =>
                             requests'[i].kind \notin UpBound
                    /\ move'[r].kind # "restore"
  BY DEF ExplicitStopWins, ActiveOn, IsActive
<1>0. intent[r] = "stop" \/ StopAccepted(r)
  BY DEF IntentSteps, IntentStep
<1>1. \A i \in ActiveOn(r) : requests[i].kind \notin UpBound
  BY <1>0 DEF StopAccepted, ExplicitStopWins
<1>2. ASSUME NEW i \in RequestIds, requests'[i].runtime = r, IsActive(requests'[i])
      PROVE  requests'[i].kind \notin UpBound
  <2>1. CASE i \in ActiveOn(r) /\ requests'[i].kind = requests[i].kind
    BY <1>1, <2>1
  <2>2. CASE \E k \in Kinds : requests'[i].kind = k /\ Grounds(i, r, k)
    <3>1. PICK k \in Kinds : requests'[i].kind = k /\ Grounds(i, r, k)
      BY <2>2
    <3>2. CASE marker[r].allowed /\ UNCHANGED intent
      BY <3>2 DEF StopRemembered
    <3>3. CASE ~(marker[r].allowed /\ UNCHANGED intent)
      BY <3>1, <3>3 DEF Grounds
    <3> QED
      BY <3>2, <3>3
  <2> QED
    BY <1>2, <2>1, <2>2, ActiveAfter
<1>3. move'[r].kind # "restore"
  <2>1. CASE StopAccepted(r)
    BY <2>1 DEF StopAccepted, NoRestore
  <2>2. CASE intent[r] = "stop"
    BY <2>2 DEF RestoreSteps, StopRemembered, ExplicitStopWins
  <2> QED
    BY <1>0, <2>1, <2>2
<1> QED
  BY <1>2, <1>3

LEMMA StopInvariance == Spec => [](StopRemembered /\ ExplicitStopWins)
<1>1. Init => StopRemembered /\ ExplicitStopWins
  BY DEF Init, StopRemembered, ExplicitStopWins
<1>2. /\ TypeInv /\ SlotInv /\ StopRemembered /\ ExplicitStopWins
      /\ [Next]_vars
      => (StopRemembered /\ ExplicitStopWins)'
  BY NextRows, NextIntent, NextRestore, StopRememberedStep, ExplicitStopStep
     DEF TypeInv, SlotInv
<1> QED
  BY <1>1, <1>2, TypeInvariance, SlotInvariance, PTL DEF Spec

\* After an accepted Stop or Destroy, neither payment nor the sweep queues a start.
THEOREM ExplicitStop == Spec => []ExplicitStopWins
  BY StopInvariance, PTL
=============================================================================
