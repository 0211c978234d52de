----------------------- MODULE TrialResidencyArchives -----------------------
(***************************************************************************)
(* The residency rows, the restores and the Offline latch: theorems about  *)
(* what an archive, a reclaim, a restore or a lost start may leave behind, *)
(* for every value of the constants.                                       *)
(***************************************************************************)
EXTENDS TrialResidencyBilling, FiniteSetTheorems

(***************************************************************************)
(* What one step may do to the residency row, the restore and the marker   *)
(* of r.                                                                   *)
(***************************************************************************)
\* Nothing that a restore or an operation in flight rests on.
Kept(r) ==
    /\ archive'[r] = archive[r]
    /\ move'[r].kind = "restore" <=> move[r].kind = "restore"
    /\ \/ marker'[r] = marker[r]
       \/ NoRestore(r)
       \/ archive[r].state # "reclaimed"

\* An archive or a reclaim completes and frees the slot.
Stores(r) ==
    /\ archive[r].state = "none"
    /\ archive'[r] = [NoArchive EXCEPT !.state = "stored"]
    /\ UNCHANGED <<move, marker>>
    /\ \E i \in ActiveOn(r) : ClosesSlot(i)

Reclaims(r) ==
    /\ archive'[r] = [archive[r] EXCEPT !.state = "reclaimed"]
    /\ UNCHANGED <<move, marker>>
    /\ \E i \in ActiveOn(r) : ClosesSlot(i)
    /\ ~mayRun'[r] /\ agent'[r].status = "offline"

\* The sweep names the reclaim request it has just enqueued.
Names(r, id) ==
    /\ archive[r].state = "stored"
    /\ archive'[r] = [archive[r] EXCEPT !.reclaim = id]
    /\ UNCHANGED <<move, marker>>
    /\ \A j \in RequestIds \ {id} : requests'[j].runtime = r => ~IsActive(requests'[j])

\* Payment keeps the local tree, with nothing in flight.
KeepsLocal(r) ==
    /\ archive[r].state = "stored"
    /\ archive'[r] = NoArchive
    /\ UNCHANGED move
    /\ ActiveOn(r) = {}

QueuesRestore(r) ==
    /\ archive[r].state = "reclaimed" /\ marker[r].allowed
    /\ archive'[r] = [archive[r] EXCEPT !.restore = TRUE]
    /\ move'[r].kind = "restore"
    /\ ActiveOn(r) = {}
    /\ UNCHANGED <<requests, marker>>

FinishesRestore(r) ==
    /\ archive'[r] = NoArchive
    /\ move'[r] = NoMove
    /\ ActiveOn(r) = {}
    /\ agent'[r].status = "online"

ResidencyStep(r) ==
    \/ Kept(r)
    \/ Stores(r)
    \/ Reclaims(r)
    \/ \E id \in RequestIds : Names(r, id)
    \/ KeepsLocal(r)
    \/ QueuesRestore(r)
    \/ FinishesRestore(r)

ResidencySteps == \A r \in Runtimes : ResidencyStep(r)

LEMMA QuietResidency ==
    ASSUME UNCHANGED <<archive, move, marker>>
    PROVE  ResidencySteps
BY DEF ResidencySteps, ResidencyStep, Kept

\* A completion settles its row and leaves every other row alone.
LEMMA SettleCloses ==
    ASSUME TypeOK, NEW i \in RequestIds, NEW token, NEW terminal \in {"succeeded", "stopped"},
           HoldsLiveLease(i, token), Settle(i, token, terminal)
    PROVE  /\ i \in ActiveOn(requests[i].runtime)
           /\ ClosesSlot(i)
           /\ requests'[i].runtime = requests[i].runtime
           /\ requests'[i].kind = requests[i].kind
           /\ requests'[i].status = terminal
<1>1. requests'[i] = Settled(requests[i], token, terminal) /\ requests[i] \in Request
  BY DEF Settle, TypeOK
<1>2. /\ requests'[i].runtime = requests[i].runtime
      /\ requests'[i].kind = requests[i].kind
      /\ requests'[i].status = terminal
  BY <1>1 DEF Settled, Released, Request
<1>3. \A j \in RequestIds \ {i} : requests'[j] = requests[j]
  BY DEF Settle, TypeOK
<1>4. i \in ActiveOn(requests[i].runtime)
  BY DEF HoldsLiveLease, HoldsLease, ActiveOn, IsActive
<1> QED
  BY <1>2, <1>3, <1>4 DEF ClosesSlot, IsActive

LEMMA CompletionResidency ==
    ASSUME TypeOK, NEW i \in RequestIds, NEW token,
           CompleteArchive(i, token) \/ CompleteReclaim(i, token)
    PROVE  ResidencySteps
<1>0. PICK s : s = requests[i].runtime
  OBVIOUS
<1> SUFFICES ASSUME NEW r \in Runtimes PROVE ResidencyStep(r)
  BY DEF ResidencySteps
<1>1. UNCHANGED <<move, marker>>
  BY DEF CompleteArchive, CompleteReclaim
<1>2. s \in Runtimes => \E j \in ActiveOn(s) : ClosesSlot(j)
  BY <1>0, SettleCloses DEF CompleteArchive, CompleteReclaim
<1>3. CASE r # s
  <2>1. archive'[r] = archive[r]
    BY <1>0, <1>3 DEF CompleteArchive, CompleteReclaim, TypeOK
  <2> QED
    BY <1>1, <2>1 DEF ResidencyStep, Kept
<1>4. CASE r = s /\ CompleteArchive(i, token)
  <2>1. /\ archive[r].state = "none"
        /\ archive'[r] = [NoArchive EXCEPT !.state = "stored"]
    BY <1>0, <1>4 DEF CompleteArchive, TypeOK
  <2> QED
    BY <1>1, <1>2, <1>4, <2>1 DEF ResidencyStep, Stores
<1>5. CASE r = s /\ CompleteReclaim(i, token)
  <2>1. archive'[r] = [archive[r] EXCEPT !.state = "reclaimed"]
    BY <1>0, <1>5 DEF CompleteReclaim, TypeOK
  <2>2. agent'[r] = Down(agent[r]) /\ agent[r] \in Agent /\ ~mayRun'[r]
    BY <1>0, <1>5 DEF CompleteReclaim, GoesDown, TypeOK
  <2>3. agent'[r].status = "offline"
    BY <2>2 DEF Down, Agent
  <2> QED
    BY <1>1, <1>2, <1>5, <2>1, <2>2, <2>3 DEF ResidencyStep, Reclaims
<1> QED
  BY <1>3, <1>4, <1>5

\* A sweep that finds access open meets no active request.
LEMMA PaidSweepIsAlone ==
    ASSUME NEW s \in Runtimes, Proceeds(s), ~blocked
    PROVE  ActiveOn(s) = {}
BY DEF Proceeds, Fenceable

LEMMA ReconcileResidency ==
    ASSUME TypeOK, NEW s \in Runtimes, Reconcile(s)
    PROVE  ResidencySteps
<1> SUFFICES ASSUME NEW r \in Runtimes PROVE ResidencyStep(r)
  BY DEF ResidencySteps
<1>0. ASSUME UNCHANGED <<archive, move, marker>> PROVE ResidencyStep(r)
  BY <1>0, QuietResidency DEF ResidencySteps
<1>1. ASSUME NEW id \in RequestIds, ReconcileReclaim(s, id) PROVE ResidencyStep(r)
  <2>1. CASE r # s
    BY <1>1, <2>1 DEF ReconcileReclaim, TypeOK, ResidencyStep, Kept
  <2>2. CASE r = s
    <3>1. /\ archive[r].state = "stored"
          /\ archive'[r] = [archive[r] EXCEPT !.reclaim = id]
          /\ UNCHANGED <<move, marker>>
      BY <1>1, <2>2 DEF ReconcileReclaim, TypeOK
    <3>2. \A j \in RequestIds \ {id} : requests'[j] = FencedOn(r)[j]
      BY <1>1, <2>2 DEF ReconcileReclaim, Enqueues, FencedOn
    <3>3. \A j \in RequestIds : ~IsActive(Fenced(requests[j]))
      BY DEF TypeOK, Request, Fenced, IsActive
    <3>4. \A j \in RequestIds \ {id} : requests'[j].runtime = r => ~IsActive(requests'[j])
      BY <3>2, <3>3 DEF FencedOn, ActiveOn
    <3> QED
      BY <3>1, <3>4 DEF ResidencyStep, Names
  <2> QED
    BY <2>1, <2>2
<1>2. ASSUME NEW id \in RequestIds, ReconcileStop(s, id) PROVE ResidencyStep(r)
  <2>1. archive'[r] = archive[r] /\ move' = move
    BY <1>2 DEF ReconcileStop
  <2>2. CASE r # s
    BY <1>2, <2>1, <2>2 DEF ReconcileStop, TypeOK, ResidencyStep, Kept
  <2>3. CASE r = s
    BY <1>2, <2>1, <2>3 DEF ReconcileStop, WantsStop, ResidencyStep, Kept
  <2> QED
    BY <2>2, <2>3
<1>3. ASSUME \/ \E id \in RequestIds : ReconcileResume(s, id)
             \/ ReconcileSettle(s) \/ ReconcileKeepLocal(s)
      PROVE  ResidencyStep(r)
  <2>1. archive' = KeptLocal(s) /\ UNCHANGED move /\ Recovers(s)
    BY <1>3 DEF ReconcileResume, ReconcileSettle, ReconcileKeepLocal
  <2>2. CASE r # s
    <3>1. archive'[r] = archive[r] /\ marker'[r] = marker[r]
      BY <1>3, <2>1, <2>2
         DEF KeptLocal, TypeOK, ReconcileResume, ReconcileSettle, ReconcileKeepLocal
    <3> QED
      BY <2>1, <3>1 DEF ResidencyStep, Kept
  <2>3. CASE r = s /\ archive[r].state = "stored"
    <3>1. archive'[r] = NoArchive
      BY <2>1, <2>3 DEF KeptLocal, TypeOK
    <3> QED
      BY <2>1, <2>3, <3>1, PaidSweepIsAlone DEF Recovers, ResidencyStep, KeepsLocal
  <2>4. CASE r = s /\ archive[r].state # "stored"
    <3>1. archive'[r] = archive[r]
      BY <2>1, <2>4 DEF KeptLocal, TypeOK
    <3> QED
      BY <2>1, <2>4, <3>1 DEF Recovers, ResidencyStep, Kept
  <2> QED
    BY <2>2, <2>3, <2>4
<1>4. ASSUME ReconcileRestore(s) PROVE ResidencyStep(r)
  <2>1. CASE r # s
    BY <1>4, <2>1 DEF ReconcileRestore, TypeOK, ResidencyStep, Kept
  <2>2. CASE r = s
    <3>1. /\ archive[r].state = "reclaimed" /\ marker[r].allowed
          /\ archive'[r] = [archive[r] EXCEPT !.restore = TRUE]
          /\ UNCHANGED <<requests, marker>>
      BY <1>4, <2>2 DEF ReconcileRestore, TypeOK
    <3>2. move'[r].kind = "restore"
      BY <1>4, <2>2 DEF ReconcileRestore, TypeOK, NoMove
    <3>3. ActiveOn(r) = {}
      BY <1>4, <2>2, PaidSweepIsAlone DEF ReconcileRestore
    <3> QED
      BY <3>1, <3>2, <3>3 DEF ResidencyStep, QueuesRestore
  <2> QED
    BY <2>1, <2>2
<1> QED
  BY <1>0, <1>1, <1>2, <1>3, <1>4 DEF Reconcile, ReconcileArchive, ReconcileFence

\* What the creation queue may do to the row of a move.
LEMMA MoveKinds ==
    ASSUME NEW m \in Move, NEW h \in Hosts \cup {None}, NEW b
    PROVE  /\ Claimed(m, h, b).kind = m.kind
           /\ Claimed(m, h, b).target = h
           /\ Claimed(m, h, b).status = "launching"
           /\ [m EXCEPT !.lease = "expired"].kind = m.kind
           /\ [m EXCEPT !.lease = "expired"].target = m.target
           /\ [m EXCEPT !.lease = "expired"].status = m.status
           /\ Relocating(h, b).kind = "relocate"
           /\ m.kind = "restore" => /\ Requeued(m).kind = "restore"
                                    /\ Requeued(m).target = m.target
           /\ m.kind # "restore" => Requeued(m) = NoMove
           /\ NoMove.kind = "none" /\ NoMove.status = "none"
BY DEF Claimed, Relocating, Requeued, NoMove, Move

\* What one step of the creation queue may do to the move of r.
MoveStep(r) ==
    \/ move'[r] = move[r]
    \/ /\ r \in Kata /\ move[r] = NoMove
       /\ \E h \in Hosts, absent \in BOOLEAN : move'[r] = Relocating(h, absent)
    \/ /\ move[r].status \in {"requested", "launching"}
       /\ \E h \in Hosts : /\ move[r].target \in {None, h}
                           /\ move'[r] = Claimed(move[r], h, Authorized(r))
    \/ move'[r] = [move[r] EXCEPT !.lease = "expired"]
    \/ move'[r] = Requeued(move[r])
    \/ move[r].kind = "relocate" /\ move'[r] = NoMove

LEMMA QueueMoves ==
    ASSUME TypeOK, NEW s \in Runtimes,
           \/ \E h \in Hosts, absent \in BOOLEAN : RequestRelocation(s, h, absent)
           \/ \E h \in Hosts : LeaseMove(s, h)
           \/ MoveLeaseExpires(s)
           \/ PauseMove(s)
           \/ CancelRelocation(s)
           \/ \E token : FailMove(s, token)
    PROVE  /\ \A r \in Runtimes : MoveStep(r)
           /\ UNCHANGED <<requests, agent, archive, marker, mayRun>>
<1>1. UNCHANGED <<requests, agent, archive, marker, mayRun>>
  BY DEF RequestRelocation, LeaseMove, MoveLeaseExpires, PauseMove, CancelRelocation, FailMove
<1>2. \A r \in Runtimes \ {s} : move'[r] = move[r]
  BY DEF TypeOK, RequestRelocation, LeaseMove, MoveLeaseExpires, PauseMove, CancelRelocation,
         FailMove
<1>3. MoveStep(s)
  <2>1. CASE \E h \in Hosts, absent \in BOOLEAN : RequestRelocation(s, h, absent)
    BY <2>1 DEF RequestRelocation, MoveStep, TypeOK
  <2>2. CASE \E h \in Hosts : LeaseMove(s, h)
    BY <2>2 DEF LeaseMove, MoveStep, TypeOK
  <2>3. CASE MoveLeaseExpires(s)
    BY <2>3 DEF MoveLeaseExpires, MoveStep, TypeOK
  <2>4. CASE PauseMove(s) \/ \E token : FailMove(s, token)
    BY <2>4 DEF PauseMove, FailMove, MoveStep, TypeOK
  <2>5. CASE CancelRelocation(s)
    BY <2>5 DEF CancelRelocation, MoveStep, TypeOK
  <2> QED
    BY <2>1, <2>2, <2>3, <2>4, <2>5
<1> QED
  BY <1>1, <1>2, <1>3 DEF MoveStep

\* Such a step neither starts nor ends a restore.
LEMMA MoveStepKeepsRestore ==
    ASSUME TypeOK, NEW r \in Runtimes, MoveStep(r)
    PROVE  /\ move'[r].kind = "restore" <=> move[r].kind = "restore"
           /\ move[r].kind = "restore" /\ move[r].target # None =>
                 move'[r].target = move[r].target
<1>0. move[r] \in Move
  BY DEF TypeOK
<1>1. CASE move'[r] = move[r]
  BY <1>1
<1>2. CASE \E h \in Hosts, absent \in BOOLEAN :
             move[r] = NoMove /\ move'[r] = Relocating(h, absent)
  BY <1>0, <1>2, MoveKinds
<1>3. CASE \E h \in Hosts : /\ move[r].target \in {None, h}
                            /\ move'[r] = Claimed(move[r], h, Authorized(r))
  BY <1>0, <1>3, MoveKinds
<1>4. CASE move'[r] = [move[r] EXCEPT !.lease = "expired"]
  BY <1>0, <1>4, MoveKinds
<1>5. CASE move'[r] = Requeued(move[r])
  BY <1>0, <1>5, MoveKinds
<1>6. CASE move[r].kind = "relocate" /\ move'[r] = NoMove
  BY <1>0, <1>6, MoveKinds
<1> QED
  BY <1>1, <1>2, <1>3, <1>4, <1>5, <1>6 DEF MoveStep

LEMMA CompleteMoveResidency ==
    ASSUME TypeOK, NEW s \in Runtimes, NEW token, CompleteMove(s, token)
    PROVE  ResidencySteps
<1> SUFFICES ASSUME NEW r \in Runtimes PROVE ResidencyStep(r)
  BY DEF ResidencySteps
<1>1. CASE r # s
  <2>1. archive'[r] = archive[r] /\ move'[r] = move[r] /\ marker'[r] = marker[r]
    BY <1>1 DEF CompleteMove, ClosesMove, TypeOK
  <2> QED
    BY <2>1 DEF ResidencyStep, Kept
<1>2. CASE r = s /\ move[r].kind # "restore"
  <2>1. archive'[r] = archive[r] /\ move'[r] = NoMove
    BY <1>2 DEF CompleteMove, ClosesMove, TypeOK
  <2>2. NoMove.kind # "restore"
    BY DEF NoMove
  <2> QED
    BY <1>2, <2>1, <2>2 DEF ResidencyStep, Kept, NoRestore
<1>3. CASE r = s /\ move[r].kind = "restore"
  <2>1. archive'[r] = NoArchive /\ move'[r] = NoMove
    BY <1>3 DEF CompleteMove, ClosesMove, TypeOK
  <2>2. ActiveOn(r) = {}
    BY <1>3 DEF CompleteMove, SourceReady
  <2>3. agent'[r].status = "online"
    <3>1. agent'[r] = Switched(agent[r], move[r].target) /\ agent[r] \in Agent
      BY <1>3 DEF CompleteMove, TypeOK
    <3> QED
      BY <3>1 DEF Switched, SwitchedOnly, HandedOver, Agent
  <2> QED
    BY <2>1, <2>2, <2>3 DEF ResidencyStep, FinishesRestore
<1> QED
  BY <1>1, <1>2, <1>3

LEMMA ControlResidency ==
    ASSUME TypeOK, ControlNext
    PROVE  ResidencySteps
<1>1. ASSUME NEW s \in Runtimes, NEW k \in Explicit, NEW t \in Artifacts \cup {None},
             NEW id \in RequestIds, RequestControl(s, k, t, id)
      PROVE  ResidencySteps
  <2>1. NoRestore(s) /\ UNCHANGED <<archive, move>>
    BY <1>1 DEF RequestControl, Admits
  <2>2. \A r \in Runtimes \ {s} : marker'[r] = marker[r]
    BY <1>1 DEF RequestControl, RecordIntent, TypeOK
  <2> QED
    BY <2>1, <2>2 DEF ResidencySteps, ResidencyStep, Kept
<1>2. ASSUME NEW i \in RequestIds, NEW token,
             CompleteArchive(i, token) \/ CompleteReclaim(i, token)
      PROVE  ResidencySteps
  BY <1>2, CompletionResidency
<1> QED
  BY <1>1, <1>2, QuietResidency
     DEF ControlNext, LeaseControl, RejectUpgrades, LeaseAges, RenewControl, RetryControl,
         FailControl, CompleteUp, CompleteStop, CompleteDestroy, AdminArchiveUnrecoverable,
         AdminOffboardRetired, RevokeCredential, RetireArtifact

LEMMA NextResidency ==
    ASSUME TypeOK, [Next]_vars
    PROVE  ResidencySteps
<1>1. CASE MoveNext
  <2>1. PICK s \in Runtimes :
          \/ \E token : CompleteMove(s, token)
          \/ \E h \in Hosts, absent \in BOOLEAN : RequestRelocation(s, h, absent)
          \/ \E h \in Hosts : LeaseMove(s, h)
          \/ MoveLeaseExpires(s)
          \/ PauseMove(s)
          \/ CancelRelocation(s)
          \/ \E token : FailMove(s, token)
    BY <1>1 DEF MoveNext
  <2>2. CASE \E token : CompleteMove(s, token)
    BY <2>2, CompleteMoveResidency
  <2>3. CASE ~ \E token : CompleteMove(s, token)
    <3>1. (\A r \in Runtimes : MoveStep(r)) /\ UNCHANGED <<archive, marker>>
      BY <2>1, <2>3, QueueMoves
    <3> QED
      BY <3>1, MoveStepKeepsRestore DEF ResidencySteps, ResidencyStep, Kept
  <2> QED
    BY <2>2, <2>3
<1>2. CASE \E s \in Runtimes : Reconcile(s)
  BY <1>2, ReconcileResidency
<1>3. CASE \/ BillingChanges \/ UNCHANGED vars
           \/ \E r \in Runtimes, k \in Swept : BackoffElapses(r, k)
  BY <1>3, QuietResidency DEF BillingChanges, BackoffElapses, vars
<1> QED
  BY <1>1, <1>2, <1>3, ControlResidency DEF Next

(***************************************************************************)
(* A restore is never stranded, and an operation in flight finds its row.  *)
(***************************************************************************)
\* A slot that a step closes has no active row afterwards.
LEMMA ClosedSlotIsEmpty ==
    ASSUME TypeOK, OneActivePerRuntime, NEW r \in Runtimes,
           NEW i \in ActiveOn(r), ClosesSlot(i),
           NEW j \in RequestIds, requests'[j].runtime = r
    PROVE  ~IsActive(requests'[j])
BY DEF ClosesSlot, ActiveOn, OneActivePerRuntime

LEMMA RestoreStep ==
    ASSUME TypeOK, RowSteps, ResidencySteps, RestoreNotStranded
    PROVE  RestoreNotStranded'
<1> SUFFICES ASSUME NEW r \in Runtimes
             PROVE  /\ archive'[r].restore <=> move'[r].kind = "restore"
                    /\ move'[r].kind = "restore" =>
                         /\ archive'[r].state = "reclaimed" /\ marker'[r].allowed
                         /\ \A i \in RequestIds :
                               requests'[i].runtime = r => ~IsActive(requests'[i])
  BY DEF RestoreNotStranded, ActiveOn, IsActive
<1>0. /\ archive[r] \in Archive /\ ResidencyStep(r)
      /\ archive[r].restore <=> move[r].kind = "restore"
      /\ move[r].kind = "restore" =>
           archive[r].state = "reclaimed" /\ marker[r].allowed /\ ActiveOn(r) = {}
  BY DEF TypeOK, ResidencySteps, RestoreNotStranded
<1>1. /\ archive'[r].restore <=> move'[r].kind = "restore"
      /\ move'[r].kind = "restore" => archive'[r].state = "reclaimed" /\ marker'[r].allowed
  <2>1. CASE Kept(r)
    BY <1>0, <2>1 DEF Kept, NoRestore
  <2>2. CASE Stores(r) \/ KeepsLocal(r)
    <3>1. move[r].kind # "restore" /\ move'[r] = move[r]
      BY <1>0, <2>2 DEF Stores, KeepsLocal
    <3>2. ~archive'[r].restore
      BY <2>2 DEF Stores, KeepsLocal, NoArchive
    <3> QED
      BY <3>1, <3>2
  <2>3. CASE Reclaims(r)
    <3>1. archive'[r].restore = archive[r].restore /\ archive'[r].state = "reclaimed"
      BY <1>0, <2>3 DEF Reclaims, Archive
    <3> QED
      BY <1>0, <2>3, <3>1 DEF Reclaims
  <2>4. CASE \E id \in RequestIds : Names(r, id)
    <3>1. archive'[r].restore = archive[r].restore /\ archive'[r].state = archive[r].state
      BY <1>0, <2>4 DEF Names, Archive
    <3> QED
      BY <1>0, <2>4, <3>1 DEF Names
  <2>5. CASE QueuesRestore(r)
    <3>1. archive'[r].restore /\ archive'[r].state = archive[r].state
      BY <1>0, <2>5 DEF QueuesRestore, Archive
    <3> QED
      BY <2>5, <3>1 DEF QueuesRestore
  <2>6. CASE FinishesRestore(r)
    BY <2>6 DEF FinishesRestore, NoArchive, NoMove
  <2> QED
    BY <1>0, <2>1, <2>2, <2>3, <2>4, <2>5, <2>6 DEF ResidencyStep
<1>2. ASSUME move'[r].kind = "restore",
             NEW i \in RequestIds, requests'[i].runtime = r, IsActive(requests'[i])
      PROVE  FALSE
  <2>1. CASE QueuesRestore(r)
    BY <1>2, <2>1 DEF QueuesRestore, ActiveOn
  <2>2. CASE ~QueuesRestore(r)
    <3>1. move[r].kind = "restore"
      <4>1. NoMove.kind # "restore"
        BY DEF NoMove
      <4> QED
        BY <1>0, <1>2, <2>2, <4>1
           DEF ResidencyStep, Kept, Stores, Reclaims, Names, KeepsLocal, FinishesRestore
    <3>2. \A k \in Kinds : ~Grounds(i, r, k)
      BY <3>1 DEF Grounds, NoRestore
    <3> QED
      BY <1>0, <1>2, <3>1, <3>2, ActiveAfter
  <2> QED
    BY <2>1, <2>2
<1> QED
  BY <1>1, <1>2

\* A start waits, too, for a tree that is local: the third kind of operation.
TreeWaits ==
    \A r \in Runtimes : \A i \in ActiveOn(r) :
        requests[i].kind \in UpBound => archive[r].state = "none"

LEMMA RowWaitsStep ==
    ASSUME TypeOK, RowSteps, ResidencySteps, OneActivePerRuntime,
           RestoreNotStranded, ResidencyRowWaits, TreeWaits
    PROVE  ResidencyRowWaits' /\ TreeWaits'
<1> SUFFICES ASSUME NEW r \in Runtimes, NEW i \in RequestIds,
                    requests'[i].runtime = r, IsActive(requests'[i])
             PROVE  /\ requests'[i].kind = "archive_trial" => archive'[r].state = "none"
                    /\ requests'[i].kind = "reclaim_trial" =>
                          archive'[r].state = "stored" /\ archive'[r].reclaim = i
                    /\ requests'[i].kind \in UpBound => archive'[r].state = "none"
  BY DEF ResidencyRowWaits, TreeWaits, ActiveOn, IsActive
<1>0. archive[r] \in Archive /\ ResidencyStep(r)
  BY DEF TypeOK, ResidencySteps
<1>1. CASE i \in ActiveOn(r) /\ requests'[i].kind = requests[i].kind
  <2>1. /\ requests[i].kind = "archive_trial" => archive[r].state = "none"
        /\ requests[i].kind = "reclaim_trial" =>
              archive[r].state = "stored" /\ archive[r].reclaim = i
        /\ requests[i].kind \in UpBound => archive[r].state = "none"
    BY <1>1 DEF ResidencyRowWaits, TreeWaits
  <2>2. ~(\E j \in ActiveOn(r) : ClosesSlot(j))
    BY ClosedSlotIsEmpty
  <2>3. CASE archive'[r] = archive[r]
    BY <1>1, <2>1, <2>3
  <2>4. CASE \E id \in RequestIds : Names(r, id)
    <3>1. PICK id \in RequestIds : Names(r, id)
      BY <2>4
    <3>2. i = id
      BY <3>1 DEF Names
    <3>3. archive'[r].state = "stored" /\ archive'[r].reclaim = id
      BY <1>0, <3>1 DEF Names, Archive
    <3> QED
      BY <1>1, <2>1, <3>1, <3>2, <3>3 DEF Names
  <2>5. CASE KeepsLocal(r) \/ QueuesRestore(r) \/ FinishesRestore(r)
    BY <1>1, <2>5 DEF KeepsLocal, QueuesRestore, FinishesRestore
  <2> QED
    BY <1>0, <2>2, <2>3, <2>4, <2>5 DEF ResidencyStep, Kept, Stores, Reclaims
<1>2. CASE \E k \in Kinds : requests'[i].kind = k /\ Grounds(i, r, k)
  <2>1. PICK k \in Kinds : requests'[i].kind = k /\ Grounds(i, r, k)
    BY <1>2
  <2>2. CASE k = "archive_trial"
    BY <2>1, <2>2 DEF Grounds, UpBound
  <2>3. CASE k = "reclaim_trial"
    <3>1. /\ archive[r].state = "stored"
          /\ archive'[r] = [archive[r] EXCEPT !.reclaim = i]
      BY <2>1, <2>3 DEF Grounds, TypeOK
    <3>2. archive'[r].state = "stored" /\ archive'[r].reclaim = i
      BY <1>0, <3>1 DEF Archive
    <3> QED
      BY <2>1, <2>3, <3>2 DEF UpBound
  <2>4. CASE k \notin Residency
    BY <2>1, <2>4 DEF Grounds, Residency
  <2> QED
    BY <2>2, <2>3, <2>4 DEF Residency
<1> QED
  BY <1>1, <1>2, ActiveAfter

ArchiveInv == RestoreNotStranded /\ ResidencyRowWaits /\ TreeWaits

LEMMA ArchiveInvariance == Spec => []ArchiveInv
<1>1. Init => ArchiveInv
  <2> SUFFICES ASSUME Init PROVE ArchiveInv
    OBVIOUS
  <2>1. ~NoArchive.restore /\ NoMove.kind = "none" /\ NoRequest.status = "absent"
    BY DEF NoArchive, NoMove, NoRequest
  <2>2. \A r \in Runtimes : ActiveOn(r) = {}
    BY <2>1 DEF Init, ActiveOn, IsActive
  <2> QED
    BY <2>1, <2>2 DEF Init, ArchiveInv, RestoreNotStranded, ResidencyRowWaits, TreeWaits
<1>2. TypeInv /\ SlotInv /\ ArchiveInv /\ [Next]_vars => ArchiveInv'
  BY NextRows, NextResidency, RestoreStep, RowWaitsStep DEF TypeInv, SlotInv, ArchiveInv
<1> QED
  BY <1>1, <1>2, TypeInvariance, SlotInvariance, PTL DEF Spec

\* A queued restore keeps its row, its marker and an empty control slot through
\* every owner request, sweep, lost lease and failed attempt.
THEOREM RestoreSafe == Spec => []RestoreNotStranded
<1>1. ArchiveInv => RestoreNotStranded
  BY DEF ArchiveInv
<1> QED
  BY <1>1, ArchiveInvariance, PTL

\* An archive in flight finds the residency slot free and a reclaim in flight the
\* row that names it.
THEOREM RowsWait == Spec => []ResidencyRowWaits
<1>1. ArchiveInv => ResidencyRowWaits
  BY DEF ArchiveInv
<1> QED
  BY <1>1, ArchiveInvariance, PTL

\* What one step may do to the move of r: the queue's steps, or the sweep queues a
\* restore, or a completion closes it.
MoveSteps ==
    \A r \in Runtimes :
        \/ MoveStep(r)
        \/ move[r] = NoMove /\ move'[r].kind = "restore"
        \/ move'[r] = NoMove

LEMMA NextMoves ==
    ASSUME TypeOK, [Next]_vars
    PROVE  MoveSteps
<1>0. ASSUME UNCHANGED move PROVE MoveSteps
  BY <1>0 DEF MoveSteps, MoveStep
<1>1. CASE MoveNext
  <2>1. ASSUME NEW s \in Runtimes, NEW token, CompleteMove(s, token) PROVE MoveSteps
    <3>1. \A r \in Runtimes : move'[r] = IF r = s THEN NoMove ELSE move[r]
      BY <2>1 DEF CompleteMove, ClosesMove, TypeOK
    <3> QED
      BY <3>1 DEF MoveSteps, MoveStep
  <2> QED
    BY <1>1, <2>1, QueueMoves DEF MoveNext, MoveSteps
<1>2. CASE \E s \in Runtimes : Reconcile(s)
  <2>1. ASSUME NEW s \in Runtimes, ReconcileRestore(s) PROVE MoveSteps
    <3>1. move[s] = NoMove /\ move'[s].kind = "restore"
      BY <2>1 DEF ReconcileRestore, TypeOK, NoMove
    <3>2. \A r \in Runtimes \ {s} : move'[r] = move[r]
      BY <2>1 DEF ReconcileRestore, TypeOK
    <3> QED
      BY <3>1, <3>2 DEF MoveSteps, MoveStep
  <2> QED
    BY <1>0, <1>2, <2>1
       DEF Reconcile, ReconcileArchive, ReconcileReclaim, ReconcileStop, ReconcileResume,
           ReconcileFence, ReconcileSettle, ReconcileKeepLocal
<1>3. CASE ControlNext
  BY <1>0, <1>3
     DEF ControlNext, RequestControl, LeaseControl, RejectUpgrades, LeaseAges, RenewControl,
         RetryControl, FailControl, CompleteUp, CompleteStop, CompleteArchive,
         CompleteReclaim, CompleteDestroy, AdminArchiveUnrecoverable, AdminOffboardRetired,
         RevokeCredential, RetireArtifact
<1>4. CASE \/ BillingChanges \/ UNCHANGED vars
           \/ \E r \in Runtimes, k \in Swept : BackoffElapses(r, k)
  BY <1>0, <1>4 DEF BillingChanges, BackoffElapses, vars
<1> QED
  BY <1>1, <1>2, <1>3, <1>4 DEF Next

\* A restore that a host has claimed is never retargeted, whatever expires, fails,
\* pauses or claims it again.
THEOREM RestorePinned == Spec => PinnedRestoreStays
<1>1. ASSUME TypeInv, [Next]_vars, NEW r \in Runtimes,
             move[r].kind = "restore", move'[r].kind = "restore", move[r].target # None
      PROVE  move'[r].target = move[r].target
  <2>1. NoMove.kind # "restore"
    BY DEF NoMove
  <2>2. MoveStep(r)
    BY <1>1, <2>1, NextMoves DEF TypeInv, MoveSteps
  <2> QED
    BY <1>1, <2>2, MoveStepKeepsRestore DEF TypeInv
<1>2. TypeInv /\ [Next]_vars =>
        [\A r \in Runtimes :
           /\ move[r].kind = "restore" /\ move'[r].kind = "restore"
           /\ move[r].target # None
           => move'[r].target = move[r].target]_vars
  BY <1>1
<1> QED
  BY <1>2, TypeInvariance, PTL DEF Spec, PinnedRestoreStays

(***************************************************************************)
(* Compute: what one step may do to mayRun and the status of r.            *)
(***************************************************************************)
\* What was active on r stays active, and what was launched stays launched.
HoldsSlot(r) ==
    \A i \in ActiveOn(r) :
        /\ requests'[i].runtime = r
        /\ requests'[i].kind = requests[i].kind
        /\ IsActive(requests'[i])
        /\ requests[i].status = "launching" => requests'[i].status = "launching"

\* No compute is started or confirmed.  If the status stays, the slot is held,
\* taken by an operation that starts nothing, fenced, or freed by a rejection.
Idles(r) ==
    /\ mayRun'[r] = mayRun[r]
    /\ agent'[r].linked => agent[r].linked
    /\ \/ agent'[r].status = "stale"
       \/ /\ agent'[r].status = agent[r].status
          /\ \/ HoldsSlot(r)
             \/ \E id \in RequestIds : /\ requests'[id].runtime = r
                                       /\ IsActive(requests'[id])
                                       /\ requests'[id].kind \notin UpBound
             \/ ReconcileFence(r)
             \/ \E i \in ActiveOn(r) : Rejected(i)

\* A Runner is handed a start.
Starts(r) ==
    /\ UNCHANGED agent
    /\ \E i \in ActiveOn(r) : /\ requests[i].kind \in UpBound
                              /\ requests'[i].runtime = r
                              /\ requests'[i].kind = requests[i].kind
                              /\ requests'[i].status = "launching"

\* A start completes.
Rises(r) ==
    /\ agent'[r].status = "online"
    /\ mayRun'[r] = mayRun[r]
    /\ \E i \in ActiveOn(r) : requests[i].kind \in UpBound

\* A stop, archive, reclaim or destroy completes.
Falls(r) ==
    /\ ~mayRun'[r] /\ agent'[r].status = "offline"
    /\ \E i \in ActiveOn(r) :
         /\ ClosesSlot(i)
         /\ \/ /\ requests'[i].runtime = r
               /\ requests'[i].kind = "stop"
               /\ requests'[i].status = "stopped"
            \/ requests[i].kind = "archive_trial"
            \/ archive'[r].state = "reclaimed"
            \/ ~agent'[r].linked

\* A restore or a relocation completes on its target.
Switches(r) ==
    /\ agent'[r].status = "online"
    /\ move[r].status = "launching"
    /\ move[r].kind = "restore" => archive'[r] = NoArchive

PowerStep(r) == Idles(r) \/ Starts(r) \/ Rises(r) \/ Falls(r) \/ Switches(r)

PowerSteps == \A r \in Runtimes : PowerStep(r)

LEMMA QuietPower ==
    ASSUME UNCHANGED <<requests, agent, mayRun>>
    PROVE  PowerSteps
BY DEF PowerSteps, PowerStep, Idles, HoldsSlot, ActiveOn

\* The rows of r are left alone.
LEMMA RowsHeld ==
    ASSUME NEW r \in Runtimes, \A j \in ActiveOn(r) : requests'[j] = requests[j]
    PROVE  HoldsSlot(r)
BY DEF HoldsSlot, ActiveOn

LEMMA RequestControlPower ==
    ASSUME TypeOK, NEW s \in Runtimes, NEW k \in Explicit, NEW t \in Artifacts \cup {None},
           NEW id \in RequestIds, RequestControl(s, k, t, id)
    PROVE  PowerSteps
<1> SUFFICES ASSUME NEW r \in Runtimes PROVE Idles(r)
  BY DEF PowerSteps, PowerStep
<1>1. \A j \in ActiveOn(r) : requests'[j] = requests[j]
  BY DEF RequestControl, Fresh, ActiveOn, IsActive, TypeOK
<1>2. agent'[r].status = agent[r].status /\ agent'[r].linked = agent[r].linked
  <2>1. agent[r] \in Agent
    BY DEF TypeOK
  <2>2. agent'[r] = agent[r] \/ agent'[r] = [agent[r] EXCEPT !.phase = RetirementRequested]
    BY DEF RequestControl, TypeOK
  <2> QED
    BY <2>1, <2>2 DEF Agent
<1>3. mayRun' = mayRun
  BY DEF RequestControl
<1> QED
  BY <1>1, <1>2, <1>3, RowsHeld DEF Idles

LEMMA LeasePower ==
    ASSUME TypeOK, NEW h \in Hosts, NEW i \in RequestIds, LeaseControl(h, i)
    PROVE  PowerSteps
<1> SUFFICES ASSUME NEW r \in Runtimes PROVE PowerStep(r)
  BY DEF PowerSteps
<1>1. PICK D \in SUBSET {j \in RequestIds : j < i /\ requests[j].host = h /\ Rejected(j)} :
        requests' = [j \in RequestIds |-> IF j = i THEN Leased(requests[j])
                                      ELSE IF j \in D THEN Reject(requests[j])
                                      ELSE requests[j]]
  BY DEF LeaseControl
<1>2. UNCHANGED agent
  BY DEF LeaseControl
<1>3. /\ requests'[i].runtime = requests[i].runtime
      /\ requests'[i].kind = requests[i].kind
      /\ requests'[i].status = "launching"
  <2>1. requests'[i] = Leased(requests[i]) /\ requests[i] \in Request
    BY <1>1 DEF TypeOK
  <2> QED
    BY <2>1 DEF Leased, Request
<1>4. CASE requests[i].runtime = r /\ requests[i].kind \in UpBound
  <2>1. i \in ActiveOn(r)
    BY <1>4 DEF LeaseControl, Leasable, ActiveOn, IsActive
  <2> QED
    BY <1>2, <1>3, <1>4, <2>1 DEF PowerStep, Starts
<1>5. CASE ~(requests[i].runtime = r /\ requests[i].kind \in UpBound)
  <2>1. mayRun'[r] = mayRun[r]
    BY <1>5 DEF LeaseControl, TypeOK
  <2>2. HoldsSlot(r) \/ \E j \in ActiveOn(r) : Rejected(j)
    <3>1. CASE \E j \in D : j \in ActiveOn(r)
      BY <1>1, <3>1
    <3>2. CASE \A j \in D : j \notin ActiveOn(r)
      <4>1. \A j \in ActiveOn(r) \ {i} : requests'[j] = requests[j]
        BY <1>1, <3>2 DEF ActiveOn
      <4> QED
        BY <1>3, <4>1 DEF HoldsSlot, ActiveOn, IsActive
    <3> QED
      BY <3>1, <3>2
  <2> QED
    BY <1>2, <2>1, <2>2 DEF PowerStep, Idles
<1> QED
  BY <1>4, <1>5

LEMMA RejectPower ==
    ASSUME TypeOK, NEW h \in Hosts, RejectUpgrades(h)
    PROVE  PowerSteps
<1> SUFFICES ASSUME NEW r \in Runtimes PROVE PowerStep(r)
  BY DEF PowerSteps
<1>1. PICK D \in SUBSET {j \in RequestIds : requests[j].host = h /\ Rejected(j)} :
        requests' = [j \in RequestIds |-> IF j \in D THEN Reject(requests[j]) ELSE requests[j]]
  BY DEF RejectUpgrades
<1>2. UNCHANGED <<agent, mayRun>>
  BY DEF RejectUpgrades
<1>3. CASE \E j \in D : j \in ActiveOn(r)
  BY <1>1, <1>2, <1>3 DEF PowerStep, Idles
<1>4. CASE \A j \in D : j \notin ActiveOn(r)
  <2>1. \A j \in ActiveOn(r) : requests'[j] = requests[j]
    BY <1>1, <1>4 DEF ActiveOn
  <2> QED
    BY <1>2, <2>1, RowsHeld DEF PowerStep, Idles
<1> QED
  BY <1>3, <1>4

LEMMA HolderPower ==
    ASSUME TypeOK, NEW i \in RequestIds, NEW token,
           \/ LeaseAges(i) \/ RenewControl(i, token)
           \/ RetryControl(i, token) \/ FailControl(i, token)
    PROVE  PowerSteps
<1> SUFFICES ASSUME NEW r \in Runtimes PROVE Idles(r)
  BY DEF PowerSteps, PowerStep
<1>0. PICK s : s = requests[i].runtime
  OBVIOUS
<1>1. UNCHANGED mayRun /\ \A j \in RequestIds \ {i} : requests'[j] = requests[j]
  BY DEF LeaseAges, RenewControl, RetryControl, FailControl, TypeOK
<1>2. CASE LeaseAges(i) \/ RenewControl(i, token)
  <2>1. PICK lease : requests'[i] = [requests[i] EXCEPT !.lease = lease]
    BY <1>2 DEF LeaseAges, RenewControl, TypeOK
  <2>2. requests[i] \in Request
    BY DEF TypeOK
  <2>3. /\ requests'[i].runtime = requests[i].runtime
        /\ requests'[i].kind = requests[i].kind
        /\ requests'[i].status = requests[i].status
    BY <2>1, <2>2 DEF Request
  <2>4. HoldsSlot(r)
    BY <1>1, <2>3 DEF HoldsSlot, ActiveOn, IsActive
  <2> QED
    BY <1>1, <1>2, <2>4 DEF Idles, LeaseAges, RenewControl
<1>3. CASE RetryControl(i, token) \/ FailControl(i, token)
  <2>1. agent' = [agent EXCEPT ![s] = Stale(agent[s])]
    BY <1>0, <1>3 DEF RetryControl, FailControl
  <2>2. CASE r = s
    <3>1. agent'[r] = Stale(agent[r]) /\ agent[r] \in Agent
      BY <2>1, <2>2 DEF TypeOK
    <3>2. agent'[r].status = "stale" /\ agent'[r].linked = agent[r].linked
      BY <3>1 DEF Stale, Agent
    <3> QED
      BY <1>1, <3>2 DEF Idles
  <2>3. CASE r # s
    <3>1. agent'[r] = agent[r]
      BY <2>1, <2>3 DEF TypeOK
    <3>2. \A j \in ActiveOn(r) : requests'[j] = requests[j]
      BY <1>0, <1>1, <2>3 DEF ActiveOn
    <3> QED
      BY <1>1, <3>1, <3>2, RowsHeld DEF Idles
  <2> QED
    BY <2>2, <2>3
<1> QED
  BY <1>2, <1>3

LEMMA CompletionPower ==
    ASSUME TypeOK, NEW i \in RequestIds, NEW token,
           \/ CompleteUp(i, token) \/ CompleteStop(i, token)
           \/ CompleteArchive(i, token) \/ CompleteReclaim(i, token)
           \/ CompleteDestroy(i, token)
    PROVE  PowerSteps
<1> SUFFICES ASSUME NEW r \in Runtimes PROVE PowerStep(r)
  BY DEF PowerSteps
<1>0. PICK s : s = requests[i].runtime
  OBVIOUS
<1>1. PICK terminal \in {"succeeded", "stopped"} :
        /\ HoldsLiveLease(i, token) /\ Settle(i, token, terminal)
        /\ ~CompleteUp(i, token) => terminal = "stopped"
  BY DEF CompleteUp, CompleteStop, CompleteArchive, CompleteReclaim, CompleteDestroy
<1>2. /\ i \in ActiveOn(s)
      /\ ClosesSlot(i)
      /\ requests'[i].runtime = s
      /\ requests'[i].kind = requests[i].kind
      /\ requests'[i].status = terminal
  BY <1>0, <1>1, SettleCloses
<1>3. CASE r # s
  <2>1. agent'[r] = agent[r] /\ mayRun'[r] = mayRun[r]
    BY <1>0, <1>3 DEF CompleteUp, CompleteStop, CompleteArchive, CompleteReclaim,
                      CompleteDestroy, GoesDown, TypeOK
  <2>2. \A j \in ActiveOn(r) : requests'[j] = requests[j]
    BY <1>2, <1>3 DEF ActiveOn, ClosesSlot
  <2> QED
    BY <2>1, <2>2, RowsHeld DEF PowerStep, Idles
<1>4. CASE r = s /\ CompleteUp(i, token)
  <2>1. agent'[r] = Up(agent[r], requests[i]) /\ agent[r] \in Agent /\ mayRun' = mayRun
    BY <1>0, <1>4 DEF CompleteUp, TypeOK
  <2>2. agent'[r].status = "online"
    BY <2>1 DEF Up, Agent
  <2>3. requests[i].kind \in UpBound
    BY <1>4 DEF CompleteUp
  <2> QED
    BY <1>2, <1>4, <2>1, <2>2, <2>3 DEF PowerStep, Rises
<1>5. CASE r = s /\ ~CompleteUp(i, token)
  <2>1. ~mayRun'[r]
    BY <1>0, <1>5 DEF CompleteStop, CompleteArchive, CompleteReclaim, CompleteDestroy,
                      GoesDown, TypeOK
  <2>2. /\ agent'[r] = Down(agent[r]) \/ agent'[r] = Destroyed(agent[r])
        /\ CompleteDestroy(i, token) => agent'[r] = Destroyed(agent[r])
        /\ agent[r] \in Agent
    BY <1>0, <1>5 DEF CompleteStop, CompleteArchive, CompleteReclaim, CompleteDestroy,
                      GoesDown, TypeOK
  <2>3. agent'[r].status = "offline"
    BY <2>2 DEF Down, Destroyed, Offboarded, Agent
  <2>4. CompleteDestroy(i, token) => ~agent'[r].linked
    BY <2>2 DEF Destroyed, Offboarded, Agent
  <2>5. CompleteReclaim(i, token) => archive'[r].state = "reclaimed"
    <3>1. archive[r] \in Archive
      BY DEF TypeOK
    <3>2. CompleteReclaim(i, token) => archive'[r] = [archive[r] EXCEPT !.state = "reclaimed"]
      BY <1>0, <1>5 DEF CompleteReclaim, TypeOK
    <3> QED
      BY <3>1, <3>2 DEF Archive
  <2>6. /\ CompleteStop(i, token) => requests[i].kind = "stop"
        /\ CompleteArchive(i, token) => requests[i].kind = "archive_trial"
    BY DEF CompleteStop, CompleteArchive
  <2>7. Falls(r)
    BY <1>1, <1>2, <1>5, <2>1, <2>3, <2>4, <2>5, <2>6 DEF Falls
  <2> QED
    BY <2>7 DEF PowerStep
<1> QED
  BY <1>3, <1>4, <1>5

\* The sweep's enqueue fences the rows of s and touches no active row of another.
LEMMA EnqueueOthers ==
    ASSUME TypeOK, NEW s \in Runtimes, NEW k \in Kinds, NEW id \in RequestIds, NEW residency,
           Enqueues(s, k, id, residency)
    PROVE  /\ \A r \in Runtimes \ {s} : HoldsSlot(r)
           /\ requests'[id].runtime = s
           /\ requests'[id].kind = k
           /\ requests'[id].status = "requested"
<1>1. requests' = [FencedOn(s) EXCEPT ![id] = NewRequest(s, k, None)]
  BY DEF Enqueues
<1>2. \A j \in RequestIds \ {id} : j \notin ActiveOn(s) => requests'[j] = requests[j]
  BY <1>1 DEF FencedOn
<1>3. \A r \in Runtimes \ {s} : \A j \in ActiveOn(r) : requests'[j] = requests[j]
  BY <1>2 DEF ActiveOn, Enqueues, Fresh, IsActive
<1>4. requests'[id] = NewRequest(s, k, None)
  BY <1>1 DEF FencedOn
<1> QED
  BY <1>3, <1>4, RowsHeld DEF NewRequest, NoRequest

LEMMA ReconcilePower ==
    ASSUME TypeOK, NEW s \in Runtimes, Reconcile(s)
    PROVE  PowerSteps
<1> SUFFICES ASSUME NEW r \in Runtimes PROVE PowerStep(r)
  BY DEF PowerSteps
<1>0. UNCHANGED <<agent, mayRun>>
  BY DEF Reconcile, ReconcileArchive, ReconcileReclaim, ReconcileStop, ReconcileResume,
         ReconcileFence, ReconcileRestore, ReconcileSettle, ReconcileKeepLocal
<1>1. ASSUME HoldsSlot(r) PROVE PowerStep(r)
  BY <1>0, <1>1 DEF PowerStep, Idles
<1>2. ASSUME NEW k \in Kinds \ UpBound, NEW id \in RequestIds, NEW residency,
             Enqueues(s, k, id, residency)
      PROVE  PowerStep(r)
  <2>1. CASE r # s
    BY <1>1, <1>2, <2>1, EnqueueOthers
  <2>2. CASE r = s
    <3>1. /\ requests'[id].runtime = r
          /\ requests'[id].kind \notin UpBound
          /\ IsActive(requests'[id])
      BY <1>2, <2>2, EnqueueOthers DEF IsActive
    <3> QED
      BY <1>0, <3>1 DEF PowerStep, Idles
  <2> QED
    BY <2>1, <2>2
<1>3. ASSUME NEW id \in RequestIds,
             ReconcileArchive(s, id) \/ ReconcileReclaim(s, id) \/ ReconcileStop(s, id)
      PROVE  PowerStep(r)
  <2>1. {"archive_trial", "reclaim_trial", "stop"} \subseteq Kinds \ UpBound
    BY DEF Kinds, Explicit, Residency, UpBound
  <2> QED
    BY <1>2, <1>3, <2>1 DEF ReconcileArchive, ReconcileReclaim, ReconcileStop
<1>4. ASSUME NEW id \in RequestIds, ReconcileResume(s, id) PROVE PowerStep(r)
  <2>1. CASE r # s
    BY <1>1, <1>4, <2>1, EnqueueOthers DEF ReconcileResume, Kinds, Explicit, UpBound
  <2>2. CASE r = s
    <3>1. ActiveOn(r) = {}
      BY <1>4, <2>2, PaidSweepIsAlone DEF ReconcileResume, Recovers
    <3> QED
      BY <1>1, <3>1 DEF HoldsSlot
  <2> QED
    BY <2>1, <2>2
<1>5. ASSUME ReconcileFence(s) PROVE PowerStep(r)
  <2>1. CASE r # s
    <3>1. \A j \in ActiveOn(r) : requests'[j] = requests[j]
      BY <1>5, <2>1 DEF ReconcileFence, FencedOn, ActiveOn
    <3> QED
      BY <1>1, <3>1, RowsHeld
  <2>2. CASE r = s
    BY <1>0, <1>5, <2>2 DEF PowerStep, Idles
  <2> QED
    BY <2>1, <2>2
<1>6. ASSUME UNCHANGED requests PROVE PowerStep(r)
  BY <1>0, <1>6, QuietPower DEF PowerSteps
<1> QED
  BY <1>3, <1>4, <1>5, <1>6
     DEF Reconcile, ReconcileRestore, ReconcileSettle, ReconcileKeepLocal

LEMMA CompleteMovePower ==
    ASSUME TypeOK, NEW s \in Runtimes, NEW token, CompleteMove(s, token)
    PROVE  PowerSteps
<1> SUFFICES ASSUME NEW r \in Runtimes PROVE PowerStep(r)
  BY DEF PowerSteps
<1>1. CASE r # s
  <2>1. agent'[r] = agent[r] /\ mayRun'[r] = mayRun[r] /\ UNCHANGED requests
    BY <1>1 DEF CompleteMove, TypeOK
  <2> QED
    BY <2>1, RowsHeld DEF PowerStep, Idles
<1>2. CASE r = s
  <2>1. agent'[r] = Switched(agent[r], move[r].target) /\ agent[r] \in Agent
    BY <1>2 DEF CompleteMove, TypeOK
  <2>2. agent'[r].status = "online"
    BY <2>1 DEF Switched, SwitchedOnly, HandedOver, Agent
  <2>3. move[r].status = "launching"
    BY <1>2 DEF CompleteMove, HoldsMove
  <2>4. move[r].kind = "restore" => archive'[r] = NoArchive
    BY <1>2 DEF CompleteMove, ClosesMove, TypeOK
  <2> QED
    BY <2>2, <2>3, <2>4 DEF PowerStep, Switches
<1> QED
  BY <1>1, <1>2

LEMMA OperatorPower ==
    ASSUME TypeOK, NEW s \in Runtimes,
           AdminArchiveUnrecoverable(s) \/ AdminOffboardRetired(s) \/ RevokeCredential(s)
    PROVE  PowerSteps
<1> SUFFICES ASSUME NEW r \in Runtimes PROVE Idles(r)
  BY DEF PowerSteps, PowerStep
<1>1. UNCHANGED <<requests, mayRun>>
  BY DEF AdminArchiveUnrecoverable, AdminOffboardRetired, RevokeCredential
<1>2. /\ agent[r] \in Agent
      /\ \/ agent'[r] = agent[r]
         \/ agent'[r] = Offboarded(agent[r])
         \/ agent'[r] = [agent[r] EXCEPT !.credential = "revoked"]
  BY DEF AdminArchiveUnrecoverable, AdminOffboardRetired, RevokeCredential, TypeOK
<1>3. agent'[r].status = agent[r].status /\ (agent'[r].linked => agent[r].linked)
  BY <1>2 DEF Offboarded, Agent
<1> QED
  BY <1>1, <1>3, RowsHeld DEF Idles

LEMMA NextPower ==
    ASSUME TypeOK, [Next]_vars
    PROVE  PowerSteps
<1>1. CASE ControlNext
  <2>1. CASE \E a \in Artifacts : RetireArtifact(a)
    BY <2>1, QuietPower DEF RetireArtifact
  <2>2. CASE \E i \in RequestIds : \E token :
               \/ LeaseAges(i) \/ RenewControl(i, token)
               \/ RetryControl(i, token) \/ FailControl(i, token)
    BY <2>2, HolderPower
  <2>3. CASE \E i \in RequestIds : \E token :
               \/ CompleteUp(i, token) \/ CompleteStop(i, token)
               \/ CompleteArchive(i, token) \/ CompleteReclaim(i, token)
               \/ CompleteDestroy(i, token)
    BY <2>3, CompletionPower
  <2> QED
    BY <1>1, <2>1, <2>2, <2>3, RequestControlPower, LeasePower, RejectPower, OperatorPower
       DEF ControlNext
<1>2. CASE MoveNext
  <2>1. ASSUME UNCHANGED <<requests, agent, mayRun>> PROVE PowerSteps
    BY <2>1, QuietPower
  <2> QED
    BY <1>2, <2>1, CompleteMovePower
       DEF MoveNext, RequestRelocation, LeaseMove, MoveLeaseExpires, PauseMove,
           CancelRelocation, FailMove
<1>3. CASE \/ BillingChanges \/ UNCHANGED vars
           \/ \E r \in Runtimes, k \in Swept : BackoffElapses(r, k)
  BY <1>3, QuietPower DEF BillingChanges, BackoffElapses, vars
<1> QED
  BY <1>1, <1>2, <1>3, ReconcilePower DEF Next

(***************************************************************************)
(* A reclaimed tree stays dark.                                            *)
(***************************************************************************)
\* Only a Kata agent is ever relocated; every other launch is a restore.
RelocatesKata ==
    \A r \in Runtimes : move[r].kind = "restore" \/ r \in Kata \/ move[r].status = "none"

LEMMA RelocatesStep ==
    ASSUME TypeOK, MoveSteps, RelocatesKata
    PROVE  RelocatesKata'
<1> SUFFICES ASSUME NEW r \in Runtimes
             PROVE  move'[r].kind = "restore" \/ r \in Kata \/ move'[r].status = "none"
  BY DEF RelocatesKata
<1>0. /\ move[r] \in Move
      /\ move[r].kind = "restore" \/ r \in Kata \/ move[r].status = "none"
  BY DEF TypeOK, RelocatesKata
<1>1. CASE MoveStep(r)
  <2>1. CASE move'[r] = move[r] \/ r \in Kata
    BY <1>0, <2>1
  <2>2. CASE \E h \in Hosts : /\ move[r].status \in {"requested", "launching"}
                              /\ move'[r] = Claimed(move[r], h, Authorized(r))
    BY <1>0, <2>2, MoveKinds
  <2>3. CASE move'[r] = [move[r] EXCEPT !.lease = "expired"]
    BY <1>0, <2>3, MoveKinds
  <2>4. CASE move'[r] = Requeued(move[r]) \/ move'[r] = NoMove
    BY <1>0, <2>4, MoveKinds
  <2> QED
    BY <1>1, <2>1, <2>2, <2>3, <2>4 DEF MoveStep
<1>2. CASE move'[r] = NoMove \/ move'[r].kind = "restore"
  BY <1>0, <1>2, MoveKinds
<1> QED
  BY <1>1, <1>2 DEF MoveSteps

\* ReclaimedIsDark for an agent that is not placed in the Kata class.
DarkOffKata ==
    \A r \in Runtimes \ Kata :
        archive[r].state = "reclaimed" => ~mayRun[r] /\ agent[r].status # "online"

LEMMA DarkStep ==
    ASSUME TypeOK, ResidencySteps, PowerSteps, RelocatesKata, TreeWaits, DarkOffKata
    PROVE  DarkOffKata'
<1> SUFFICES ASSUME NEW r \in Runtimes \ Kata, archive'[r].state = "reclaimed"
             PROVE  ~mayRun'[r] /\ agent'[r].status # "online"
  BY DEF DarkOffKata
<1>0. archive[r] \in Archive /\ ResidencyStep(r) /\ PowerStep(r)
  BY DEF TypeOK, ResidencySteps, PowerSteps
<1>1. CASE Reclaims(r)
  BY <1>1 DEF Reclaims
<1>2. CASE ~Reclaims(r)
  <2>1. archive[r].state = "reclaimed"
    <3>1. /\ NoArchive.state = "none"
          /\ [NoArchive EXCEPT !.state = "stored"].state = "stored"
      BY DEF NoArchive
    <3>2. \A id : [archive[r] EXCEPT !.reclaim = id].state = archive[r].state
      BY <1>0 DEF Archive
    <3> QED
      BY <1>0, <1>2, <3>1, <3>2
         DEF ResidencyStep, Kept, Stores, Names, KeepsLocal, QueuesRestore, FinishesRestore
  <2>2. ~mayRun[r] /\ agent[r].status # "online"
    BY <2>1 DEF DarkOffKata
  <2>3. \A i \in ActiveOn(r) : requests[i].kind \notin UpBound
    BY <2>1 DEF TreeWaits
  <2>4. ~Starts(r) /\ ~Rises(r)
    BY <2>3 DEF Starts, Rises
  <2>5. ~Switches(r)
    <3>1. NoArchive.state = "none"
      BY DEF NoArchive
    <3> QED
      BY <3>1 DEF Switches, RelocatesKata
  <2> QED
    BY <1>0, <2>2, <2>4, <2>5 DEF PowerStep, Idles, Falls
<1> QED
  BY <1>1, <1>2

LEMMA DarkInvariance == Spec => [](RelocatesKata /\ DarkOffKata)
<1>1. Init => RelocatesKata /\ DarkOffKata
  <2>1. NoMove.status = "none" /\ NoArchive.state = "none"
    BY DEF NoMove, NoArchive
  <2> QED
    BY <2>1 DEF Init, RelocatesKata, DarkOffKata
<1>2. TypeInv /\ ArchiveInv /\ RelocatesKata /\ DarkOffKata /\ [Next]_vars
        => (RelocatesKata /\ DarkOffKata)'
  BY NextResidency, NextMoves, NextPower, RelocatesStep, DarkStep DEF TypeInv, ArchiveInv
<1> QED
  BY <1>1, <1>2, TypeInvariance, ArchiveInvariance, PTL DEF Spec

\* Once a tree is reclaimed no start is queued and compute is confirmed down,
\* where no agent can be relocated: relocation does not read the archive row.
THEOREM ReclaimedDark == Spec => [](Kata = {} => ReclaimedIsDark)
<1>1. ArchiveInv /\ RelocatesKata /\ DarkOffKata => (Kata = {} => ReclaimedIsDark)
  <2> SUFFICES ASSUME TreeWaits, DarkOffKata, Kata = {}, NEW r \in Runtimes,
                      archive[r].state = "reclaimed"
               PROVE  /\ ~mayRun[r] /\ agent[r].status # "online"
                      /\ \A i \in ActiveOn(r) : requests[i].kind \notin UpBound
    BY DEF ArchiveInv, ReclaimedIsDark
  <2>1. ~mayRun[r] /\ agent[r].status # "online"
    BY DEF DarkOffKata
  <2>2. \A i \in ActiveOn(r) : requests[i].kind \notin UpBound
    BY DEF TreeWaits
  <2> QED
    BY <2>1, <2>2
<1> QED
  BY <1>1, ArchiveInvariance, DarkInvariance, PTL

(***************************************************************************)
(* The Offline latch.  The sweep replaces an abandoned start by a Stop      *)
(* unless its backoff has not elapsed, so the proof needs to know that no   *)
(* Stop of an agent that is shown offline has failed since one succeeded.   *)
(***************************************************************************)
\* The active request of r is the last one that was created for r.
ActiveIsLatest ==
    \A r \in Runtimes : \A i \in ActiveOn(r) : \A j \in RequestIds :
        requests[j].runtime = r /\ requests[j].status # "absent" => j <= i

LEMMA PresentRows ==
    ASSUME TypeOK, NEW j \in RequestIds, RowStep(j), ~Created(j)
    PROVE  (requests'[j].status = "absent") <=> (requests[j].status = "absent")
<1>1. requests[j] \in Request
  BY DEF TypeOK
<1> QED
  BY <1>1 DEF RowStep, Changed, Completed, Leased, Released, Settled, Fenced, Request, IsActive

LEMMA LatestStep ==
    ASSUME TypeOK, RowSteps, ActiveIsLatest
    PROVE  ActiveIsLatest'
<1> SUFFICES ASSUME NEW r \in Runtimes, NEW i \in RequestIds, NEW j \in RequestIds,
                    requests'[i].runtime = r, IsActive(requests'[i]),
                    requests'[j].runtime = r, requests'[j].status # "absent", ~(j <= i)
             PROVE  FALSE
  BY DEF ActiveIsLatest, ActiveOn, IsActive
<1>0. j > i /\ RowStep(i) /\ RowStep(j)
  BY ConstantsAssumption DEF RowSteps
<1>1. CASE Created(j)
  <2>1. PICK s \in Runtimes :
          /\ requests'[j].runtime = s
          /\ \A k \in RequestIds \ {j} : requests'[k].runtime = s => ~IsActive(requests'[k])
    BY <1>1 DEF Created, NewRequest, NoRequest
  <2> QED
    BY <1>0, <2>1, ConstantsAssumption
<1>2. CASE ~Created(j) /\ Created(i)
  <2>1. requests[j].status = "absent"
    BY <1>0, <1>2 DEF Created, Fresh
  <2> QED
    BY <1>0, <1>2, <2>1, PresentRows
<1>3. CASE ~Created(j) /\ ~Created(i)
  <2>1. i \in ActiveOn(r) /\ requests[j].runtime = r /\ requests[j].status # "absent"
    BY <1>0, <1>3, PresentRows, SurvivingRows DEF ActiveOn
  <2> QED
    BY <2>1 DEF ActiveIsLatest
<1> QED
  BY <1>1, <1>2, <1>3

\* Every failed Stop of r was followed by one that has not failed.
StopRetried(r) ==
    \A i \in RequestIds :
        requests[i].runtime = r /\ requests[i].kind = "stop" /\ requests[i].status = "failed" =>
            \E j \in RequestIds : /\ j > i
                                  /\ requests[j].runtime = r /\ requests[j].kind = "stop"
                                  /\ requests[j].status \notin {"absent", "failed"}

StopsSucceed ==
    \A r \in Runtimes :
        /\ /\ agent[r].linked /\ agent[r].status = "offline"
           /\ archive[r].state # "reclaimed"
           => StopRetried(r)
        /\ \A i \in ActiveOn(r) : requests[i].kind = "archive_trial" => StopRetried(r)

\* No row that is fenced is a Stop, and no Stop is rejected: a Stop fails only when
\* its Runner says so, which leaves the agent stale.
StopFails ==
    \A r \in Runtimes : \A i \in ActiveOn(r) :
        requests[i].kind = "stop" /\ requests'[i].status = "failed" =>
            agent'[r].status = "stale" /\ ClosesSlot(i)

LEMMA FencedIsNoStop ==
    ASSUME NEW s \in Runtimes, Proceeds(s), NEW i \in ActiveOn(s)
    PROVE  requests[i].kind # "stop"
BY DEF Proceeds, Fenceable, UpBound

LEMMA ReconcileStopFails ==
    ASSUME TypeOK, NEW s \in Runtimes, Reconcile(s)
    PROVE  StopFails
<1>1. Proceeds(s)
  BY DEF Reconcile, ReconcileArchive, ReconcileReclaim, ReconcileStop, ReconcileResume,
         ReconcileFence, ReconcileRestore, ReconcileSettle, ReconcileKeepLocal, Recovers
<1>2. \/ UNCHANGED requests
      \/ requests' = FencedOn(s)
      \/ \E k, residency : \E id \in RequestIds : Enqueues(s, k, id, residency)
  BY DEF Reconcile, ReconcileArchive, ReconcileReclaim, ReconcileStop, ReconcileResume,
         ReconcileFence, ReconcileRestore, ReconcileSettle, ReconcileKeepLocal
<1>3. \A i \in RequestIds : IsActive(requests[i]) /\ i \notin ActiveOn(s) =>
        requests'[i] = requests[i]
  BY <1>2 DEF FencedOn, Enqueues, Fresh, IsActive
<1> QED
  BY <1>1, <1>3, FencedIsNoStop DEF StopFails, ActiveOn, IsActive

LEMMA ControlStopFails ==
    ASSUME TypeOK, ControlNext
    PROVE  StopFails
<1>0. ASSUME \A i \in RequestIds : IsActive(requests[i]) /\ requests[i].kind = "stop" =>
                requests'[i].status # "failed"
      PROVE  StopFails
  BY <1>0 DEF StopFails, ActiveOn
<1>1. ASSUME \A i \in RequestIds : IsActive(requests[i]) => requests'[i] = requests[i]
      PROVE  StopFails
  BY <1>0, <1>1 DEF IsActive
<1>2. ASSUME NEW s \in Runtimes, NEW k \in Explicit, NEW t \in Artifacts \cup {None},
             NEW id \in RequestIds, RequestControl(s, k, t, id)
      PROVE  StopFails
  BY <1>1, <1>2 DEF RequestControl, Fresh, IsActive, TypeOK
<1>3. \A j \in RequestIds : Rejected(j) => requests[j].kind # "stop"
  BY DEF Rejected
<1>4. ASSUME NEW h \in Hosts, NEW i \in RequestIds, LeaseControl(h, i) PROVE StopFails
  <2>1. \A j \in RequestIds : Leased(requests[j]).status = "launching"
    BY DEF TypeOK, Request, Leased
  <2> QED
    BY <1>0, <1>3, <1>4, <2>1 DEF LeaseControl, IsActive
<1>5. ASSUME NEW h \in Hosts, RejectUpgrades(h) PROVE StopFails
  BY <1>0, <1>3, <1>5 DEF RejectUpgrades, IsActive
<1>6. ASSUME NEW i \in RequestIds, NEW lease, requests[i].status = "launching",
             requests' = [requests EXCEPT ![i].lease = lease]
      PROVE  StopFails
  <2>1. requests'[i].status = requests[i].status
    BY <1>6 DEF TypeOK, Request
  <2>2. \A j \in RequestIds \ {i} : requests'[j] = requests[j]
    BY <1>6 DEF TypeOK
  <2> QED
    BY <1>0, <2>1, <2>2 DEF IsActive
<1>7. ASSUME NEW i \in RequestIds, NEW token, RetryControl(i, token) PROVE StopFails
  <2>1. \A j \in RequestIds \ {i} : requests'[j] = requests[j]
    BY <1>7 DEF RetryControl, TypeOK
  <2>2. requests[i].kind # "stop"
    BY <1>7 DEF RetryControl, Residency
  <2> QED
    BY <1>0, <2>1, <2>2 DEF IsActive
<1>8. ASSUME NEW i \in RequestIds, NEW token, FailControl(i, token) PROVE StopFails
  <2>1. \A j \in RequestIds \ {i} : requests'[j] = requests[j]
    BY <1>8 DEF FailControl, TypeOK
  <2>2. requests'[i] = Released(requests[i], "failed") /\ requests[i] \in Request
    BY <1>8 DEF FailControl, TypeOK
  <2>3. ClosesSlot(i)
    BY <2>1, <2>2 DEF ClosesSlot, Released, IsActive, Request
  <2>4. \A r \in Runtimes : requests[i].runtime = r => agent'[r].status = "stale"
    <3>1. \A r \in Runtimes : requests[i].runtime = r => agent'[r] = Stale(agent[r])
      BY <1>8 DEF FailControl, TypeOK
    <3>2. \A r \in Runtimes : Stale(agent[r]).status = "stale"
      BY DEF TypeOK, Stale, Agent
    <3> QED
      BY <3>1, <3>2
  <2> QED
    BY <2>1, <2>3, <2>4 DEF StopFails, ActiveOn, IsActive
<1>9. ASSUME NEW i \in RequestIds, NEW token,
             \/ CompleteUp(i, token) \/ CompleteStop(i, token)
             \/ CompleteArchive(i, token) \/ CompleteReclaim(i, token)
             \/ CompleteDestroy(i, token)
      PROVE  StopFails
  <2>1. PICK terminal \in {"succeeded", "stopped"} :
          HoldsLiveLease(i, token) /\ Settle(i, token, terminal)
    BY <1>9 DEF CompleteUp, CompleteStop, CompleteArchive, CompleteReclaim, CompleteDestroy
  <2>2. requests'[i].status = terminal /\ ClosesSlot(i)
    BY <2>1, SettleCloses
  <2> QED
    BY <1>0, <2>2 DEF ClosesSlot, IsActive
<1>10. ASSUME UNCHANGED requests PROVE StopFails
  BY <1>1, <1>10
<1>11. ASSUME NEW i \in RequestIds, LeaseAges(i) \/ \E token : RenewControl(i, token)
       PROVE  StopFails
  BY <1>6, <1>11 DEF LeaseAges, RenewControl, HoldsLiveLease, HoldsLease
<1> QED
  BY <1>2, <1>4, <1>5, <1>7, <1>8, <1>9, <1>10, <1>11
     DEF ControlNext, AdminArchiveUnrecoverable, AdminOffboardRetired, RevokeCredential,
         RetireArtifact

LEMMA NextStopFails ==
    ASSUME TypeOK, [Next]_vars
    PROVE  StopFails
<1>0. ASSUME UNCHANGED requests PROVE StopFails
  BY <1>0 DEF StopFails, ActiveOn, IsActive
<1>1. CASE MoveNext
  BY <1>0, <1>1 DEF MoveNext, RequestRelocation, LeaseMove, MoveLeaseExpires, PauseMove,
                    CancelRelocation, FailMove, CompleteMove
<1>2. CASE \/ BillingChanges \/ UNCHANGED vars
           \/ \E r \in Runtimes, k \in Swept : BackoffElapses(r, k)
  BY <1>0, <1>2 DEF BillingChanges, BackoffElapses, vars
<1> QED
  BY <1>1, <1>2, ControlStopFails, ReconcileStopFails DEF Next

LEMMA NewlyFailed ==
    ASSUME TypeOK, NEW i \in RequestIds, RowStep(i), requests'[i].status = "failed"
    PROVE  /\ ~Created(i)
           /\ requests[i].status = "failed" \/ IsActive(requests[i])
<1>1. requests[i] \in Request
  BY DEF TypeOK
<1>2. ~Created(i)
  BY DEF Created, NewRequest, NoRequest
<1>3. Completed(i) => requests[i].status = "launching"
  BY DEF Completed
<1> QED
  BY <1>1, <1>2, <1>3 DEF RowStep, IsActive

\* As long as no Stop of r fails, the failed ones stay behind.
LEMMA RetriedStep ==
    ASSUME TypeOK, RowSteps, NEW r \in Runtimes, StopRetried(r),
           \A i \in ActiveOn(r) : requests[i].kind = "stop" => requests'[i].status # "failed"
    PROVE  StopRetried(r)'
<1> SUFFICES ASSUME NEW i \in RequestIds, requests'[i].runtime = r,
                    requests'[i].kind = "stop", requests'[i].status = "failed"
             PROVE  \E j \in RequestIds :
                       /\ j > i
                       /\ requests'[j].runtime = r /\ requests'[j].kind = "stop"
                       /\ requests'[j].status \notin {"absent", "failed"}
  BY DEF StopRetried
<1>1. /\ requests[i].runtime = r /\ requests[i].kind = "stop"
      /\ requests[i].status = "failed"
  <2>1. RowStep(i) /\ ~Created(i)
    BY NewlyFailed DEF RowSteps
  <2>2. requests[i].runtime = r /\ requests[i].kind = "stop"
    BY <2>1, SurvivingRows
  <2> QED
    BY <2>1, <2>2, NewlyFailed DEF ActiveOn
<1>2. PICK j \in RequestIds : /\ j > i
                              /\ requests[j].runtime = r /\ requests[j].kind = "stop"
                              /\ requests[j].status \notin {"absent", "failed"}
  BY <1>1 DEF StopRetried
<1>3. RowStep(j) /\ ~Created(j)
  BY <1>2 DEF RowSteps, Created, Fresh
<1>4. /\ requests'[j].runtime = r /\ requests'[j].kind = "stop"
      /\ requests'[j].status # "absent"
  BY <1>2, <1>3, SurvivingRows, PresentRows
<1>5. requests'[j].status # "failed"
  BY <1>2, <1>3, NewlyFailed DEF ActiveOn
<1> QED
  BY <1>2, <1>4, <1>5

\* A Stop that completes is the last request of r, so no failed one follows it.
LEMMA StoppedLast ==
    ASSUME TypeOK, RowSteps, ActiveIsLatest, NEW r \in Runtimes, NEW i \in ActiveOn(r),
           ClosesSlot(i), requests'[i].runtime = r, requests'[i].kind = "stop",
           requests'[i].status = "stopped"
    PROVE  StopRetried(r)'
<1> SUFFICES ASSUME NEW j \in RequestIds, requests'[j].runtime = r,
                    requests'[j].status = "failed"
             PROVE  i > j
  BY DEF StopRetried, ActiveOn
<1>1. j # i /\ requests'[j] = requests[j]
  BY DEF ClosesSlot
<1>2. j <= i
  BY <1>1 DEF ActiveIsLatest
<1> QED
  BY <1>1, <1>2, ConstantsAssumption DEF ActiveOn

LEMMA StopsStep ==
    ASSUME TypeOK, RowSteps, ResidencySteps, PowerSteps, StopFails,
           OneActivePerRuntime, ActiveIsLatest, StopsSucceed
    PROVE  StopsSucceed'
<1> SUFFICES ASSUME NEW r \in Runtimes
             PROVE  /\ /\ agent'[r].linked /\ agent'[r].status = "offline"
                       /\ archive'[r].state # "reclaimed"
                       => StopRetried(r)'
                    /\ \A i \in RequestIds :
                          /\ requests'[i].runtime = r /\ IsActive(requests'[i])
                          /\ requests'[i].kind = "archive_trial"
                          => StopRetried(r)'
  BY DEF StopsSucceed, ActiveOn, IsActive
<1>0. ResidencyStep(r) /\ PowerStep(r) /\ archive[r] \in Archive
  BY DEF ResidencySteps, PowerSteps, TypeOK
<1>1. ASSUME agent'[r].linked, agent'[r].status = "offline",
             archive'[r].state # "reclaimed"
      PROVE  StopRetried(r)'
  <2>1. \A i \in ActiveOn(r) : requests[i].kind = "stop" => requests'[i].status # "failed"
    BY <1>1 DEF StopFails
  <2>2. CASE Falls(r)
    <3>1. PICK i \in ActiveOn(r) :
            /\ ClosesSlot(i)
            /\ \/ /\ requests'[i].runtime = r
                  /\ requests'[i].kind = "stop"
                  /\ requests'[i].status = "stopped"
               \/ requests[i].kind = "archive_trial"
      BY <1>1, <2>2 DEF Falls
    <3>2. CASE requests[i].kind = "archive_trial"
      BY <2>1, <3>1, <3>2, RetriedStep DEF StopsSucceed
    <3>3. CASE requests[i].kind # "archive_trial"
      BY <3>1, <3>3, StoppedLast
    <3> QED
      BY <3>2, <3>3
  <2>3. CASE ~Falls(r)
    <3>1. agent[r].linked /\ agent[r].status = "offline"
      BY <1>0, <1>1, <2>3 DEF PowerStep, Idles, Starts, Rises, Switches
    <3>2. archive[r].state # "reclaimed"
      <4>1. [archive[r] EXCEPT !.state = "reclaimed"].state = "reclaimed"
        BY <1>0 DEF Archive
      <4>2. [archive[r] EXCEPT !.restore = TRUE].state = archive[r].state
        BY <1>0 DEF Archive
      <4> QED
        BY <1>0, <1>1, <4>1, <4>2
           DEF ResidencyStep, Kept, Stores, Reclaims, Names, KeepsLocal, QueuesRestore,
               FinishesRestore
    <3>3. StopRetried(r)
      BY <3>1, <3>2 DEF StopsSucceed
    <3> QED
      BY <2>1, <3>3, RetriedStep
  <2> QED
    BY <2>2, <2>3
<1>2. ASSUME NEW i \in RequestIds, requests'[i].runtime = r, IsActive(requests'[i]),
             requests'[i].kind = "archive_trial"
      PROVE  StopRetried(r)'
  <2>1. \A j \in ActiveOn(r) : requests[j].kind = "stop" => requests'[j].status # "failed"
    <3> SUFFICES ASSUME NEW j \in ActiveOn(r), requests[j].kind = "stop",
                        requests'[j].status = "failed"
                 PROVE  FALSE
      OBVIOUS
    <3>1. ClosesSlot(j)
      BY DEF StopFails
    <3> QED
      BY <1>2, <3>1, ClosedSlotIsEmpty
  <2>2. StopRetried(r)
    <3>1. CASE i \in ActiveOn(r) /\ requests'[i].kind = requests[i].kind
      BY <1>2, <3>1 DEF StopsSucceed
    <3>2. CASE \E k \in Kinds : requests'[i].kind = k /\ Grounds(i, r, k)
      BY <1>2, <3>2 DEF Grounds, StopsSucceed
    <3> QED
      BY <1>2, <3>1, <3>2, ActiveAfter
  <2> QED
    BY <2>1, <2>2, RetriedStep
<1> QED
  BY <1>1, <1>2

\* While an agent is shown offline, a start that may have happened is still in the
\* slot, leased, or the slot belongs to an operation that will confirm it down.
StartExplained ==
    \A r \in Runtimes :
        agent[r].linked /\ agent[r].status = "offline" /\ mayRun[r] =>
            \E i \in ActiveOn(r) : requests[i].kind \notin UpBound
                                   \/ requests[i].status = "launching"

\* The sweep that fences an abandoned start without a successor has nothing to fear
\* from an agent shown offline.
LEMMA FenceExplained ==
    ASSUME TypeOK, TreeWaits, StopsSucceed, StartExplained, NEW r \in Runtimes,
           ReconcileFence(r), agent[r].linked, agent[r].status = "offline", mayRun[r]
    PROVE  FALSE
<1>1. PICK i \in ActiveOn(r) : requests[i].kind \notin UpBound
                               \/ requests[i].status = "launching"
  BY DEF StartExplained
<1>2. requests[i].kind \in UpBound
  BY DEF ReconcileFence, Proceeds, Fenceable
<1>3. Uncertain(r) /\ archive[r].state = "none"
  BY <1>1, <1>2 DEF Uncertain, TreeWaits
<1>4. ~BackoffElapsed(r, "stop")
  BY <1>3 DEF ReconcileFence, WantsStop
<1>5. StopRetried(r)
  BY <1>3 DEF StopsSucceed
<1>6. ConsecutiveFailures(r, "stop") = {}
  <2> SUFFICES ASSUME NEW j \in ConsecutiveFailures(r, "stop") PROVE FALSE
    OBVIOUS
  <2>1. /\ j \in RequestIds
        /\ requests[j].runtime = r /\ requests[j].kind = "stop" /\ requests[j].status = "failed"
        /\ \A n \in RequestIds :
             requests[n].runtime = r /\ requests[n].kind = "stop" /\ requests[n].status # "failed"
             => n < j
    BY DEF ConsecutiveFailures
  <2>2. PICK n \in RequestIds : /\ n > j
                                /\ requests[n].runtime = r /\ requests[n].kind = "stop"
                                /\ requests[n].status \notin {"absent", "failed"}
    BY <1>5, <2>1 DEF StopRetried
  <2>3. n < j /\ n > j /\ j \in Nat /\ n \in Nat
    BY <2>1, <2>2, ConstantsAssumption
  <2> QED
    BY <2>3
<1> QED
  BY <1>4, <1>6, FS_EmptySet DEF BackoffElapsed

LEMMA ExplainedStep ==
    ASSUME TypeOK, retired = {}, PowerSteps, TreeWaits, StopsSucceed, StartExplained
    PROVE  StartExplained'
<1> SUFFICES ASSUME NEW r \in Runtimes, agent'[r].linked, agent'[r].status = "offline",
                    mayRun'[r]
             PROVE  \E i \in RequestIds :
                       /\ requests'[i].runtime = r /\ IsActive(requests'[i])
                       /\ requests'[i].kind \notin UpBound
                          \/ requests'[i].status = "launching"
  BY DEF StartExplained, ActiveOn, IsActive
<1>0. PowerStep(r)
  BY DEF PowerSteps
<1>1. CASE Starts(r)
  BY <1>1 DEF Starts, ActiveOn, IsActive
<1>2. CASE Idles(r)
  <2>1. agent[r].linked /\ agent[r].status = "offline" /\ mayRun[r]
    BY <1>2 DEF Idles
  <2>2. CASE HoldsSlot(r)
    <3>1. PICK i \in ActiveOn(r) : requests[i].kind \notin UpBound
                                   \/ requests[i].status = "launching"
      BY <2>1 DEF StartExplained
    <3>2. i \in RequestIds
      BY DEF ActiveOn
    <3> QED
      BY <2>2, <3>1, <3>2 DEF HoldsSlot
  <2>3. CASE ReconcileFence(r)
    BY <2>1, <2>3, FenceExplained
  <2>4. ~ \E i \in ActiveOn(r) : Rejected(i)
    BY DEF Rejected
  <2> QED
    BY <1>2, <2>2, <2>3, <2>4 DEF Idles
<1> QED
  BY <1>0, <1>1, <1>2 DEF PowerStep, Rises, Falls, Switches

LEMMA RetiredStep ==
    ASSUME retired \subseteq Retirable, [Next]_vars
    PROVE  retired' \subseteq Retirable
<1>1. UNCHANGED retired \/ \E a \in Artifacts : RetireArtifact(a)
  BY DEF Next, ControlNext, RequestControl, LeaseControl, RejectUpgrades, LeaseAges,
         RenewControl, RetryControl, FailControl, CompleteUp, CompleteStop, CompleteArchive,
         CompleteReclaim, CompleteDestroy, AdminArchiveUnrecoverable, AdminOffboardRetired,
         RevokeCredential, BillingChanges, BackoffElapses, Reconcile, ReconcileArchive,
         ReconcileReclaim, ReconcileStop, ReconcileResume, ReconcileFence, ReconcileRestore,
         ReconcileSettle, ReconcileKeepLocal, MoveNext, RequestRelocation, LeaseMove,
         MoveLeaseExpires, PauseMove, CancelRelocation, FailMove, CompleteMove, vars
<1> QED
  BY <1>1 DEF RetireArtifact

LatchInv ==
    /\ ActiveIsLatest /\ StopsSucceed
    /\ retired \subseteq Retirable
    /\ Retirable = {} => StartExplained

LEMMA LatchInvariance == Spec => []LatchInv
<1>1. Init => LatchInv
  <2> SUFFICES ASSUME Init PROVE LatchInv
    OBVIOUS
  <2>1. NoRequest.status = "absent"
    BY DEF NoRequest
  <2>2. \A i \in RequestIds : requests[i].status = "absent"
    BY <2>1 DEF Init
  <2>3. \A r \in Runtimes : ActiveOn(r) = {} /\ StopRetried(r)
    BY <2>2 DEF ActiveOn, IsActive, StopRetried
  <2>4. \A r \in Runtimes : mayRun[r] => agent[r].status = "online"
    <3> SUFFICES ASSUME NEW r \in Runtimes, mayRun[r] PROVE agent[r].status = "online"
      OBVIOUS
    <3>1. r \notin HalfRetired
      BY DEF Init
    <3>2. \E h : agent[r] = LiveAgent(h)
      BY <3>1 DEF Init
    <3> QED
      BY <3>2 DEF LiveAgent
  <2> QED
    BY <2>3, <2>4 DEF Init, LatchInv, ActiveIsLatest, StopsSucceed, StartExplained
<1>2. TypeInv /\ SlotInv /\ ArchiveInv /\ LatchInv /\ [Next]_vars => LatchInv'
  BY NextRows, NextResidency, NextPower, NextStopFails, LatestStep, StopsStep, RetiredStep,
     ExplainedStep
     DEF TypeInv, SlotInv, ArchiveInv, LatchInv
<1> QED
  BY <1>1, <1>2, TypeInvariance, SlotInvariance, ArchiveInvariance, PTL DEF Spec

\* An agent shown offline with nothing in flight has had no start since it was last
\* confirmed down, where no artifact is retired: the lease loop rejects an abandoned
\* upgrade to a retired artifact and leaves the status as it was.
THEOREM OfflineDown == Spec => [](Retirable = {} => OfflineMeansDown)
<1>1. LatchInv => (Retirable = {} => OfflineMeansDown)
  BY DEF LatchInv, StartExplained, OfflineMeansDown
<1> QED
  BY <1>1, LatchInvariance, PTL
=============================================================================
