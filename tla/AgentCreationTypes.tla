------------------------- MODULE AgentCreationTypes -------------------------
(***************************************************************************)
(* Type correctness of AgentCreation, for every value of the constants,    *)
(* and what a step may do to the request rows and the Runners.             *)
(***************************************************************************)
EXTENDS AgentCreation, FiniteSetTheorems, TLAPS

\* A Runner that is not idle works on a request under a lease it was given.
Working ==
    \A w \in Runner : run[w].pc # "idle"
                         => run[w].req \in Request /\ run[w].token \in 1..MaxLease

TypeInv == TypeOK /\ Working

----------------------------------------------------------------------------
(* The counts are numbers.                                                 *)

LEMMA PhalaFinite == \A S \in SUBSET Phala : IsFiniteSet(S)
BY FS_Subset, ConstantsAssumption

LEMMA InFlightType == InFlight \in Nat
BY PhalaFinite, FS_CardinalityType DEF InFlight

LEMMA InventoryType ==
    ASSUME TypeOK
    PROVE  Inventory \in Nat
<1> DEFINE Cvms(q) == {q} \X (1..cvms[q])
           Families == {Cvms(q) : q \in Phala}
<1>1. IsFiniteSet(Phala)
  BY PhalaFinite
<1>2. IsFiniteSet(Families)
  <2>1. [q \in Phala |-> Cvms(q)] \in Surjection(Phala, Families)
    BY DEF Surjection
  <2> QED
    BY <1>1, <2>1, FS_Surjection DEF ExistsSurjection
<1>3. \A q \in Phala : IsFiniteSet(Cvms(q))
  <2> TAKE q \in Phala
  <2>1. cvms[q] \in Int
    BY ConstantsAssumption DEF TypeOK
  <2>2. IsFiniteSet(1..cvms[q])
    BY <2>1, FS_Interval
  <2>3. IsFiniteSet({q})
    BY FS_Singleton
  <2> QED
    BY <2>2, <2>3, FS_Product
<1>4. IsFiniteSet(UNION Families)
  BY <1>2, <1>3, FS_UNION
<1> QED
  BY <1>4, FS_CardinalityType DEF Inventory
----------------------------------------------------------------------------
(* Updates of a request row and of a Runner keep their types.              *)

LEMMA LeaseRange == MaxLease \in Nat /\ 0 \in 0..MaxLease
BY ConstantsAssumption

LEMMA RowUpdates ==
    \A r \in RequestRow :
        /\ \A chat \in BOOLEAN :
              [r EXCEPT !.status = "requested", !.chat = chat] \in RequestRow
        /\ [r EXCEPT !.chat = TRUE] \in RequestRow
        /\ [r EXCEPT !.live = FALSE] \in RequestRow
        /\ \A s \in {"running", "failed", "cancelled"}, h \in Runner \cup {None} :
              [r EXCEPT !.status = s, !.holder = h, !.token = 0, !.live = FALSE]
                  \in RequestRow
        /\ \A w \in Runner, t \in 0..MaxLease, spec \in [artifact : Artifact, chat : BOOLEAN] :
              [r EXCEPT !.status = "launching", !.holder = w, !.live = TRUE,
                        !.token = t, !.leases = t, !.spec = spec] \in RequestRow
<1> TAKE r \in RequestRow
<1>1. \A chat \in BOOLEAN :
         [r EXCEPT !.status = "requested", !.chat = chat] \in RequestRow
  BY DEF RequestRow
<1>2. [r EXCEPT !.chat = TRUE] \in RequestRow /\ [r EXCEPT !.live = FALSE] \in RequestRow
  BY DEF RequestRow
<1>3. \A s \in {"running", "failed", "cancelled"}, h \in Runner \cup {None} :
         [r EXCEPT !.status = s, !.holder = h, !.token = 0, !.live = FALSE] \in RequestRow
  BY LeaseRange DEF RequestRow
<1>4. \A w \in Runner, t \in 0..MaxLease, spec \in [artifact : Artifact, chat : BOOLEAN] :
         [r EXCEPT !.status = "launching", !.holder = w, !.live = TRUE,
                   !.token = t, !.leases = t, !.spec = spec] \in RequestRow
  BY DEF RequestRow
<1> QED
  BY <1>1, <1>2, <1>3, <1>4

LEMMA RunnerUpdates ==
    \A r \in RunnerState :
        /\ \A pc \in Pc : [r EXCEPT !.pc = pc] \in RunnerState
        /\ \A pc \in Pc : [r EXCEPT !.pc = pc, !.key = TRUE] \in RunnerState
        /\ \A n \in Nat \cup {Unverified} : [r EXCEPT !.inventory = n] \in RunnerState
        /\ \A n \in Nat \cup {Unverified} :
              [r EXCEPT !.pc = "idle", !.req = None, !.token = 0, !.seen = None,
                        !.inFlight = 0, !.key = FALSE, !.inventory = n] \in RunnerState
        /\ \A pc \in Pc, q \in Request, t \in 0..MaxLease, j \in Transition, n \in Nat :
              [r EXCEPT !.pc = pc, !.req = q, !.token = t, !.seen = j, !.inFlight = n]
                  \in RunnerState
<1> TAKE r \in RunnerState
<1>1. \A pc \in Pc : /\ [r EXCEPT !.pc = pc] \in RunnerState
                     /\ [r EXCEPT !.pc = pc, !.key = TRUE] \in RunnerState
  BY DEF RunnerState
<1>2. \A n \in Nat \cup {Unverified} : [r EXCEPT !.inventory = n] \in RunnerState
  BY DEF RunnerState
<1>3. \A n \in Nat \cup {Unverified} :
         [r EXCEPT !.pc = "idle", !.req = None, !.token = 0, !.seen = None,
                   !.inFlight = 0, !.key = FALSE, !.inventory = n] \in RunnerState
  BY LeaseRange DEF RunnerState, Pc, Transition
<1>4. \A pc \in Pc, q \in Request, t \in 0..MaxLease, j \in Transition, n \in Nat :
         [r EXCEPT !.pc = pc, !.req = q, !.token = t, !.seen = j, !.inFlight = n]
            \in RunnerState
  BY DEF RunnerState
<1> QED
  BY <1>1, <1>2, <1>3, <1>4

\* Moving on within a launch, and returning from it.
LEMMA GotoType ==
    ASSUME TypeInv, NEW w \in Runner, NEW pc \in Pc, Goto(w, pc), run[w].pc # "idle"
    PROVE  run' \in [Runner -> RunnerState] /\ Working'
BY DEF TypeInv, TypeOK, Working, Goto, RunnerState

LEMMA ReturnType ==
    ASSUME TypeInv, NEW w \in Runner, Return(w)
    PROVE  run' \in [Runner -> RunnerState] /\ Working'
<1>1. run[w] \in RunnerState
  BY DEF TypeInv, TypeOK
<1> DEFINE n == IF Cached THEN run[w].inventory ELSE Unverified
           r == [run[w] EXCEPT !.pc = "idle", !.req = None, !.token = 0, !.seen = None,
                               !.inFlight = 0, !.key = FALSE, !.inventory = n]
<1>2. n \in Nat \cup {Unverified}
  BY <1>1 DEF RunnerState
<1> HIDE DEF n
<1>3. r \in RunnerState
  BY <1>1, <1>2, RunnerUpdates
<1>4. r.pc = "idle"
  BY <1>1 DEF RunnerState
<1>5. run' = [run EXCEPT ![w] = r]
  BY DEF Return, n
<1> HIDE DEF r
<1> QED
  BY <1>3, <1>4, <1>5 DEF TypeInv, TypeOK, Working

LEMMA AnsweredType ==
    ASSUME TypeInv, NEW w \in Runner, NEW next \in Pc, NEW failed \in Pc,
           Answered(w, next, failed), run[w].pc # "idle"
    PROVE  run' \in [Runner -> RunnerState] /\ Working'
BY GotoType DEF Answered

----------------------------------------------------------------------------
(* Type correctness, action by action.                                     *)

LEMMA InitType == Init => TypeInv
BY LeaseRange
   DEF Init, TypeInv, TypeOK, Working, RequestRow, RunnerState, Pc, Transition, Unverified

LEMMA InsertType ==
    ASSUME TypeInv, NEW q \in Request, NEW chat \in BOOLEAN, Insert(q, chat)
    PROVE  req' \in [Request -> RequestRow] /\ queue' \in Seq(Request)
<1> DEFINE r == [req[q] EXCEPT !.status = "requested", !.chat = chat]
<1>1. r \in RequestRow
  BY RowUpdates DEF TypeInv, TypeOK
<1>2. req' = [req EXCEPT ![q] = r]
  BY DEF Insert
<1> HIDE DEF r
<1> QED
  BY <1>1, <1>2 DEF TypeInv, TypeOK, Insert

LEMMA CustomerType ==
    ASSUME TypeInv, Customer
    PROVE  TypeInv'
<1>1. ASSUME NEW q \in Request, NEW chat \in BOOLEAN, RequestBilled(q, chat)
      PROVE  TypeInv'
  <2>1. OwnerOf[q] \in Owner
    BY ConstantsAssumption
  <2> QED
    BY <1>1, <2>1, InsertType DEF TypeInv, TypeOK, Working, RequestBilled, grants, world
<1>2. ASSUME NEW q \in Request, NEW c \in Code, NEW chat \in BOOLEAN,
             RequestWithCode(q, c, chat)
      PROVE  TypeInv'
  <2>1. OwnerOf[q] \in Owner
    BY ConstantsAssumption
  <2> QED
    BY <1>2, <2>1, InsertType DEF TypeInv, TypeOK, Working, RequestWithCode, grants, world
<1>3. ASSUME NEW q \in Request, Backfill(q)
      PROVE  TypeInv'
  BY <1>3, RowUpdates DEF TypeInv, TypeOK, Working, Backfill, admission, grants, world
<1> QED
  BY <1>1, <1>2, <1>3 DEF Customer

\* Removing a Runtime row and its credential, and closing the request.
LEMMA DeleteType ==
    ASSUME TypeInv, NEW q \in Request, DeleteRuntime(q)
    PROVE  /\ row' \in [Request -> Host \cup {None}]
           /\ cred' \in [Request -> {None} \cup Credential]
BY DEF TypeInv, TypeOK, DeleteRuntime

LEMMA CloseType ==
    ASSUME TypeInv, NEW q \in Request, NEW s \in {"running", "failed", "cancelled"},
           NEW h \in Runner \cup {None}, Close(q, s, h)
    PROVE  req' \in [Request -> RequestRow]
BY RowUpdates DEF TypeInv, TypeOK, Close

LEMMA OperatorType ==
    ASSUME TypeInv, Operator
    PROVE  TypeInv'
<1>1. ASSUME NEW q \in Request, Cancel(q)
      PROVE  TypeInv'
  BY <1>1, DeleteType, CloseType
     DEF TypeInv, TypeOK, Working, Cancel, RevokeProjectKeys, admission, world
<1>2. CASE \E c \in Code : RevokeCode(c)
  BY <1>2 DEF TypeInv, TypeOK, Working, RevokeCode, grants, world
<1>3. CASE \E a \in Artifact : RetireArtifact(a)
  BY <1>3 DEF TypeInv, TypeOK, Working, RetireArtifact, grants, world
<1> QED
  BY <1>1, <1>2, <1>3 DEF Operator

LEMMA ExpireType ==
    ASSUME TypeInv, NEW q \in Request, Expire(q)
    PROVE  TypeInv'
BY RowUpdates DEF TypeInv, TypeOK, Working, Expire, admission, grants, world

LEMMA PreflightType ==
    ASSUME TypeInv, NEW w \in Runner, Preflight(w)
    PROVE  TypeInv'
<1>1. Inventory \in Nat
  BY InventoryType DEF TypeInv
<1>2. PICK n \in Nat \cup {Unverified} : run' = [run EXCEPT ![w].inventory = n]
  BY <1>1 DEF Preflight
<1>3. run' \in [Runner -> RunnerState]
  BY <1>2, RunnerUpdates DEF TypeInv, TypeOK
<1>4. Working'
  BY <1>2 DEF TypeInv, TypeOK, Working, RunnerState
<1> QED
  BY <1>3, <1>4 DEF TypeInv, TypeOK, Preflight, admission, grants, world

\* A spec that a claim pins names a launchable artifact.
LEMMA PinnedSpecType ==
    ASSUME TypeInv, NEW q \in Request, SpecLaunchable(q)
    PROVE  PinnedSpec(q) \in [artifact : Artifact, chat : BOOLEAN]
BY DEF TypeInv, TypeOK, RequestRow, SpecLaunchable, PinnedSpec

LEMMA LeaseType ==
    ASSUME TypeInv, NEW w \in Runner, Lease(w)
    PROVE  TypeInv'
<1>1. PICK q \in Request :
         /\ req[q].leases < MaxLease
         /\ SpecLaunchable(q)
         /\ req' = [req EXCEPT ![q] =
               [req[q] EXCEPT !.status = "launching", !.holder = w, !.live = TRUE,
                              !.token = req[q].leases + 1, !.leases = req[q].leases + 1,
                              !.spec = PinnedSpec(q)]]
         /\ run' = [run EXCEPT ![w] =
               [run[w] EXCEPT !.pc = IF Enrolled THEN "credential" ELSE "key",
                              !.req = q, !.token = req[q].leases + 1,
                              !.seen = journal[q], !.inFlight = InFlight']]
  BY DEF Lease
<1> DEFINE t == req[q].leases + 1
           pc == IF Enrolled THEN "credential" ELSE "key"
           row1 == [req[q] EXCEPT !.status = "launching", !.holder = w, !.live = TRUE,
                                  !.token = t, !.leases = t, !.spec = PinnedSpec(q)]
           run1 == [run[w] EXCEPT !.pc = pc, !.req = q, !.token = t,
                                  !.seen = journal[q], !.inFlight = InFlight']
<1>2. t \in 1..MaxLease /\ t \in 0..MaxLease
  BY <1>1, LeaseRange DEF TypeInv, TypeOK, RequestRow
<1>3. pc \in Pc
  BY DEF Pc
<1>4. req' = [req EXCEPT ![q] = row1] /\ run' = [run EXCEPT ![w] = run1]
  BY <1>1
<1>5. run1.req = q /\ run1.token = t
  BY DEF TypeInv, TypeOK, RunnerState
<1> HIDE DEF t, pc
<1>6. row1 \in RequestRow
  BY <1>1, <1>2, PinnedSpecType, RowUpdates DEF TypeInv, TypeOK
<1>7. run1 \in RunnerState
  <2>1. InFlight' \in Nat
    BY PhalaFinite, FS_CardinalityType DEF InFlight
  <2>2. journal[q] \in Transition /\ run[w] \in RunnerState
    BY DEF TypeInv, TypeOK
  <2> QED
    BY <1>2, <1>3, <2>1, <2>2, RunnerUpdates
<1> HIDE DEF row1, run1
<1>8. req' \in [Request -> RequestRow] /\ run' \in [Runner -> RunnerState]
  BY <1>4, <1>6, <1>7 DEF TypeInv, TypeOK
<1>9. Working'
  BY <1>2, <1>4, <1>5 DEF TypeInv, TypeOK, Working
<1> QED
  BY <1>8, <1>9 DEF TypeInv, TypeOK, Lease, admission, grants, world

LEMMA CredentialType ==
    ASSUME TypeInv, NEW w \in Runner, ProvisionCredential(w)
    PROVE  TypeInv'
<1> DEFINE q == run[w].req
<1>1. run[w].pc = "credential" /\ q \in Request /\ run[w].token \in 1..MaxLease
  BY DEF ProvisionCredential, TypeInv, Working
<1>2. cred' \in [Request -> {None} \cup Credential]
  <2>1. CASE UNCHANGED cred
    BY <2>1 DEF TypeInv, TypeOK
  <2>2. CASE cred' = [cred EXCEPT ![q] =
                        [host |-> HostOf[w], lease |-> run[w].token, active |-> FALSE,
                         bound |-> row[q] # None]]
    <3>1. [host |-> HostOf[w], lease |-> run[w].token, active |-> FALSE,
           bound |-> row[q] # None] \in Credential
      BY <1>1 DEF Credential, Host
    <3> QED
      BY <1>1, <2>2, <3>1 DEF TypeInv, TypeOK
  <2> QED
    BY <2>1, <2>2 DEF ProvisionCredential
<1>3. run' \in [Runner -> RunnerState] /\ Working'
  BY <1>1, GotoType, ReturnType DEF ProvisionCredential, Pc
<1> QED
  BY <1>2, <1>3 DEF TypeInv, TypeOK, ProvisionCredential, admission, world

LEMMA KeyType ==
    ASSUME TypeInv, NEW w \in Runner, ProvisionKey(w)
    PROVE  TypeInv'
<1> DEFINE q == run[w].req
<1>1. run[w].pc = "key" /\ q \in Request /\ run[w].token \in 1..MaxLease
  BY DEF ProvisionKey, TypeInv, Working
<1>2. keys' \in [Request -> SUBSET (1..MaxLease)]
  <2>1. CASE UNCHANGED keys
    BY <2>1 DEF TypeInv, TypeOK
  <2>2. CASE keys' = [keys EXCEPT ![q] = @ \cup {run[w].token}]
    BY <1>1, <2>2 DEF TypeInv, TypeOK
  <2> QED
    BY <2>1, <2>2 DEF ProvisionKey
<1>3. keyed' \in [Request -> BOOLEAN]
  <2>1. CASE UNCHANGED keyed
    BY <2>1 DEF TypeInv, TypeOK
  <2>2. CASE keyed' = [keyed EXCEPT ![q] =
                @ \/ (IF q \in Phala THEN row[q] # None ELSE row[q] = HostOf[w])]
    BY <1>1, <2>2 DEF TypeInv, TypeOK
  <2> QED
    BY <2>1, <2>2 DEF ProvisionKey
<1>4. run' \in [Runner -> RunnerState] /\ Working'
  <2>1. CASE \E pc \in Pc : Goto(w, pc)
    BY <1>1, <2>1, GotoType
  <2>2. CASE \E pc \in Pc : run' = [run EXCEPT ![w] = [@ EXCEPT !.pc = pc, !.key = TRUE]]
    <3>1. PICK pc \in Pc : run' = [run EXCEPT ![w] = [run[w] EXCEPT !.pc = pc, !.key = TRUE]]
      BY <2>2
    <3> DEFINE r == [run[w] EXCEPT !.pc = pc, !.key = TRUE]
    <3>2. r \in RunnerState
      BY RunnerUpdates DEF TypeInv, TypeOK
    <3>3. r.req = q /\ r.token = run[w].token
      BY DEF TypeInv, TypeOK, RunnerState
    <3>4. run' = [run EXCEPT ![w] = r]
      BY <3>1
    <3> HIDE DEF r
    <3> QED
      BY <1>1, <3>2, <3>3, <3>4 DEF TypeInv, TypeOK, Working
  <2> QED
    BY <2>1, <2>2 DEF ProvisionKey, Pc
<1> QED
  BY <1>2, <1>3, <1>4 DEF TypeInv, TypeOK, ProvisionKey, admission, world

LEMMA KataLaunchType ==
    ASSUME TypeInv, NEW w \in Runner, KataLaunch(w)
    PROVE  TypeInv'
<1>1. run[w].pc = "kata" /\ run[w].req \in Request
  BY DEF KataLaunch, TypeInv, Working
<1>2. run' \in [Runner -> RunnerState] /\ Working'
  BY <1>1, GotoType DEF KataLaunch, Pc
<1>3. containers' \in [Request -> SUBSET Host]
  BY <1>1 DEF KataLaunch, TypeInv, TypeOK, Host
<1> QED
  BY <1>2, <1>3 DEF TypeInv, TypeOK, KataLaunch, admission, grants

\* A journal entry, at whichever step of the launch.
LEMMA RecordType ==
    ASSUME TypeInv, NEW w \in Runner, NEW from \in Pc \ {"idle"}, NEW to \in Recorded,
           NEW next \in Pc, Record(w, from, to, next)
    PROVE  TypeInv'
<1>1. run[w].pc # "idle" /\ run[w].req \in Request
  BY DEF Record, TypeInv, Working
<1>2. run' \in [Runner -> RunnerState] /\ Working'
  BY <1>1, GotoType, AnsweredType DEF Record, Pc
<1>3. journal' \in [Request -> Transition]
  BY <1>1 DEF Record, TypeInv, TypeOK, Transition
<1> QED
  BY <1>2, <1>3 DEF TypeInv, TypeOK, Record, admission, grants, world

LEMMA ResumeAtType == \A j \in Transition : ResumeAt(j) \in Pc
BY DEF ResumeAt, Transition, Recorded, Pc

LEMMA PhalaStepType ==
    ASSUME TypeInv, NEW w \in Runner, PhalaStep(w)
    PROVE  TypeInv'
<1>1. CASE PhalaAdmit(w)
  <2>1. run[w].seen \in Transition
    BY DEF TypeInv, TypeOK, RunnerState
  <2>2. PICK pc \in Pc : Goto(w, pc)
    BY <1>1, <2>1, ResumeAtType DEF PhalaAdmit, Pc
  <2>3. run' \in [Runner -> RunnerState] /\ Working'
    BY <1>1, <2>2, GotoType DEF PhalaAdmit
  <2> QED
    BY <1>1, <2>3 DEF TypeInv, TypeOK, PhalaAdmit, admission, grants, world
<1>2. CASE ReserveCorrelation(w) \/ StartProvision(w) \/ RecordUnknown(w)
           \/ RecordProvisioned(w) \/ StartCommit(w)
  BY <1>2, RecordType
     DEF ReserveCorrelation, StartProvision, RecordUnknown, RecordProvisioned, StartCommit,
         Pc, Recorded
<1>3. CASE Provision(w)
  <2>1. run[w].pc = "provision" /\ run[w].req \in Request
    BY <1>3 DEF Provision, TypeInv, Working
  <2>2. run' \in [Runner -> RunnerState] /\ Working'
    BY <1>3, <2>1, GotoType DEF Provision, Pc
  <2>3. provisions' \in [Request -> Nat]
    <3>1. CASE UNCHANGED provisions
      BY <3>1 DEF TypeInv, TypeOK
    <3>2. CASE provisions' = [provisions EXCEPT ![run[w].req] = @ + 1]
      BY <2>1, <3>2 DEF TypeInv, TypeOK
    <3> QED
      BY <1>3, <3>1, <3>2 DEF Provision
  <2> QED
    BY <1>3, <2>2, <2>3 DEF TypeInv, TypeOK, Provision, admission, grants
<1>4. CASE Commit(w)
  <2>1. run[w].pc = "commit" /\ run[w].req \in Request
    BY <1>4 DEF Commit, TypeInv, Working
  <2>2. run' \in [Runner -> RunnerState] /\ Working'
    BY <1>4, <2>1, GotoType DEF Commit, Pc
  <2>3. cvms' \in [Request -> Nat]
    <3>1. CASE UNCHANGED cvms
      BY <3>1 DEF TypeInv, TypeOK
    <3>2. CASE cvms' = [cvms EXCEPT ![run[w].req] = @ + 1]
      BY <2>1, <3>2 DEF TypeInv, TypeOK
    <3> QED
      BY <1>4, <3>1, <3>2 DEF Commit
  <2> QED
    BY <1>4, <2>2, <2>3 DEF TypeInv, TypeOK, Commit, admission, grants
<1>5. CASE Reconcile(w) \/ AwaitReadiness(w)
  <2>1. run' \in [Runner -> RunnerState] /\ Working'
    BY <1>5, GotoType DEF Reconcile, AwaitReadiness, Pc
  <2> QED
    BY <1>5, <2>1
       DEF TypeInv, TypeOK, Reconcile, AwaitReadiness, admission, grants, world
<1> QED
  BY <1>1, <1>2, <1>3, <1>4, <1>5 DEF PhalaStep

\* Publishing keeps the host and the journal well-typed.
LEMMA PublishType ==
    ASSUME TypeInv, NEW w \in Runner, NEW q \in Request, NEW to \in Recorded,
           Publish(w, q, to)
    PROVE  /\ journal' \in [Request -> Transition]
           /\ row' \in [Request -> Host \cup {None}]
BY DEF TypeInv, TypeOK, Publish, RuntimeHost, Transition, Host

LEMMA RegisterType ==
    ASSUME TypeInv, NEW w \in Runner, Register(w)
    PROVE  TypeInv'
<1> DEFINE q == run[w].req
<1>1. run[w].pc = "register" /\ q \in Request
  BY DEF Register, TypeInv, Working
<1>2. run' \in [Runner -> RunnerState] /\ Working'
  BY <1>1, GotoType, AnsweredType DEF Register, Pc
<1>3. /\ journal' \in [Request -> Transition]
      /\ row' \in [Request -> Host \cup {None}]
  BY <1>1, PublishType DEF Register, TypeInv, TypeOK, Recorded
<1>4. cred' \in [Request -> {None} \cup Credential]
  <2>1. CASE UNCHANGED cred
    BY <2>1 DEF TypeInv, TypeOK
  <2>2. CASE cred' = [cred EXCEPT ![q] =
                        IF @ = None THEN @ ELSE [@ EXCEPT !.bound = TRUE]]
    <3>1. \A c \in Credential : [c EXCEPT !.bound = TRUE] \in Credential
      BY DEF Credential
    <3> QED
      BY <1>1, <2>2, <3>1 DEF TypeInv, TypeOK
  <2> QED
    BY <2>1, <2>2 DEF Register
<1> QED
  BY <1>2, <1>3, <1>4 DEF TypeInv, TypeOK, Register, admission, world

LEMMA CompleteType ==
    ASSUME TypeInv, NEW w \in Runner, Complete(w)
    PROVE  TypeInv'
<1> DEFINE q == run[w].req
           live == cred[q].lease = req[q].token /\ req[q].live
<1>1. run[w].pc = "complete" /\ q \in Request
  BY DEF Complete, TypeInv, Working
<1>2. run' \in [Runner -> RunnerState] /\ Working'
  BY <1>1, GotoType, ReturnType DEF Complete, Pc
<1>3. /\ journal' \in [Request -> Transition]
      /\ row' \in [Request -> Host \cup {None}]
  BY <1>1, PublishType DEF Complete, TypeInv, TypeOK, Recorded
<1>4. cred' \in [Request -> {None} \cup Credential]
  <2>1. CASE UNCHANGED cred
    BY <2>1 DEF TypeInv, TypeOK
  <2>2. CASE cred' = [cred EXCEPT ![q] =
                        IF @ = None THEN @
                        ELSE [@ EXCEPT !.bound = TRUE, !.active = live]]
    <3>1. live \in BOOLEAN
      BY <1>1 DEF TypeInv, TypeOK, RequestRow
    <3> HIDE DEF live
    <3>2. \A c \in Credential : [c EXCEPT !.bound = TRUE, !.active = live] \in Credential
      BY <3>1 DEF Credential
    <3> QED
      BY <1>1, <2>2, <3>2 DEF TypeInv, TypeOK
  <2> QED
    BY <2>1, <2>2 DEF Complete
<1>5. req' \in [Request -> RequestRow]
  <2>1. CASE UNCHANGED req
    BY <2>1 DEF TypeInv, TypeOK
  <2>2. CASE Close(q, "running", req[q].holder)
    <3>1. req[q].holder \in Runner \cup {None}
      BY <1>1 DEF TypeInv, TypeOK, RequestRow
    <3> QED
      BY <1>1, <2>2, <3>1, CloseType
  <2> QED
    BY <2>1, <2>2 DEF Complete
<1> QED
  BY <1>2, <1>3, <1>4, <1>5 DEF TypeInv, TypeOK, Complete, admission, world

LEMMA FailType ==
    ASSUME TypeInv, NEW w \in Runner, Fail(w)
    PROVE  TypeInv'
<1> DEFINE q == run[w].req
<1>1. run[w].pc = "fail" /\ q \in Request
  BY DEF Fail, TypeInv, Working
<1>2. run' \in [Runner -> RunnerState] /\ Working'
  BY ReturnType DEF Fail
<1>3. keys' \in [Request -> SUBSET (1..MaxLease)]
  <2>1. CASE UNCHANGED keys
    BY <2>1 DEF TypeInv, TypeOK
  <2>2. CASE \E T : keys' = [keys EXCEPT ![q] = @ \ T]
    BY <1>1, <2>2 DEF TypeInv, TypeOK
  <2> QED
    BY <2>1, <2>2 DEF Fail
<1>4. /\ row' \in [Request -> Host \cup {None}]
      /\ cred' \in [Request -> {None} \cup Credential]
  BY <1>1, DeleteType DEF Fail, TypeInv, TypeOK
<1>5. req' \in [Request -> RequestRow]
  <2>1. CASE UNCHANGED req
    BY <2>1 DEF TypeInv, TypeOK
  <2>2. CASE Close(q, "failed", req[q].holder)
    <3>1. req[q].holder \in Runner \cup {None}
      BY <1>1 DEF TypeInv, TypeOK, RequestRow
    <3> QED
      BY <1>1, <2>2, <3>1, CloseType
  <2> QED
    BY <2>1, <2>2 DEF Fail
<1> QED
  BY <1>2, <1>3, <1>4, <1>5 DEF TypeInv, TypeOK, Fail, admission, world

LEMMA CrashType ==
    ASSUME TypeInv, NEW w \in Runner, Crash(w)
    PROVE  TypeInv'
<1> DEFINE r == [run[w] EXCEPT !.pc = "idle", !.req = None, !.token = 0, !.seen = None,
                               !.inFlight = 0, !.key = FALSE, !.inventory = Unverified]
<1>1. r \in RunnerState
  BY RunnerUpdates DEF TypeInv, TypeOK
<1>2. r.pc = "idle"
  BY DEF TypeInv, TypeOK, RunnerState
<1>3. run' = [run EXCEPT ![w] = r]
  BY DEF Crash
<1> HIDE DEF r
<1> QED
  BY <1>1, <1>2, <1>3 DEF TypeInv, TypeOK, Working, Crash, admission, grants, world

LEMMA NextType == TypeInv /\ [Next]_vars => TypeInv'
<1> SUFFICES ASSUME TypeInv, [Next]_vars
             PROVE  TypeInv'
  OBVIOUS
<1>1. CASE Customer
  BY <1>1, CustomerType
<1>2. CASE Operator
  BY <1>2, OperatorType
<1>3. CASE \E q \in Request : Expire(q)
  BY <1>3, ExpireType
<1>4. ASSUME NEW w \in Runner, Preflight(w) \/ Crash(w)
      PROVE  TypeInv'
  BY <1>4, PreflightType, CrashType
<1>5. ASSUME NEW w \in Runner, RunnerStep(w)
      PROVE  TypeInv'
  <2>1. CASE BindIdentity(w) \/ Cleanup(w)
    <3>1. run' \in [Runner -> RunnerState] /\ Working'
      BY <2>1, GotoType DEF BindIdentity, Cleanup, Pc
    <3>2. containers' \in [Request -> SUBSET Host]
      <4>1. CASE UNCHANGED containers
        BY <4>1 DEF TypeInv, TypeOK
      <4>2. CASE \E q : containers' = [containers EXCEPT ![q] = @ \ {HostOf[w]}]
        BY <4>2 DEF TypeInv, TypeOK
      <4> QED
        BY <2>1, <4>1, <4>2 DEF BindIdentity, Cleanup, world
    <3> QED
      BY <2>1, <3>1, <3>2
         DEF TypeInv, TypeOK, BindIdentity, Cleanup, admission, grants, world
  <2> QED
    BY <1>5, <2>1, LeaseType, CredentialType, KeyType, KataLaunchType, PhalaStepType,
       RegisterType, CompleteType, FailType
       DEF RunnerStep
<1>6. CASE UNCHANGED vars
  BY <1>6 DEF vars, admission, grants, world, TypeInv, TypeOK, Working
<1> QED
  BY <1>1, <1>2, <1>3, <1>4, <1>5, <1>6 DEF Next

\* The type invariant of the run creation_phala, and that a Runner which is not
\* idle holds a request and a lease number.
THEOREM TypeCorrect == Spec => []TypeInv
BY InitType, NextType, PTL DEF Spec

\* TypeOK for every number of requests, Runners, hosts and claims.
THEOREM CreationTyped == Spec => []TypeOK
<1>1. TypeInv => TypeOK
  BY DEF TypeInv
<1> QED
  BY <1>1, TypeCorrect, PTL
=============================================================================
