------------------------- MODULE AgentCreationSafety -------------------------
(***************************************************************************)
(* The safety invariants of AgentCreation, for every number of requests,   *)
(* Runners, hosts and claims: Phala is paid once, launch codes and         *)
(* entitlements add up, keys and credentials follow the request, and a     *)
(* Kata agent has one container.                                           *)
(***************************************************************************)
EXTENDS AgentCreationTypes

----------------------------------------------------------------------------
(* What a step does to the fields of a Runner and of a request row.        *)

Others(w) == \A v \in Runner \ {w} : run'[v] = run[v]

\* The Runner stays in its launch, at pc.
Moved(w, pc) ==
    /\ Others(w)
    /\ run'[w].pc = pc
    /\ run'[w].req = run[w].req
    /\ run'[w].token = run[w].token
    /\ run'[w].seen = run[w].seen

\* The Runner has left its launch.
Left(w) == Others(w) /\ run'[w].pc = "idle" /\ run'[w].req = None

LEMMA GotoFields ==
    ASSUME TypeInv, NEW w \in Runner, NEW pc, Goto(w, pc)
    PROVE  Moved(w, pc)
BY DEF TypeInv, TypeOK, RunnerState, Goto, Moved, Others

LEMMA AnsweredFields ==
    ASSUME TypeInv, NEW w \in Runner, NEW next, NEW failed, Answered(w, next, failed)
    PROVE  Moved(w, next) \/ Moved(w, failed)
BY GotoFields DEF Answered

LEMMA ReturnFields ==
    ASSUME TypeInv, NEW w \in Runner, Return(w) \/ Crash(w)
    PROVE  Left(w)
<1>1. PICK n : run' = [run EXCEPT ![w] =
                 [run[w] EXCEPT !.pc = "idle", !.req = None, !.token = 0, !.seen = None,
                                !.inFlight = 0, !.key = FALSE, !.inventory = n]]
  BY DEF Return, Crash
<1> QED
  BY <1>1 DEF TypeInv, TypeOK, RunnerState, Left, Others

\* The other requests keep their rows, and q keeps its claim count and spec.
Elsewhere(q) == \A p \in Request \ {q} : req'[p] = req[p]

Closed(q, s) ==
    /\ Elsewhere(q)
    /\ req'[q].status = s
    /\ req'[q].spec = req[q].spec
    /\ req'[q].chat = req[q].chat

LEMMA CloseFields ==
    ASSUME TypeInv, NEW q \in Request, NEW s, NEW h, Close(q, s, h)
    PROVE  Closed(q, s)
<1> DEFINE r == [req[q] EXCEPT !.status = s, !.holder = h, !.token = 0, !.live = FALSE]
<1>1. r.status = s /\ r.spec = req[q].spec /\ r.chat = req[q].chat
  BY DEF TypeInv, TypeOK, RequestRow
<1>2. req' = [req EXCEPT ![q] = r]
  BY DEF Close
<1> HIDE DEF r
<1> QED
  BY <1>1, <1>2 DEF TypeInv, TypeOK, Closed, Elsewhere

\* What the owner's calls and an expiring lease change.
Touched(q) ==
    /\ Elsewhere(q)
    /\ req'[q].holder = req[q].holder
    /\ req'[q].token = req[q].token
    /\ req'[q].spec = req[q].spec
    /\ \/ req[q].status = "none" /\ req'[q].status = "requested"
       \/ req[q].status = "requested" /\ req'[q].status = "requested"
       \/ /\ req[q].status = "launching" /\ req'[q].status = "launching"
          /\ req'[q].chat = req[q].chat

LEMMA TouchedFields ==
    ASSUME TypeInv, NEW q \in Request,
           \/ \E chat \in BOOLEAN : RequestBilled(q, chat)
           \/ \E c \in Code, chat \in BOOLEAN : RequestWithCode(q, c, chat)
           \/ Backfill(q)
           \/ Expire(q)
    PROVE  Touched(q)
<1>1. CASE req[q].status = "none" /\ \E chat \in BOOLEAN : Insert(q, chat)
  <2>1. PICK chat \in BOOLEAN :
           req' = [req EXCEPT ![q] = [req[q] EXCEPT !.status = "requested", !.chat = chat]]
    BY <1>1 DEF Insert
  <2> QED
    BY <1>1, <2>1 DEF TypeInv, TypeOK, RequestRow, Touched, Elsewhere
<1>2. CASE Backfill(q)
  BY <1>2 DEF Backfill, MayBackfill, TypeInv, TypeOK, RequestRow, Touched, Elsewhere
<1>3. CASE Expire(q)
  BY <1>3 DEF Expire, TypeInv, TypeOK, RequestRow, Touched, Elsewhere
<1> QED
  BY <1>1, <1>2, <1>3 DEF RequestBilled, RequestWithCode

\* What a claim of q by w changes.
Claimed(w, q) ==
    /\ Elsewhere(q) /\ Others(w)
    /\ req[q].status \in Pending
    /\ req'[q].status = "launching"
    /\ req'[q].holder = w
    /\ req'[q].token = run'[w].token
    /\ req'[q].spec = PinnedSpec(q)
    /\ req'[q].chat = req[q].chat
    /\ run[w].pc = "idle"
    /\ run'[w].pc = IF Enrolled THEN "credential" ELSE "key"
    /\ run'[w].req = q
    /\ run'[w].seen = journal[q]
    /\ q \in Phala <=> w \in PhalaRunner

LEMMA LeaseFields ==
    ASSUME TypeInv, NEW w \in Runner, Lease(w)
    PROVE  \E q \in Request : Claimed(w, q)
<1>1. PICK q \in Request :
         /\ OldestClaimable(w, q)
         /\ req' = [req EXCEPT ![q] =
               [req[q] EXCEPT !.status = "launching", !.holder = w, !.live = TRUE,
                              !.token = req[q].leases + 1, !.leases = req[q].leases + 1,
                              !.spec = PinnedSpec(q)]]
         /\ run' = [run EXCEPT ![w] =
               [run[w] EXCEPT !.pc = IF Enrolled THEN "credential" ELSE "key",
                              !.req = q, !.token = req[q].leases + 1,
                              !.seen = journal[q], !.inFlight = InFlight']]
  BY DEF Lease
<1>2. req[q].status \in Pending /\ (q \in Phala <=> w \in PhalaRunner)
  BY <1>1 DEF OldestClaimable, Claimable, Pending
<1>3. /\ Elsewhere(q)
      /\ req'[q].status = "launching"
      /\ req'[q].holder = w
      /\ req'[q].token = req[q].leases + 1
      /\ req'[q].spec = PinnedSpec(q)
      /\ req'[q].chat = req[q].chat
  BY <1>1 DEF TypeInv, TypeOK, RequestRow, Elsewhere
<1>4. /\ Others(w)
      /\ run'[w].pc = IF Enrolled THEN "credential" ELSE "key"
      /\ run'[w].req = q
      /\ run'[w].token = req[q].leases + 1
      /\ run'[w].seen = journal[q]
  BY <1>1 DEF TypeInv, TypeOK, RunnerState, Others
<1>5. run[w].pc = "idle"
  BY DEF Lease
<1> QED
  BY <1>2, <1>3, <1>4, <1>5 DEF Claimed

----------------------------------------------------------------------------
(* The provider-operation journal: write before the mutation, once.        *)

Unstarted == {None, "correlation_reserved"}
Bought == {"commit_started", "provider_handle_recorded", "ready"}
Handled == {"provider_handle_recorded", "ready"}

\* The journal of a request bounds what the provider has received for it.
RequestJournal(q) ==
    /\ journal[q] # None => q \in Phala
    /\ journal[q] \in Unstarted => provisions[q] = 0
    /\ journal[q] \notin Bought => cvms[q] = 0
    /\ journal[q] \in Handled => cvms[q] = 1
    /\ provisions[q] \in {0, 1} /\ cvms[q] \in {0, 1}
    /\ req[q].status \in {"failed", "cancelled"} => journal[q] \in Unstarted
    /\ req[q].status = "running" /\ q \in Phala => journal[q] = "ready"
    /\ journal[q] = "ready" => req[q].status = "running"

\* The Runner that holds the lease knows the last entry until it provisions,
\* and again until it commits.
KnowsJournal(w) ==
    LET j == journal[run[w].req]
    IN  /\ run[w].pc \in {"credential", "key", "admit"} => j = run[w].seen
        /\ run[w].pc = "reserve" => j = None
        /\ run[w].pc = "start" => j = "correlation_reserved"
        /\ run[w].pc = "seal" => j = "provisioned"

OnPhala == {"admit", "reserve", "start", "provision", "unknown", "record", "seal",
            "commit", "reconcile", "readiness"}

\* A Runner about to call the provider has an entry that says so, whether its
\* lease still stands or not; and the call has not been made.
RunnerJournal(w) ==
    LET q == run[w].req
    IN  run[w].pc # "idle" =>
           /\ run[w].pc \in OnPhala => q \in Phala
           /\ run[w].pc = "kata" => q \notin Phala
           /\ HoldsLease(w, q) => KnowsJournal(w)
           /\ run[w].seen \in Handled => cvms[q] = 1
           /\ run[w].pc = "provision" => journal[q] \notin Unstarted /\ provisions[q] = 0
           /\ run[w].pc = "commit" => journal[q] \in Bought /\ cvms[q] = 0
           /\ run[w].pc \in {"readiness", "register", "bind", "complete"} /\ q \in Phala
                 => cvms[q] = 1

\* Never two Runners about to make the same call for a request.
OneCaller ==
    \A v, w \in Runner :
        /\ run[v].pc = run[w].pc /\ run[w].pc \in {"provision", "commit"}
        /\ run[v].req = run[w].req
        => v = w

JournalInv ==
    /\ \A q \in Request : RequestJournal(q)
    /\ \A w \in Runner : RunnerJournal(w)
    /\ OneCaller

LEMMA RecordedNotNull ==
    /\ None \notin Recorded
    /\ None # "correlation_reserved" /\ None # "provision_started"
    /\ None # "provision_unknown" /\ None # "provisioned" /\ None # "commit_started"
    /\ None # "provider_handle_recorded" /\ None # "ready"
BY ConstantsAssumption DEF Recorded

journalled == <<journal, cvms, provisions>>

\* A step of w that touches neither the tables nor the provider, and does not
\* bring w to a provider call.
LEMMA MovedJournal ==
    ASSUME TypeInv, JournalInv, NEW w \in Runner, NEW pc, Moved(w, pc),
           pc \notin {"provision", "commit"},
           UNCHANGED <<req, journalled>>, RunnerJournal(w)'
    PROVE  JournalInv'
<1>1. \A q \in Request : RequestJournal(q)'
  BY DEF JournalInv, RequestJournal, journalled
<1>2. \A v \in Runner \ {w} : RunnerJournal(v)'
  BY DEF JournalInv, RunnerJournal, KnowsJournal, HoldsLease, Moved, Others, journalled
<1>3. OneCaller'
  BY DEF JournalInv, OneCaller, Moved, Others
<1> QED
  BY <1>1, <1>2, <1>3 DEF JournalInv

LEMMA LeftJournal ==
    ASSUME TypeInv, JournalInv, NEW w \in Runner, Left(w), UNCHANGED <<req, journalled>>
    PROVE  JournalInv'
<1>1. \A q \in Request : RequestJournal(q)'
  BY DEF JournalInv, RequestJournal, journalled
<1>2. \A v \in Runner : RunnerJournal(v)'
  BY DEF JournalInv, RunnerJournal, KnowsJournal, HoldsLease, Left, Others, journalled
<1>3. OneCaller'
  BY DEF JournalInv, OneCaller, Left, Others
<1> QED
  BY <1>1, <1>2, <1>3 DEF JournalInv

\* The customer and the clock.
LEMMA TouchedJournal ==
    ASSUME TypeInv, JournalInv, NEW q \in Request, Touched(q), UNCHANGED <<run, journalled>>
    PROVE  JournalInv'
<1>1. \A p \in Request : RequestJournal(p)'
  BY DEF JournalInv, RequestJournal, journalled, Touched, Elsewhere
<1>2. \A w \in Runner : RunnerJournal(w)'
  <2> SUFFICES ASSUME NEW w \in Runner, run[w].pc # "idle"
               PROVE  RunnerJournal(w)'
    BY DEF RunnerJournal
  <2>1. run[w].req \in Request
    BY DEF TypeInv, Working
  <2>2. HoldsLease(w, run[w].req)' => HoldsLease(w, run[w].req)
    BY <2>1 DEF HoldsLease, Touched, Elsewhere
  <2> QED
    BY <2>2 DEF JournalInv, RunnerJournal, KnowsJournal, journalled
<1>3. OneCaller'
  BY DEF JournalInv, OneCaller
<1> QED
  BY <1>1, <1>2, <1>3 DEF JournalInv

LEMMA CancelJournal ==
    ASSUME TypeInv, JournalInv, NEW q \in Request, Cancel(q)
    PROVE  JournalInv'
<1>1. Closed(q, "cancelled") /\ UNCHANGED <<run, journalled>>
  BY CloseFields DEF Cancel, world, journalled
<1>2. \A p \in Request : RequestJournal(p)'
  BY <1>1, RecordedNotNull
     DEF JournalInv, RequestJournal, journalled, Closed, Elsewhere, Cancel,
         AllowsGenericFailure, Unstarted
<1>3. \A w \in Runner : RunnerJournal(w)'
  <2> SUFFICES ASSUME NEW w \in Runner, run[w].pc # "idle"
               PROVE  RunnerJournal(w)'
    BY <1>1 DEF RunnerJournal
  <2>1. run[w].req \in Request
    BY DEF TypeInv, Working
  <2>2. HoldsLease(w, run[w].req)' => HoldsLease(w, run[w].req)
    BY <1>1, <2>1 DEF HoldsLease, Closed, Elsewhere
  <2> QED
    BY <1>1, <2>2 DEF JournalInv, RunnerJournal, KnowsJournal, journalled
<1>4. OneCaller'
  BY <1>1 DEF JournalInv, OneCaller
<1> QED
  BY <1>2, <1>3, <1>4 DEF JournalInv

LEMMA LeaseJournal ==
    ASSUME TypeInv, JournalInv, NEW w \in Runner, Lease(w)
    PROVE  JournalInv'
<1>1. PICK q \in Request : Claimed(w, q)
  BY LeaseFields
<1>2. UNCHANGED journalled
  BY DEF Lease, world, journalled
<1>3. \A p \in Request : RequestJournal(p)'
  <2> TAKE p \in Request
  <2>1. CASE p = q
    BY <1>1, <1>2, <2>1 DEF JournalInv, RequestJournal, journalled, Claimed, Pending
  <2>2. CASE p # q
    BY <1>1, <1>2, <2>2 DEF JournalInv, RequestJournal, journalled, Claimed, Elsewhere
  <2> QED
    BY <2>1, <2>2
<1>4. RunnerJournal(w)'
  BY <1>1, <1>2
     DEF JournalInv, RequestJournal, RunnerJournal, KnowsJournal, journalled, Claimed, OnPhala
<1>5. \A v \in Runner \ {w} : RunnerJournal(v)'
  <2> SUFFICES ASSUME NEW v \in Runner \ {w}, run[v].pc # "idle"
               PROVE  RunnerJournal(v)'
    BY <1>1 DEF RunnerJournal, Claimed, Others
  <2>1. run[v].req \in Request /\ run'[v] = run[v]
    BY <1>1 DEF TypeInv, Working, Claimed, Others
  <2>2. HoldsLease(v, run[v].req)' => HoldsLease(v, run[v].req)
    BY <1>1, <2>1 DEF HoldsLease, Claimed, Elsewhere
  <2> QED
    BY <1>2, <2>1, <2>2 DEF JournalInv, RunnerJournal, KnowsJournal, journalled
<1>6. OneCaller'
  BY <1>1 DEF JournalInv, OneCaller, Claimed, Others
<1> QED
  BY <1>3, <1>4, <1>5, <1>6 DEF JournalInv

\* A journal entry of the Runner that holds the lease, of a later phase than the
\* last one; nobody else can be about to make the call it announces.
LEMMA EntryJournal ==
    ASSUME TypeInv, JournalInv, NEW w \in Runner, NEW to, NEW pc,
           NEW q \in Request, q = run[w].req, run[w].pc # "idle", HoldsLease(w, q), Moved(w, pc),
           journal' = [journal EXCEPT ![q] = to],
           UNCHANGED <<req, cvms, provisions>>,
           RequestJournal(q)', RunnerJournal(w)',
           journal[q] \notin Unstarted => to \notin Unstarted,
           journal[q] \in Bought => to \in Bought,
           pc = "provision" => journal[q] \in Unstarted,
           pc = "commit" => journal[q] \notin Bought
    PROVE  JournalInv'
<1>1. \A p \in Request \ {q} : journal'[p] = journal[p]
  BY DEF TypeInv, TypeOK, Working
<1>2. journal'[q] = to
  BY <1>1 DEF TypeInv, TypeOK
<1>3. \A p \in Request \ {q} : RequestJournal(p)'
  BY <1>1 DEF JournalInv, RequestJournal
<1>4. \A v \in Runner \ {w} : RunnerJournal(v)'
  <2> SUFFICES ASSUME NEW v \in Runner \ {w}, run[v].pc # "idle"
               PROVE  RunnerJournal(v)'
    BY DEF RunnerJournal, Moved, Others
  <2>1. run[v].req \in Request /\ run'[v] = run[v] /\ RunnerJournal(v)
    BY DEF JournalInv, TypeInv, Working, Moved, Others
  <2>2. CASE run[v].req = q
    <3>1. ~ HoldsLease(v, q)'
      BY <2>1 DEF HoldsLease
    <3> QED
      BY <1>2, <2>1, <2>2, <3>1 DEF RunnerJournal
  <2>3. CASE run[v].req # q
    BY <1>1, <2>1, <2>3 DEF RunnerJournal, KnowsJournal, HoldsLease
  <2> QED
    BY <2>2, <2>3
<1>5. OneCaller'
  <2>1. ASSUME NEW v \in Runner \ {w}, run[v].pc = pc, pc \in {"provision", "commit"},
               run[v].req = q
        PROVE  FALSE
    BY <2>1 DEF JournalInv, RunnerJournal
  <2> QED
    BY <2>1 DEF JournalInv, OneCaller, Moved, Others
<1> QED
  BY <1>3, <1>4, <1>5 DEF JournalInv

LEMMA RecordJournal ==
    ASSUME TypeInv, JournalInv, NEW w \in Runner,
           \/ ReserveCorrelation(w)
           \/ StartProvision(w)
           \/ RecordUnknown(w)
           \/ RecordProvisioned(w)
           \/ StartCommit(w)
    PROVE  JournalInv'
<1>0. PICK q : q = run[w].req
  OBVIOUS
<1>1. PICK from \in OnPhala, to \in Recorded, next \in Pc :
         /\ Record(w, from, to, next)
         /\ \/ from = "reserve" /\ to = "correlation_reserved" /\ next = "start"
            \/ from = "start" /\ to = "provision_started" /\ next = "provision"
            \/ from = "unknown" /\ to = "provision_unknown" /\ next = "fail"
            \/ from = "record" /\ to = "provisioned" /\ next = "seal"
            \/ from = "seal" /\ to = "commit_started" /\ next = "commit"
  BY DEF ReserveCorrelation, StartProvision, RecordUnknown, RecordProvisioned, StartCommit,
         OnPhala, Recorded, Pc
<1>2. /\ run[w].pc = from /\ run[w].pc # "idle"
      /\ q \in Request /\ RunnerJournal(w) /\ RequestJournal(q) /\ q \in Phala
  BY <1>0, <1>1 DEF Record, JournalInv, RunnerJournal, OnPhala, TypeInv, Working
<1>3. UNCHANGED <<req, cvms, provisions>>
  BY <1>1 DEF Record, world
<1>4. CASE Goto(w, "fail") /\ UNCHANGED journal
  <2>1. Moved(w, "fail")
    BY <1>4, GotoFields
  <2>2. RunnerJournal(w)'
    BY <1>0, <1>2, <1>3, <1>4, <2>1 DEF RunnerJournal, KnowsJournal, Moved, OnPhala
  <2> QED
    BY <1>3, <1>4, <2>1, <2>2, MovedJournal DEF journalled
<1>5. CASE /\ MayRecord(w, q, to)
           /\ journal' = [journal EXCEPT ![q] = to]
           /\ Answered(w, next, "fail")
  <2>1. PICK pc \in {next, "fail"} : Moved(w, pc)
    BY <1>5, AnsweredFields
  <2>2. /\ HoldsLease(w, q) /\ KnowsJournal(w)
        /\ journal[q] = to \/ LegalTransition(journal[q], to)
    BY <1>0, <1>2, <1>5 DEF MayRecord, HoldsActiveLease, RunnerJournal
  <2>3. /\ to = "correlation_reserved" => journal[q] = None
        /\ to = "provision_started" => journal[q] = "correlation_reserved"
        /\ to = "provision_unknown"
              => journal[q] \in {"provision_started", "provision_unknown"}
        /\ to = "provisioned"
              => journal[q] \in {"provision_started", "provision_unknown", "provisioned"}
        /\ to = "commit_started" => journal[q] = "provisioned"
    BY <1>0, <1>1, <1>2, <2>2 DEF KnowsJournal, LegalTransition
  <2>4. journal'[q] = to
    BY <1>2, <1>5 DEF TypeInv, TypeOK
  <2>5. req[q].status = "launching"
    BY <2>2 DEF HoldsLease
  <2>6. RequestJournal(q)'
    BY <1>1, <1>2, <1>3, <2>3, <2>4, <2>5, RecordedNotNull
       DEF RequestJournal, Unstarted, Bought, Handled
  <2>7. RunnerJournal(w)'
    BY <1>0, <1>1, <1>2, <1>3, <2>1, <2>3, <2>4, RecordedNotNull
       DEF RunnerJournal, RequestJournal, KnowsJournal, Moved, OnPhala, Unstarted, Bought,
           Handled
  <2> QED
    BY <1>0, <1>1, <1>2, <1>3, <1>5, <2>1, <2>2, <2>3, <2>6, <2>7, RecordedNotNull, EntryJournal
       DEF Unstarted, Bought
<1> QED
  BY <1>0, <1>1, <1>4, <1>5 DEF Record

LEMMA ProvisionJournal ==
    ASSUME TypeInv, JournalInv, NEW w \in Runner, Provision(w)
    PROVE  JournalInv'
<1> DEFINE q == run[w].req
<1>1. /\ run[w].pc = "provision" /\ q \in Request
      /\ RunnerJournal(w) /\ RequestJournal(q)
      /\ UNCHANGED <<req, journal, cvms>>
  BY DEF Provision, JournalInv, TypeInv, Working
<1>2. PICK pc \in {"record", "unknown", "fail"} : Moved(w, pc)
  BY GotoFields DEF Provision
<1>3. CASE UNCHANGED provisions
  <2>1. RunnerJournal(w)'
    BY <1>1, <1>2, <1>3 DEF RunnerJournal, KnowsJournal, Moved, OnPhala
  <2> QED
    BY <1>1, <1>2, <1>3, <2>1, MovedJournal DEF journalled
<1>4. CASE provisions' = [provisions EXCEPT ![q] = @ + 1]
  <2>1. provisions'[q] = 1 /\ \A p \in Request \ {q} : provisions'[p] = provisions[p]
    BY <1>1, <1>4 DEF TypeInv, TypeOK, RunnerJournal
  <2>2. \A p \in Request : RequestJournal(p)'
    BY <1>1, <2>1 DEF JournalInv, RequestJournal, RunnerJournal
  <2>3. RunnerJournal(w)'
    BY <1>1, <1>2 DEF RunnerJournal, KnowsJournal, Moved, OnPhala
  <2>4. \A v \in Runner \ {w} : RunnerJournal(v)'
    <3> SUFFICES ASSUME NEW v \in Runner \ {w}, run[v].pc # "idle"
                 PROVE  RunnerJournal(v)'
      BY <1>2 DEF RunnerJournal, Moved, Others
    <3>1. run[v].req \in Request /\ run'[v] = run[v] /\ RunnerJournal(v)
      BY <1>2 DEF JournalInv, TypeInv, Working, Moved, Others
    <3>2. run[v].pc = "provision" => run[v].req # q
      BY <1>1 DEF JournalInv, OneCaller
    <3> QED
      BY <1>1, <2>1, <3>1, <3>2 DEF RunnerJournal, KnowsJournal, HoldsLease
  <2>5. OneCaller'
    BY <1>2 DEF JournalInv, OneCaller, Moved, Others
  <2> QED
    BY <2>2, <2>3, <2>4, <2>5 DEF JournalInv
<1> QED
  BY <1>3, <1>4 DEF Provision

LEMMA CommitJournal ==
    ASSUME TypeInv, JournalInv, NEW w \in Runner, Commit(w)
    PROVE  JournalInv'
<1> DEFINE q == run[w].req
<1>1. /\ run[w].pc = "commit" /\ q \in Request
      /\ RunnerJournal(w) /\ RequestJournal(q)
      /\ UNCHANGED <<req, journal, provisions>>
  BY DEF Commit, JournalInv, TypeInv, Working
<1>2. CASE Goto(w, "fail") /\ UNCHANGED cvms
  <2>1. Moved(w, "fail")
    BY <1>2, GotoFields
  <2>2. RunnerJournal(w)'
    BY <1>1, <1>2, <2>1 DEF RunnerJournal, KnowsJournal, Moved, OnPhala
  <2> QED
    BY <1>1, <1>2, <2>1, <2>2, MovedJournal DEF journalled
<1>3. CASE /\ cvms' = [cvms EXCEPT ![q] = @ + 1]
           /\ \E pc \in {"readiness", "fail"} : Goto(w, pc)
  <2>1. cvms'[q] = 1 /\ \A p \in Request \ {q} : cvms'[p] = cvms[p]
    BY <1>1, <1>3 DEF TypeInv, TypeOK, RunnerJournal
  <2>2. PICK pc \in {"readiness", "fail"} : Moved(w, pc)
    BY <1>3, GotoFields
  <2>3. \A p \in Request : RequestJournal(p)'
    BY <1>1, <2>1 DEF JournalInv, RequestJournal, RunnerJournal
  <2>4. RunnerJournal(w)'
    BY <1>1, <2>1, <2>2 DEF RunnerJournal, KnowsJournal, Moved, OnPhala
  <2>5. \A v \in Runner \ {w} : RunnerJournal(v)'
    <3> SUFFICES ASSUME NEW v \in Runner \ {w}, run[v].pc # "idle"
                 PROVE  RunnerJournal(v)'
      BY <2>2 DEF RunnerJournal, Moved, Others
    <3>1. run[v].req \in Request /\ run'[v] = run[v] /\ RunnerJournal(v)
      BY <2>2 DEF JournalInv, TypeInv, Working, Moved, Others
    <3>2. run[v].pc = "commit" => run[v].req # q
      BY <1>1 DEF JournalInv, OneCaller
    <3> QED
      BY <1>1, <2>1, <3>1, <3>2 DEF RunnerJournal, KnowsJournal, HoldsLease
  <2>6. OneCaller'
    BY <2>2 DEF JournalInv, OneCaller, Moved, Others
  <2> QED
    BY <2>3, <2>4, <2>5, <2>6 DEF JournalInv
<1> QED
  BY <1>2, <1>3 DEF Commit

LEMMA ResumeAtJournal ==
    ASSUME NEW j \in Transition
    PROVE  /\ ResumeAt(j) \in {"reserve", "start", "fail", "seal", "reconcile", "readiness"}
           /\ ResumeAt(j) = "reserve" => j = None
           /\ ResumeAt(j) = "start" => j = "correlation_reserved"
           /\ ResumeAt(j) = "seal" => j = "provisioned"
           /\ ResumeAt(j) = "readiness" => j \in Handled
BY RecordedNotNull DEF ResumeAt, Transition, Recorded, Handled

\* The steps of a launch that only move the Runner, or change what the journal
\* does not account for.
LEMMA LaunchJournal ==
    ASSUME TypeInv, JournalInv, NEW w \in Runner,
           \/ ProvisionCredential(w)
           \/ ProvisionKey(w)
           \/ KataLaunch(w)
           \/ PhalaAdmit(w)
           \/ Reconcile(w)
           \/ AwaitReadiness(w)
           \/ BindIdentity(w)
           \/ Cleanup(w)
    PROVE  JournalInv'
<1>0. PICK q : q = run[w].req
  OBVIOUS
<1>1. /\ run[w].pc # "idle" /\ q \in Request
      /\ RunnerJournal(w) /\ RequestJournal(q)
  BY <1>0 DEF ProvisionCredential, ProvisionKey, KataLaunch, PhalaAdmit, Reconcile,
       AwaitReadiness, BindIdentity, Cleanup, JournalInv, TypeInv, Working
<1>2. UNCHANGED <<req, journalled>>
  BY DEF ProvisionCredential, ProvisionKey, KataLaunch, PhalaAdmit, Reconcile,
       AwaitReadiness, BindIdentity, Cleanup, world, journalled
<1>3. CASE ProvisionCredential(w)
  <2>1. CASE Return(w)
    BY <1>2, <2>1, ReturnFields, LeftJournal
  <2>2. CASE ~ Return(w)
    <3>1. PICK pc \in {"key", "fail"} : Moved(w, pc)
      BY <1>3, <2>2, GotoFields DEF ProvisionCredential
    <3>2. RunnerJournal(w)'
      BY <1>0, <1>1, <1>2, <1>3, <3>1
         DEF ProvisionCredential, RunnerJournal, KnowsJournal, HoldsLease, Moved, OnPhala,
             journalled
    <3> QED
      BY <1>2, <3>1, <3>2, MovedJournal
  <2> QED
    BY <2>1, <2>2
<1>4. CASE ProvisionKey(w)
  <2>1. PICK pc : Moved(w, pc) /\ (\/ pc = "fail"
                                   \/ pc = "admit" /\ q \in Phala
                                   \/ pc = "kata" /\ q \notin Phala)
    <3>1. CASE Goto(w, "fail")
      BY <3>1, GotoFields
    <3>2. CASE ~ Goto(w, "fail")
      <4>1. PICK pc : /\ run' = [run EXCEPT ![w] = [run[w] EXCEPT !.pc = pc, !.key = TRUE]]
                      /\ \/ pc = "admit" /\ q \in Phala
                         \/ pc = "kata" /\ q \notin Phala
        BY <1>0, <1>4, <3>2 DEF ProvisionKey
      <4> QED
        BY <4>1 DEF Moved, Others, TypeInv, TypeOK, RunnerState
    <3> QED
      BY <3>1, <3>2
  <2>2. RunnerJournal(w)'
    BY <1>0, <1>1, <1>2, <1>4, <2>1
       DEF ProvisionKey, RunnerJournal, KnowsJournal, HoldsLease, Moved, OnPhala, journalled
  <2> QED
    BY <1>2, <2>1, <2>2, MovedJournal
<1>5. CASE KataLaunch(w)
  <2>1. PICK pc \in {"register", "fail"} : Moved(w, pc)
    BY <1>5, GotoFields DEF KataLaunch
  <2>2. run[w].pc = "kata"
    BY <1>5 DEF KataLaunch
  <2>3. q \notin Phala
    BY <1>0, <1>1, <2>2 DEF RunnerJournal
  <2>4. RunnerJournal(w)'
    BY <1>0, <1>1, <1>2, <2>1, <2>2, <2>3
       DEF RunnerJournal, KnowsJournal, HoldsLease, Moved, OnPhala, journalled
  <2> QED
    BY <1>2, <2>1, <2>4, MovedJournal
<1>6. CASE PhalaAdmit(w)
  <2> DEFINE seen == run[w].seen
  <2>1. seen \in Transition
    BY DEF TypeInv, TypeOK, RunnerState
  <2>2. PICK pc \in {ResumeAt(seen), "fail"} : Moved(w, pc)
    BY <1>6, GotoFields DEF PhalaAdmit
  <2>3. RunnerJournal(w)'
    BY <1>0, <1>1, <1>2, <1>6, <2>1, <2>2, ResumeAtJournal
       DEF PhalaAdmit, RunnerJournal, KnowsJournal, HoldsLease, Moved, OnPhala, journalled
  <2> QED
    BY <1>2, <2>1, <2>2, <2>3, ResumeAtJournal, MovedJournal
<1>7. CASE Reconcile(w) \/ AwaitReadiness(w) \/ BindIdentity(w) \/ Cleanup(w)
  <2>1. PICK pc \in {"readiness", "register", "complete", "cleanup", "fail"} :
           /\ Moved(w, pc)
           /\ pc \in {"readiness", "register", "complete"} /\ q \in Phala => cvms[q] = 1
           /\ pc = "readiness" => q \in Phala
    BY <1>0, <1>1, <1>7, GotoFields
       DEF Reconcile, AwaitReadiness, BindIdentity, Cleanup, RunnerJournal, OnPhala
  <2>2. RunnerJournal(w)'
    BY <1>0, <1>1, <1>2, <2>1
       DEF RunnerJournal, KnowsJournal, HoldsLease, Moved, OnPhala, journalled
  <2> QED
    BY <1>2, <2>1, <2>2, MovedJournal
<1> QED
  BY <1>3, <1>4, <1>5, <1>6, <1>7

\* A published journal entry: the CVM exists.
LEMMA PublishJournal ==
    ASSUME TypeInv, JournalInv, NEW w \in Runner, NEW q \in Request, q = run[w].req,
           run[w].pc \in {"register", "complete"}, MayPublish(w, q),
           NEW to \in Handled, Publish(w, q, to)
    PROVE  /\ HoldsLease(w, q)
           /\ \A p \in Request \ {q} : journal'[p] = journal[p]
           /\ q \in Phala => journal'[q] = to /\ journal[q] \in Bought \ {"ready"} /\ cvms[q] = 1
           /\ q \notin Phala => journal'[q] = None /\ journal[q] = None
<1>1. RunnerJournal(w) /\ RequestJournal(q)
  BY DEF JournalInv
<1>2. q \in Phala => cvms[q] = 1 /\ journal[q] \in Bought
  BY <1>1 DEF RunnerJournal, RequestJournal
<1> QED
  BY <1>1, <1>2, RecordedNotNull
     DEF MayPublish, Publish, RequestJournal, TypeInv, TypeOK, Bought

LEMMA RegisterJournal ==
    ASSUME TypeInv, JournalInv, NEW w \in Runner, Register(w)
    PROVE  JournalInv'
<1>0. PICK q : q = run[w].req
  OBVIOUS
<1>1. /\ run[w].pc = "register" /\ q \in Request
      /\ RunnerJournal(w) /\ RequestJournal(q)
      /\ UNCHANGED <<req, cvms, provisions>>
  BY <1>0 DEF Register, world, JournalInv, TypeInv, Working
<1>2. CASE ~ MayPublish(w, q)
  <2>1. Moved(w, "cleanup") /\ UNCHANGED journal
    BY <1>0, <1>2, GotoFields DEF Register
  <2>2. RunnerJournal(w)'
    BY <1>0, <1>1, <2>1 DEF RunnerJournal, KnowsJournal, Moved, OnPhala
  <2> QED
    BY <1>1, <2>1, <2>2, MovedJournal DEF journalled
<1>3. CASE MayPublish(w, q)
  <2> DEFINE to == "provider_handle_recorded"
  <2>1. Publish(w, q, to) /\ Answered(w, "bind", "cleanup")
    BY <1>0, <1>3 DEF Register
  <2>2. PICK pc \in {"bind", "cleanup"} : Moved(w, pc)
    BY <2>1, AnsweredFields
  <2>3. to \in Handled
    BY DEF Handled
  <2>4. /\ HoldsLease(w, q)
        /\ \A p \in Request \ {q} : journal'[p] = journal[p]
        /\ q \in Phala => journal'[q] = to /\ journal[q] \in Bought \ {"ready"} /\ cvms[q] = 1
        /\ q \notin Phala => journal'[q] = None /\ journal[q] = None
    BY <1>0, <1>1, <1>3, <2>1, <2>3, PublishJournal
  <2>5. RequestJournal(q)'
    BY <1>1, <2>4, RecordedNotNull DEF RequestJournal, HoldsLease, Unstarted, Bought, Handled
  <2>6. RunnerJournal(w)'
    BY <1>0, <1>1, <2>2, <2>4 DEF RunnerJournal, KnowsJournal, Moved, OnPhala
  <2>7. journal' = [journal EXCEPT ![q] = journal'[q]]
    BY <2>1 DEF Publish, TypeInv, TypeOK
  <2> QED
    BY <1>0, <1>1, <2>2, <2>4, <2>5, <2>6, <2>7, EntryJournal, RecordedNotNull
       DEF Unstarted, Bought
<1> QED
  BY <1>2, <1>3

LEMMA CompleteJournal ==
    ASSUME TypeInv, JournalInv, NEW w \in Runner, Complete(w)
    PROVE  JournalInv'
<1>0. PICK q : q = run[w].req
  OBVIOUS
<1>1. /\ run[w].pc = "complete" /\ q \in Request
      /\ RunnerJournal(w) /\ RequestJournal(q)
      /\ UNCHANGED <<cvms, provisions>>
  BY <1>0 DEF Complete, world, JournalInv, TypeInv, Working
<1>2. CASE ~ MayPublish(w, q)
  <2>1. Moved(w, "cleanup") /\ UNCHANGED <<req, journal>>
    BY <1>0, <1>2, GotoFields DEF Complete
  <2>2. RunnerJournal(w)'
    BY <1>0, <1>1, <2>1 DEF RunnerJournal, KnowsJournal, Moved, OnPhala
  <2> QED
    BY <1>1, <2>1, <2>2, MovedJournal DEF journalled
<1>3. CASE MayPublish(w, q)
  <2> DEFINE to == "ready"
  <2>1. /\ Publish(w, q, to) /\ Closed(q, "running")
        /\ Left(w) \/ Moved(w, "cleanup")
    BY <1>0, <1>1, <1>3, CloseFields, ReturnFields, GotoFields DEF Complete
  <2>2. to \in Handled
    BY DEF Handled
  <2>3. /\ HoldsLease(w, q)
        /\ \A p \in Request \ {q} : journal'[p] = journal[p]
        /\ q \in Phala => journal'[q] = to /\ journal[q] \in Bought \ {"ready"} /\ cvms[q] = 1
        /\ q \notin Phala => journal'[q] = None /\ journal[q] = None
    BY <1>0, <1>1, <1>3, <2>1, <2>2, PublishJournal
  <2>4. RequestJournal(q)'
    BY <1>1, <2>1, <2>3, RecordedNotNull
       DEF RequestJournal, Closed, Unstarted, Bought, Handled
  <2>5. \A p \in Request \ {q} : RequestJournal(p)'
    BY <1>1, <2>1, <2>3 DEF JournalInv, RequestJournal, Closed, Elsewhere
  <2>6. RunnerJournal(w)'
    BY <1>0, <1>1, <2>1, <2>3
       DEF RunnerJournal, KnowsJournal, HoldsLease, Closed, Moved, Left, OnPhala
  <2>7. \A v \in Runner \ {w} : RunnerJournal(v)'
    <3> SUFFICES ASSUME NEW v \in Runner \ {w}, run[v].pc # "idle"
                 PROVE  RunnerJournal(v)'
      BY <2>1 DEF RunnerJournal, Moved, Left, Others
    <3>1. run[v].req \in Request /\ run'[v] = run[v] /\ RunnerJournal(v)
      BY <2>1 DEF JournalInv, TypeInv, Working, Moved, Left, Others
    <3>2. CASE run[v].req = q
      BY <1>1, <2>1, <2>3, <3>1, <3>2, RecordedNotNull
         DEF RunnerJournal, HoldsLease, Closed, Unstarted, Bought
    <3>3. CASE run[v].req # q
      BY <1>1, <2>1, <2>3, <3>1, <3>3
         DEF RunnerJournal, KnowsJournal, HoldsLease, Closed, Elsewhere
    <3> QED
      BY <3>2, <3>3
  <2>8. OneCaller'
    BY <1>1, <2>1 DEF JournalInv, OneCaller, Moved, Left, Others
  <2> QED
    BY <2>4, <2>5, <2>6, <2>7, <2>8 DEF JournalInv
<1> QED
  BY <1>2, <1>3

LEMMA FailJournal ==
    ASSUME TypeInv, JournalInv, NEW w \in Runner, Fail(w)
    PROVE  JournalInv'
<1>0. PICK q : q = run[w].req
  OBVIOUS
<1>1. /\ run[w].pc = "fail" /\ q \in Request
      /\ Left(w) /\ UNCHANGED journalled
  BY <1>0, ReturnFields DEF Fail, world, journalled, TypeInv, Working
<1>2. CASE UNCHANGED req
  BY <1>1, <1>2, LeftJournal
<1>3. CASE MayFail(w, q) /\ Close(q, "failed", req[q].holder)
  <2>1. Closed(q, "failed") /\ HoldsLease(w, q) /\ journal[q] \in Unstarted
    BY <1>1, <1>3, CloseFields DEF MayFail, AllowsGenericFailure, Unstarted
  <2>2. \A p \in Request : RequestJournal(p)'
    BY <1>1, <2>1, RecordedNotNull
       DEF JournalInv, RequestJournal, journalled, Closed, Elsewhere, Unstarted
  <2>3. \A v \in Runner : RunnerJournal(v)'
    <3> SUFFICES ASSUME NEW v \in Runner \ {w}, run[v].pc # "idle"
                 PROVE  RunnerJournal(v)'
      BY <1>1 DEF RunnerJournal, Left, Others
    <3>1. run[v].req \in Request /\ run'[v] = run[v] /\ RunnerJournal(v)
      BY <1>1 DEF JournalInv, TypeInv, Working, Left, Others
    <3>2. HoldsLease(v, run[v].req)' => HoldsLease(v, run[v].req)
      BY <2>1, <3>1 DEF HoldsLease, Closed, Elsewhere
    <3> QED
      BY <1>1, <3>1, <3>2 DEF RunnerJournal, KnowsJournal, journalled
  <2>4. OneCaller'
    BY <1>1 DEF JournalInv, OneCaller, Left, Others
  <2> QED
    BY <2>2, <2>3, <2>4 DEF JournalInv
<1> QED
  BY <1>0, <1>2, <1>3 DEF Fail

LEMMA InitJournal == Init => JournalInv
BY RecordedNotNull
   DEF Init, JournalInv, RequestJournal, RunnerJournal, OneCaller, Unstarted, Bought, Handled

LEMMA NextJournal == TypeInv /\ JournalInv /\ [Next]_vars => JournalInv'
<1> SUFFICES ASSUME TypeInv, JournalInv, [Next]_vars
             PROVE  JournalInv'
  OBVIOUS
<1>1. CASE Customer \/ \E q \in Request : Expire(q)
  <2>1. PICK q \in Request : Touched(q)
    BY <1>1, TouchedFields DEF Customer
  <2>2. UNCHANGED <<run, journalled>>
    BY <1>1 DEF Customer, RequestBilled, RequestWithCode, Backfill, Expire, world, journalled
  <2> QED
    BY <2>1, <2>2, TouchedJournal
<1>2. CASE \E q \in Request : Cancel(q)
  BY <1>2, CancelJournal
<1>3. ASSUME UNCHANGED <<req, run, journalled>>
      PROVE  JournalInv'
  BY <1>3 DEF journalled, JournalInv, RequestJournal, RunnerJournal, KnowsJournal,
              HoldsLease, OneCaller
<1>4. CASE \/ \E c \in Code : RevokeCode(c)
           \/ \E a \in Artifact : RetireArtifact(a)
           \/ UNCHANGED vars
  BY <1>3, <1>4 DEF RevokeCode, RetireArtifact, vars, world, journalled
<1>5. ASSUME NEW w \in Runner, Preflight(w)
      PROVE  JournalInv'
  <2>1. UNCHANGED <<req, journalled>>
    BY <1>5 DEF Preflight, world, journalled
  <2>2. Moved(w, "idle")
    BY <1>5 DEF Preflight, Moved, Others, TypeInv, TypeOK, RunnerState
  <2>3. RunnerJournal(w)'
    BY <2>2 DEF RunnerJournal, Moved
  <2> QED
    BY <2>1, <2>2, <2>3, MovedJournal
<1>6. ASSUME NEW w \in Runner, Crash(w)
      PROVE  JournalInv'
  BY <1>6, ReturnFields, LeftJournal DEF Crash, world, journalled
<1>7. ASSUME NEW w \in Runner, RunnerStep(w)
      PROVE  JournalInv'
  BY <1>7, LeaseJournal, LaunchJournal, RecordJournal, ProvisionJournal, CommitJournal,
     RegisterJournal, CompleteJournal, FailJournal
     DEF RunnerStep, PhalaStep
<1> QED
  BY <1>1, <1>2, <1>4, <1>5, <1>6, <1>7 DEF Next, Operator

THEOREM JournalBounds == Spec => []JournalInv
BY TypeCorrect, InitJournal, NextJournal, PTL DEF Spec

\* Phala receives at most one provision and one commit for a request, for any
\* number of Runners, claims, crashes and lost answers.
THEOREM PaidOnce == Spec => []OneCvmPerRequest
<1>1. JournalInv => OneCvmPerRequest
  BY DEF JournalInv, RequestJournal, OneCvmPerRequest
<1> QED
  BY <1>1, JournalBounds, PTL

\* What Core has closed was never bought.
THEOREM ClosedIsFree == Spec => []ClosedBoughtNothing
<1>1. JournalInv => ClosedBoughtNothing
  BY ConstantsAssumption, RecordedNotNull
     DEF JournalInv, RequestJournal, ClosedBoughtNothing, Unstarted, Bought
<1> QED
  BY <1>1, JournalBounds, PTL

\* What Core calls running was bought and is ready.
THEOREM RunningIsReady == Spec => []ReadyMeansRunning
<1>1. JournalInv => ReadyMeansRunning
  BY ConstantsAssumption DEF JournalInv, RequestJournal, ReadyMeansRunning, Handled
<1> QED
  BY <1>1, JournalBounds, PTL

----------------------------------------------------------------------------
(* Specs, keys and credentials follow the request row.                     *)

\* Every change of a request row is one of four.
LEMMA RowSteps ==
    ASSUME TypeInv, [Next]_vars
    PROVE  \/ UNCHANGED req
           \/ \E q \in Request : Touched(q) /\ UNCHANGED <<run, row, cred, keys, containers>>
           \/ \E q \in Request : Cancel(q) /\ Closed(q, "cancelled")
           \/ \E w \in Runner, s \in {"running", "failed"} :
                 /\ Complete(w) \/ Fail(w)
                 /\ HoldsLease(w, run[w].req) /\ Closed(run[w].req, s)
           \/ \E w \in Runner, q \in Request : Lease(w) /\ Claimed(w, q)
<1>1. CASE Customer \/ \E q \in Request : Expire(q)
  <2>1. UNCHANGED <<run, row, cred, keys, containers>>
    BY <1>1 DEF Customer, RequestBilled, RequestWithCode, Backfill, Expire, grants, world
  <2> QED
    BY <1>1, <2>1, TouchedFields DEF Customer
<1>2. CASE \E q \in Request : Cancel(q)
  BY <1>2, CloseFields DEF Cancel
<1>3. CASE \/ \E c \in Code : RevokeCode(c)
           \/ \E a \in Artifact : RetireArtifact(a)
           \/ \E w \in Runner : Preflight(w) \/ Crash(w)
           \/ UNCHANGED vars
  BY <1>3 DEF RevokeCode, RetireArtifact, Preflight, Crash, vars
<1>4. ASSUME NEW w \in Runner, Lease(w)
      PROVE  \E q \in Request : Claimed(w, q)
  BY <1>4, LeaseFields
<1>5. ASSUME NEW w \in Runner, Complete(w) \/ Fail(w)
      PROVE  \/ UNCHANGED req
             \/ \E s \in {"running", "failed"} :
                   HoldsLease(w, run[w].req) /\ Closed(run[w].req, s)
  <2>1. run[w].req \in Request
    BY <1>5 DEF Complete, Fail, TypeInv, Working
  <2> QED
    BY <1>5, <2>1, CloseFields DEF Complete, Fail, MayPublish, MayFail
<1>6. ASSUME NEW w \in Runner, RunnerStep(w), ~ Lease(w), ~ Complete(w), ~ Fail(w)
      PROVE  UNCHANGED req
  BY <1>6 DEF RunnerStep, PhalaStep, ProvisionCredential, ProvisionKey, KataLaunch,
       PhalaAdmit, ReserveCorrelation, StartProvision, RecordUnknown, RecordProvisioned,
       StartCommit, Record, Provision, Commit, Reconcile, AwaitReadiness, Register,
       BindIdentity, Cleanup
<1> QED
  BY <1>1, <1>2, <1>3, <1>4, <1>5, <1>6 DEF Next, Operator

\* The RuntimeSpec is built by the first claim, from the row as it then is.
SpecInv ==
    /\ SpecTellsChat
    /\ \A q \in Request : req[q].status \in {"none", "requested"} => req[q].spec = None

LEMMA NextSpec == TypeInv /\ SpecInv /\ [Next]_vars => SpecInv'
<1> SUFFICES ASSUME TypeInv, SpecInv, [Next]_vars
             PROVE  SpecInv'
  OBVIOUS
<1>1. CASE UNCHANGED req
  BY <1>1 DEF SpecInv, SpecTellsChat
<1>2. ASSUME NEW q \in Request, Touched(q)
      PROVE  SpecInv'
  BY <1>2 DEF SpecInv, SpecTellsChat, Touched, Elsewhere
<1>3. ASSUME NEW q \in Request, NEW s \in {"running", "failed", "cancelled"}, Closed(q, s)
      PROVE  SpecInv'
  BY <1>3 DEF SpecInv, SpecTellsChat, Closed, Elsewhere
<1>4. ASSUME NEW w \in Runner, NEW q \in Request, Claimed(w, q)
      PROVE  SpecInv'
  BY <1>4 DEF SpecInv, SpecTellsChat, Claimed, Elsewhere, PinnedSpec
<1>5. ASSUME NEW w \in Runner, Complete(w) \/ Fail(w)
      PROVE  run[w].req \in Request
  BY <1>5 DEF Complete, Fail, TypeInv, Working
<1> QED
  BY <1>1, <1>2, <1>3, <1>4, <1>5, RowSteps

\* Core never shows an owner's chat account that the agent was not built with.
THEOREM ChatIsPinned == Spec => []SpecTellsChat
<1>1. Init => SpecInv
  BY DEF Init, SpecInv, SpecTellsChat
<1>2. SpecInv => SpecTellsChat
  BY DEF SpecInv
<1> QED
  BY <1>1, <1>2, NextSpec, TypeCorrect, PTL DEF Spec

\* A key is only added for the Runner that holds the lease.
LEMMA KeySteps ==
    ASSUME TypeInv, [Next]_vars, NEW q \in Request
    PROVE  \/ keys'[q] \subseteq keys[q]
           \/ UNCHANGED req /\ req[q].status = "launching"
<1>1. CASE UNCHANGED keys
  BY <1>1
<1>2. CASE \E p \in Request : Cancel(p)
  BY <1>2 DEF Cancel, RevokeProjectKeys, TypeInv, TypeOK
<1>3. ASSUME NEW w \in Runner, Fail(w)
      PROVE  keys'[q] \subseteq keys[q]
  <2>1. CASE \E T : keys' = [keys EXCEPT ![run[w].req] = @ \ T]
    BY <2>1 DEF TypeInv, TypeOK
  <2> QED
    BY <1>3, <2>1 DEF Fail
<1>4. ASSUME NEW w \in Runner, ProvisionKey(w)
      PROVE  keys'[q] = keys[q] \/ (UNCHANGED req /\ req[q].status = "launching")
  <2>1. CASE UNCHANGED keys
    BY <2>1
  <2>2. CASE /\ HoldsLease(w, run[w].req)
             /\ keys' = [keys EXCEPT ![run[w].req] = @ \cup {run[w].token}]
    BY <1>4, <2>2 DEF ProvisionKey, HoldsLease, TypeInv, TypeOK
  <2> QED
    BY <1>4, <2>1, <2>2 DEF ProvisionKey
<1>5. ASSUME NEW w \in Runner, RunnerStep(w), ~ Fail(w), ~ ProvisionKey(w)
      PROVE  UNCHANGED keys
  BY <1>5 DEF RunnerStep, PhalaStep, Lease, ProvisionCredential, KataLaunch,
       PhalaAdmit, ReserveCorrelation, StartProvision, RecordUnknown, RecordProvisioned,
       StartCommit, Record, Provision, Commit, Reconcile, AwaitReadiness, Register,
       BindIdentity, Complete, Cleanup, grants
<1>6. CASE \/ Customer
           \/ \E p \in Request : Expire(p)
           \/ \E c \in Code : RevokeCode(c)
           \/ \E a \in Artifact : RetireArtifact(a)
           \/ \E w \in Runner : Preflight(w) \/ Crash(w)
           \/ UNCHANGED vars
  BY <1>6 DEF Customer, RequestBilled, RequestWithCode, Backfill, Expire, RevokeCode,
       RetireArtifact, Preflight, Crash, vars, grants
<1> QED
  BY <1>1, <1>2, <1>3, <1>4, <1>5, <1>6 DEF Next, Operator

LEMMA NextKeys == TypeInv /\ CancelledHoldsNoKey /\ [Next]_vars => CancelledHoldsNoKey'
<1> SUFFICES ASSUME TypeInv, CancelledHoldsNoKey, [Next]_vars, NEW q \in Request,
                    req'[q].status = "cancelled"
             PROVE  keys'[q] = {}
  BY DEF CancelledHoldsNoKey
<1>1. CASE req[q].status = "cancelled"
  BY <1>1, KeySteps DEF CancelledHoldsNoKey
<1>2. CASE req[q].status # "cancelled"
  <2>1. Cancel(q)
    <3>1. ASSUME NEW w \in Runner, Complete(w) \/ Fail(w)
          PROVE  run[w].req \in Request
      BY <3>1 DEF Complete, Fail, TypeInv, Working
    <3> QED
      BY <1>2, <3>1, RowSteps DEF Touched, Closed, Claimed, Elsewhere
  <2> QED
    BY <2>1 DEF Cancel, RevokeProjectKeys, TypeInv, TypeOK
<1> QED
  BY <1>1, <1>2

\* Cancelling revokes every Finite Private key, and no late Runner gets another.
THEOREM CancelledIsKeyless == Spec => []CancelledHoldsNoKey
<1>1. Init => CancelledHoldsNoKey
  BY DEF Init, CancelledHoldsNoKey
<1> QED
  BY <1>1, NextKeys, TypeCorrect, PTL DEF Spec

----------------------------------------------------------------------------
(* Runtime credentials.                                                    *)

Early == {"idle", "credential", "fail"}

\* A Runner past the credential stays past it or fails, and only the provider
\* and the Finite Private keys change.
LEMMA LaunchFields ==
    ASSUME TypeInv, NEW w \in Runner,
           ProvisionKey(w) \/ KataLaunch(w) \/ PhalaStep(w) \/ BindIdentity(w) \/ Cleanup(w)
    PROVE  /\ run[w].pc \notin Early
           /\ \E pc \in Pc \ {"idle", "credential", "key"} : Moved(w, pc)
           /\ UNCHANGED <<req, row, cred, allowed, code>>
<1> DEFINE Goal == \E pc \in Pc \ {"idle", "credential", "key"} : Moved(w, pc)
<1>1. CASE ProvisionKey(w)
  <2>1. ASSUME Goto(w, "fail")
        PROVE  Goal
    BY <2>1, GotoFields DEF Pc
  <2>2. ASSUME ~ Goto(w, "fail")
        PROVE  Goal
    <3>1. PICK pc \in {"admit", "kata"} :
             run' = [run EXCEPT ![w] = [run[w] EXCEPT !.pc = pc, !.key = TRUE]]
      BY <1>1, <2>2 DEF ProvisionKey
    <3>2. Moved(w, pc)
      BY <3>1 DEF Moved, Others, TypeInv, TypeOK, RunnerState
    <3> QED
      BY <3>2 DEF Pc
  <2>3. Goal
    BY <2>1, <2>2
  <2> QED
    BY <1>1, <2>3 DEF ProvisionKey, Early, admission
<1>2. CASE PhalaAdmit(w)
  <2>1. run[w].seen \in Transition
    BY DEF TypeInv, TypeOK, RunnerState
  <2>2. PICK pc \in {ResumeAt(run[w].seen), "fail"} : Moved(w, pc)
    BY <1>2, GotoFields DEF PhalaAdmit
  <2>3. pc \in Pc \ {"idle", "credential", "key"}
    BY <2>1, <2>2, ResumeAtJournal DEF Pc
  <2>4. Goal
    BY <2>2, <2>3
  <2> QED
    BY <1>2, <2>4 DEF PhalaAdmit, Early, admission, grants
<1>3. ASSUME NEW from \in OnPhala, NEW to, NEW next \in Pc \ {"idle", "credential", "key"},
             Record(w, from, to, next)
      PROVE  Goal /\ run[w].pc \notin Early /\ UNCHANGED <<req, row, cred, allowed, code>>
  BY <1>3, GotoFields, AnsweredFields DEF Record, OnPhala, Early, Pc, admission, grants
<1>4. CASE ReserveCorrelation(w) \/ StartProvision(w) \/ RecordUnknown(w)
           \/ RecordProvisioned(w) \/ StartCommit(w)
  BY <1>3, <1>4
     DEF ReserveCorrelation, StartProvision, RecordUnknown, RecordProvisioned, StartCommit,
         OnPhala, Pc
<1>5. CASE Provision(w) \/ Commit(w) \/ Reconcile(w) \/ AwaitReadiness(w)
           \/ BindIdentity(w) \/ Cleanup(w) \/ KataLaunch(w)
  <2>1. Goal
    BY <1>5, GotoFields
       DEF Provision, Commit, Reconcile, AwaitReadiness, BindIdentity, Cleanup, KataLaunch, Pc
  <2> QED
    BY <1>5, <2>1
       DEF Provision, Commit, Reconcile, AwaitReadiness, BindIdentity, Cleanup, KataLaunch,
           Early, admission, grants
<1> QED
  BY <1>1, <1>2, <1>4, <1>5 DEF PhalaStep

\* An enrolled launch under a standing lease has its credential.
EnrolledInv ==
    /\ RunningIsEnrolled
    /\ Enrolled => \A w \in Runner :
          run[w].pc \notin Early /\ HoldsLease(w, run[w].req) => cred[run[w].req] # None

LEMMA CredentialNotNull ==
    ASSUME TypeInv, NEW q \in Request, cred[q] # None
    PROVE  cred[q] \in Credential
BY DEF TypeInv, TypeOK

\* A step that leaves rows and credentials alone.
LEMMA QuietEnrolled ==
    ASSUME TypeInv, EnrolledInv, UNCHANGED <<req, row, cred>>,
           \/ UNCHANGED run
           \/ \E w \in Runner : Left(w)
           \/ \E w \in Runner, pc \in Pc : Moved(w, pc) /\ run[w].pc \notin Early
           \/ \E w \in Runner, pc \in Early : Moved(w, pc)
    PROVE  EnrolledInv'
<1>1. RunningIsEnrolled'
  BY DEF EnrolledInv, RunningIsEnrolled
<1>2. ASSUME Enrolled, NEW v \in Runner, run'[v].pc \notin Early, HoldsLease(v, run[v].req)'
      PROVE  cred[run'[v].req] # None
  BY <1>2 DEF EnrolledInv, HoldsLease, Left, Moved, Others, Early
<1> QED
  BY <1>1, <1>2 DEF EnrolledInv

\* Closing a request.
LEMMA ClosedEnrolled ==
    ASSUME TypeInv, EnrolledInv, NEW q \in Request, NEW s \in {"failed", "cancelled"},
           Closed(q, s), DeleteRuntime(q),
           UNCHANGED run \/ \E w \in Runner : Left(w)
    PROVE  EnrolledInv'
<1>1. \A p \in Request \ {q} : row'[p] = row[p] /\ cred'[p] = cred[p] /\ req'[p] = req[p]
  BY DEF DeleteRuntime, Closed, Elsewhere, TypeInv, TypeOK
<1>2. RunningIsEnrolled'
  BY <1>1 DEF EnrolledInv, RunningIsEnrolled, Closed
<1>3. ASSUME Enrolled, NEW v \in Runner, run'[v].pc \notin Early, HoldsLease(v, run[v].req)'
      PROVE  cred'[run'[v].req] # None
  <2>1. run'[v] = run[v] /\ run[v].req \in Request
    BY <1>3 DEF Left, Others, Early, TypeInv, Working
  <2>2. run[v].req # q
    BY <1>3, <2>1 DEF HoldsLease, Closed
  <2> QED
    BY <1>1, <1>3, <2>1, <2>2 DEF EnrolledInv, HoldsLease
<1> QED
  BY <1>2, <1>3 DEF EnrolledInv

LEMMA LeaseEnrolled ==
    ASSUME TypeInv, EnrolledInv, NEW w \in Runner, Lease(w)
    PROVE  EnrolledInv'
<1>1. PICK q \in Request : Claimed(w, q)
  BY LeaseFields
<1>2. UNCHANGED <<row, cred>>
  BY DEF Lease, grants
<1>3. RunningIsEnrolled'
  BY <1>1, <1>2 DEF EnrolledInv, RunningIsEnrolled, Claimed, Elsewhere
<1>4. ASSUME Enrolled, NEW v \in Runner, run'[v].pc \notin Early, HoldsLease(v, run[v].req)'
      PROVE  cred'[run'[v].req] # None
  <2>1. v # w
    BY <1>1, <1>4 DEF Claimed, Early
  <2>2. run'[v] = run[v] /\ run[v].req \in Request
    BY <1>1, <1>4, <2>1 DEF Claimed, Others, Early, TypeInv, Working
  <2>3. run[v].req # q
    BY <1>1, <1>4, <2>1, <2>2 DEF HoldsLease, Claimed
  <2> QED
    BY <1>1, <1>2, <1>4, <2>2, <2>3 DEF EnrolledInv, HoldsLease, Claimed, Elsewhere
<1> QED
  BY <1>3, <1>4 DEF EnrolledInv

LEMMA CredentialEnrolled ==
    ASSUME TypeInv, EnrolledInv, NEW w \in Runner, ProvisionCredential(w)
    PROVE  EnrolledInv'
<1>0. PICK q : q = run[w].req
  OBVIOUS
<1>1. q \in Request /\ run[w].pc = "credential" /\ UNCHANGED <<req, row>>
  BY <1>0 DEF ProvisionCredential, TypeInv, Working
<1>2. Left(w) \/ Moved(w, "key") \/ Moved(w, "fail")
  BY GotoFields, ReturnFields DEF ProvisionCredential
<1>3. CASE UNCHANGED cred /\ Goto(w, "fail")
  BY <1>1, <1>3, GotoFields, QuietEnrolled DEF Early
<1>4. CASE /\ MayProvisionCredential(w, q)
           /\ cred' = [cred EXCEPT ![q] =
                 [host |-> HostOf[w], lease |-> run[w].token, active |-> FALSE,
                  bound |-> row[q] # None]]
  <2>1. /\ req[q].status = "launching"
        /\ cred'[q] # None
        /\ \A p \in Request \ {q} : cred'[p] = cred[p]
    <3>1. [host |-> HostOf[w], lease |-> run[w].token, active |-> FALSE,
           bound |-> row[q] # None] \in Credential
      BY <1>0, <1>1 DEF Credential, Host, TypeInv, Working
    <3>2. cred'[q] # None
      BY <1>1, <1>4, <3>1, ConstantsAssumption DEF TypeInv, TypeOK
    <3> QED
      BY <1>4, <3>2 DEF MayProvisionCredential, HoldsActiveLease, HoldsLease, TypeInv, TypeOK
  <2>2. RunningIsEnrolled'
    BY <1>1, <2>1 DEF EnrolledInv, RunningIsEnrolled
  <2>3. ASSUME Enrolled, NEW v \in Runner, run'[v].pc \notin Early, HoldsLease(v, run[v].req)'
        PROVE  cred'[run'[v].req] # None
    <3>1. CASE run'[v].req = q
      BY <2>1, <3>1
    <3>2. CASE run'[v].req # q
      <4>1. run'[v] = run[v] /\ run[v].req \in Request
        BY <1>0, <1>2, <2>3, <3>2 DEF Left, Moved, Others, Early, TypeInv, Working
      <4> QED
        BY <1>1, <2>1, <2>3, <3>2, <4>1 DEF EnrolledInv, HoldsLease
    <3> QED
      BY <3>1, <3>2
  <2> QED
    BY <2>2, <2>3 DEF EnrolledInv
<1> QED
  BY <1>0, <1>3, <1>4 DEF ProvisionCredential

LEMMA PublishEnrolled ==
    ASSUME TypeInv, EnrolledInv, NEW w \in Runner, Register(w) \/ Complete(w)
    PROVE  EnrolledInv'
<1>0. PICK q : q = run[w].req
  OBVIOUS
<1>1. q \in Request /\ run[w].pc \notin Early
  BY <1>0 DEF Register, Complete, TypeInv, Working, Early
<1>2. CASE ~ MayPublish(w, q)
  BY <1>0, <1>1, <1>2, GotoFields, QuietEnrolled DEF Register, Complete, Pc
<1>3. CASE MayPublish(w, q)
  <2>1. PICK to : Publish(w, q, to)
    BY <1>0, <1>3 DEF Register, Complete
  <2>2. /\ HoldsLease(w, q)
        /\ row'[q] = RuntimeHost(w, q)
        /\ \A p \in Request \ {q} : row'[p] = row[p]
    BY <1>1, <1>3, <2>1 DEF MayPublish, Publish, TypeInv, TypeOK
  <2>3. \/ /\ UNCHANGED req
           /\ cred' = [cred EXCEPT ![q] =
                 IF @ = None THEN @ ELSE [@ EXCEPT !.bound = TRUE]]
        \/ /\ Closed(q, "running")
           /\ cred' = [cred EXCEPT ![q] =
                 IF @ = None THEN @
                 ELSE [@ EXCEPT !.bound = TRUE,
                                !.active = cred[q].lease = req[q].token /\ req[q].live]]
    BY <1>0, <1>1, <1>3, CloseFields DEF Register, Complete
  <2>4. \A p \in Request \ {q} : cred'[p] = cred[p] /\ req'[p] = req[p]
    BY <2>3 DEF TypeInv, TypeOK, Closed, Elsewhere
  <2>5. ASSUME cred[q] # None
        PROVE  /\ cred'[q] # None /\ cred'[q].host = row'[q]
               /\ req'[q].status = "running" => cred'[q].active
    <3>1. cred[q] \in Credential
      BY <1>1, <2>5, CredentialNotNull
    <3>2. /\ cred[q].lease = req[q].token /\ req[q].live
          /\ cred[q].host = row'[q]
      BY <1>3, <2>2, <2>5 DEF MayPublish, MayBind
    <3>3. CASE UNCHANGED req
      <4>1. cred'[q] = [cred[q] EXCEPT !.bound = TRUE] \/ req'[q].status = "running"
        BY <1>1, <2>3, <2>5 DEF TypeInv, TypeOK, Closed
      <4>2. req'[q].status = "launching"
        BY <2>2, <3>3 DEF HoldsLease
      <4>3. cred'[q] \in Credential /\ cred'[q].host = cred[q].host
        BY <3>1, <4>1, <4>2 DEF Credential
      <4> QED
        BY <3>2, <4>2, <4>3, ConstantsAssumption
    <3>4. CASE cred' = [cred EXCEPT ![q] =
                 IF @ = None THEN @
                 ELSE [@ EXCEPT !.bound = TRUE,
                                !.active = cred[q].lease = req[q].token /\ req[q].live]]
      <4>1. cred'[q] = [cred[q] EXCEPT !.bound = TRUE, !.active = TRUE]
        BY <1>1, <2>5, <3>2, <3>4 DEF TypeInv, TypeOK
      <4>2. cred'[q] \in Credential /\ cred'[q].host = cred[q].host /\ cred'[q].active
        BY <3>1, <4>1 DEF Credential
      <4> QED
        BY <3>2, <4>2, ConstantsAssumption
    <3> QED
      BY <2>3, <3>3, <3>4
  <2>6. Enrolled => cred[q] # None
    BY <1>0, <1>1, <2>2 DEF EnrolledInv
  <2>7. RunningIsEnrolled'
    BY <2>2, <2>4, <2>5, <2>6 DEF EnrolledInv, RunningIsEnrolled
  <2>8. Left(w) \/ \E pc \in Pc : Moved(w, pc)
    BY GotoFields, AnsweredFields, ReturnFields DEF Register, Complete, Pc
  <2>9. ASSUME Enrolled, NEW v \in Runner, run'[v].pc \notin Early, HoldsLease(v, run[v].req)'
        PROVE  cred'[run'[v].req] # None
    <3>1. CASE run'[v].req = q
      BY <2>5, <2>6, <2>9, <3>1
    <3>2. CASE run'[v].req # q
      <4>1. run'[v] = run[v] /\ run[v].req \in Request
        BY <1>0, <2>8, <2>9, <3>2 DEF Left, Moved, Others, Early, TypeInv, Working
      <4> QED
        BY <2>4, <2>9, <3>2, <4>1 DEF EnrolledInv, HoldsLease
    <3> QED
      BY <3>1, <3>2
  <2> QED
    BY <2>7, <2>9 DEF EnrolledInv
<1> QED
  BY <1>2, <1>3

LEMMA NextEnrolled == TypeInv /\ EnrolledInv /\ [Next]_vars => EnrolledInv'
<1> SUFFICES ASSUME TypeInv, EnrolledInv, [Next]_vars
             PROVE  EnrolledInv'
  OBVIOUS
<1>1. CASE Customer \/ \E q \in Request : Expire(q)
  <2>1. PICK q \in Request : Touched(q)
    BY <1>1, TouchedFields DEF Customer
  <2>2. UNCHANGED <<run, row, cred>>
    BY <1>1 DEF Customer, RequestBilled, RequestWithCode, Backfill, Expire, grants
  <2>3. RunningIsEnrolled'
    BY <2>1, <2>2 DEF EnrolledInv, RunningIsEnrolled, Touched, Elsewhere
  <2>4. ASSUME Enrolled, NEW v \in Runner, run[v].pc \notin Early, HoldsLease(v, run[v].req)'
        PROVE  cred[run[v].req] # None
    <3>1. run[v].req \in Request
      BY <2>4 DEF Early, TypeInv, Working
    <3>2. HoldsLease(v, run[v].req)
      BY <2>1, <2>2, <2>4, <3>1 DEF HoldsLease, Touched, Elsewhere
    <3> QED
      BY <2>4, <3>2 DEF EnrolledInv
  <2> QED
    BY <2>2, <2>3, <2>4 DEF EnrolledInv
<1>2. ASSUME NEW q \in Request, Cancel(q)
      PROVE  EnrolledInv'
  BY <1>2, CloseFields, ClosedEnrolled DEF Cancel
<1>3. CASE \/ \E c \in Code : RevokeCode(c)
           \/ \E a \in Artifact : RetireArtifact(a)
           \/ UNCHANGED vars
  BY <1>3, QuietEnrolled DEF RevokeCode, RetireArtifact, vars, grants
<1>4. ASSUME NEW w \in Runner, Preflight(w)
      PROVE  EnrolledInv'
  <2>1. Moved(w, "idle")
    BY <1>4 DEF Preflight, Moved, Others, TypeInv, TypeOK, RunnerState
  <2> QED
    BY <1>4, <2>1, QuietEnrolled DEF Preflight, Early, grants
<1>5. ASSUME NEW w \in Runner, Crash(w)
      PROVE  EnrolledInv'
  BY <1>5, ReturnFields, QuietEnrolled DEF Crash, grants
<1>6. ASSUME NEW w \in Runner, Fail(w)
      PROVE  EnrolledInv'
  <2>1. Left(w) /\ run[w].req \in Request
    BY <1>6, ReturnFields DEF Fail, TypeInv, Working
  <2> QED
    BY <1>6, <2>1, CloseFields, ClosedEnrolled, QuietEnrolled DEF Fail
<1>7. ASSUME NEW w \in Runner,
             ProvisionKey(w) \/ KataLaunch(w) \/ PhalaStep(w) \/ BindIdentity(w) \/ Cleanup(w)
      PROVE  EnrolledInv'
  BY <1>7, LaunchFields, QuietEnrolled
<1> QED
  BY <1>1, <1>2, <1>3, <1>4, <1>5, <1>6, <1>7, LeaseEnrolled, CredentialEnrolled,
     PublishEnrolled DEF Next, Operator, RunnerStep

\* An agent that runs can call Core, from the host Core has recorded.
THEOREM RunningCanCallCore == Spec => []RunningIsEnrolled
<1>1. Init => EnrolledInv
  BY DEF Init, EnrolledInv, RunningIsEnrolled, Early
<1>2. EnrolledInv => RunningIsEnrolled
  BY DEF EnrolledInv
<1> QED
  BY <1>1, <1>2, NextEnrolled, TypeCorrect, PTL DEF Spec

----------------------------------------------------------------------------
(* Entitlements.                                                           *)

Agents(o) == {q \in Request : OwnerOf[q] = o /\ row[q] # None}
Awaited(o) == {q \in Request : OwnerOf[q] = o /\ req[q].status \in Pending}
Used(o) == {q \in Request : /\ OwnerOf[q] = o
                            /\ row[q] # None \/ req[q].status \in Pending}
Redeemed(o) == {c \in Code : code[c] \in Request /\ OwnerOf[code[c]] = o}
Subscription(o) == IF o \in Paying THEN 1 ELSE 0

\* The entitlement row lies between what is used and what was granted.
EntitlementInv ==
    \A o \in Owner : /\ Cardinality(Used(o)) <= allowed[o]
                     /\ allowed[o] <= Cardinality(Redeemed(o)) + Subscription(o)

LEMMA EntitlementSets ==
    /\ \A S \in SUBSET Request : IsFiniteSet(S) /\ Cardinality(S) \in Nat
    /\ \A S \in SUBSET Code : IsFiniteSet(S) /\ Cardinality(S) \in Nat
BY ConstantsAssumption, FS_Subset, FS_CardinalityType

\* Core's count is never below the number of agents it stands for.
LEMMA CountCovers ==
    ASSUME NEW o
    PROVE  /\ Cardinality(Used(o)) \in Nat /\ EntitlementCount(o) \in Nat
           /\ Cardinality(Used(o)) <= EntitlementCount(o)
<1>1. /\ IsFiniteSet(Agents(o)) /\ Cardinality(Agents(o)) \in Nat
      /\ IsFiniteSet(Awaited(o)) /\ Cardinality(Awaited(o)) \in Nat
      /\ Cardinality(Used(o)) \in Nat
      /\ Cardinality(Agents(o) \cap Awaited(o)) \in Nat
  BY EntitlementSets DEF Agents, Awaited, Used
<1>2. Used(o) = Agents(o) \cup Awaited(o)
  BY DEF Used, Agents, Awaited
<1>3. Cardinality(Used(o)) = Cardinality(Agents(o)) + Cardinality(Awaited(o))
                             - Cardinality(Agents(o) \cap Awaited(o))
  BY <1>1, <1>2, FS_Union
<1>4. EntitlementCount(o) = Cardinality(Agents(o)) + Cardinality(Awaited(o))
  BY DEF EntitlementCount, Agents, Awaited
<1> QED
  BY <1>1, <1>3, <1>4

\* A step that gives nobody another agent.
LEMMA NoMoreUsed ==
    ASSUME TypeInv, EntitlementInv, UNCHANGED allowed,
           \A o \in Owner : Used(o)' \subseteq Used(o) /\ Redeemed(o)' = Redeemed(o)
    PROVE  EntitlementInv'
<1> SUFFICES ASSUME NEW o \in Owner
             PROVE  /\ Cardinality(Used(o)') <= allowed[o]
                    /\ allowed[o] <= Cardinality(Redeemed(o)') + Subscription(o)
  BY DEF EntitlementInv, Subscription
<1>1. /\ IsFiniteSet(Used(o)) /\ Cardinality(Used(o)) \in Nat
      /\ Cardinality(Used(o)') \in Nat /\ allowed[o] \in Nat
  BY EntitlementSets DEF Used, TypeInv, TypeOK
<1>2. Cardinality(Used(o)') <= Cardinality(Used(o))
  BY <1>1, FS_Subset
<1> QED
  BY <1>1, <1>2 DEF EntitlementInv

\* A new request takes one.
LEMMA OneMoreUsed ==
    ASSUME TypeInv, EntitlementInv, NEW q \in Request, NEW chat, Insert(q, chat),
           UNCHANGED row,
           NEW o \in Owner
    PROVE  /\ Cardinality(Used(o)') \in Nat /\ Cardinality(Used(o)) \in Nat
           /\ Cardinality(Used(o)') <= Cardinality(Used(o)) + 1
           /\ OwnerOf[q] # o => Cardinality(Used(o)') = Cardinality(Used(o))
<1>1. \A p \in Request \ {q} : req'[p] = req[p]
  BY DEF Insert, TypeInv, TypeOK
<1>2. /\ IsFiniteSet(Used(o)) /\ Cardinality(Used(o)) \in Nat
      /\ Cardinality(Used(o)') \in Nat
  BY EntitlementSets DEF Used
<1>3. Used(o)' \subseteq Used(o) \cup {q} /\ (OwnerOf[q] # o => Used(o)' = Used(o))
  BY <1>1 DEF Used
<1>4. IsFiniteSet(Used(o) \cup {q}) /\ Cardinality(Used(o) \cup {q}) <= Cardinality(Used(o)) + 1
      /\ Cardinality(Used(o) \cup {q}) \in Nat
  BY <1>2, FS_AddElement, FS_CardinalityType
<1>5. Cardinality(Used(o)') <= Cardinality(Used(o) \cup {q})
  BY <1>3, <1>4, FS_Subset
<1> QED
  BY <1>2, <1>3, <1>4, <1>5

LEMMA BilledEntitlement ==
    ASSUME TypeInv, EntitlementInv, NEW q \in Request, NEW chat \in BOOLEAN,
           RequestBilled(q, chat)
    PROVE  EntitlementInv'
<1> DEFINE w == OwnerOf[q]
           entitled == IF allowed[w] = 0 THEN 1 ELSE allowed[w]
<1>1. /\ w \in Owner /\ w \in Paying /\ allowed[w] \in Nat
      /\ EntitlementCount(w) < entitled
      /\ Insert(q, chat) /\ UNCHANGED <<row, code>>
      /\ allowed' = [allowed EXCEPT ![w] = entitled]
  BY ConstantsAssumption DEF RequestBilled, grants, TypeInv, TypeOK
<1> SUFFICES ASSUME NEW o \in Owner
             PROVE  /\ Cardinality(Used(o)') <= allowed'[o]
                    /\ allowed'[o] <= Cardinality(Redeemed(o)') + Subscription(o)
  BY DEF EntitlementInv, Subscription
<1>2. Redeemed(o)' = Redeemed(o) /\ Cardinality(Redeemed(o)) \in Nat
  BY <1>1, EntitlementSets DEF Redeemed
<1>3. /\ Cardinality(Used(o)') \in Nat /\ Cardinality(Used(o)) \in Nat
      /\ Cardinality(Used(o)') <= Cardinality(Used(o)) + 1
      /\ w # o => Cardinality(Used(o)') = Cardinality(Used(o))
  BY <1>1, OneMoreUsed
<1>4. /\ Cardinality(Used(o)) <= allowed[o]
      /\ allowed[o] <= Cardinality(Redeemed(o)) + Subscription(o)
  BY DEF EntitlementInv
<1>5. CASE o = w
  <2>1. allowed'[o] = entitled /\ Subscription(o) = 1
    BY <1>1, <1>5 DEF Subscription, TypeInv, TypeOK
  <2>2. Cardinality(Used(o)) <= EntitlementCount(o) /\ EntitlementCount(o) \in Nat
    BY CountCovers
  <2> QED
    BY <1>1, <1>2, <1>3, <1>4, <1>5, <2>1, <2>2
<1>6. CASE o # w
  <2>1. allowed'[o] = allowed[o]
    BY <1>1, <1>6 DEF TypeInv, TypeOK
  <2> QED
    BY <1>2, <1>3, <1>4, <1>6, <2>1
<1> QED
  BY <1>5, <1>6

LEMMA CodeEntitlement ==
    ASSUME TypeInv, EntitlementInv, NEW q \in Request, NEW c \in Code, NEW chat \in BOOLEAN,
           RequestWithCode(q, c, chat)
    PROVE  EntitlementInv'
<1> DEFINE w == OwnerOf[q]
<1>1. /\ w \in Owner /\ allowed[w] \in Nat
      /\ EntitlementCount(w) < allowed[w] + 1
      /\ Insert(q, chat) /\ UNCHANGED row
      /\ allowed' = [allowed EXCEPT ![w] = @ + 1]
      /\ code[c] = "free"
      /\ code' = [code EXCEPT ![c] = q]
  BY ConstantsAssumption DEF RequestWithCode, grants, TypeInv, TypeOK
<1> SUFFICES ASSUME NEW o \in Owner
             PROVE  /\ Cardinality(Used(o)') <= allowed'[o]
                    /\ allowed'[o] <= Cardinality(Redeemed(o)') + Subscription(o)
  BY DEF EntitlementInv, Subscription
<1>2. /\ Cardinality(Used(o)') \in Nat /\ Cardinality(Used(o)) \in Nat
      /\ Cardinality(Used(o)') <= Cardinality(Used(o)) + 1
      /\ w # o => Cardinality(Used(o)') = Cardinality(Used(o))
  BY <1>1, OneMoreUsed
<1>3. /\ Cardinality(Used(o)) <= allowed[o]
      /\ allowed[o] <= Cardinality(Redeemed(o)) + Subscription(o)
      /\ Subscription(o) \in Nat
  BY DEF EntitlementInv, Subscription
<1>4. /\ c \notin Redeemed(o) /\ IsFiniteSet(Redeemed(o)) /\ Cardinality(Redeemed(o)) \in Nat
  BY <1>1, EntitlementSets, ConstantsAssumption DEF Redeemed
<1>5. /\ code'[c] = q
      /\ \A d \in Code \ {c} : code'[d] = code[d]
  BY <1>1 DEF TypeInv, TypeOK
<1>6. CASE o = w
  <2>1. allowed'[o] = allowed[o] + 1 /\ allowed[o] \in Nat
    BY <1>1, <1>6 DEF TypeInv, TypeOK
  <2>2. Cardinality(Used(o)) <= EntitlementCount(o) /\ EntitlementCount(o) \in Nat
    BY CountCovers
  <2>3. Redeemed(o)' = Redeemed(o) \cup {c}
    BY <1>1, <1>5, <1>6 DEF Redeemed
  <2>4. Cardinality(Redeemed(o)') = Cardinality(Redeemed(o)) + 1
    BY <1>4, <2>3, FS_AddElement
  <2> QED
    BY <1>1, <1>2, <1>3, <1>4, <1>6, <2>1, <2>2, <2>4
<1>7. CASE o # w
  <2>1. allowed'[o] = allowed[o] /\ allowed[o] \in Nat
    BY <1>1, <1>7 DEF TypeInv, TypeOK
  <2>2. Redeemed(o)' = Redeemed(o)
    BY <1>1, <1>4, <1>5, <1>7 DEF Redeemed
  <2> QED
    BY <1>2, <1>3, <1>7, <2>1, <2>2
<1> QED
  BY <1>6, <1>7

LEMMA NextEntitlement == TypeInv /\ EntitlementInv /\ [Next]_vars => EntitlementInv'
<1> SUFFICES ASSUME TypeInv, EntitlementInv, [Next]_vars
             PROVE  EntitlementInv'
  OBVIOUS
<1>1. ASSUME UNCHANGED <<allowed, code>>,
             \A q \in Request : row'[q] # None \/ req'[q].status \in Pending
                                   => row[q] # None \/ req[q].status \in Pending
      PROVE  EntitlementInv'
  <2>1. \A o \in Owner : Used(o)' \subseteq Used(o) /\ Redeemed(o)' = Redeemed(o)
    BY <1>1 DEF Used, Redeemed
  <2> QED
    BY <1>1, <2>1, NoMoreUsed
<1>2. ASSUME NEW q \in Request, Backfill(q) \/ Expire(q)
      PROVE  EntitlementInv'
  <2>1. Touched(q) /\ req[q].status # "none"
    BY <1>2, TouchedFields DEF Backfill, Expire
  <2> QED
    BY <1>1, <1>2, <2>1 DEF Backfill, Expire, Touched, Elsewhere, admission, grants, Pending
<1>3. ASSUME NEW q \in Request, Cancel(q)
      PROVE  EntitlementInv'
  <2>1. Closed(q, "cancelled") /\ \A p \in Request : row'[p] \in {row[p], None}
    BY <1>3, CloseFields DEF Cancel, DeleteRuntime, TypeInv, TypeOK
  <2> QED
    BY <1>1, <1>3, <2>1 DEF Cancel, Closed, Elsewhere, admission, Pending
<1>4. ASSUME NEW c \in Code, RevokeCode(c)
      PROVE  EntitlementInv'
  <2>1. /\ code[c] = "free" /\ code'[c] = "revoked"
        /\ \A d \in Code \ {c} : code'[d] = code[d]
        /\ UNCHANGED <<req, row, allowed>>
    BY <1>4 DEF RevokeCode, grants, TypeInv, TypeOK
  <2>2. \A o \in Owner : Used(o)' \subseteq Used(o) /\ Redeemed(o)' = Redeemed(o)
    BY <2>1, ConstantsAssumption DEF Used, Redeemed
  <2> QED
    BY <2>1, <2>2, NoMoreUsed
<1>5. CASE \/ \E a \in Artifact : RetireArtifact(a)
           \/ \E w \in Runner : Preflight(w) \/ Crash(w)
           \/ UNCHANGED vars
  BY <1>1, <1>5 DEF RetireArtifact, Preflight, Crash, vars, admission, grants
<1>6. ASSUME NEW w \in Runner, Lease(w)
      PROVE  EntitlementInv'
  <2>1. PICK q \in Request : Claimed(w, q)
    BY <1>6, LeaseFields
  <2> QED
    BY <1>1, <1>6, <2>1 DEF Lease, Claimed, Elsewhere, admission, grants
<1>7. ASSUME NEW w \in Runner, ProvisionCredential(w)
      PROVE  EntitlementInv'
  BY <1>1, <1>7 DEF ProvisionCredential, admission
<1>8. ASSUME NEW w \in Runner, Register(w) \/ Complete(w) \/ Fail(w)
      PROVE  EntitlementInv'
  <2>0. PICK q : q = run[w].req
    OBVIOUS
  <2>1. q \in Request /\ UNCHANGED <<allowed, code>>
    BY <1>8, <2>0 DEF Register, Complete, Fail, admission, TypeInv, Working
  <2>2. CASE UNCHANGED <<req, row>>
    BY <1>1, <2>1, <2>2
  <2>3. CASE /\ HoldsLease(w, q)
             /\ \A p \in Request \ {q} : row'[p] = row[p] /\ req'[p] = req[p]
    BY <1>1, <2>1, <2>3 DEF HoldsLease, Pending
  <2>4. ASSUME MayPublish(w, q), Register(w) \/ Complete(w)
        PROVE  \A p \in Request \ {q} : row'[p] = row[p] /\ req'[p] = req[p]
    BY <2>0, <2>1, <2>4, CloseFields
       DEF Register, Complete, Publish, Closed, Elsewhere, TypeInv, TypeOK
  <2>5. ASSUME MayFail(w, q), Fail(w)
        PROVE  \A p \in Request \ {q} : row'[p] = row[p] /\ req'[p] = req[p]
    BY <2>0, <2>1, <2>5, CloseFields
       DEF Fail, DeleteRuntime, Closed, Elsewhere, TypeInv, TypeOK
  <2> QED
    BY <1>8, <2>0, <2>2, <2>3, <2>4, <2>5 DEF Register, Complete, Fail, MayPublish, MayFail
<1>9. ASSUME NEW w \in Runner,
             ProvisionKey(w) \/ KataLaunch(w) \/ PhalaStep(w) \/ BindIdentity(w) \/ Cleanup(w)
      PROVE  EntitlementInv'
  BY <1>1, <1>9, LaunchFields
<1> QED
  BY <1>2, <1>3, <1>4, <1>5, <1>6, <1>7, <1>8, <1>9, BilledEntitlement, CodeEntitlement
     DEF Next, Customer, Operator, RunnerStep

\* However launches fail, are cancelled or come back late, an owner never has more
\* agents than the launch codes and the subscription pay for.
THEOREM NeverOverEntitled == Spec => []EntitlementHeld
<1>1. Init => EntitlementInv
  <2> SUFFICES ASSUME Init, NEW o \in Owner
               PROVE  /\ Cardinality(Used(o)) <= allowed[o]
                      /\ allowed[o] <= Cardinality(Redeemed(o)) + Subscription(o)
    BY DEF EntitlementInv
  <2>1. Used(o) = {} /\ allowed[o] = 0
    BY DEF Init, Used, Pending
  <2>2. Cardinality(Redeemed(o)) \in Nat
    BY EntitlementSets DEF Redeemed
  <2> QED
    BY <2>1, <2>2, FS_EmptySet DEF Subscription
<1>2. TypeInv /\ EntitlementInv => EntitlementHeld
  <2> SUFFICES ASSUME TypeInv, EntitlementInv, NEW o \in Owner
               PROVE  Cardinality(Used(o)) <= Cardinality(Redeemed(o)) + Subscription(o)
    BY DEF EntitlementHeld, Used, Redeemed, Subscription
  <2>1. /\ Cardinality(Used(o)) \in Nat /\ allowed[o] \in Nat
        /\ Cardinality(Redeemed(o)) + Subscription(o) \in Nat
    BY EntitlementSets DEF Used, Redeemed, Subscription, TypeInv, TypeOK
  <2> QED
    BY <2>1 DEF EntitlementInv
<1> QED
  BY <1>1, <1>2, NextEntitlement, TypeCorrect, PTL DEF Spec

----------------------------------------------------------------------------
(* One container per enrolled agent.                                       *)

Launching == {"key", "kata"}
ClosedStatus == {"failed", "cancelled"}

\* Every container of q, every Runner that may still create one, and the
\* credential of q are of the host h.
OneHost(q, h) ==
    /\ containers[q] \subseteq {h}
    /\ \A w \in Runner : run[w].req = q /\ run[w].pc \in Launching => HostOf[w] = h
    /\ cred[q] # None => cred[q].host = h

Bare(q) ==
    /\ containers[q] = {}
    /\ \A w \in Runner : run[w].pc \in Launching => run[w].req # q

\* The credential pins the host; it is only gone once the request is closed.
ContainerInv ==
    Enrolled => \A q \in Request :
        /\ \E h : OneHost(q, h)
        /\ cred[q] = None => Bare(q) \/ req[q].status \in ClosedStatus

\* A step that starts no container and moves no credential to another host.
LEMMA ShrinkContainers ==
    ASSUME TypeInv, ContainerInv,
           \A q \in Request :
              /\ containers'[q] \subseteq containers[q]
              /\ \/ cred'[q] = cred[q]
                 \/ cred[q] # None /\ cred'[q] # None /\ cred'[q].host = cred[q].host
                 \/ cred'[q] = None /\ req'[q].status \in ClosedStatus
              /\ req[q].status \in ClosedStatus => req'[q].status \in ClosedStatus,
           \A w \in Runner : run'[w].pc \in Launching
                                => run[w].pc \in Launching /\ run'[w].req = run[w].req
    PROVE  ContainerInv'
<1> SUFFICES ASSUME Enrolled, NEW q \in Request
             PROVE  /\ \E h : OneHost(q, h)'
                    /\ cred'[q] = None => Bare(q)' \/ req'[q].status \in ClosedStatus
  BY DEF ContainerInv
<1>1. PICK h : OneHost(q, h)
  BY DEF ContainerInv
<1>2. OneHost(q, h)'
  BY <1>1 DEF OneHost
<1>3. Bare(q) => Bare(q)'
  BY DEF Bare
<1> QED
  BY <1>2, <1>3 DEF ContainerInv

LEMMA MovedContainers ==
    ASSUME TypeInv, ContainerInv, NEW w \in Runner, NEW pc \in Pc, Moved(w, pc),
           pc \in Launching => run[w].pc \in Launching,
           UNCHANGED <<req, cred>>,
           \A q \in Request : containers'[q] \subseteq containers[q]
    PROVE  ContainerInv'
BY ShrinkContainers DEF Moved, Others

LEMMA CredentialContainers ==
    ASSUME TypeInv, ContainerInv, NEW w \in Runner, ProvisionCredential(w)
    PROVE  ContainerInv'
<1>0. PICK q : q = run[w].req
  OBVIOUS
<1>1. q \in Request /\ UNCHANGED <<req, containers>>
  BY <1>0 DEF ProvisionCredential, world, TypeInv, Working
<1>2. CASE ~ MayProvisionCredential(w, q)
  <2>1. UNCHANGED cred /\ Moved(w, "fail")
    BY <1>0, <1>2, GotoFields DEF ProvisionCredential
  <2> QED
    BY <1>1, <2>1, MovedContainers DEF Launching, Pc
<1>3. CASE MayProvisionCredential(w, q)
  <2> SUFFICES ASSUME Enrolled
               PROVE  ContainerInv'
    BY DEF ContainerInv
  <2>1. /\ cred' = [cred EXCEPT ![q] =
              [host |-> HostOf[w], lease |-> run[w].token, active |-> FALSE,
               bound |-> row[q] # None]]
        /\ Left(w) \/ Moved(w, "key")
    BY <1>0, <1>3, GotoFields, ReturnFields DEF ProvisionCredential
  <2>2. /\ cred'[q].host = HostOf[w]
        /\ \A p \in Request \ {q} : cred'[p] = cred[p]
    BY <1>1, <2>1 DEF TypeInv, TypeOK
  <2>3. cred'[q] # None
    <3>1. [host |-> HostOf[w], lease |-> run[w].token, active |-> FALSE,
           bound |-> row[q] # None] \in Credential
      BY <1>0 DEF Credential, Host, ProvisionCredential, TypeInv, Working
    <3> QED
      BY <1>1, <2>1, <3>1, ConstantsAssumption DEF TypeInv, TypeOK
  <2>4. /\ req[q].status = "launching"
        /\ cred[q] # None => cred[q].host = HostOf[w]
    BY <1>3 DEF MayProvisionCredential, HoldsActiveLease, HoldsLease
  <2>5. OneHost(q, HostOf[w])
    <3>1. PICK h : OneHost(q, h)
      BY <1>1 DEF ContainerInv
    <3>2. CASE cred[q] # None
      BY <2>4, <3>1, <3>2 DEF OneHost
    <3>3. CASE cred[q] = None
      BY <1>1, <2>4, <3>3 DEF ContainerInv, Bare, OneHost, ClosedStatus
    <3> QED
      BY <3>2, <3>3
  <2>6. OneHost(q, HostOf[w])'
    BY <1>0, <1>1, <2>1, <2>2, <2>5 DEF OneHost, Left, Moved, Others, Launching
  <2>7. ASSUME NEW p \in Request \ {q}
        PROVE  /\ \E h : OneHost(p, h)'
               /\ cred'[p] = None => Bare(p)' \/ req'[p].status \in ClosedStatus
    <3>1. PICK h : OneHost(p, h)
      BY DEF ContainerInv
    <3>2. \A v \in Runner : run'[v].req = p /\ run'[v].pc \in Launching => run'[v] = run[v]
      BY <1>0, <2>1, <2>7 DEF Left, Moved, Others, Launching
    <3>3. OneHost(p, h)' /\ (Bare(p) => Bare(p)')
      BY <1>1, <2>2, <3>1, <3>2 DEF OneHost, Bare
    <3> QED
      BY <1>1, <2>2, <3>3 DEF ContainerInv
  <2> QED
    BY <2>3, <2>6, <2>7 DEF ContainerInv
<1> QED
  BY <1>2, <1>3

LEMMA KataContainers ==
    ASSUME TypeInv, ContainerInv, NEW w \in Runner, KataLaunch(w)
    PROVE  ContainerInv'
<1>0. PICK q : q = run[w].req
  OBVIOUS
<1>1. q \in Request /\ run[w].pc = "kata" /\ UNCHANGED <<req, cred>>
  BY <1>0 DEF KataLaunch, grants, TypeInv, Working
<1>2. PICK pc \in {"register", "fail"} : Moved(w, pc)
  BY GotoFields DEF KataLaunch
<1>3. /\ containers'[q] \subseteq containers[q] \cup {HostOf[w]}
      /\ \A p \in Request \ {q} : containers'[p] = containers[p]
  BY <1>0, <1>1 DEF KataLaunch, TypeInv, TypeOK
<1>4. \A v \in Runner : run'[v].pc \in Launching
                           => run[v].pc \in Launching /\ run'[v].req = run[v].req
  BY <1>2 DEF Moved, Others, Launching
<1> SUFFICES ASSUME Enrolled, NEW p \in Request
             PROVE  /\ \E h : OneHost(p, h)'
                    /\ cred'[p] = None => Bare(p)' \/ req'[p].status \in ClosedStatus
  BY DEF ContainerInv
<1>5. PICK h : OneHost(p, h)
  BY DEF ContainerInv
<1>6. CASE p = q
  <2>1. h = HostOf[w] /\ ~ Bare(q)
    BY <1>0, <1>1, <1>5, <1>6 DEF OneHost, Bare, Launching
  <2>2. OneHost(p, h)'
    BY <1>1, <1>3, <1>4, <1>5, <1>6, <2>1 DEF OneHost
  <2> QED
    BY <1>1, <1>6, <2>1, <2>2 DEF ContainerInv
<1>7. CASE p # q
  <2>1. OneHost(p, h)' /\ (Bare(p) => Bare(p)')
    BY <1>1, <1>3, <1>4, <1>5, <1>7 DEF OneHost, Bare
  <2> QED
    BY <1>1, <2>1 DEF ContainerInv
<1> QED
  BY <1>6, <1>7

\* Only a credential of the same host, or none once the request is closed.
LEMMA PublishContainers ==
    ASSUME TypeInv, ContainerInv, NEW w \in Runner, Register(w) \/ Complete(w) \/ Fail(w)
    PROVE  ContainerInv'
<1>0. PICK q : q = run[w].req
  OBVIOUS
<1>1. q \in Request /\ UNCHANGED containers
  BY <1>0 DEF Register, Complete, Fail, world, TypeInv, Working
<1>2. \A v \in Runner : run'[v].pc \in Launching
                           => run[v].pc \in Launching /\ run'[v].req = run[v].req
  <2>1. Left(w) \/ \E pc \in {"bind", "cleanup"} : Moved(w, pc)
    BY GotoFields, AnsweredFields, ReturnFields DEF Register, Complete, Fail
  <2> QED
    BY <2>1 DEF Left, Moved, Others, Launching
<1>3. CASE UNCHANGED <<req, cred>>
  BY <1>1, <1>2, <1>3, ShrinkContainers
<1>4. CASE ~ UNCHANGED <<req, cred>>
  <2>1. HoldsLease(w, q)
    BY <1>0, <1>4 DEF Register, Complete, Fail, MayPublish, MayFail
  <2>2. \A p \in Request \ {q} : cred'[p] = cred[p] /\ req'[p] = req[p]
    BY <1>0, <1>1, CloseFields
       DEF Register, Complete, Fail, DeleteRuntime, Closed, Elsewhere, TypeInv, TypeOK
  <2>3. \/ cred'[q] = cred[q]
        \/ cred[q] # None /\ cred'[q] # None /\ cred'[q].host = cred[q].host
        \/ cred'[q] = None /\ req'[q].status \in ClosedStatus
    <3>1. CASE cred[q] = None
      BY <1>0, <1>1, <3>1 DEF Register, Complete, Fail, DeleteRuntime, TypeInv, TypeOK
    <3>2. CASE cred[q] # None /\ Fail(w)
      BY <1>0, <1>1, <3>2, CloseFields
         DEF Fail, DeleteRuntime, Closed, ClosedStatus, TypeInv, TypeOK
    <3>3. CASE cred[q] # None /\ (Register(w) \/ Complete(w))
      <4>1. cred[q] \in Credential
        BY <1>1, <3>3, CredentialNotNull
      <4>2. \/ cred'[q] = cred[q]
            \/ cred'[q] = [cred[q] EXCEPT !.bound = TRUE]
            \/ \E b \in BOOLEAN : cred'[q] = [cred[q] EXCEPT !.bound = TRUE, !.active = b]
        BY <1>0, <1>1, <3>3 DEF Register, Complete, TypeInv, TypeOK
      <4> QED
        BY <3>3, <4>1, <4>2, ConstantsAssumption DEF Credential
    <3> QED
      BY <3>1, <3>2, <3>3
  <2> QED
    BY <1>1, <1>2, <2>1, <2>2, <2>3, ShrinkContainers DEF HoldsLease, ClosedStatus
<1> QED
  BY <1>3, <1>4

LEMMA NextContainers == TypeInv /\ ContainerInv /\ [Next]_vars => ContainerInv'
<1> SUFFICES ASSUME TypeInv, ContainerInv, [Next]_vars
             PROVE  ContainerInv'
  OBVIOUS
<1>1. CASE Customer \/ \E q \in Request : Expire(q)
  <2>1. PICK q \in Request : Touched(q)
    BY <1>1, TouchedFields DEF Customer
  <2>2. UNCHANGED <<run, cred, containers>>
    BY <1>1 DEF Customer, RequestBilled, RequestWithCode, Backfill, Expire, grants, world
  <2> QED
    BY <2>1, <2>2, ShrinkContainers DEF Touched, Elsewhere, ClosedStatus
<1>2. ASSUME NEW q \in Request, Cancel(q)
      PROVE  ContainerInv'
  <2>1. /\ Closed(q, "cancelled") /\ UNCHANGED <<run, containers>>
        /\ \A p \in Request \ {q} : cred'[p] = cred[p]
        /\ cred'[q] \in {cred[q], None}
    BY <1>2, CloseFields DEF Cancel, DeleteRuntime, world, TypeInv, TypeOK
  <2> QED
    BY <2>1, ShrinkContainers DEF Closed, Elsewhere, ClosedStatus
<1>3. CASE \/ \E c \in Code : RevokeCode(c)
           \/ \E a \in Artifact : RetireArtifact(a)
           \/ UNCHANGED vars
  BY <1>3, ShrinkContainers DEF RevokeCode, RetireArtifact, vars, grants, world
<1>4. ASSUME NEW w \in Runner, Preflight(w)
      PROVE  ContainerInv'
  <2>1. Moved(w, "idle")
    BY <1>4 DEF Preflight, Moved, Others, TypeInv, TypeOK, RunnerState
  <2> QED
    BY <1>4, <2>1, MovedContainers DEF Preflight, Launching, Pc, grants, world
<1>5. ASSUME NEW w \in Runner, Crash(w)
      PROVE  ContainerInv'
  BY <1>5, ReturnFields, ShrinkContainers
     DEF Crash, Left, Others, Launching, grants, world
<1>6. ASSUME NEW w \in Runner, Lease(w)
      PROVE  ContainerInv'
  <2>1. PICK q \in Request : Claimed(w, q)
    BY <1>6, LeaseFields
  <2>2. UNCHANGED <<cred, containers>>
    BY <1>6 DEF Lease, grants, world
  <2>3. CASE Enrolled
    BY <2>1, <2>2, <2>3, ShrinkContainers
       DEF Claimed, Elsewhere, Others, Launching, ClosedStatus, Pending
  <2> QED
    BY <2>3 DEF ContainerInv
<1>7. ASSUME NEW w \in Runner, ProvisionKey(w) \/ PhalaStep(w) \/ BindIdentity(w) \/ Cleanup(w)
      PROVE  ContainerInv'
  <2>1. PICK pc \in Pc \ {"idle", "credential", "key"} : Moved(w, pc)
    BY <1>7, LaunchFields
  <2>2. UNCHANGED <<req, cred>>
    BY <1>7, LaunchFields
  <2>3. \A q \in Request : containers'[q] \subseteq containers[q]
    BY <1>7
       DEF ProvisionKey, BindIdentity, Cleanup, PhalaStep, PhalaAdmit, ReserveCorrelation,
           StartProvision, RecordUnknown, RecordProvisioned, StartCommit, Record, Provision,
           Commit, Reconcile, AwaitReadiness, world, TypeInv, TypeOK
  <2>4. pc = "kata" => run[w].pc = "key"
    <3>1. CASE ProvisionKey(w)
      BY <3>1 DEF ProvisionKey
    <3>2. ASSUME pc = "kata", NEW pc2, Moved(w, pc2)
          PROVE  pc2 = "kata"
      BY <2>1, <3>2 DEF Moved
    <3>3. CASE PhalaStep(w) \/ BindIdentity(w) \/ Cleanup(w)
      <4>1. run[w].seen \in Transition
        BY DEF TypeInv, TypeOK, RunnerState
      <4>2. \E pc2 \in Pc \ {"kata"} : Moved(w, pc2)
        BY <3>3, <4>1, GotoFields, AnsweredFields, ResumeAtJournal
           DEF BindIdentity, Cleanup, PhalaStep, PhalaAdmit, ReserveCorrelation,
               StartProvision, RecordUnknown, RecordProvisioned, StartCommit, Record,
               Provision, Commit, Reconcile, AwaitReadiness, Pc
      <4> QED
        BY <3>2, <4>2
    <3> QED
      BY <1>7, <3>1, <3>3
  <2> QED
    BY <2>1, <2>2, <2>3, <2>4, MovedContainers DEF Launching
<1> QED
  BY <1>1, <1>2, <1>3, <1>4, <1>5, <1>6, <1>7, CredentialContainers, KataContainers,
     PublishContainers DEF Next, Operator, RunnerStep

\* An enrolled agent never has containers on two hosts, however many Runners
\* launch it one after the other or at once.
THEOREM OneContainer == Spec => [](Enrolled => OneContainerPerAgent)
<1>1. Init => ContainerInv
  <2>1. Init => \A q \in Request : \A h : OneHost(q, h) /\ Bare(q)
    BY DEF Init, OneHost, Bare, Launching
  <2> QED
    BY <2>1 DEF ContainerInv
<1>2. ContainerInv => (Enrolled => OneContainerPerAgent)
  <2> SUFFICES ASSUME ContainerInv, Enrolled, NEW q \in Request
               PROVE  Cardinality(containers[q]) <= 1
    BY DEF OneContainerPerAgent
  <2>1. PICK h : containers[q] \subseteq {h}
    BY DEF ContainerInv, OneHost
  <2>2. CASE containers[q] = {}
    BY <2>2, FS_EmptySet
  <2>3. CASE containers[q] = {h}
    <3>1. Cardinality({h}) = 1
      BY FS_Singleton
    <3> QED
      BY <2>3, <3>1
  <2>4. containers[q] = {} \/ containers[q] = {h}
    BY <2>1
  <2> QED
    BY <2>2, <2>3, <2>4
<1> QED
  BY <1>1, <1>2, NextContainers, TypeCorrect, PTL DEF Spec

----------------------------------------------------------------------------
(* The container of a running Kata agent.                                  *)

\* One Kata Runner per host, agents enrolled, no answer lost.
OwnHosts ==
    \A v, w \in Runner \ PhalaRunner : HostOf[v] = HostOf[w] => v = w
KataAssumed == Enrolled /\ ~ Lossy /\ OwnHosts

Launched == {"register", "bind", "complete"}

\* A launch that came up has its container until it ends; no Runner that works
\* on a running agent can touch the container of the host that runs it.
ComputeInv ==
    KataAssumed =>
        /\ \A w \in Runner : run[w].pc # "idle" => (run[w].req \in Phala <=> w \in PhalaRunner)
        /\ \A w \in Runner : run[w].pc \in Launched /\ run[w].req \notin Phala
                                => HostOf[w] \in containers[run[w].req]
        /\ RunningHasCompute
        /\ \A q \in Request \ Phala, w \in Runner :
              req[q].status = "running" /\ run[w].pc # "idle" /\ run[w].req = q
                 => HostOf[w] # row[q]

\* A step that touches no container, claims nothing and ends no launch well.
LEMMA QuietCompute ==
    ASSUME TypeInv, ComputeInv, UNCHANGED containers,
           \A w \in Runner : run'[w].pc # "idle"
                                => run[w].pc # "idle" /\ run'[w].req = run[w].req,
           \A w \in Runner : run'[w].pc \in Launched
                                => run[w].pc \in Launched \/ run'[w].req \in Phala,
           \A q \in Request : req'[q].status = "running"
                                => req[q].status = "running" /\ row'[q] = row[q]
    PROVE  ComputeInv'
BY DEF ComputeInv, RunningHasCompute, KataAssumed, Launched

LEMMA LeaseCompute ==
    ASSUME TypeInv, ComputeInv, NEW w \in Runner, Lease(w)
    PROVE  ComputeInv'
<1>1. PICK q \in Request : Claimed(w, q)
  BY LeaseFields
<1>2. UNCHANGED <<row, containers>>
  BY DEF Lease, grants, world
<1>3. \A v \in Runner \ {w} : run'[v] = run[v]
  BY <1>1 DEF Claimed, Others
<1>4. /\ run'[w].pc \notin Launched /\ run'[w].req = q
      /\ req'[q].status = "launching"
      /\ \A p \in Request \ {q} : req'[p] = req[p]
      /\ q \in Phala <=> w \in PhalaRunner
  BY <1>1 DEF Claimed, Elsewhere, Launched
<1> QED
  BY <1>2, <1>3, <1>4 DEF ComputeInv, RunningHasCompute, KataAssumed

\* A Runner creates and removes containers on its own host only.
LEMMA KataCompute ==
    ASSUME TypeInv, ComputeInv, NEW w \in Runner, KataLaunch(w) \/ Cleanup(w)
    PROVE  ComputeInv'
<1>0. PICK q : q = run[w].req
  OBVIOUS
<1>1. q \in Request /\ run[w].pc # "idle" /\ UNCHANGED <<req, row>>
  BY <1>0 DEF KataLaunch, Cleanup, grants, TypeInv, Working
<1>2. PICK pc \in {"register", "fail"} :
         /\ Moved(w, pc)
         /\ pc = "register" => HostOf[w] \in containers'[q]
  <2>1. CASE Cleanup(w)
    BY <2>1, GotoFields DEF Cleanup
  <2>2. CASE KataLaunch(w)
    <3>1. PICK outcome \in {"up", "removed", "left"} :
             /\ containers' = [containers EXCEPT ![q] =
                   IF outcome = "removed" THEN @ \ {HostOf[w]} ELSE @ \cup {HostOf[w]}]
             /\ Goto(w, IF outcome = "up" THEN "register" ELSE "fail")
      BY <1>0, <2>2 DEF KataLaunch
    <3>2. CASE outcome = "up"
      BY <1>1, <3>1, <3>2, GotoFields DEF TypeInv, TypeOK
    <3>3. CASE outcome # "up"
      BY <3>1, <3>3, GotoFields
    <3> QED
      BY <3>2, <3>3
  <2> QED
    BY <2>1, <2>2
<1>3. /\ \A h : h # HostOf[w] /\ h \in containers[q] => h \in containers'[q]
      /\ \A p \in Request \ {q} : containers'[p] = containers[p]
  BY <1>0, <1>1 DEF KataLaunch, Cleanup, TypeInv, TypeOK
<1> SUFFICES ASSUME KataAssumed
             PROVE  ComputeInv'
  BY DEF ComputeInv
<1>4. \A v \in Runner : run'[v].pc # "idle" => (run'[v].req \in Phala <=> v \in PhalaRunner)
  BY <1>0, <1>1, <1>2 DEF ComputeInv, Moved, Others
<1>5. ASSUME NEW v \in Runner, run'[v].pc \in Launched, run'[v].req \notin Phala
      PROVE  HostOf[v] \in containers'[run'[v].req]
  <2>1. CASE v = w
    BY <1>0, <1>2, <1>5, <2>1 DEF Moved, Launched
  <2>2. CASE v # w
    <3>1. run'[v] = run[v] /\ run[v].req \in Request /\ HostOf[v] \in containers[run[v].req]
      BY <1>2, <1>5, <2>2 DEF ComputeInv, Moved, Others, Launched, TypeInv, Working
    <3>2. run[v].req = q => HostOf[v] # HostOf[w]
      BY <1>0, <1>1, <1>5, <2>2, <3>1 DEF ComputeInv, KataAssumed, OwnHosts, Launched
    <3> QED
      BY <1>3, <3>1, <3>2
  <2> QED
    BY <2>1, <2>2
<1>6. ASSUME NEW p \in Request \ Phala, req'[p].status = "running"
      PROVE  /\ row'[p] \in containers'[p]
             /\ \A v \in Runner : run'[v].pc # "idle" /\ run'[v].req = p => HostOf[v] # row'[p]
  <2>1. /\ row[p] \in containers[p]
        /\ \A v \in Runner : run[v].pc # "idle" /\ run[v].req = p => HostOf[v] # row[p]
    BY <1>1, <1>6 DEF ComputeInv, RunningHasCompute
  <2>2. row[p] \in containers'[p]
    BY <1>0, <1>1, <1>3, <2>1
  <2> QED
    BY <1>0, <1>1, <1>2, <2>1, <2>2 DEF Moved, Others
<1> QED
  BY <1>4, <1>5, <1>6 DEF ComputeInv, RunningHasCompute

LEMMA CompleteCompute ==
    ASSUME TypeInv, EnrolledInv, ComputeInv, NEW w \in Runner, Complete(w),
           MayPublish(w, run[w].req)
    PROVE  ComputeInv'
<1>0. PICK q : q = run[w].req
  OBVIOUS
<1> SUFFICES ASSUME KataAssumed
             PROVE  ComputeInv'
  BY DEF ComputeInv
<1>1. /\ q \in Request /\ run[w].pc = "complete" /\ UNCHANGED containers
      /\ HoldsLease(w, q) /\ MayPublish(w, q)
  BY <1>0 DEF Complete, world, MayPublish, TypeInv, Working
<1>2. Left(w)
  BY <1>0, <1>1, ReturnFields DEF Complete, KataAssumed
<1>3. Closed(q, "running")
  BY <1>0, <1>1, CloseFields DEF Complete
<1>4. cred[q] # None
  BY <1>0, <1>1 DEF EnrolledInv, KataAssumed, Early
<1>5. row'[q] = HostOf[w] /\ \A p \in Request \ {q} : row'[p] = row[p]
  BY <1>0, <1>1, <1>4 DEF Complete, MayPublish, Publish, TypeInv, TypeOK
<1>6. q \notin Phala => HostOf[w] \in containers[q] /\ w \notin PhalaRunner
  BY <1>0, <1>1 DEF ComputeInv, Launched
<1>7. \A v \in Runner : run'[v].pc # "idle" => v # w /\ run'[v] = run[v]
  BY <1>2 DEF Left, Others
<1>8. ASSUME NEW p \in Request \ Phala, req'[p].status = "running"
      PROVE  /\ row'[p] \in containers'[p]
             /\ \A v \in Runner : run'[v].pc # "idle" /\ run'[v].req = p => HostOf[v] # row'[p]
  <2>1. CASE p = q
    BY <1>1, <1>5, <1>6, <1>7, <2>1 DEF ComputeInv, KataAssumed, OwnHosts
  <2>2. CASE p # q
    BY <1>1, <1>3, <1>5, <1>7, <1>8, <2>2
       DEF ComputeInv, RunningHasCompute, Closed, Elsewhere
  <2> QED
    BY <2>1, <2>2
<1> QED
  BY <1>1, <1>7, <1>8 DEF ComputeInv, RunningHasCompute, Launched

LEMMA NextCompute ==
    TypeInv /\ JournalInv /\ EnrolledInv /\ ComputeInv /\ [Next]_vars => ComputeInv'
<1> SUFFICES ASSUME TypeInv, JournalInv, EnrolledInv, ComputeInv, [Next]_vars
             PROVE  ComputeInv'
  OBVIOUS
<1>1. CASE Customer \/ \E q \in Request : Expire(q)
  <2>1. PICK q \in Request : Touched(q)
    BY <1>1, TouchedFields DEF Customer
  <2>2. UNCHANGED <<run, row, containers>>
    BY <1>1 DEF Customer, RequestBilled, RequestWithCode, Backfill, Expire, grants, world
  <2> QED
    BY <2>1, <2>2, QuietCompute DEF Touched, Elsewhere
<1>2. ASSUME NEW q \in Request, Cancel(q)
      PROVE  ComputeInv'
  <2>1. /\ Closed(q, "cancelled") /\ UNCHANGED <<run, containers>>
        /\ \A p \in Request \ {q} : row'[p] = row[p]
    BY <1>2, CloseFields DEF Cancel, DeleteRuntime, world, TypeInv, TypeOK
  <2> QED
    BY <2>1, QuietCompute DEF Closed, Elsewhere
<1>3. CASE \/ \E c \in Code : RevokeCode(c)
           \/ \E a \in Artifact : RetireArtifact(a)
           \/ UNCHANGED vars
  BY <1>3, QuietCompute DEF RevokeCode, RetireArtifact, vars, grants, world
<1>4. ASSUME NEW w \in Runner, Preflight(w)
      PROVE  ComputeInv'
  <2>1. Moved(w, "idle")
    BY <1>4 DEF Preflight, Moved, Others, TypeInv, TypeOK, RunnerState
  <2> QED
    BY <1>4, <2>1, QuietCompute DEF Preflight, Moved, Others, Launched, grants, world
<1>5. ASSUME NEW w \in Runner, Crash(w)
      PROVE  ComputeInv'
  BY <1>5, ReturnFields, QuietCompute DEF Crash, Left, Others, Launched, grants, world
<1>6. ASSUME NEW w \in Runner, ProvisionCredential(w)
      PROVE  ComputeInv'
  <2>1. Left(w) \/ Moved(w, "key") \/ Moved(w, "fail")
    BY <1>6, GotoFields, ReturnFields DEF ProvisionCredential
  <2> QED
    BY <1>6, <2>1, QuietCompute
       DEF ProvisionCredential, Left, Moved, Others, Launched, world
<1>7. ASSUME NEW w \in Runner, ProvisionKey(w) \/ PhalaStep(w) \/ BindIdentity(w)
      PROVE  ComputeInv'
  <2>1. PICK pc \in Pc \ {"idle", "credential", "key"} : Moved(w, pc)
    BY <1>7, LaunchFields
  <2>2. UNCHANGED <<req, row>> /\ run[w].pc # "idle"
    BY <1>7, LaunchFields DEF Early
  <2>3. UNCHANGED containers
    BY <1>7
       DEF ProvisionKey, BindIdentity, PhalaStep, PhalaAdmit, ReserveCorrelation,
           StartProvision, RecordUnknown, RecordProvisioned, StartCommit, Record, Provision,
           Commit, Reconcile, AwaitReadiness, world
  <2>4. pc \in Launched => run[w].pc \in Launched \/ run[w].req \in Phala
    <3>1. CASE ProvisionKey(w)
      <4>1. PICK pc2 \in {"fail", "admit", "kata"}, key \in BOOLEAN :
               run' = [run EXCEPT ![w] = [run[w] EXCEPT !.pc = pc2, !.key = key]]
               \/ run' = [run EXCEPT ![w].pc = pc2]
        BY <3>1 DEF ProvisionKey, Goto
      <4>2. run'[w].pc = pc2
        BY <4>1 DEF TypeInv, TypeOK, RunnerState
      <4> QED
        BY <2>1, <4>2 DEF Moved, Launched
    <3>2. CASE BindIdentity(w)
      BY <3>2 DEF BindIdentity, Launched
    <3>3. CASE PhalaStep(w)
      <4>1. run[w].pc \in OnPhala
        BY <3>3
           DEF PhalaStep, PhalaAdmit, ReserveCorrelation, StartProvision, RecordUnknown,
               RecordProvisioned, StartCommit, Record, Provision, Commit, Reconcile,
               AwaitReadiness, OnPhala
      <4> QED
        BY <2>2, <4>1 DEF JournalInv, RunnerJournal
    <3> QED
      BY <1>7, <3>1, <3>2, <3>3
  <2> QED
    BY <2>1, <2>2, <2>3, <2>4, QuietCompute DEF Moved, Others
<1>8. ASSUME NEW w \in Runner, Register(w) \/ Fail(w) \/ Complete(w)
      PROVE  ComputeInv'
  <2>0. PICK q : q = run[w].req
    OBVIOUS
  <2>1. q \in Request /\ UNCHANGED containers /\ run[w].pc \in Launched \cup {"fail"}
    BY <1>8, <2>0 DEF Register, Complete, Fail, world, Launched, TypeInv, Working
  <2>2. CASE Complete(w) /\ MayPublish(w, q)
    BY <2>0, <2>2, CompleteCompute
  <2>3. CASE ~ (Complete(w) /\ MayPublish(w, q))
    <3>1. Left(w) \/ (\E pc \in Pc : Moved(w, pc) /\ run[w].pc \in Launched)
      BY <1>8, GotoFields, AnsweredFields, ReturnFields
         DEF Register, Complete, Fail, Launched, Pc
    <3>2. CASE UNCHANGED <<req, row>>
      BY <2>1, <3>1, <3>2, QuietCompute DEF Left, Moved, Others, Launched
    <3>3. CASE ~ UNCHANGED <<req, row>>
      <4>1. HoldsLease(w, q)
        BY <1>8, <2>0, <2>3, <3>3 DEF Register, Complete, Fail, MayPublish, MayFail
      <4>2. /\ UNCHANGED req \/ Closed(q, "failed")
            /\ \A p \in Request \ {q} : row'[p] = row[p]
        BY <1>8, <2>0, <2>1, <2>3, <3>3, CloseFields
           DEF Register, Complete, Fail, Publish, DeleteRuntime, TypeInv, TypeOK
      <4> QED
        BY <2>1, <3>1, <4>1, <4>2, QuietCompute
           DEF Left, Moved, Others, Launched, Closed, Elsewhere, HoldsLease
    <3> QED
      BY <3>2, <3>3
  <2> QED
    BY <2>2, <2>3
<1> QED
  BY <1>1, <1>2, <1>3, <1>4, <1>5, <1>6, <1>7, <1>8, LeaseCompute, KataCompute
     DEF Next, Operator, RunnerStep

\* Where no answer of Core is lost, an agent that Core calls running has its
\* container, on the host Core has recorded.
THEOREM RunningIsUp == Spec => [](KataAssumed => RunningHasCompute)
<1>1. Init => ComputeInv /\ EnrolledInv
  BY DEF Init, ComputeInv, RunningHasCompute, EnrolledInv, RunningIsEnrolled, Early, Launched
<1>2. ComputeInv => (KataAssumed => RunningHasCompute)
  BY DEF ComputeInv
<1> QED
  BY <1>1, <1>2, NextCompute, NextEnrolled, TypeCorrect, JournalBounds, PTL DEF Spec
=============================================================================
