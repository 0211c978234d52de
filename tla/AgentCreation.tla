---------------------------- MODULE AgentCreation ----------------------------
(***************************************************************************)
(* Agent creation, from the customer's request to running compute: the     *)
(* queue agent_creation_requests in Finite Core, launch codes and          *)
(* entitlements, the provider-operation journal, the Finite Private launch *)
(* keys and runtime credentials, and the Runner's run_once over the two    *)
(* provider adapters it launches with: Kata (containers, no journal) and   *)
(* Phala (confidential VMs that cost money, every mutation journalled).    *)
(*                                                                         *)
(* A Core action is one committed transaction; what a Runner does between  *)
(* two calls is a step of its own, so a Runner can be overtaken, crash or  *)
(* lose an answer at every boundary.  A lease is live until Expire; a      *)
(* lease token is the number of the claim, 0 is NULL.                      *)
(*                                                                         *)
(* Left out: relocation and trial restore, which reuse this queue (module  *)
(* TrialResidency), host-targeted codes, and Kata's own sandbox limit.     *)
(***************************************************************************)
EXTENDS Integers, FiniteSets, Sequences

CONSTANTS
    Request,     \* creation requests, one per (owner, idempotency key)
    Owner,       \* personal orgs
    OwnerOf,     \* [Request -> Owner]
    Code,        \* launch codes
    Paying,      \* owners with active billing
    Phala,       \* requests placed on Phala; the others are placed on Kata
    Runner,      \* Runner processes
    PhalaRunner, \* the Runners of the Phala class
    HostOf,      \* [Runner -> source host]
    Artifact,    \* runtime artifacts in promotion order, a set of numbers
    Retirable,   \* the artifacts an operator may retire
    Enrolled,    \* Runners run with runtime_core_url: agents get a credential
    Cached,      \* a launch may end within PREFLIGHT_REFRESH_INTERVAL
    Lossy,       \* an answer of Core to a Runner may be lost
    Crashes,     \* a Runner process may crash
    MaxLease,    \* bound: claims of one request
    MaxCvm,      \* max_cvm_count, one in this release
    None         \* SQL NULL

Host == {HostOf[w] : w \in Runner}
Recorded == {"correlation_reserved", "provision_started", "provision_unknown",
             "provisioned", "commit_started", "provider_handle_recorded", "ready"}
Transition == {None} \cup Recorded

\* The columns of agent_creation_requests and of runtime_core_credentials.
RequestRow ==
    [status : {"none", "requested", "launching", "running", "failed", "cancelled"},
     holder : Runner \cup {None}, token : 0..MaxLease, leases : 0..MaxLease,
     live : BOOLEAN, chat : BOOLEAN,
     spec : {None} \cup [artifact : Artifact, chat : BOOLEAN]]
Credential ==
    [host : Host, lease : 1..MaxLease, active : BOOLEAN, bound : BOOLEAN]

ASSUME ConstantsAssumption ==
    /\ MaxLease \in Nat /\ MaxCvm \in Nat
    /\ Phala \subseteq Request /\ PhalaRunner \subseteq Runner
    /\ Artifact \subseteq Nat /\ Retirable \subseteq Artifact
    /\ OwnerOf \in [Request -> Owner]
    /\ {Enrolled, Cached, Lossy, Crashes} \subseteq BOOLEAN
    /\ \A w \in Runner : HostOf[w] # None
    /\ {"free", "revoked"} \cap Request = {}
    /\ IsFiniteSet(Request) /\ IsFiniteSet(Code)
    /\ None \notin Recorded
    /\ None \notin [artifact : Artifact, chat : BOOLEAN]
    /\ None \notin Credential

VARIABLES
    req,        \* agent_creation_requests
    queue,      \* the requests in created_at order
    allowed,    \* agent_creation_entitlements.allowed_new_agent_runtimes
    code,       \* launch_codes: free, revoked, or the request it was redeemed for
    journal,    \* last transition of the request's provider operation, or None
    row,        \* source host of the agent_runtimes row and active link, or None
    cred,       \* runtime_core_credentials of the request, or None
    keys,       \* the active Finite Private keys of the project, by claim
    keyed,      \* a key row, active or revoked, references the Runtime row
    launchable, \* runtime_artifacts that are promoted and not retired
    run,        \* the Runners
    containers, \* Kata hosts on which the request's container exists
    cvms,       \* Phala CVMs that exist for the request
    provisions  \* provision calls the provider has received for the request

admission == <<queue, allowed, code, launchable>>
grants == <<row, cred, keys, keyed>>
world == <<containers, cvms, provisions>>
vars == <<req, admission, journal, grants, run, world>>

Pending == {"requested", "launching"}
Unverified == -1 \* the Runner's preflight snapshot is missing or failed

----------------------------------------------------------------------------
(* What the tables and the provider add up to.                             *)

\* preflight_summary: the billable CVMs of the workspace.
Inventory == Cardinality(UNION {{q} \X (1..cvms[q]) : q \in Phala})

InFlight == Cardinality({q \in Phala : req[q].status = "launching"})

\* postgres_active_agent_creation_entitlement_count: active links plus pending
\* requests; a registered request that is still launching counts twice.
EntitlementCount(o) ==
    Cardinality({q \in Request : OwnerOf[q] = o /\ row[q] # None})
    + Cardinality({q \in Request : OwnerOf[q] = o /\ req[q].status \in Pending})

----------------------------------------------------------------------------
(* The customer.                                                           *)

\* The new rows of postgres_request_agent_creation_inner.
Insert(q, chat) ==
    /\ req' = [req EXCEPT ![q] = [@ EXCEPT !.status = "requested", !.chat = chat]]
    /\ queue' = Append(queue, q)

\* With active billing: one agent, or what launch codes have added up to.
RequestBilled(q, chat) ==
    LET o == OwnerOf[q]
        entitled == IF allowed[o] = 0 THEN 1 ELSE allowed[o]
    IN  /\ req[q].status = "none"
        /\ o \in Paying
        /\ EntitlementCount(o) < entitled
        /\ Insert(q, chat)
        /\ allowed' = [allowed EXCEPT ![o] = entitled]
        /\ UNCHANGED <<code, launchable, journal, grants, run, world>>

\* With a launch code: redeeming it grants one more, in the same transaction.
RequestWithCode(q, c, chat) ==
    LET o == OwnerOf[q]
    IN  /\ req[q].status = "none"
        /\ code[c] = "free"
        /\ EntitlementCount(o) < allowed[o] + 1
        /\ Insert(q, chat)
        /\ allowed' = [allowed EXCEPT ![o] = @ + 1]
        /\ code' = [code EXCEPT ![c] = q]
        /\ UNCHANGED <<launchable, journal, grants, run, world>>

\* A retry under the same idempotency key, now with the owner's chat account.
BackfillAnyStatus(q) == ~ req[q].chat \* Slip
MayBackfill(q) == req[q].status = "requested" /\ ~ req[q].chat

Backfill(q) ==
    /\ req[q].status # "none"
    /\ MayBackfill(q)
    /\ req' = [req EXCEPT ![q].chat = TRUE]
    /\ UNCHANGED <<admission, journal, grants, run, world>>

----------------------------------------------------------------------------
(* The operator.                                                           *)

\* provider_operation_allows_generic_failure, TRUE for an absent journal.
UntilProvisioned(q) == \* Slip
    journal[q] \in {None, "correlation_reserved", "provision_started"}
AllowsGenericFailure(q) == journal[q] \in {None, "correlation_reserved"}

\* delete_runtime_rows: a key row that references the Runtime blocks the delete
\* (finite_private_api_keys.agent_runtime_id has no ON DELETE clause); the
\* credential bound to the Runtime goes with it.
MayDeleteRuntime(q) == row[q] = None \/ ~ keyed[q]

DeleteRuntime(q) ==
    /\ row' = [row EXCEPT ![q] = None]
    /\ cred' = [cred EXCEPT ![q] = IF @ # None /\ @.bound THEN None ELSE @]

Close(q, status, holder) ==
    req' = [req EXCEPT ![q] = [@ EXCEPT !.status = status, !.holder = holder,
                                        !.token = 0, !.live = FALSE]]

RevokeNewestKey(q) == keys' = [keys EXCEPT ![q] = @ \ {req[q].token}] \* Slip

\* The key of every lease there ever was, named by a Runner or not.
RevokeProjectKeys(q) == keys' = [keys EXCEPT ![q] = {}]

\* postgres_cancel_agent_creation_request.
Cancel(q) ==
    /\ req[q].status \in Pending \cup {"failed"}
    /\ AllowsGenericFailure(q)
    /\ MayDeleteRuntime(q)
    /\ RevokeProjectKeys(q)
    /\ DeleteRuntime(q)
    /\ Close(q, "cancelled", None)
    /\ UNCHANGED <<admission, journal, keyed, run, world>>

RevokeCode(c) ==
    /\ code[c] = "free"
    /\ code' = [code EXCEPT ![c] = "revoked"]
    /\ UNCHANGED <<req, queue, allowed, launchable, journal, grants, run, world>>

RetireArtifact(a) ==
    /\ a \in launchable \cap Retirable
    /\ launchable' = launchable \ {a}
    /\ UNCHANGED <<req, queue, allowed, code, journal, grants, run, world>>

----------------------------------------------------------------------------
(* Leases.                                                                 *)

RowExists(w, q) == req[q].status # "none" \* Slip

\* verify_agent_creation_lease
HoldsLease(w, q) ==
    req[q].status = "launching" /\ req[q].holder = w /\ req[q].token = run[w].token

\* verify_agent_creation_lease_active
HoldsActiveLease(w, q) == HoldsLease(w, q) /\ req[q].live

Expire(q) ==
    /\ req[q].status = "launching" /\ req[q].live
    /\ req' = [req EXCEPT ![q].live = FALSE]
    /\ UNCHANGED <<admission, journal, grants, run, world>>

\* refresh_preflight: reads the provider inventory, or fails to.
Preflight(w) ==
    /\ run[w].pc = "idle" /\ w \in PhalaRunner
    /\ \E n \in {Inventory, Unverified} :
          run' = [run EXCEPT ![w].inventory = n]
    /\ UNCHANGED <<req, admission, journal, grants, world>>

\* may_reserve_new: Phala's provider count plus Core's launching requests stay
\* below the cap; a Kata Runner does not reserve.
MayReserveNew(w) ==
    w \in PhalaRunner => run[w].inventory + InFlight < MaxCvm

Claimable(w, q) ==
    /\ q \in Phala <=> w \in PhalaRunner
    /\ \/ req[q].status = "requested" /\ MayReserveNew(w)
       \/ req[q].status = "launching" /\ ~ req[q].live

HeadOfQueue(w, q) == queue # <<>> /\ queue[1] = q /\ Claimable(w, q) \* Slip

\* The claim's ORDER BY created_at, LIMIT 1.
OldestClaimable(w, q) ==
    \E i \in 1..Len(queue) :
        /\ queue[i] = q
        /\ Claimable(w, q)
        /\ \A j \in 1..(i - 1) : ~ Claimable(w, queue[j])

\* select_latest_launchable_runtime_artifact
LatestArtifact ==
    IF launchable = {} THEN None
    ELSE CHOOSE a \in launchable : \A b \in launchable : b <= a

\* The RuntimeSpec is built at the first claim and reused by the later ones.
PinnedSpec(q) ==
    IF req[q].spec # None THEN req[q].spec
    ELSE [artifact |-> LatestArtifact, chat |-> req[q].chat]

AnyArtifact(q) == TRUE \* Slip

\* ensure_artifact_launchable: an error here rolls the claim back.
SpecLaunchable(q) == PinnedSpec(q).artifact \in launchable

\* postgres_lease_agent_creation_request, and run_once up to the launch options.
Lease(w) ==
    /\ run[w].pc = "idle"
    /\ w \in PhalaRunner => run[w].inventory \in 0..MaxCvm
    /\ \E q \in Request :
          /\ OldestClaimable(w, q)
          /\ req[q].leases < MaxLease
          /\ SpecLaunchable(q)
          /\ req' = [req EXCEPT ![q] =
                [@ EXCEPT !.status = "launching", !.holder = w, !.live = TRUE,
                          !.token = req[q].leases + 1, !.leases = req[q].leases + 1,
                          !.spec = PinnedSpec(q)]]
          /\ q \in Phala => InFlight' <= MaxCvm
          /\ run' = [run EXCEPT ![w] =
                [@ EXCEPT !.pc = IF Enrolled THEN "credential" ELSE "key",
                          !.req = q, !.token = req[q].leases + 1,
                          !.seen = journal[q], !.inFlight = InFlight']]
    /\ UNCHANGED <<admission, journal, grants, world>>

----------------------------------------------------------------------------
(* The Runner between the claim and the launch.                            *)

Goto(w, pc) == run' = [run EXCEPT ![w].pc = pc]

\* Where a call to Core leaves the Runner: an answer may be lost.
Answered(w, next, failed) ==
    \E pc \in {next} \cup (IF Lossy THEN {failed} ELSE {}) : Goto(w, pc)

\* run_once returns: the next cycle refreshes the preflight unless it is cached.
Return(w) ==
    run' = [run EXCEPT ![w] =
        [@ EXCEPT !.pc = "idle", !.req = None, !.token = 0, !.seen = None,
                  !.inFlight = 0, !.key = FALSE,
                  !.inventory = IF Cached THEN run[w].inventory ELSE Unverified]]

CredentialOfAnyHost(w, q) == HoldsActiveLease(w, q) \* Slip

\* provision_runtime_credential: one host per request, the newest lease.
MayProvisionCredential(w, q) ==
    /\ HoldsActiveLease(w, q)
    /\ row[q] \in {None, HostOf[w]}
    /\ cred[q] # None => cred[q].host = HostOf[w]

ProvisionCredential(w) ==
    LET q == run[w].req
    IN  /\ run[w].pc = "credential"
        /\ \/ /\ MayProvisionCredential(w, q)
              /\ cred' = [cred EXCEPT ![q] =
                    [host |-> HostOf[w], lease |-> run[w].token, active |-> FALSE,
                     bound |-> row[q] # None]]
              /\ Goto(w, "key") \/ (Lossy /\ Return(w))
           \/ /\ ~ MayProvisionCredential(w, q)
              /\ Goto(w, "fail")
              /\ UNCHANGED cred
        /\ UNCHANGED <<req, admission, journal, row, keys, keyed, world>>

\* postgres_provision_finite_private_runtime_key: a fresh key at every claim,
\* bound to the Runtime when there is one already.
ProvisionKey(w) ==
    LET q == run[w].req
        launch == IF q \in Phala THEN "admit" ELSE "kata"
    IN  /\ run[w].pc = "key"
        /\ \/ /\ HoldsLease(w, q)
              /\ keys' = [keys EXCEPT ![q] = @ \cup {run[w].token}]
              /\ keyed' = [keyed EXCEPT ![q] =
                    @ \/ (IF q \in Phala THEN row[q] # None ELSE row[q] = HostOf[w])]
              /\ \/ run' = [run EXCEPT ![w] = [@ EXCEPT !.pc = launch, !.key = TRUE]]
                 \/ Lossy /\ Goto(w, "fail")
           \/ /\ ~ HoldsLease(w, q)
              /\ Goto(w, "fail")
              /\ UNCHANGED <<keys, keyed>>
        /\ UNCHANGED <<req, admission, journal, row, cred, world>>

----------------------------------------------------------------------------
(* Kata: launch_authorized and run_fresh.                                  *)

KataLaunchUnchecked(w) == \* Slip: the launch error is dropped
    LET q == run[w].req
    IN  /\ run[w].pc = "kata"
        /\ \E outcome \in {"up", "removed"} :
              /\ containers' = [containers EXCEPT ![q] =
                    IF outcome = "removed" THEN @ \ {HostOf[w]}
                    ELSE @ \cup {HostOf[w]}]
              /\ Goto(w, "register")
        /\ UNCHANGED <<req, admission, journal, grants, cvms, provisions>>

\* The container comes up; or it does not and is removed; or it is left behind
\* when its Agent Principal never answers or the removal fails too.
KataLaunch(w) ==
    LET q == run[w].req
    IN  /\ run[w].pc = "kata"
        /\ \E outcome \in {"up", "removed", "left"} :
              /\ containers' = [containers EXCEPT ![q] =
                    IF outcome = "removed" THEN @ \ {HostOf[w]}
                    ELSE @ \cup {HostOf[w]}]
              /\ Goto(w, IF outcome = "up" THEN "register" ELSE "fail")
        /\ UNCHANGED <<req, admission, journal, grants, cvms, provisions>>

----------------------------------------------------------------------------
(* Phala: launch_with_provider_operation.                                  *)

\* validate_capacity_reservation
ReservationHolds(w) ==
    /\ run[w].inFlight = 1
    /\ run[w].inventory <= 1
    /\ run[w].seen \in {None, "correlation_reserved", "provisioned"}
          => run[w].inventory = 0

ReprovisionUnresolved(seen) == \* Slip
    IF seen \in {"provision_started", "provision_unknown"} THEN "start"
    ELSE IF seen = None THEN "reserve"
    ELSE IF seen = "correlation_reserved" THEN "start" ELSE "fail"

\* Where the journal the claim returned lets this launch resume.
ResumeAt(seen) ==
    CASE seen = None                                      -> "reserve"
      [] seen = "correlation_reserved"                    -> "start"
      [] seen \in {"provision_started", "provision_unknown"} -> "fail"
      [] seen = "provisioned"                             -> "seal"
      [] seen = "commit_started"                          -> "reconcile"
      [] seen \in {"provider_handle_recorded", "ready"}   -> "readiness"

PhalaAdmit(w) ==
    /\ run[w].pc = "admit"
    /\ Goto(w, IF ReservationHolds(w) THEN ResumeAt(run[w].seen) ELSE "fail")
    /\ UNCHANGED <<req, admission, journal, grants, world>>

\* append_provider_operation_transition: the legal successors.
LegalTransition(from, to) ==
    <<from, to>> \in {<<None, "correlation_reserved">>,
                      <<"correlation_reserved", "provision_started">>,
                      <<"provision_started", "provisioned">>,
                      <<"provision_started", "provision_unknown">>,
                      <<"provision_unknown", "provisioned">>,
                      <<"provisioned", "commit_started">>,
                      <<"commit_started", "provider_handle_recorded">>,
                      <<"provider_handle_recorded", "ready">>}

\* A repeat of the last transition is acknowledged and changes nothing; a Runner
\* never repeats an older one, for it starts from the journal its claim returned
\* and only the holder of the lease appends.
MayRecord(w, q, to) ==
    /\ HoldsActiveLease(w, q)
    /\ journal[q] = to \/ LegalTransition(journal[q], to)

\* record_provider_operation_transition, at the step from of the launch.
Record(w, from, to, next) ==
    LET q == run[w].req
    IN  /\ run[w].pc = from
        /\ \/ /\ MayRecord(w, q, to)
              /\ journal' = [journal EXCEPT ![q] = to]
              /\ Answered(w, next, "fail")
           \/ /\ ~ MayRecord(w, q, to)
              /\ Goto(w, "fail")
              /\ UNCHANGED journal
        /\ UNCHANGED <<req, admission, grants, world>>

ReserveCorrelation(w) == Record(w, "reserve", "correlation_reserved", "start")
StartProvision(w) == Record(w, "start", "provision_started", "provision")
RecordUnknown(w) == Record(w, "unknown", "provision_unknown", "fail")
RecordProvisioned(w) == Record(w, "record", "provisioned", "seal")
StartCommit(w) == Record(w, "seal", "commit_started", "commit")

\* provision_cvm: an answer, an ambiguous one, or a definite error.
Provision(w) ==
    LET q == run[w].req
    IN  /\ run[w].pc = "provision"
        /\ \/ /\ provisions' = [provisions EXCEPT ![q] = @ + 1]
              /\ \E pc \in {"record", "unknown"} : Goto(w, pc)
           \/ /\ \E pc \in {"fail", "unknown"} : Goto(w, pc)
              /\ UNCHANGED provisions
        /\ UNCHANGED <<req, admission, journal, grants, containers, cvms>>

\* commit_provision: any error, ambiguous or not, fails the launch.
Commit(w) ==
    LET q == run[w].req
    IN  /\ run[w].pc = "commit"
        /\ \/ /\ cvms' = [cvms EXCEPT ![q] = @ + 1]
              /\ \E pc \in {"readiness", "fail"} : Goto(w, pc)
           \/ /\ Goto(w, "fail")
              /\ UNCHANGED cvms
        /\ UNCHANGED <<req, admission, journal, grants, containers, provisions>>

ReconcileAny(w) == \* Slip: the answer of the inventory is not looked at
    /\ run[w].pc = "reconcile"
    /\ Goto(w, "readiness")
    /\ UNCHANGED <<req, admission, journal, grants, world>>

\* reconcile_commit_started: exactly one CVM bears the correlation name.
Reconcile(w) ==
    /\ run[w].pc = "reconcile"
    /\ Goto(w, IF cvms[run[w].req] = 1 THEN "readiness" ELSE "fail")
    /\ UNCHANGED <<req, admission, journal, grants, world>>

\* wait_for_running and check_runtime_health.
AwaitReadiness(w) ==
    /\ run[w].pc = "readiness"
    /\ \E pc \in {"register", "fail"} : Goto(w, pc)
    /\ UNCHANGED <<req, admission, journal, grants, world>>

----------------------------------------------------------------------------
(* Registration, completion and failure.                                   *)

BindExpired(w, q) == \* Slip
    cred[q] # None => cred[q].host = HostOf[w] /\ cred[q].lease = req[q].token

\* bind_bootstrap: the credential, if any, must be of this host and lease, and
\* the lease still live.
MayBind(w, q) ==
    cred[q] # None =>
        cred[q].host = HostOf[w] /\ cred[q].lease = req[q].token /\ req[q].live

\* The upsert of agent_runtimes keeps the source host of an existing row.
RuntimeHost(w, q) == IF row[q] = None THEN HostOf[w] ELSE row[q]

\* What registration and completion both verify.
MayPublish(w, q) ==
    /\ HoldsLease(w, q)
    /\ journal[q] # None =>
          /\ req[q].live
          /\ journal[q] \in {"commit_started", "provider_handle_recorded"}
    /\ req[q].spec.artifact \in launchable
    /\ MayBind(w, q)
    /\ cred[q] # None => RuntimeHost(w, q) = HostOf[w]

Publish(w, q, to) ==
    /\ journal' = [journal EXCEPT ![q] = IF @ = None THEN @ ELSE to]
    /\ row' = [row EXCEPT ![q] = RuntimeHost(w, q)]

\* postgres_register_agent_creation_runtime
Register(w) ==
    LET q == run[w].req
    IN  /\ run[w].pc = "register"
        /\ \/ /\ MayPublish(w, q)
              /\ Publish(w, q, "provider_handle_recorded")
              /\ cred' = [cred EXCEPT ![q] =
                    IF @ = None THEN @ ELSE [@ EXCEPT !.bound = TRUE]]
              /\ Answered(w, "bind", "cleanup")
           \/ /\ ~ MayPublish(w, q)
              /\ Goto(w, "cleanup")
              /\ UNCHANGED <<journal, row, cred>>
        /\ UNCHANGED <<req, admission, keys, keyed, world>>

\* bind_agent_identity, against the Identity Authority.
BindIdentity(w) ==
    /\ run[w].pc = "bind"
    /\ \E pc \in {"complete", "cleanup"} : Goto(w, pc)
    /\ UNCHANGED <<req, admission, journal, grants, world>>

\* postgres_complete_agent_creation_request, update_agent_creation_completed.
Complete(w) ==
    LET q == run[w].req
    IN  /\ run[w].pc = "complete"
        /\ \/ /\ MayPublish(w, q)
              /\ Publish(w, q, "ready")
              /\ cred' = [cred EXCEPT ![q] =
                    IF @ = None THEN @
                    ELSE [@ EXCEPT !.bound = TRUE,
                                   !.active = cred[q].lease = req[q].token /\ req[q].live]]
              /\ Close(q, "running", req[q].holder)
              /\ Return(w) \/ (Lossy /\ Goto(w, "cleanup"))
           \/ /\ ~ MayPublish(w, q)
              /\ Goto(w, "cleanup")
              /\ UNCHANGED <<req, journal, row, cred>>
        /\ UNCHANGED <<admission, keys, keyed, world>>

\* cleanup_failed_launch: Kata removes the container, or fails to; Phala's is a
\* no-op.
Cleanup(w) ==
    LET q == run[w].req
    IN  /\ run[w].pc = "cleanup"
        /\ \/ q \notin Phala /\ containers' = [containers EXCEPT ![q] = @ \ {HostOf[w]}]
           \/ UNCHANGED containers
        /\ Goto(w, "fail")
        /\ UNCHANGED <<req, admission, journal, grants, cvms, provisions>>

\* postgres_fail_agent_creation_request: the key this launch was given goes too.
MayFail(w, q) ==
    /\ HoldsLease(w, q)
    /\ journal[q] # None => req[q].live /\ AllowsGenericFailure(q)
    /\ MayDeleteRuntime(q)

Fail(w) ==
    LET q == run[w].req
    IN  /\ run[w].pc = "fail"
        /\ \/ /\ MayFail(w, q)
              /\ keys' = [keys EXCEPT ![q] = @ \ (IF run[w].key THEN {run[w].token} ELSE {})]
              /\ DeleteRuntime(q)
              /\ Close(q, "failed", req[q].holder)
           \/ /\ ~ MayFail(w, q)
              /\ UNCHANGED <<req, row, cred, keys>>
        /\ Return(w)
        /\ UNCHANGED <<admission, journal, keyed, world>>

\* The process dies; its preflight snapshot dies with it.
Crash(w) ==
    /\ Crashes /\ run[w].pc # "idle"
    /\ run' = [run EXCEPT ![w] =
          [@ EXCEPT !.pc = "idle", !.req = None, !.token = 0, !.seen = None,
                    !.inFlight = 0, !.key = FALSE, !.inventory = Unverified]]
    /\ UNCHANGED <<req, admission, journal, grants, world>>

----------------------------------------------------------------------------
Init ==
    /\ req = [q \in Request |-> [status |-> "none", holder |-> None, token |-> 0,
                                 leases |-> 0, live |-> FALSE, spec |-> None,
                                 chat |-> FALSE]]
    /\ queue = <<>>
    /\ allowed = [o \in Owner |-> 0]
    /\ code = [c \in Code |-> "free"]
    /\ journal = [q \in Request |-> None]
    /\ row = [q \in Request |-> None]
    /\ cred = [q \in Request |-> None]
    /\ keys = [q \in Request |-> {}]
    /\ keyed = [q \in Request |-> FALSE]
    /\ launchable = Artifact
    /\ run = [w \in Runner |-> [pc |-> "idle", req |-> None, token |-> 0,
                                seen |-> None, inFlight |-> 0, key |-> FALSE,
                                inventory |-> Unverified]]
    /\ containers = [q \in Request |-> {}]
    /\ cvms = [q \in Request |-> 0]
    /\ provisions = [q \in Request |-> 0]

Customer ==
    \E q \in Request :
        \/ \E chat \in BOOLEAN : RequestBilled(q, chat)
        \/ \E c \in Code, chat \in BOOLEAN : RequestWithCode(q, c, chat)
        \/ Backfill(q)

Operator ==
    \/ \E q \in Request : Cancel(q)
    \/ \E c \in Code : RevokeCode(c)
    \/ \E a \in Artifact : RetireArtifact(a)

PhalaStep(w) ==
    \/ PhalaAdmit(w)
    \/ ReserveCorrelation(w)
    \/ StartProvision(w)
    \/ Provision(w)
    \/ RecordUnknown(w)
    \/ RecordProvisioned(w)
    \/ StartCommit(w)
    \/ Commit(w)
    \/ Reconcile(w)
    \/ AwaitReadiness(w)

RunnerStep(w) ==
    \/ Lease(w)
    \/ ProvisionCredential(w)
    \/ ProvisionKey(w)
    \/ KataLaunch(w)
    \/ PhalaStep(w)
    \/ Register(w)
    \/ BindIdentity(w)
    \/ Complete(w)
    \/ Cleanup(w)
    \/ Fail(w)

Next ==
    \/ Customer
    \/ Operator
    \/ \E q \in Request : Expire(q)
    \/ \E w \in Runner : Preflight(w) \/ RunnerStep(w) \/ Crash(w)

Spec == Init /\ [][Next]_vars

\* A Runner process keeps running run_once in a loop, restarted after a crash, and
\* a lease runs out.
FairSpec ==
    /\ Spec
    /\ \A w \in Runner : WF_vars(RunnerStep(w))
    /\ \A q \in Request : WF_vars(Expire(q))

----------------------------------------------------------------------------
(* Properties.                                                             *)

\* Where run_once may be, and what a Runner remembers there.
Pc == {"idle", "credential", "key", "kata", "admit", "reserve", "start",
       "provision", "unknown", "record", "seal", "commit", "reconcile",
       "readiness", "register", "bind", "complete", "cleanup", "fail"}
RunnerState ==
    [pc : Pc, req : Request \cup {None}, token : 0..MaxLease, seen : Transition,
     inFlight : Nat, key : BOOLEAN, inventory : Nat \cup {Unverified}]

\* Type invariant: every row, journal and Runner holds a value of its columns.
TypeOK ==
    /\ req \in [Request -> RequestRow]
    /\ queue \in Seq(Request)
    /\ allowed \in [Owner -> Nat]
    /\ code \in [Code -> Request \cup {"free", "revoked"}]
    /\ journal \in [Request -> Transition]
    /\ row \in [Request -> Host \cup {None}]
    /\ cred \in [Request -> {None} \cup Credential]
    /\ keys \in [Request -> SUBSET (1..MaxLease)]
    /\ keyed \in [Request -> BOOLEAN]
    /\ launchable \in SUBSET Artifact
    /\ run \in [Runner -> RunnerState]
    /\ containers \in [Request -> SUBSET Host]
    /\ cvms \in [Request -> Nat]
    /\ provisions \in [Request -> Nat]

\* However Runners crash, hang past their lease or lose answers, Phala receives
\* at most one provision and at most one commit for a request: the journal is
\* written before each mutation and a launch never starts one over.
OneCvmPerRequest == \A q \in Request : provisions[q] <= 1 /\ cvms[q] <= 1

\* A request that Core has closed as failed or cancelled never reached the
\* provider: nothing was bought that no row accounts for.
ClosedBoughtNothing ==
    \A q \in Phala : req[q].status \in {"failed", "cancelled"}
                        => provisions[q] = 0 /\ cvms[q] = 0

\* Core calls a Phala agent running exactly when its journal has reached ready,
\* and then the one CVM it paid for exists.
ReadyMeansRunning ==
    \A q \in Phala : /\ req[q].status = "running" <=> journal[q] = "ready"
                     /\ journal[q] = "ready" => cvms[q] = 1

\* A cancelled request leaves no active Finite Private key behind, whichever
\* Runner was still launching it.
CancelledHoldsNoKey ==
    \A q \in Request : req[q].status = "cancelled" => keys[q] = {}

\* The container of a running Kata agent exists on the host Core has recorded.
RunningHasCompute ==
    \A q \in Request \ Phala : req[q].status = "running" => row[q] \in containers[q]

\* At no time do two hosts hold a container of the same agent.
OneContainerPerAgent == \A q \in Request : Cardinality(containers[q]) <= 1

\* An enrolled agent that runs has an active Core credential, of the host it
\* runs on: completion never commits an agent that cannot call Core.
RunningIsEnrolled ==
    Enrolled => \A q \in Request :
        req[q].status = "running" => cred[q] # None /\ cred[q].active /\ cred[q].host = row[q]

\* The agents an owner has or is being given never outnumber the launch codes
\* redeemed for the owner plus the subscription: a failed launch frees its slot
\* and no late Runner takes it back.
EntitlementHeld ==
    \A o \in Owner :
        Cardinality({q \in Request : /\ OwnerOf[q] = o
                                     /\ row[q] # None \/ req[q].status \in Pending})
        <= Cardinality({c \in Code : code[c] \in Request /\ OwnerOf[code[c]] = o})
           + (IF o \in Paying THEN 1 ELSE 0)

\* The row claims an owner chat account only if the RuntimeSpec was built with it.
SpecTellsChat ==
    \A q \in Request : req[q].spec # None => req[q].spec.chat = req[q].chat

\* No request is left behind, by a crashed Runner, an expired lease or the
\* requests before it in the queue: it ends running, failed or cancelled, or is
\* claimed again until the claims of the instance are used up.
EveryRequestSettles ==
    \A q \in Request :
        req[q].status = "requested"
            ~> req[q].status \notin Pending \/ req[q].leases = MaxLease

----------------------------------------------------------------------------
(* What a document says and the code does not keep.                        *)

\* phala-confidential-runner.md: "Ordinary billable-resource cap | one".
CapHeld == Inventory <= MaxCvm

\* phala-confidential-runner.md: "Persist the returned versioned CVM handle
\* before readiness polling."
HandleBeforeReadiness ==
    \A w \in Runner : run[w].pc = "readiness"
                         => journal[run[w].req] \in {"provider_handle_recorded", "ready"}

\* "Cancellation is the final cleanup step for a failed or pre-provider request":
\* such a request can be cancelled.
CancelCleansUp ==
    \A q \in Request : req[q].status \in Pending /\ AllowsGenericFailure(q)
                          => MayDeleteRuntime(q)
=============================================================================
