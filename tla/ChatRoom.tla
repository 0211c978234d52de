------------------------------- MODULE ChatRoom -------------------------------
(***************************************************************************)
(* One room on the Finite Chat server (finitechat-server, state.rs).       *)
(*                                                                         *)
(* The database holds the room's delivery log, the Welcome claims, the     *)
(* KeyPackage inventory and a checkpoint of the membership projection; the *)
(* live projection is in memory only.  A request runs on its own thread    *)
(* and takes the projection mutex several times: what it checked under one *)
(* lock it uses under a later one, and every primary change of the         *)
(* projection (bootstrap, leave, admin change, repair) is made in memory,  *)
(* then cloned, then written.  Each step below is what a thread does       *)
(* between two points where another thread may run.  Maps that are written *)
(* to the database before they change in memory, under one lock (claims,   *)
(* inventory, idempotency, revocations), are one variable.                 *)
(*                                                                         *)
(* A crash loses the projection and every request under way; boot replays  *)
(* the log above the checkpoint's watermark and activates acknowledged     *)
(* Welcomes.  A request that is refused changes nothing and is left out.   *)
(***************************************************************************)
EXTENDS Integers, FiniteSets, Sequences

CONSTANTS
    Device, Account,
    AccountOf,              \* the account of each device
    Creator,                \* the device that bootstraps the room
    Package,                \* KeyPackage ids, numbers: a larger one is fresher
    OwnerOf,                \* the device that published each package
    Thread,
    Id,                     \* message ids, numbers
    Handlers,               \* the endpoints clients use in this instance
    Faults,                 \* subset of {"crash", "disk"}
    MaxDevicesPerAccount,   \* MAX_ACCOUNT_DEVICES_PER_ROOM
    MaxLog,                 \* max_queue_entries_per_route
    MaxDelta,               \* bound: devices a Commit adds or removes
    PageLimit,              \* entries a sync request asks for
    MaxCrashes,             \* bound: crashes
    Inventory,              \* the KeyPackages the instance starts with
    NoRoom, None

ASSUME ConfigAssumption ==
    /\ AccountOf \in [Device -> Account]
    /\ Creator \in Device
    /\ Package \subseteq Nat /\ Id \subseteq Nat
    /\ OwnerOf \in [Package -> Device]
    /\ MaxLog \in Nat /\ PageLimit \in Nat \ {0} /\ MaxCrashes \in Nat
    /\ MaxDevicesPerAccount \in Nat /\ MaxDelta \in Nat
    /\ Inventory \in [Package -> {"absent", "available", "claimed"}]
    /\ None \notin Account \cup Nat

VARIABLES
    log,        \* delivery_entries of the room's group route
    checkpoint, \* room_state_checkpoint: a projection, or NoRoom
    claimed,    \* Welcomes claimed, as <<device, Commit sequence>>
    ackedDisk,  \* ... acknowledged, in the database
    inventory,  \* KeyPackage states
    revoked,    \* revoked devices
    room,       \* the live projection, or NoRoom
    acked,      \* ... acknowledged, in memory
    up,         \* the server runs
    threads,    \* the request each thread works on
    cursor,     \* per device: how far it has synced (client state)
    got,        \* history: the entries each device was given
    left,       \* history: accounts told "left", and not added since
    activated,  \* history: Welcomes whose acknowledgement was confirmed
    crashes

disk == <<log, checkpoint, claimed, ackedDisk, inventory, revoked>>
clients == <<cursor, got, left, activated>>
vars == <<disk, room, acked, up, threads, clients, crashes>>

Seqs == 0..MaxLog
Epochs == 0..(2 * MaxLog)
Open == -1      \* end_seq of an interval that has not ended

Interval == [start : Nat, end : Nat \cup {Open}, active : BOOLEAN]
Projection ==
    [epoch : Nat, last : Nat, status : {"open", "repair"}, complete : BOOLEAN,
     admins : SUBSET Account, departed : SUBSET Account,
     intervals : [Device -> SUBSET Interval]]
\* A Commit or an application event, as the client sends it and the log keeps it.
Message ==
    [id : Id, commit : BOOLEAN, sender : Device, epoch : Nat,
     adds : SUBSET Package, removes : SUBSET Device]

ASSUME AbsentAssumption == NoRoom \notin Projection /\ None \notin Message

CommitMessage(i, d, e, delta) ==
    [id |-> i, commit |-> TRUE, sender |-> d, epoch |-> e,
     adds |-> delta.adds, removes |-> delta.removes]
EventMessage(i, d, e) ==
    [id |-> i, commit |-> FALSE, sender |-> d, epoch |-> e, adds |-> {}, removes |-> {}]

\* What a thread keeps between two steps: the message it checked, the copy of
\* the projection it took, the account, Welcome or page it works for.
Job(pc, message, snapshot, target) ==
    [pc |-> pc, message |-> message, snapshot |-> snapshot, target |-> target]
Idle == Job("idle", None, NoRoom, None)

Added(m) == {OwnerOf[k] : k \in m.adds}
Commits == {i \in 1..Len(log) : log[i].commit}
Recorded(m) == \E i \in 1..Len(log) : log[i] = m

(***************************************************************************)
(* The projection (projections.rs).                                        *)
(***************************************************************************)
OpenIntervals(p, d) == {v \in p.intervals[d] : v.end = Open}

\* tracks_device
Tracks(p, d) == p.intervals[d] # {}

\* Slip: an interval is enough to send, acknowledged or not.
PendingIsActive(p, d) == OpenIntervals(p, d) # {}

\* device_active_at_head
ActiveAtHead(p, d) == \E v \in OpenIntervals(p, d) : v.active /\ v.start <= p.last

\* device_was_member_for_seq: the removal itself is still delivered.
MemberForSeq(p, d, s) ==
    \E v \in p.intervals[d] : v.start <= s /\ (v.end = Open \/ s <= v.end)

\* current_or_pending_device_count_for_account
CurrentDevices(p, a) == {d \in Device : AccountOf[d] = a /\ OpenIntervals(p, d) # {}}

\* Slip: the adds are not looked at.
AddsUnchecked(p, m) == TRUE

\* validate_membership_adds_for_projection
AddsAdmissible(p, m) ==
    /\ \A d \in Added(m) : OpenIntervals(p, d) = {}
    /\ \A a \in Account :
        LET new == {d \in Added(m) : AccountOf[d] = a} IN
        new # {} => Cardinality(CurrentDevices(p, a)) + Cardinality(new)
                        <= MaxDevicesPerAccount

\* initial_room_membership_projection
InitialProjection(d, epoch, last, complete) ==
    [epoch |-> epoch, last |-> last, status |-> "open", complete |-> complete,
     admins |-> {AccountOf[d]}, departed |-> {},
     intervals |-> [x \in Device |->
        IF x = d THEN {[start |-> 0, end |-> Open, active |-> TRUE]} ELSE {}]]

\* Slip: a pending interval survives the removal of its device.
EndActiveOnly(intervals, s) ==
    {IF v.end = Open /\ v.active THEN [v EXCEPT !.end = s] ELSE v : v \in intervals}

\* The newest open interval ends, pending or not: the one there is (OneOpenInterval).
EndOpen(intervals, s) == {IF v.end = Open THEN [v EXCEPT !.end = s] ELSE v : v \in intervals}

\* The base of apply_room_membership_delta: a room nobody bootstrapped starts
\* from the sender of its first Commit.
Base(p, m) ==
    IF p = NoRoom THEN InitialProjection(m.sender, m.epoch, 0, m.epoch = 0) ELSE p

\* apply_room_membership_delta refuses another epoch and inadmissible adds...
DeltaApplies(p, m) == Base(p, m).epoch = m.epoch /\ AddsAdmissible(Base(p, m), m)

\* ... and otherwise ends the removed intervals, opens pending ones and moves
\* the room to the next epoch.
ApplyDelta(p, m, s) ==
    LET base == Base(p, m) IN
    [base EXCEPT
        !.epoch = m.epoch + 1,
        !.last = s,
        !.departed = @ \ {AccountOf[d] : d \in m.removes},
        !.intervals = [d \in Device |->
            (IF d \in m.removes THEN EndOpen(@[d], s) ELSE @[d])
                \cup (IF d \in Added(m)
                      THEN {[start |-> s, end |-> Open, active |-> FALSE]} ELSE {})]]

\* activate_interval
Activate(p, d, s) ==
    [p EXCEPT !.intervals[d] =
        {IF v.start = s THEN [v EXCEPT !.active = TRUE] ELSE v : v \in @}]

(***************************************************************************)
(* Boot: derive_rooms_from_checkpoint.  It takes a step for each entry of  *)
(* the tail; nothing else runs before it is done.                          *)
(***************************************************************************)
\* Slip: boot trusts the checkpoint and replays nothing.
NoReplay(p, i) == [p EXCEPT !.last = i]

\* The tail entry i, applied to p.
ReplayEntry(p, i) ==
    IF log[i].commit THEN ApplyDelta(p, log[i], i) ELSE [p EXCEPT !.last = i]

\* Acknowledged Welcomes are active, whatever the replay made of their intervals.
Welcomed(p) ==
    [p EXCEPT !.intervals = [d \in Device |->
        {IF <<d, v.start>> \in ackedDisk THEN [v EXCEPT !.active = TRUE] ELSE v : v \in @[d]}]]

\* The checkpoint is loaded, unless it is ahead of the log ...
BootLoad ==
    /\ ~up /\ room = NoRoom
    /\ checkpoint # NoRoom /\ checkpoint.last <= Len(log)
    /\ room' = checkpoint
    /\ UNCHANGED <<disk, acked, up, threads, clients, crashes>>

\* ... the tail is applied, entry by entry, as long as its deltas apply ...
BootReplay ==
    /\ ~up /\ room # NoRoom /\ room.last < Len(log)
    /\ log[room.last + 1].commit => DeltaApplies(room, log[room.last + 1])
    /\ room' = ReplayEntry(room, room.last + 1)
    /\ UNCHANGED <<disk, acked, up, threads, clients, crashes>>

\* ... and the result is written and served.  A room without a checkpoint waits
\* for its next bootstrap.
BootReady ==
    /\ ~up
    /\ \/ checkpoint = NoRoom /\ room' = NoRoom
       \/ room # NoRoom /\ room.last = Len(log) /\ room' = Welcomed(room)
    /\ up' = TRUE
    /\ checkpoint' = room'
    /\ acked' = ackedDisk
    /\ UNCHANGED <<log, claimed, ackedDisk, inventory, revoked, threads, clients, crashes>>

Boot == BootLoad \/ BootReplay \/ BootReady

Crash ==
    /\ up /\ "crash" \in Faults /\ crashes < MaxCrashes
    /\ crashes' = crashes + 1
    /\ up' = FALSE
    /\ room' = NoRoom
    /\ acked' = {}
    /\ threads' = [t \in Thread |-> Idle]
    /\ UNCHANGED <<disk, clients>>

(***************************************************************************)
(* Requests.                                                               *)
(***************************************************************************)
Free(t, handler) == up /\ handler \in Handlers /\ threads[t].pc = "idle"
At(t, pc) == up /\ threads[t].pc = pc
Goes(t, job) == threads' = [threads EXCEPT ![t] = job]

\* An id is a digest of the message, so nobody has it for another one.
IdIsDigest(m) ==
    /\ \A i \in 1..Len(log) : log[i].id = m.id => log[i] = m
    /\ \A t \in Thread : threads[t].message # None =>
            (threads[t].message.id = m.id => threads[t].message = m)

\* Messages are numbered as they are first sent; an id in use may be sent again.
InUse(i) ==
    \/ \E j \in 1..Len(log) : log[j].id = i
    \/ \E t \in Thread : threads[t].message # None /\ threads[t].message.id = i
NextId(i) == ~InUse(i) => \A j \in Id : j < i => InUse(j)

\* The epoch after the last Commit of the log.
NextEpoch ==
    IF Commits = {} THEN 0
    ELSE (CHOOSE e \in {log[i].epoch : i \in Commits} :
            \A i \in Commits : log[i].epoch <= e) + 1

\* The epoch a client names: any other is refused where there is a projection, and
\* a client whose room the server has lost follows the log.
NamedEpochs == IF room = NoRoom THEN {NextEpoch} ELSE {room.epoch}

\* validate_structure: no device is both added and removed, or added twice.  (MLS:
\* nobody commits their own removal, see Next.)
Deltas ==
    {x \in [adds : SUBSET Package, removes : SUBSET Device] :
        /\ Added(x) \cap x.removes = {}
        /\ \A j, k \in x.adds : OwnerOf[j] = OwnerOf[k] => j = k
        /\ Cardinality(x.adds) + Cardinality(x.removes) <= MaxDelta}

\* Slip: the sender's membership is not looked at.
AnySender(p, d) == TRUE

\* The sender must be active where the projection can tell.
SenderAdmissible(p, d) == Tracks(p, d) \/ p.complete => ActiveAtHead(p, d)

\* submit_commit up to validate_commit_room_membership, for a Commit that is not
\* recorded; a room without a projection has nothing to check against.
CommitCheck(t, m) ==
    /\ Free(t, "commit")
    /\ m.commit /\ IdIsDigest(m)
    /\ ~Recorded(m)
    /\ ({m.sender} \cup Added(m)) \cap revoked = {}
    /\ room # NoRoom => /\ room.status = "open"
                        /\ room.epoch = m.epoch
                        /\ SenderAdmissible(room, m.sender)
                        /\ AddsAdmissible(room, m)
    /\ Goes(t, Job("commit", m, NoRoom, None))
    /\ UNCHANGED <<disk, room, acked, up, clients, crashes>>

\* Slip: the queue has no limit.
NoQueueLimit(m) == \A i \in Commits : log[i].epoch # m.epoch

\* plan_batch: one Commit for each source epoch, and room in the queue.
EpochAdmitted(m) ==
    /\ \A i \in Commits : log[i].epoch # m.epoch
    /\ Len(log) < MaxLog

\* Slip: a lease that expired is still good.
PublishedIsEnough(m) == \A k \in m.adds : inventory[k] # "absent"

\* consume_claimed_key_packages_for_commit
PackagesClaimed(m) == \A k \in m.adds : inventory[k] = "claimed"

\* A twin that was recorded meanwhile collides with its idempotency row.
CommitAccepted(m) ==
    /\ ~Recorded(m)
    /\ EpochAdmitted(m)
    /\ DeltaApplies(room, m)
    /\ PackagesClaimed(m)

\* submit_commit_fresh: entry, Welcomes, consumed packages and idempotency in one
\* transaction, then the projection in memory.  Nothing of the check is redone
\* but the epoch and the adds.
CommitFresh(t) ==
    LET m == threads[t].message IN
    /\ At(t, "commit")
    /\ CommitAccepted(m)
    /\ log' = Append(log, m)
    /\ room' = ApplyDelta(room, m, Len(log) + 1)
    /\ inventory' = [k \in Package |-> IF k \in m.adds THEN "consumed" ELSE inventory[k]]
    /\ left' = left \ {AccountOf[d] : d \in Added(m)}
    /\ Goes(t, Idle)
    /\ UNCHANGED <<checkpoint, claimed, ackedDisk, revoked, acked, up, cursor, got,
                   activated, crashes>>

\* The second half of a request is refused, or its transaction fails.
Refused(t) ==
    /\ \/ At(t, "commit") /\ (~CommitAccepted(threads[t].message) \/ "disk" \in Faults)
       \/ At(t, "event") /\ (Recorded(threads[t].message) \/ Len(log) = MaxLog
                                \/ "disk" \in Faults)
       \/ At(t, "repair") /\ ~DeltaApplies(room, threads[t].message)
    /\ Goes(t, Idle)
    /\ UNCHANGED <<disk, room, acked, up, clients, crashes>>

\* A Commit that is recorded is answered from the record; a projection that is
\* behind it is repaired (ensure_submit_commit_projection).
CommitReplay(t, i) ==
    /\ Free(t, "replay")
    /\ i \in Commits
    /\ \/ room = NoRoom
       \/ room # NoRoom /\ (room.epoch < log[i].epoch + 1 \/ room.last < i)
    /\ Goes(t, Job("repair", log[i], NoRoom, i))
    /\ UNCHANGED <<disk, room, acked, up, clients, crashes>>

RepairProjection(t) ==
    LET m == threads[t].message IN
    /\ At(t, "repair")
    /\ DeltaApplies(room, m)
    /\ room' = ApplyDelta(room, m, threads[t].target)
    /\ Goes(t, Job("clone", None, NoRoom, None))
    /\ UNCHANGED <<disk, acked, up, clients, crashes>>

\* append_application_event up to validate_event_room_membership.
EventCheck(t, m) ==
    /\ Free(t, "event")
    /\ ~m.commit /\ IdIsDigest(m)
    /\ m.sender \notin revoked
    /\ room # NoRoom
    /\ room.status = "open"
    /\ room.epoch = m.epoch
    /\ SenderAdmissible(room, m.sender)
    /\ Goes(t, Job("event", m, NoRoom, None))
    /\ UNCHANGED <<disk, room, acked, up, clients, crashes>>

\* Slip: the idempotency record is not looked up again under the lock.
AppendAgain(m) == Len(log) < MaxLog

EventAdmitted(m) == ~Recorded(m) /\ Len(log) < MaxLog

\* append_application_event_fresh: nothing of the check is redone.
EventFresh(t) ==
    LET m == threads[t].message IN
    /\ At(t, "event")
    /\ EventAdmitted(m)
    /\ log' = Append(log, m)
    /\ room' = IF room.last < Len(log) + 1 THEN [room EXCEPT !.last = Len(log) + 1] ELSE room
    /\ Goes(t, Idle)
    /\ UNCHANGED <<checkpoint, claimed, ackedDisk, inventory, revoked, acked, up, clients,
                   crashes>>

(***************************************************************************)
(* Primary changes of the projection: made in memory, cloned, written.     *)
(***************************************************************************)
\* bootstrap_room_membership: the log, if there is one, gives epoch and head.
Bootstrap(t) ==
    /\ Free(t, "bootstrap")
    /\ room = NoRoom
    /\ room' = InitialProjection(Creator, NextEpoch, Len(log), TRUE)
    /\ Goes(t, Job("clone", None, NoRoom, None))
    /\ UNCHANGED <<disk, acked, up, clients, crashes>>

LeaveAllowed(d) ==
    /\ d \notin revoked
    /\ room # NoRoom
    /\ room.status = "open"
    /\ AccountOf[d] \notin room.departed
    /\ ActiveAtHead(room, d)

\* Every open interval of the account ends at the head.
Departing(a) ==
    [room EXCEPT !.intervals = [d \in Device |->
        IF AccountOf[d] = a THEN EndOpen(@[d], room.last) ELSE @[d]]]

LastAdmin(a) ==
    /\ room.admins = {a}
    /\ \E d \in Device : AccountOf[d] # a /\ OpenIntervals(room, d) # {}

\* leave_room
Leave(t, d) ==
    LET a == AccountOf[d] IN
    /\ Free(t, "leave")
    /\ LeaveAllowed(d)
    /\ ~LastAdmin(a)
    /\ room' = [Departing(a) EXCEPT !.departed = @ \cup {a}, !.admins = @ \ {a}]
    /\ Goes(t, Job("clone", None, NoRoom, a))
    /\ UNCHANGED <<disk, acked, up, clients, crashes>>

\* The last admin is refused, and the intervals that end at the head, whoever
\* ended them, are open again.
LeaveRefused(t, d) ==
    LET a == AccountOf[d] IN
    /\ Free(t, "leave")
    /\ LeaveAllowed(d)
    /\ LastAdmin(a)
    /\ room' = [Departing(a) EXCEPT !.intervals = [x \in Device |->
            IF AccountOf[x] = a
            THEN {IF v.end = room.last THEN [v EXCEPT !.end = Open] ELSE v : v \in @[x]}
            ELSE @[x]]]
    /\ UNCHANGED <<disk, acked, up, threads, clients, crashes>>

AdminAllowed(d) ==
    /\ d \notin revoked
    /\ room # NoRoom
    /\ room.status = "open"
    /\ ActiveAtHead(room, d)
    /\ AccountOf[d] \in room.admins

\* update_room_admins
GrantAdmin(t, d, a) ==
    /\ Free(t, "admin")
    /\ AdminAllowed(d)
    /\ CurrentDevices(room, a) # {}
    /\ room' = [room EXCEPT !.admins = @ \cup {a}]
    /\ Goes(t, Job("clone", None, NoRoom, None))
    /\ UNCHANGED <<disk, acked, up, clients, crashes>>

RevokeAdmin(t, d, a) ==
    /\ Free(t, "admin")
    /\ AdminAllowed(d)
    /\ a \in room.admins /\ room.admins # {a}
    /\ room' = [room EXCEPT !.admins = @ \ {a}]
    /\ Goes(t, Job("clone", None, NoRoom, None))
    /\ UNCHANGED <<disk, acked, up, clients, crashes>>

\* report_invalid_commit: the projection is copied under one lock ...
Report(t, d, s) ==
    /\ Free(t, "report")
    /\ room # NoRoom
    /\ MemberForSeq(room, d, s)
    /\ Goes(t, Job("report", None, room, None))
    /\ UNCHANGED <<disk, room, acked, up, clients, crashes>>

\* ... and put back, marked, under another.
MarkForRepair(t) ==
    /\ At(t, "report")
    /\ room' = [threads[t].snapshot EXCEPT !.status = "repair"]
    /\ Goes(t, Job("clone", None, NoRoom, None))
    /\ UNCHANGED <<disk, acked, up, clients, crashes>>

\* normalized_checkpoint_rooms, and the same in leave_room: the map is cloned
\* under its lock ...
CloneRooms(t) ==
    /\ At(t, "clone")
    /\ Goes(t, Job("write", None, room, threads[t].target))
    /\ UNCHANGED <<disk, room, acked, up, clients, crashes>>

\* ... the snapshot thread clones it too, one at a time ...
SnapshotRooms(t) ==
    /\ Free(t, "snapshot")
    /\ \A u \in Thread : threads[u].pc # "snapshot"
    /\ Goes(t, Job("snapshot", None, room, None))
    /\ UNCHANGED <<disk, room, acked, up, clients, crashes>>

\* ... and the clone is written later; a request is answered then.
SaveCheckpoint(t) ==
    /\ At(t, "write") \/ At(t, "snapshot")
    /\ checkpoint' = threads[t].snapshot
    /\ left' = left \cup {a \in Account : threads[t].target = a /\ CurrentDevices(room, a) = {}}
    /\ Goes(t, Idle)
    /\ UNCHANGED <<log, claimed, ackedDisk, inventory, revoked, room, acked, up, cursor, got,
                   activated, crashes>>

SaveFails(t) ==
    /\ "disk" \in Faults
    /\ At(t, "write") \/ At(t, "snapshot")
    /\ Goes(t, Idle)
    /\ UNCHANGED <<disk, room, acked, up, clients, crashes>>

(***************************************************************************)
(* Welcomes, KeyPackages, revocation.                                      *)
(***************************************************************************)
\* claim_welcomes: the Welcome a Commit released to device d is handed out once.
ClaimWelcome(d, s) ==
    /\ up /\ "welcome" \in Handlers
    /\ s \in Commits /\ d \in Added(log[s])
    /\ d \notin revoked
    /\ <<d, s>> \notin claimed
    /\ claimed' = claimed \cup {<<d, s>>}
    /\ UNCHANGED <<log, checkpoint, ackedDisk, inventory, revoked, room, acked, up, threads,
                   clients, crashes>>

\* Slip: the acknowledgement waits for the next checkpoint.
AckInMemory(t, w) ==
    /\ Free(t, "welcome")
    /\ w \in claimed /\ w[1] \notin revoked
    /\ acked' = acked \cup {w}
    /\ Goes(t, Job("activate", None, NoRoom, w))
    /\ UNCHANGED <<disk, room, up, clients, crashes>>

\* ack_welcome: marked in memory, written, then activated under another lock.  A
\* repeated acknowledgement skips the write.
AckWelcome(t, w) ==
    /\ Free(t, "welcome")
    /\ w \in claimed /\ w[1] \notin revoked
    /\ acked' = acked \cup {w}
    /\ ackedDisk' = IF w \in acked THEN ackedDisk ELSE ackedDisk \cup {w}
    /\ Goes(t, Job("activate", None, NoRoom, w))
    /\ UNCHANGED <<log, checkpoint, claimed, inventory, revoked, room, up, clients, crashes>>

AckWriteFails(w) ==
    /\ up /\ "welcome" \in Handlers /\ "disk" \in Faults
    /\ w \in claimed \ acked /\ w[1] \notin revoked
    /\ acked' = acked \cup {w}
    /\ UNCHANGED <<disk, room, up, threads, clients, crashes>>

\* activate_room_membership_from_welcome, and the answer.
ActivateMembership(t) ==
    LET w == threads[t].target IN
    /\ At(t, "activate")
    /\ room' = IF room = NoRoom THEN NoRoom ELSE Activate(room, w[1], w[2])
    /\ activated' = activated \cup {w}
    /\ Goes(t, Idle)
    /\ UNCHANGED <<disk, acked, up, cursor, got, left, crashes>>

Available(d) == {k \in Package : OwnerOf[k] = d /\ inventory[k] = "available"}

\* retire_older_finite_key_packages
Superseded(k) == {j \in Available(OwnerOf[k]) : j < k}

\* publish_key_package
PublishPackage(k) ==
    /\ up /\ "package" \in Handlers
    /\ inventory[k] = "absent" /\ OwnerOf[k] \notin revoked
    /\ inventory' = [j \in Package |->
            IF j = k THEN "available" ELSE IF j \in Superseded(k) THEN "consumed" ELSE inventory[j]]
    /\ UNCHANGED <<log, checkpoint, claimed, ackedDisk, revoked, room, acked, up, threads,
                   clients, crashes>>

\* claim_key_package takes the oldest of a device, claim_key_package_for_account
\* the freshest of an account.
NextToClaim(k) ==
    \/ \A j \in Available(OwnerOf[k]) : k <= j
    \/ \A d \in Device \ revoked : AccountOf[d] = AccountOf[OwnerOf[k]] =>
            \A j \in Available(d) : j <= k

ClaimPackage(k) ==
    /\ up /\ "package" \in Handlers
    /\ inventory[k] = "available" /\ OwnerOf[k] \notin revoked
    /\ NextToClaim(k)
    /\ inventory' = [inventory EXCEPT ![k] = "claimed"]
    /\ UNCHANGED <<log, checkpoint, claimed, ackedDisk, revoked, room, acked, up, threads,
                   clients, crashes>>

LeaseExpires(k) == inventory[k] = "claimed"

\* expire_key_package_lease
ExpireLease(k) ==
    /\ up /\ "package" \in Handlers
    /\ LeaseExpires(k)
    /\ inventory' = [inventory EXCEPT ![k] = "available"]
    /\ UNCHANGED <<log, checkpoint, claimed, ackedDisk, revoked, room, acked, up, threads,
                   clients, crashes>>

\* revoke_device
RevokeDevice(d) ==
    /\ up /\ "revoke" \in Handlers /\ d \notin revoked
    /\ revoked' = revoked \cup {d}
    /\ UNCHANGED <<log, checkpoint, claimed, ackedDisk, inventory, room, acked, up, threads,
                   clients, crashes>>

(***************************************************************************)
(* Reading: sync_group takes the page, then the projection's lock.         *)
(***************************************************************************)
Least(a, b) == IF a <= b THEN a ELSE b

SyncPage(t, d) ==
    /\ Free(t, "sync")
    /\ cursor[d] < Len(log)
    /\ \A u \in Thread : threads[u].pc = "sync" => threads[u].target[1] # d
    /\ Goes(t, Job("sync", None, NoRoom,
                   <<d, cursor[d] + 1, Least(cursor[d] + PageLimit, Len(log))>>))
    /\ UNCHANGED <<disk, room, acked, up, clients, crashes>>

Visible(d, page) == {s \in page : room = NoRoom \/ MemberForSeq(room, d, s)}

\* Slip: a page with nothing to show leaves the cursor where it was.
StayPut(d, page, seen) ==
    IF seen = {} THEN cursor[d] ELSE CHOOSE m \in seen : \A n \in seen : n <= m

\* Slip: the cursor moves to the end of the log rather than of the page.
SkipToHead(d, page, seen) == Len(log)

\* next_after_seq: the last entry given, or the last one scanned.
NextAfter(d, page, seen) ==
    LET s == IF seen = {} THEN page ELSE seen IN CHOOSE m \in s : \A n \in s : n <= m

SyncAnswer(t) ==
    LET d == threads[t].target[1]
        page == threads[t].target[2]..threads[t].target[3]
        seen == Visible(d, page) IN
    /\ At(t, "sync")
    /\ got' = [got EXCEPT ![d] = @ \cup seen]
    /\ cursor' = [cursor EXCEPT ![d] = NextAfter(d, page, seen)]
    /\ Goes(t, Idle)
    /\ UNCHANGED <<disk, room, acked, up, left, activated, crashes>>

-------------------------------------------------------------------------------
\* A server that has just opened an empty database, or one whose only room was
\* bootstrapped before the instance begins.
Init ==
    /\ log = << >>
    /\ checkpoint = IF "bootstrap" \in Handlers THEN NoRoom
                    ELSE InitialProjection(Creator, 0, 0, TRUE)
    /\ room = checkpoint
    /\ claimed = {} /\ ackedDisk = {} /\ acked = {}
    /\ inventory = Inventory
    /\ revoked = {}
    /\ up = TRUE
    /\ threads = [t \in Thread |-> Idle]
    /\ cursor = [d \in Device |-> 0]
    /\ got = [d \in Device |-> {}]
    /\ left = {} /\ activated = {}
    /\ crashes = 0

Next ==
    \/ Crash \/ Boot
    \/ \E t \in Thread :
        \/ threads[t].pc = "idle" /\ \E i \in Id, d \in Device, e \in NamedEpochs :
            /\ NextId(i)
            /\ \/ \E x \in Deltas :
                    d \notin x.removes /\ CommitCheck(t, CommitMessage(i, d, e, x))
               \/ EventCheck(t, EventMessage(i, d, e))
        \/ CommitFresh(t) \/ EventFresh(t) \/ Refused(t)
        \/ \E i \in Seqs : CommitReplay(t, i)
        \/ RepairProjection(t)
        \/ Bootstrap(t)
        \/ \E d \in Device : Leave(t, d) \/ LeaveRefused(t, d) \/ SyncPage(t, d)
        \/ \E d \in Device, a \in Account : GrantAdmin(t, d, a) \/ RevokeAdmin(t, d, a)
        \/ \E d \in Device, s \in Seqs : Report(t, d, s)
        \/ MarkForRepair(t) \/ CloneRooms(t) \/ SnapshotRooms(t)
        \/ SaveCheckpoint(t) \/ SaveFails(t)
        \/ \E w \in claimed : AckWelcome(t, w)
        \/ ActivateMembership(t) \/ SyncAnswer(t)
    \/ \E d \in Device, s \in Seqs : ClaimWelcome(d, s)
    \/ \E w \in claimed : AckWriteFails(w)
    \/ \E k \in Package : PublishPackage(k) \/ ClaimPackage(k) \/ ExpireLease(k)
    \/ \E d \in Device : RevokeDevice(d)

Spec == Init /\ [][Next]_vars

\* A request that has started is finished, a server that is down is restarted and
\* devices keep polling.  A poll is a task of its own and never waits for the
\* slots of Thread, which only bound the instance: hence strong fairness.
FairSpec ==
    /\ Spec
    /\ WF_vars(Boot)
    /\ \A t \in Thread : WF_vars(CommitFresh(t) \/ EventFresh(t) \/ Refused(t) \/ SyncAnswer(t))
    /\ \A d \in Device : SF_vars(\E t \in Thread : SyncPage(t, d))

(***************************************************************************)
(* Properties.                                                             *)
(***************************************************************************)
TypeOK ==
    /\ log \in Seq(Message) /\ Len(log) <= MaxLog
    /\ checkpoint \in Projection \cup {NoRoom}
    /\ room \in Projection \cup {NoRoom}
    /\ claimed \subseteq Device \X Nat /\ acked \subseteq claimed /\ ackedDisk \subseteq claimed
    /\ inventory \in [Package -> {"absent", "available", "claimed", "consumed"}]
    /\ revoked \subseteq Device
    /\ up \in BOOLEAN
    /\ \A t \in Thread :
        /\ threads[t].pc \in {"idle", "commit", "event", "repair", "report", "clone", "write",
                              "snapshot", "activate", "sync"}
        /\ threads[t].message \in Message \cup {None}
        /\ threads[t].snapshot \in Projection \cup {NoRoom}
    /\ cursor \in [Device -> Nat] /\ got \in [Device -> SUBSET Nat]
    /\ left \subseteq Account /\ activated \subseteq claimed
    /\ crashes \in Nat

\* The server implements the delivery contract: every step appends at most one
\* entry, with an id and (for a Commit) an epoch nobody has, together with the
\* Welcomes and the KeyPackages of that Commit, and none of it is ever undone by
\* a race, a retry or a restart (delivery/src/lib.rs:288, docs/storage.md:36).
Delivery == INSTANCE ChatDelivery WITH
    MaxQueue <- MaxLog, Epoch <- Epochs, NoEpoch <- None,
    group <- [i \in 1..Len(log) |->
                [id |-> log[i].id, epoch |-> IF log[i].commit THEN log[i].epoch ELSE None]],
    inbox <- [d \in Device |-> {i \in Commits : d \in Added(log[i])}],
    consumed <- {k \in Package : inventory[k] = "consumed"}
ImplementsDelivery == Delivery!Spec

\* No request has changed the projection without having written it.
Settled == \A t \in Thread : threads[t].pc \notin {"clone", "write", "activate"}

\* Commit i of log l ends the membership of d.
Removes(l, i, d) == l[i].commit /\ d \in l[i].removes

\* The membership of d that began with entry s (0: the bootstrap) and ended with
\* entry e, as the first n entries of log l tell it.
Began(l, n, d, s) == \/ s = 0 /\ d = Creator
                     \/ s \in 1..n /\ l[s].commit /\ d \in Added(l[s])
Ended(l, n, d, s, e) ==
    /\ \A i \in 1..n : s < i /\ (e = Open \/ i < e) => ~Removes(l, i, d)
    /\ e = Open \/ (e \in 1..n /\ s < e /\ Removes(l, e, d))

\* The projection as the log and the acknowledged Welcomes define it.
LogProjection ==
    [InitialProjection(Creator, NextEpoch, Len(log), TRUE) EXCEPT
        !.intervals = [d \in Device |->
            {v \in [start : 0..Len(log), end : {Open} \cup 1..Len(log), active : BOOLEAN] :
                /\ Began(log, Len(log), d, v.start) /\ Ended(log, Len(log), d, v.start, v.end)
                /\ v.active = (v.start = 0 \/ <<d, v.start>> \in ackedDisk)}]]

\* A boot that is under way can take its next step: nothing makes it fail closed.
BootGoesOn ==
    ~up => \/ checkpoint = NoRoom
           \/ room = NoRoom /\ checkpoint.last <= Len(log)
           \/ room # NoRoom /\ room.last = Len(log)
           \/ /\ room # NoRoom /\ room.last < Len(log)
              /\ log[room.last + 1].commit => DeltaApplies(room, log[room.last + 1])

\* Boot never fails closed, and a crash while no such request is under way costs
\* nothing: the live projection, and the one boot derives from a checkpoint of any
\* age, are both the one the log defines, activations included (state.rs:554).
CrashLosesNothing == BootGoesOn /\ (up /\ Settled => room = LogProjection)

\* A device is a member once: whatever leaves, refusals, repairs and restarts do to
\* its intervals, at most one is open, so that one removal ends its membership.  (A
\* replayed Commit that puts the head back takes it away in the end: MemberOnce.)
OneOpenInterval ==
    \A p \in {room, checkpoint} \ {NoRoom} : \A d \in Device :
        Cardinality(OpenIntervals(p, d)) <= 1

\* d is out of the room at entry i: a Commit removed it and none added it since.
RemovedBefore(d, i) ==
    \E j \in Commits : /\ j < i /\ d \in log[j].removes
                        /\ \A k \in Commits : j < k /\ k < i => d \notin Added(log[k])

\* No Commit comes from a device that was removed before it, although the check of
\* the sender and the append are under different locks.
RemovedCannotCommit == \A i \in Commits : ~RemovedBefore(log[i].sender, i)

\* Nobody sends before it was added and has acknowledged its Welcome
\* (protocol-v1.md, Membership Delta), the creator excepted.
SenderAcknowledged ==
    \A i \in 1..Len(log) : log[i].sender = Creator
        \/ \E j \in Commits : j < i /\ log[i].sender \in Added(log[j])
                                    /\ <<log[i].sender, j>> \in ackedDisk

\* A device that was removed has no open interval, pending or active.
RemovedStaysRemoved ==
    room # NoRoom => \A d \in Device :
        RemovedBefore(d, room.last + 1) => OpenIntervals(room, d) = {}

\* A device's cursor never passes an entry of its membership it was not given.
CursorSkipsNothing ==
    up /\ room # NoRoom =>
        \A d \in Device : \A s \in 1..cursor[d] : MemberForSeq(room, d, s) => s \in got[d]

\* A confirmed acknowledgement survives a restart (state.rs:2804).
AckIsDurable == activated \subseteq ackedDisk

\* Every device reaches the end of the log, also through pages that hold nothing
\* for it (sync_group's next_after_seq).
CursorReachesHead == \A d \in Device : []<>(cursor[d] = Len(log))

\* The package of a lease that was given back and claimed again admits one device
\* once: every package is in at most one Commit.
PackageAdmitsOnce ==
    \A i, j \in Commits : i # j => log[i].adds \cap log[j].adds = {}

(***************************************************************************)
(* What a document or a comment says and the code does not keep.           *)
(***************************************************************************)
\* Whenever the server crashes it boots again: "a crash leaves the leave unconfirmed
\* and the client retries idempotently" (state.rs:2980).
CrashIsRecoverable == BootGoesOn

\* The projection's epoch and head are those of the log it reflects: the epoch
\* follows the last Commit at or below its watermark, "never the #770
\* advance-but-stay-frozen fallback" (state.rs:558).
ProjectionTracksLog ==
    \A p \in {room, checkpoint} \ {NoRoom} : \A i \in Commits :
        /\ i <= p.last => log[i].epoch < p.epoch
        /\ i > p.last => log[i].epoch >= p.epoch

\* "Removed Devices cannot send after removal" (protocol-v1.md:25).
RemovedCannotSend == \A i \in 1..Len(log) : ~RemovedBefore(log[i].sender, i)

\* An account that was told it has left stays out, restarts included, until a
\* Commit adds it again (state.rs:2979).
LeaveIsFinal == up /\ room # NoRoom => \A a \in left : CurrentDevices(room, a) = {}

\* An account that left awaits its removal: it has no device in the room.
DepartedIsOut ==
    room # NoRoom => \A a \in room.departed : CurrentDevices(room, a) = {}

MembersHaveAdmin(p) ==
    (\E d \in Device : OpenIntervals(p, d) # {}) => \E a \in p.admins : CurrentDevices(p, a) # {}

\* A leave never takes the last admin from a room that has other members
\* (state.rs:2932).
LeaveStrandsNobody ==
    [][ room # NoRoom /\ room' # NoRoom /\ room.departed # room'.departed
            /\ room.departed \subseteq room'.departed /\ MembersHaveAdmin(room)
        => MembersHaveAdmin(room') ]_vars
===============================================================================
