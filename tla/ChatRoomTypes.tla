---------------------------- MODULE ChatRoomTypes ----------------------------
(***************************************************************************)
(* Type correctness of ChatRoom, for every set of devices, packages and    *)
(* handlers, and what the log bounds: the epoch and the head of every      *)
(* projection the server keeps, in memory, in the checkpoint or in the     *)
(* copy of a thread, and the epoch of every message under way.             *)
(***************************************************************************)
EXTENDS ChatRoom, WellFoundedInduction, SequenceTheorems, TLAPS

PackageStates == {"absent", "available", "claimed", "consumed"}
Pcs == {"idle", "commit", "event", "repair", "report", "clone", "write", "snapshot", "activate",
        "sync"}

\* A projection of a room whose log has n entries.
KnownRoom(n) == {p \in Projection : p.epoch <= n /\ p.last <= n}

\* What a thread keeps, over a log of n entries: c are the Welcomes claimed, r says
\* that the room has a projection.
JobTyped(j, n, c, r) ==
    /\ j = Job(j.pc, j.message, j.snapshot, j.target)
    /\ j.pc \in Pcs
    /\ j.message \in Message \cup {None}
    /\ j.snapshot \in KnownRoom(n) \cup {NoRoom}
    /\ j.pc \in {"commit", "event", "repair"} => j.message \in Message /\ j.message.epoch <= n
    /\ j.pc \in {"commit", "repair"} => j.message.commit
    /\ j.pc = "event" => ~j.message.commit /\ r
    /\ j.pc = "repair" => /\ j.target \in 1..n /\ j.message.epoch < n
    /\ j.pc = "report" => j.snapshot # NoRoom
    /\ j.pc = "activate" => j.target \in c
    /\ j.pc = "sync" => /\ j.target[1] \in Device /\ j.target[2] \in 1..n
                        /\ j.target[3] \in j.target[2]..n

LogTyped ==
    /\ log \in Seq(Message) /\ Len(log) <= MaxLog
    /\ \A i \in Commits : log[i].epoch < Len(log)
RoomsTyped ==
    /\ room \in KnownRoom(Len(log)) \cup {NoRoom}
    /\ checkpoint \in KnownRoom(Len(log)) \cup {NoRoom}
WelcomesTyped ==
    /\ claimed \subseteq Device \X Nat
    /\ acked \subseteq claimed /\ ackedDisk \subseteq claimed /\ activated \subseteq claimed
JobsTyped ==
    /\ threads = [t \in Thread |-> threads[t]]
    /\ \A t \in Thread : JobTyped(threads[t], Len(log), claimed, room # NoRoom)
    /\ ~up => \A t \in Thread : threads[t].pc = "idle"
ClientsTyped == cursor \in [Device -> Nat] /\ got \in [Device -> SUBSET Nat]
RestTyped ==
    /\ inventory \in [Package -> PackageStates]
    /\ revoked \subseteq Device /\ left \subseteq Account
    /\ up \in BOOLEAN /\ crashes \in Nat

TypeInv ==
    LogTyped /\ RoomsTyped /\ WelcomesTyped /\ JobsTyped /\ ClientsTyped /\ RestTyped

(***************************************************************************)
(* Sets of naturals.                                                       *)
(***************************************************************************)
\* A set of numbers that is bounded and not empty has a greatest element.
LEMMA GreatestExists ==
    ASSUME NEW b \in Nat, NEW S \in SUBSET (0..b), S # {}
    PROVE  \E m \in S : \A n \in S : n <= m
<1> DEFINE D == {b - x : x \in S}
           R == OpToRel(<, Nat)
<1>1. D \subseteq Nat /\ D # {}
  <2>1. \A x \in S : x \in Int /\ 0 <= x /\ x <= b
    OBVIOUS
  <2>2. \A x \in S : b - x \in Nat
    BY <2>1
  <2> QED
    BY <2>2, S # {}
<1>2. IsWellFoundedOn(R, Nat)
  BY NatLessThanWellFounded
<1> HIDE DEF R, D
<1>3. PICK y \in D : \A z \in D : <<z, y>> \notin R
  BY <1>1, <1>2, WFMin
<1>4. PICK m \in S : y = b - m
  BY <1>3 DEF D
<1>5. \A n \in S : n <= m
  <2> SUFFICES ASSUME NEW n \in S PROVE n <= m
    OBVIOUS
  <2>1. b - n \in D
    BY DEF D
  <2>2. ~(b - n < b - m)
    BY <2>1, <1>3, <1>4, <1>1 DEF R, OpToRel
  <2> QED
    BY <2>2
<1> QED
  BY <1>5

(***************************************************************************)
(* The operators of the projection.                                        *)
(***************************************************************************)
LEMMA InitialTyped ==
    ASSUME NEW d \in Device, NEW e \in Nat, NEW l \in Nat, NEW c \in BOOLEAN
    PROVE  InitialProjection(d, e, l, c) \in Projection
<1>1. [start |-> 0, end |-> Open, active |-> TRUE] \in Interval
  BY DEF Interval, Open
<1>2. AccountOf[d] \in Account
  BY ConfigAssumption
<1> QED
  BY <1>1, <1>2 DEF InitialProjection, Projection

LEMMA EndOpenTyped ==
    ASSUME NEW I \in SUBSET Interval, NEW s \in Nat
    PROVE  EndOpen(I, s) \in SUBSET Interval
<1>1. \A v \in Interval : [v EXCEPT !.end = s] \in Interval
  BY DEF Interval
<1> QED
  BY <1>1 DEF EndOpen

LEMMA BaseTyped ==
    ASSUME NEW p \in Projection \cup {NoRoom}, NEW m \in Message
    PROVE  Base(p, m) \in Projection
<1>1. m.sender \in Device /\ m.epoch \in Nat /\ (m.epoch = 0) \in BOOLEAN
  BY DEF Message
<1> QED
  BY <1>1, InitialTyped DEF Base

\* The fields of the projection after a delta.
LEMMA ApplyDeltaFields ==
    ASSUME NEW p \in Projection \cup {NoRoom}, NEW m \in Message, NEW s \in Nat
    PROVE  /\ ApplyDelta(p, m, s).epoch = m.epoch + 1
           /\ ApplyDelta(p, m, s).last = s
           /\ ApplyDelta(p, m, s).status = Base(p, m).status
           /\ ApplyDelta(p, m, s).complete = Base(p, m).complete
           /\ ApplyDelta(p, m, s).admins = Base(p, m).admins
           /\ ApplyDelta(p, m, s).departed
                = Base(p, m).departed \ {AccountOf[d] : d \in m.removes}
           /\ \A d \in Device : ApplyDelta(p, m, s).intervals[d] =
                (IF d \in m.removes THEN EndOpen(Base(p, m).intervals[d], s)
                                    ELSE Base(p, m).intervals[d])
                \cup (IF d \in Added(m)
                      THEN {[start |-> s, end |-> Open, active |-> FALSE]} ELSE {})
<1> DEFINE b == Base(p, m)
<1>1. b \in Projection
  BY BaseTyped
<1> HIDE DEF b
<1> QED
  BY <1>1 DEF ApplyDelta, Projection, b

LEMMA ApplyDeltaTyped ==
    ASSUME NEW p \in Projection \cup {NoRoom}, NEW m \in Message, NEW s \in Nat
    PROVE  ApplyDelta(p, m, s) \in Projection
<1> DEFINE b == Base(p, m)
           after == [d \in Device |->
            (IF d \in m.removes THEN EndOpen(b.intervals[d], s) ELSE b.intervals[d])
                \cup (IF d \in Added(m)
                      THEN {[start |-> s, end |-> Open, active |-> FALSE]} ELSE {})]
<1>1. b \in Projection
  BY BaseTyped
<1>2. after \in [Device -> SUBSET Interval]
  <2> SUFFICES ASSUME NEW d \in Device PROVE after[d] \in SUBSET Interval
    OBVIOUS
  <2>1. b.intervals[d] \in SUBSET Interval
    BY <1>1 DEF Projection
  <2>2. EndOpen(b.intervals[d], s) \in SUBSET Interval
    BY <2>1, EndOpenTyped
  <2>3. [start |-> s, end |-> Open, active |-> FALSE] \in Interval
    BY DEF Interval, Open
  <2> HIDE DEF b
  <2> QED
    BY <2>1, <2>2, <2>3
<1>3. m.epoch + 1 \in Nat
  BY DEF Message
<1>4. ApplyDelta(p, m, s) = [b EXCEPT !.epoch = m.epoch + 1, !.last = s,
        !.departed = b.departed \ {AccountOf[d] : d \in m.removes}, !.intervals = after]
  <2> HIDE DEF b
  <2> QED
    BY <1>1 DEF ApplyDelta, Projection, b
<1> HIDE DEF b, after
<1> QED
  BY <1>1, <1>2, <1>3, <1>4 DEF Projection

LEMMA ActivateTyped ==
    ASSUME NEW p \in Projection, NEW d \in Device, NEW s \in Nat
    PROVE  /\ Activate(p, d, s) \in Projection
           /\ Activate(p, d, s).epoch = p.epoch /\ Activate(p, d, s).last = p.last
<1> DEFINE after == {IF v.start = s THEN [v EXCEPT !.active = TRUE] ELSE v : v \in p.intervals[d]}
<1>1. p.intervals[d] \in SUBSET Interval
  BY DEF Projection
<1>2. \A v \in Interval : [v EXCEPT !.active = TRUE] \in Interval
  BY DEF Interval
<1>3. after \in SUBSET Interval
  BY <1>1, <1>2
<1>4. Activate(p, d, s) = [p EXCEPT !.intervals = [p.intervals EXCEPT ![d] = after]]
  BY DEF Activate, Projection
<1> HIDE DEF after
<1> QED
  BY <1>3, <1>4 DEF Projection

LEMMA WelcomedTyped ==
    ASSUME NEW p \in Projection
    PROVE  /\ Welcomed(p) \in Projection
           /\ Welcomed(p).epoch = p.epoch /\ Welcomed(p).last = p.last
<1> DEFINE after == [d \in Device |->
        {IF <<d, v.start>> \in ackedDisk THEN [v EXCEPT !.active = TRUE] ELSE v :
            v \in p.intervals[d]}]
<1>1. \A v \in Interval : [v EXCEPT !.active = TRUE] \in Interval
  BY DEF Interval
<1>2. after \in [Device -> SUBSET Interval]
  <2> SUFFICES ASSUME NEW d \in Device PROVE after[d] \in SUBSET Interval
    OBVIOUS
  <2>1. p.intervals[d] \in SUBSET Interval
    BY DEF Projection
  <2> QED
    BY <2>1, <1>1
<1>3. Welcomed(p) = [p EXCEPT !.intervals = after]
  BY DEF Welcomed, Projection
<1> HIDE DEF after
<1> QED
  BY <1>2, <1>3 DEF Projection

LEMMA DepartingTyped ==
    ASSUME NEW a, room \in Projection
    PROVE  /\ Departing(a) \in Projection
           /\ Departing(a).epoch = room.epoch /\ Departing(a).last = room.last
<1> DEFINE after == [d \in Device |->
        IF AccountOf[d] = a THEN EndOpen(room.intervals[d], room.last) ELSE room.intervals[d]]
<1>1. after \in [Device -> SUBSET Interval]
  <2> SUFFICES ASSUME NEW d \in Device PROVE after[d] \in SUBSET Interval
    OBVIOUS
  <2>1. room.intervals[d] \in SUBSET Interval /\ room.last \in Nat
    BY DEF Projection
  <2> QED
    BY <2>1, EndOpenTyped
<1>2. Departing(a) = [room EXCEPT !.intervals = after]
  BY DEF Departing, Projection
<1> HIDE DEF after
<1> QED
  BY <1>1, <1>2 DEF Projection

(***************************************************************************)
(* Which steps change which variable.                                      *)
(***************************************************************************)
\* A request is checked.
Checks(t) ==
    \E i \in Id, d \in Device, e \in NamedEpochs :
        \/ \E x \in Deltas : CommitCheck(t, CommitMessage(i, d, e, x))
        \/ EventCheck(t, EventMessage(i, d, e))

LeaveStep(t) == \E d \in Device : Leave(t, d) \/ LeaveRefused(t, d)
AdminStep(t) == \E d \in Device, a \in Account : GrantAdmin(t, d, a) \/ RevokeAdmin(t, d, a)
ReplayStep(t) == \E i \in Seqs : CommitReplay(t, i)
ReportStep(t) == \E d \in Device, s \in Seqs : Report(t, d, s)
PageStep(t) == \E d \in Device : SyncPage(t, d)
AckStep(t) == \E w \in claimed : AckWelcome(t, w)

RoomStep(t) ==
    \/ CommitFresh(t) \/ EventFresh(t) \/ RepairProjection(t) \/ Bootstrap(t)
    \/ LeaveStep(t) \/ AdminStep(t) \/ MarkForRepair(t) \/ ActivateMembership(t)

ThreadStep(t) ==
    \/ RoomStep(t) \/ Checks(t) \/ Refused(t) \/ ReplayStep(t) \/ ReportStep(t) \/ PageStep(t)
    \/ CloneRooms(t) \/ SnapshotRooms(t) \/ SaveCheckpoint(t) \/ SaveFails(t)
    \/ AckStep(t) \/ SyncAnswer(t)

PackageStep == \E k \in Package : PublishPackage(k) \/ ClaimPackage(k) \/ ExpireLease(k)
WelcomeStep == \/ \E d \in Device, s \in Seqs : ClaimWelcome(d, s)
               \/ \E w \in claimed : AckWriteFails(w)

Changes ==
    /\ log' # log => \E t \in Thread : CommitFresh(t) \/ EventFresh(t)
    /\ room' # room => Crash \/ Boot \/ \E t \in Thread : RoomStep(t)
    /\ checkpoint' # checkpoint => BootReady \/ \E t \in Thread : SaveCheckpoint(t)
    /\ claimed' # claimed => \E d \in Device, s \in Seqs : ClaimWelcome(d, s)
    /\ ackedDisk' # ackedDisk => \E t \in Thread : AckStep(t)
    /\ acked' # acked => Crash \/ BootReady \/ (\E t \in Thread : AckStep(t)) \/ WelcomeStep
    /\ inventory' # inventory => (\E t \in Thread : CommitFresh(t)) \/ PackageStep
    /\ up' # up => Crash \/ BootReady
    /\ threads' # threads => Crash \/ \E t \in Thread : ThreadStep(t)
    /\ cursor' # cursor \/ got' # got => \E t \in Thread : SyncAnswer(t)
    /\ activated' # activated => \E t \in Thread : ActivateMembership(t)

\* Every step is one of these.
LEMMA Cases ==
    [Next]_vars =>
        \/ UNCHANGED vars \/ Crash \/ Boot \/ PackageStep \/ WelcomeStep
        \/ (\E d \in Device : RevokeDevice(d)) \/ \E t \in Thread : ThreadStep(t)
BY Zenon DEF Next, PackageStep, WelcomeStep, ThreadStep, RoomStep, Checks, LeaveStep, AdminStep,
       ReplayStep, ReportStep, PageStep, AckStep

LEMMA Frames == [Next]_vars => Changes
<1> SUFFICES ASSUME [Next]_vars PROVE Changes
  OBVIOUS
<1>1. CASE UNCHANGED vars
  BY <1>1 DEF Changes, vars, disk, clients
<1>2. CASE Crash
  BY <1>2 DEF Changes, Crash, disk, clients
<1>3. CASE Boot
  BY <1>3 DEF Changes, Boot, BootLoad, BootReplay, BootReady, disk, clients
<1>4. CASE PackageStep
  BY <1>4 DEF Changes, PackageStep, PublishPackage, ClaimPackage, ExpireLease, clients
<1>5. CASE WelcomeStep
  BY <1>5 DEF Changes, WelcomeStep, ClaimWelcome, AckWriteFails, disk, clients
<1>6. CASE \E d \in Device : RevokeDevice(d)
  BY <1>6 DEF Changes, RevokeDevice, clients
<1>7. CASE \E t \in Thread : ThreadStep(t)
  <2> PICK t \in Thread : ThreadStep(t)
    BY <1>7
  <2>1. threads' # threads => \E u \in Thread : ThreadStep(u)
    OBVIOUS
  <2>2. CASE CommitFresh(t)
    BY <2>2, <2>1 DEF Changes, CommitFresh, RoomStep, disk, clients
  <2>3. CASE EventFresh(t)
    BY <2>3, <2>1 DEF Changes, EventFresh, RoomStep, disk, clients
  <2>4. CASE RepairProjection(t)
    BY <2>4, <2>1 DEF Changes, RepairProjection, RoomStep, disk, clients
  <2>5. CASE Bootstrap(t)
    BY <2>5, <2>1 DEF Changes, Bootstrap, RoomStep, disk, clients
  <2>6. CASE MarkForRepair(t)
    BY <2>6, <2>1 DEF Changes, MarkForRepair, RoomStep, disk, clients
  <2>7. CASE ActivateMembership(t)
    BY <2>7, <2>1 DEF Changes, ActivateMembership, RoomStep, disk, clients
  <2>8. CASE LeaveStep(t)
    BY <2>8, <2>1 DEF Changes, LeaveStep, Leave, LeaveRefused, RoomStep, disk, clients
  <2>9. CASE AdminStep(t)
    BY <2>9, <2>1 DEF Changes, AdminStep, GrantAdmin, RevokeAdmin, RoomStep, disk, clients
  <2>10. CASE Checks(t)
    BY <2>10, <2>1 DEF Changes, Checks, CommitCheck, EventCheck, disk, clients
  <2>11. CASE ReplayStep(t)
    BY <2>11, <2>1 DEF Changes, ReplayStep, CommitReplay, disk, clients
  <2>12. CASE ReportStep(t)
    BY <2>12, <2>1 DEF Changes, ReportStep, Report, disk, clients
  <2>13. CASE PageStep(t)
    BY <2>13, <2>1 DEF Changes, PageStep, SyncPage, disk, clients
  <2>14. CASE AckStep(t)
    BY <2>14, <2>1 DEF Changes, AckStep, AckWelcome, disk, clients
  <2>15. CASE Refused(t)
    BY <2>15, <2>1 DEF Changes, Refused, disk, clients
  <2>16. CASE CloneRooms(t)
    BY <2>16, <2>1 DEF Changes, CloneRooms, disk, clients
  <2>17. CASE SnapshotRooms(t)
    BY <2>17, <2>1 DEF Changes, SnapshotRooms, disk, clients
  <2>18. CASE SaveCheckpoint(t)
    BY <2>18, <2>1 DEF Changes, SaveCheckpoint, disk, clients
  <2>19. CASE SaveFails(t)
    BY <2>19, <2>1 DEF Changes, SaveFails, disk, clients
  <2>20. CASE SyncAnswer(t)
    BY <2>20, <2>1 DEF Changes, SyncAnswer, disk, clients
  <2> QED
    BY <2>2, <2>3, <2>4, <2>5, <2>6, <2>7, <2>8, <2>9, <2>10, <2>11, <2>12, <2>13, <2>14, <2>15, <2>16, <2>17, <2>18, <2>19, <2>20 DEF ThreadStep, RoomStep
<1> QED
  BY <1>1, <1>2, <1>3, <1>4, <1>5, <1>6, <1>7, Cases

(***************************************************************************)
(* The steps keep the types.                                               *)
(***************************************************************************)
LEMMA MessagesTyped ==
    ASSUME NEW i \in Id, NEW d \in Device, NEW e \in Nat
    PROVE  /\ \A x \in Deltas : CommitMessage(i, d, e, x) \in Message
           /\ EventMessage(i, d, e) \in Message
BY DEF CommitMessage, EventMessage, Message, Deltas

LEMMA MessageEpoch == \A m \in Message : m.epoch \in Nat
BY DEF Message

LEMMA KnownRoomGrows ==
    ASSUME NEW m \in Nat, NEW n \in Nat, m <= n
    PROVE  KnownRoom(m) \subseteq KnownRoom(n)
BY DEF KnownRoom, Projection

LEMMA JobGrows ==
    ASSUME NEW j, NEW n \in Nat, NEW c, NEW r \in BOOLEAN, JobTyped(j, n, c, r),
           NEW m \in Nat, n <= m, NEW d, c \subseteq d, NEW q \in BOOLEAN, r => q
    PROVE  JobTyped(j, m, d, q)
<1>1. KnownRoom(n) \subseteq KnownRoom(m)
  BY KnownRoomGrows
<1>2. j.message \in Message => j.message.epoch \in Nat
  BY DEF Message
<1> QED
  BY <1>1, <1>2 DEF JobTyped

\* Appending the message of a Commit or an event that was checked.
LEMMA AppendTyped ==
    ASSUME LogTyped, NEW m \in Message, m.epoch <= Len(log), Len(log) < MaxLog,
           log' = Append(log, m)
    PROVE  LogTyped' /\ Len(log') = Len(log) + 1
<1>1. log \in Seq(Message) /\ Len(log) \in Nat /\ MaxLog \in Nat /\ m.epoch \in Nat
  BY ConfigAssumption DEF LogTyped, Message
<1>2. log' \in Seq(Message) /\ Len(log') = Len(log) + 1
  BY <1>1
<1>3. \A i \in Commits' : log'[i].epoch < Len(log')
  <2> SUFFICES ASSUME NEW i \in Commits' PROVE log'[i].epoch < Len(log')
    OBVIOUS
  <2>1. i \in 1..(Len(log) + 1) /\ log'[i].commit
    BY <1>2 DEF Commits
  <2>2. CASE i = Len(log) + 1
    BY <2>2, <1>1, <1>2
  <2>3. CASE i # Len(log) + 1
    <3>1. i \in 1..Len(log) /\ log'[i] = log[i]
      BY <2>1, <2>3, <1>1
    <3>2. i \in Commits
      BY <3>1, <2>1 DEF Commits
    <3>3. log[i] \in Message /\ log[i].epoch < Len(log)
      BY <3>1, <3>2, <1>1 DEF LogTyped
    <3>4. log[i].epoch \in Nat
      BY <3>3, MessageEpoch
    <3> QED
      BY <3>1, <3>3, <3>4, <1>1, <1>2
  <2> QED
    BY <2>2, <2>3
<1>4. Len(log') <= MaxLog
  BY <1>1, <1>2
<1> QED
  BY <1>2, <1>3, <1>4 DEF LogTyped

LEMMA LogStep ==
    ASSUME TypeInv, [Next]_vars
    PROVE  LogTyped' /\ Len(log) \in Nat /\ Len(log') \in Nat /\ Len(log) <= Len(log')
<1>1. LogTyped /\ Len(log) \in Nat
  BY DEF TypeInv, LogTyped
<1>2. CASE log' = log
  BY <1>1, <1>2 DEF LogTyped, Commits
<1>3. CASE \E t \in Thread : CommitFresh(t) \/ EventFresh(t)
  <2> PICK t \in Thread : CommitFresh(t) \/ EventFresh(t)
    BY <1>3
  <2> DEFINE m == threads[t].message
  <2>1. m \in Message /\ m.epoch <= Len(log)
    BY DEF CommitFresh, EventFresh, At, TypeInv, JobsTyped, JobTyped
  <2>2. log' = Append(log, m) /\ Len(log) < MaxLog
    BY DEF CommitFresh, EventFresh, CommitAccepted, EpochAdmitted, EventAdmitted
  <2> HIDE DEF m
  <2>3. LogTyped' /\ Len(log') = Len(log) + 1
    BY <2>1, <2>2, <1>1, AppendTyped
  <2> QED
    BY <2>3, <1>1
<1> QED
  BY <1>2, <1>3, Frames DEF Changes

\* The epoch a lost room would be given again is one the log has reached.
LEMMA NextEpochTyped == LogTyped => NextEpoch \in 0..Len(log)
<1> SUFFICES ASSUME LogTyped PROVE NextEpoch \in 0..Len(log)
  OBVIOUS
<1> DEFINE E == {log[i].epoch : i \in Commits}
<1>1. Len(log) \in Nat /\ \A i \in Commits : log[i].epoch \in Nat /\ log[i].epoch < Len(log)
  BY MessageEpoch DEF LogTyped, Commits
<1>2. CASE Commits = {}
  BY <1>1, <1>2 DEF NextEpoch
<1>3. CASE Commits # {}
  <2>1. E \in SUBSET (0..Len(log)) /\ E # {}
    BY <1>1, <1>3
  <2>2. PICK m \in E : \A n \in E : n <= m
    <3> HIDE DEF E
    <3> QED
      BY <1>1, <2>1, GreatestExists
  <2>3. \A i \in Commits : log[i].epoch <= m
    BY <2>2
  <2> DEFINE c == CHOOSE e \in E : \A i \in Commits : log[i].epoch <= e
  <2>4. c \in E
    BY <2>2, <2>3
  <2>5. NextEpoch = c + 1
    BY <1>3 DEF NextEpoch
  <2>6. PICK i \in Commits : c = log[i].epoch
    BY <2>4
  <2> HIDE DEF c, E
  <2> QED
    BY <2>5, <2>6, <1>1
<1> QED
  BY <1>2, <1>3

LEMMA NamedEpochTyped == TypeInv => NamedEpochs \subseteq 0..Len(log)
BY NextEpochTyped DEF TypeInv, RoomsTyped, NamedEpochs, KnownRoom, Projection

\* What a delta, at entry s of a log of n entries, makes of a projection.
LEMMA DeltaKnown ==
    ASSUME NEW n \in Nat, NEW p \in Projection \cup {NoRoom}, NEW m \in Message, m.epoch < n,
           NEW s \in 0..n
    PROVE  ApplyDelta(p, m, s) \in KnownRoom(n)
<1>1. m.epoch \in Nat /\ s \in Nat
  BY DEF Message
<1>2. ApplyDelta(p, m, s) \in Projection
  BY <1>1, ApplyDeltaTyped
<1>3. ApplyDelta(p, m, s).epoch = m.epoch + 1 /\ ApplyDelta(p, m, s).last = s
  BY <1>1, ApplyDeltaFields
<1> QED
  BY <1>1, <1>2, <1>3 DEF KnownRoom

LEMMA BootRoomTyped ==
    ASSUME TypeInv, Boot
    PROVE  room' \in KnownRoom(Len(log)) \cup {NoRoom}
<1> DEFINE n == Len(log)
<1>1. n \in Nat /\ log \in Seq(Message)
  BY DEF TypeInv, LogTyped
<1>2. room \in KnownRoom(n) \cup {NoRoom} /\ checkpoint \in KnownRoom(n) \cup {NoRoom}
  BY DEF TypeInv, RoomsTyped
<1> HIDE DEF n
<1>3. CASE BootLoad
  BY <1>2, <1>3 DEF BootLoad, n
<1>4. CASE BootReplay
  <2> DEFINE i == room.last + 1
  <2>1. room \in Projection /\ i \in 1..n /\ room.epoch <= n
    BY <1>1, <1>2, <1>4 DEF BootReplay, KnownRoom, Projection, n
  <2>2. room' = ReplayEntry(room, i)
    BY <1>4 DEF BootReplay
  <2>3. CASE log[i].commit
    <3>1. log[i] \in Message /\ i \in Commits
      BY <2>1, <2>3, <1>1 DEF Commits, n
    <3>2. log[i].epoch < n
      BY <3>1 DEF TypeInv, LogTyped, n
    <3>3. room' = ApplyDelta(room, log[i], i)
      BY <2>2, <2>3 DEF ReplayEntry
    <3>4. i \in 0..n
      BY <2>1, <1>1
    <3> HIDE DEF i
    <3>5. room' \in KnownRoom(n)
      BY <1>1, <2>1, <3>1, <3>2, <3>3, <3>4, DeltaKnown
    <3> QED
      BY <3>5 DEF n
  <2>4. CASE ~log[i].commit
    <3>1. room' = [room EXCEPT !.last = i]
      BY <2>2, <2>4 DEF ReplayEntry
    <3> HIDE DEF i
    <3>2. room' \in KnownRoom(n)
      BY <1>1, <2>1, <3>1 DEF KnownRoom, Projection
    <3> QED
      BY <3>2 DEF n
  <2> QED
    BY <2>3, <2>4
<1>5. CASE BootReady
  <2>1. room # NoRoom => Welcomed(room) \in KnownRoom(n)
    BY <1>2, WelcomedTyped DEF KnownRoom
  <2> QED
    BY <2>1, <1>5 DEF BootReady, n
<1> QED
  BY <1>3, <1>4, <1>5 DEF Boot, n

LEMMA RoomStepTyped ==
    ASSUME TypeInv, NEW t \in Thread, RoomStep(t), Len(log') \in Nat
    PROVE  /\ room' \in KnownRoom(Len(log')) \cup {NoRoom}
           /\ room # NoRoom => room' # NoRoom
           /\ up
<1> DEFINE n == Len(log)
           j == threads[t]
<1>1. n \in Nat /\ log \in Seq(Message) /\ n <= MaxLog /\ MaxLog \in Nat
  BY ConfigAssumption DEF TypeInv, LogTyped
<1>2. room \in KnownRoom(n) \cup {NoRoom} /\ room \in Projection \cup {NoRoom}
  BY DEF TypeInv, RoomsTyped, KnownRoom
<1>3. JobTyped(j, n, claimed, room # NoRoom)
  BY DEF TypeInv, JobsTyped
<1>4. NoRoom \notin Projection
  BY AbsentAssumption
<1>5. \A p \in KnownRoom(n) : p \in Projection
  BY DEF KnownRoom
<1> HIDE DEF n
<1>6. CASE CommitFresh(t)
  <2>1. j.message \in Message /\ j.message.epoch <= n /\ j.message.epoch \in Nat
    BY <1>3, <1>6 DEF CommitFresh, At, JobTyped, Message
  <2>2. log' = Append(log, j.message) /\ room' = ApplyDelta(room, j.message, n + 1) /\ up
    BY <1>6 DEF CommitFresh, At, n
  <2>3. Len(log') = n + 1
    BY <2>1, <2>2, <1>1 DEF n
  <2>4. room' \in KnownRoom(n + 1)
    <3>1. n + 1 \in Nat /\ n + 1 \in 0..(n + 1) /\ j.message.epoch < n + 1
      BY <2>1, <1>1
    <3> HIDE DEF j
    <3> QED
      BY <2>1, <2>2, <3>1, <1>2, DeltaKnown
  <2> QED
    BY <2>2, <2>3, <2>4, <1>4 DEF KnownRoom
<1>7. CASE EventFresh(t)
  <2>1. j.message \in Message /\ room # NoRoom
    BY <1>3, <1>7 DEF EventFresh, At, JobTyped
  <2>2. log' = Append(log, j.message) /\ up
        /\ room' = IF room.last < n + 1 THEN [room EXCEPT !.last = n + 1] ELSE room
    BY <1>7 DEF EventFresh, At, n
  <2>3. Len(log') = n + 1
    BY <2>1, <2>2, <1>1 DEF n
  <2>4. room' \in KnownRoom(n + 1)
    <3>1. room \in Projection /\ room.epoch \in Nat /\ room.last \in Nat /\ room.epoch <= n
          /\ room.last <= n
      BY <2>1, <1>2 DEF KnownRoom, Projection
    <3>2. CASE room.last < n + 1
      <4>1. room' = [room EXCEPT !.last = n + 1]
        BY <2>2, <3>2
      <4>2. room' \in Projection /\ room'.last = n + 1 /\ room'.epoch = room.epoch
        BY <4>1, <3>1, <1>1 DEF Projection
      <4> QED
        BY <4>2, <3>1, <1>1 DEF KnownRoom
    <3> QED
      BY <3>1, <3>2, <1>1
  <2> QED
    BY <2>2, <2>3, <2>4, <1>4 DEF KnownRoom
<1>8. CASE RepairProjection(t)
  <2>1. /\ j.message \in Message /\ j.message.epoch < n /\ j.target \in 0..n
        /\ room' = ApplyDelta(room, j.message, j.target) /\ up /\ log' = log
    BY <1>3, <1>8 DEF RepairProjection, At, JobTyped, disk
  <2>2. room' \in KnownRoom(n)
    BY <2>1, <1>1, <1>2, DeltaKnown
  <2> QED
    BY <2>1, <2>2, <1>4 DEF KnownRoom, n
<1>9. CASE Bootstrap(t)
  <2>1. room = NoRoom /\ room' = InitialProjection(Creator, NextEpoch, n, TRUE) /\ up /\ log' = log
    BY <1>9 DEF Bootstrap, Free, n, disk
  <2>2. NextEpoch \in 0..n /\ Creator \in Device
    BY NextEpochTyped, ConfigAssumption DEF TypeInv, n
  <2>3. room' \in Projection
    <3>1. NextEpoch \in Nat /\ TRUE \in BOOLEAN
      BY <2>2
    <3> QED
      BY <2>1, <2>2, <3>1, <1>1, InitialTyped
  <2>4. room'.epoch = NextEpoch /\ room'.last = n
    BY <2>1 DEF InitialProjection
  <2>5. room' \in KnownRoom(n)
    BY <2>2, <2>3, <2>4, <1>1 DEF KnownRoom
  <2> QED
    BY <2>1, <2>3, <2>5, <1>4 DEF n
<1>10. CASE LeaveStep(t)
  <2> PICK d \in Device : Leave(t, d) \/ LeaveRefused(t, d)
    BY <1>10 DEF LeaveStep
  <2> DEFINE a == AccountOf[d]
             p == Departing(a)
  <2>1. room \in Projection /\ room # NoRoom /\ up /\ log' = log /\ a \in Account
    BY <1>2, ConfigAssumption DEF Leave, LeaveRefused, LeaveAllowed, Free, disk
  <2>2. p \in Projection /\ p.epoch = room.epoch /\ p.last = room.last
    BY <2>1, DepartingTyped
  <2>3. p \in KnownRoom(n)
    BY <1>2, <2>1, <2>2 DEF KnownRoom
  <2>4. CASE Leave(t, d)
    <3>1. room' = [p EXCEPT !.departed = @ \cup {a}, !.admins = @ \ {a}]
      BY <2>4 DEF Leave
    <3> HIDE DEF p, a
    <3>2. room' \in KnownRoom(n)
      BY <3>1, <2>1, <2>3 DEF KnownRoom, Projection
    <3> QED
      BY <3>2, <2>1, <1>4 DEF KnownRoom, n
  <2>5. CASE LeaveRefused(t, d)
    <3> DEFINE after == [x \in Device |->
            IF AccountOf[x] = a
            THEN {IF v.end = room.last THEN [v EXCEPT !.end = Open] ELSE v : v \in p.intervals[x]}
            ELSE p.intervals[x]]
    <3>1. \A v \in Interval : [v EXCEPT !.end = Open] \in Interval
      BY DEF Interval, Open
    <3>2. after \in [Device -> SUBSET Interval]
      <4> SUFFICES ASSUME NEW x \in Device PROVE after[x] \in SUBSET Interval
        OBVIOUS
      <4>1. p.intervals[x] \in SUBSET Interval
        BY <2>2 DEF Projection
      <4> HIDE DEF p
      <4> QED
        BY <4>1, <3>1
    <3>3. room' = [p EXCEPT !.intervals = after]
      <4>1. room' = [p EXCEPT !.intervals = [x \in Device |->
            IF AccountOf[x] = a
            THEN {IF v.end = room.last THEN [v EXCEPT !.end = Open] ELSE v : v \in @[x]}
            ELSE @[x]]]
        BY <2>5 DEF LeaveRefused
      <4> HIDE DEF p, a
      <4> QED
        BY <4>1, <2>2 DEF Projection
    <3> HIDE DEF p, after
    <3>4. room' \in KnownRoom(n)
      BY <3>2, <3>3, <2>3 DEF KnownRoom, Projection
    <3> QED
      BY <3>4, <2>1, <1>4 DEF KnownRoom, n
  <2> QED
    BY <2>4, <2>5
<1>11. CASE AdminStep(t)
  <2> PICK d \in Device, a \in Account : GrantAdmin(t, d, a) \/ RevokeAdmin(t, d, a)
    BY <1>11 DEF AdminStep
  <2>1. /\ room # NoRoom /\ up /\ log' = log
        /\ \/ room' = [room EXCEPT !.admins = @ \cup {a}]
           \/ room' = [room EXCEPT !.admins = @ \ {a}]
    BY DEF GrantAdmin, RevokeAdmin, AdminAllowed, Free, disk
  <2>2. room' \in KnownRoom(n)
    BY <2>1, <1>2 DEF KnownRoom, Projection
  <2> QED
    BY <2>1, <2>2, <1>4 DEF KnownRoom, n
<1>12. CASE MarkForRepair(t)
  <2>1. j.snapshot \in KnownRoom(n) /\ room' = [j.snapshot EXCEPT !.status = "repair"] /\ up /\ log' = log
    BY <1>3, <1>12 DEF MarkForRepair, At, JobTyped, disk
  <2>2. room' \in KnownRoom(n)
    BY <2>1 DEF KnownRoom, Projection
  <2> QED
    BY <2>1, <2>2, <1>4 DEF KnownRoom, n
<1>13. CASE ActivateMembership(t)
  <2> DEFINE w == j.target
  <2>1. w \in Device \X Nat /\ up /\ log' = log
        /\ room' = IF room = NoRoom THEN NoRoom ELSE Activate(room, w[1], w[2])
    BY <1>3, <1>13 DEF ActivateMembership, At, JobTyped, TypeInv, WelcomesTyped, disk
  <2> HIDE DEF w
  <2>2. room # NoRoom => Activate(room, w[1], w[2]) \in KnownRoom(n)
    BY <2>1, <1>2, ActivateTyped DEF KnownRoom
  <2> QED
    BY <2>1, <2>2, <1>2, <1>4 DEF KnownRoom, n
<1> QED
  BY <1>6, <1>7, <1>8, <1>9, <1>10, <1>11, <1>12, <1>13 DEF RoomStep

LEMMA RoomsStep ==
    ASSUME TypeInv, [Next]_vars
    PROVE  /\ RoomsTyped'
           /\ room # NoRoom /\ ~Crash /\ up => room' # NoRoom
<1>1. Len(log) \in Nat /\ Len(log') \in Nat /\ Len(log) <= Len(log')
  BY LogStep
<1>2. /\ room \in KnownRoom(Len(log)) \cup {NoRoom}
      /\ checkpoint \in KnownRoom(Len(log)) \cup {NoRoom}
  BY DEF TypeInv, RoomsTyped
<1>3. KnownRoom(Len(log)) \subseteq KnownRoom(Len(log'))
  BY <1>1, KnownRoomGrows
<1>4. Boot => log' = log /\ ~up
  BY DEF Boot, BootLoad, BootReplay, BootReady, disk
<1>5. /\ room' \in KnownRoom(Len(log')) \cup {NoRoom}
      /\ room # NoRoom /\ ~Crash /\ up => room' # NoRoom
  <2>1. CASE room' = room
    BY <2>1, <1>2, <1>3
  <2>2. CASE Crash
    BY <2>2 DEF Crash
  <2>3. CASE Boot
    BY <2>3, <1>4, BootRoomTyped
  <2>4. CASE \E t \in Thread : RoomStep(t)
    BY <2>4, <1>1, RoomStepTyped
  <2> QED
    BY <2>1, <2>2, <2>3, <2>4, Frames DEF Changes
<1>6. checkpoint' \in KnownRoom(Len(log')) \cup {NoRoom}
  <2>1. CASE checkpoint' = checkpoint
    BY <2>1, <1>2, <1>3
  <2>2. CASE BootReady
    BY <2>2, <1>5 DEF BootReady
  <2>3. CASE \E t \in Thread : SaveCheckpoint(t)
    <3> PICK t \in Thread : SaveCheckpoint(t)
      BY <2>3
    <3>1. checkpoint' = threads[t].snapshot
      BY DEF SaveCheckpoint
    <3>2. threads[t].snapshot \in KnownRoom(Len(log)) \cup {NoRoom}
      BY DEF TypeInv, JobsTyped, JobTyped
    <3> QED
      BY <3>1, <3>2, <1>3
  <2> QED
    BY <2>1, <2>2, <2>3, Frames DEF Changes
<1> QED
  BY <1>5, <1>6 DEF RoomsTyped

LEMMA WelcomesStep ==
    ASSUME TypeInv, [Next]_vars
    PROVE  WelcomesTyped' /\ claimed \subseteq claimed'
<1>1. WelcomesTyped
  BY DEF TypeInv
<1>2. claimed' \subseteq Device \X Nat /\ claimed \subseteq claimed'
  <2>1. CASE claimed' = claimed
    BY <2>1, <1>1 DEF WelcomesTyped
  <2>2. CASE \E d \in Device, s \in Seqs : ClaimWelcome(d, s)
    <3> PICK d \in Device, s \in Seqs : ClaimWelcome(d, s)
      BY <2>2
    <3>1. s \in Nat
      BY ConfigAssumption DEF Seqs
    <3>2. claimed' = claimed \cup {<<d, s>>}
      BY DEF ClaimWelcome
    <3> QED
      BY <3>1, <3>2, <1>1 DEF WelcomesTyped
  <2> QED
    BY <2>1, <2>2, Frames DEF Changes
<1>3. ackedDisk' \subseteq claimed'
  <2>1. CASE ackedDisk' = ackedDisk
    BY <2>1, <1>1, <1>2 DEF WelcomesTyped
  <2>2. CASE \E t \in Thread : AckStep(t)
    BY <2>2, <1>1, <1>2 DEF WelcomesTyped, AckStep, AckWelcome
  <2> QED
    BY <2>1, <2>2, Frames DEF Changes
<1>4. acked' \subseteq claimed'
  <2>1. CASE acked' = acked
    BY <2>1, <1>1, <1>2 DEF WelcomesTyped
  <2>2. CASE Crash
    BY <2>2 DEF Crash
  <2>3. CASE BootReady
    BY <2>3, <1>1, <1>2 DEF WelcomesTyped, BootReady
  <2>4. CASE \E t \in Thread : AckStep(t)
    BY <2>4, <1>1, <1>2 DEF WelcomesTyped, AckStep, AckWelcome
  <2>5. CASE WelcomeStep
    BY <2>5, <1>1, <1>2 DEF WelcomesTyped, WelcomeStep, AckWriteFails, ClaimWelcome
  <2> QED
    BY <2>1, <2>2, <2>3, <2>4, <2>5, Frames DEF Changes
<1>5. activated' \subseteq claimed'
  <2>1. CASE activated' = activated
    BY <2>1, <1>1, <1>2 DEF WelcomesTyped
  <2>2. CASE \E t \in Thread : ActivateMembership(t)
    <3> PICK t \in Thread : ActivateMembership(t)
      BY <2>2
    <3>1. threads[t].target \in claimed
      BY DEF ActivateMembership, At, TypeInv, JobsTyped, JobTyped
    <3>2. activated' = activated \cup {threads[t].target}
      BY DEF ActivateMembership
    <3> QED
      BY <3>1, <3>2, <1>1, <1>2 DEF WelcomesTyped
  <2> QED
    BY <2>1, <2>2, Frames DEF Changes
<1> QED
  BY <1>2, <1>3, <1>4, <1>5 DEF WelcomesTyped

\* The entries a device is shown, and the cursor it is given, are of its page.
LEMMA NextAfterTyped ==
    ASSUME NEW n \in Nat, NEW d, NEW a \in 1..n, NEW b \in a..n
    PROVE  /\ Visible(d, a..b) \subseteq a..b
           /\ NextAfter(d, a..b, Visible(d, a..b)) \in a..b
           /\ \A s \in Visible(d, a..b) : s <= NextAfter(d, a..b, Visible(d, a..b))
           /\ Visible(d, a..b) = {} => NextAfter(d, a..b, Visible(d, a..b)) = b
<1> DEFINE seen == Visible(d, a..b)
           S == IF seen = {} THEN a..b ELSE seen
<1>1. seen \subseteq a..b
  BY DEF Visible
<1>2. S \in SUBSET (0..n) /\ S # {} /\ S \subseteq a..b
  BY <1>1
<1>3. NextAfter(d, a..b, seen) = CHOOSE m \in S : \A k \in S : k <= m
  BY DEF NextAfter
<1> HIDE DEF S, seen
<1>4. \E m \in S : \A k \in S : k <= m
  BY <1>2, GreatestExists
<1>5. /\ NextAfter(d, a..b, seen) \in S
      /\ \A k \in S : k <= NextAfter(d, a..b, seen)
  BY <1>3, <1>4
<1>6. seen = {} => NextAfter(d, a..b, seen) = b
  BY <1>5 DEF S
<1>7. seen # {} => S = seen
  BY DEF S
<1> QED
  BY <1>1, <1>2, <1>5, <1>6, <1>7 DEF seen

LEMMA ClientsStep ==
    ASSUME TypeInv, [Next]_vars
    PROVE  ClientsTyped'
<1>1. ClientsTyped
  BY DEF TypeInv
<1>2. CASE cursor' = cursor /\ got' = got
  BY <1>1, <1>2 DEF ClientsTyped
<1>3. CASE \E t \in Thread : SyncAnswer(t)
  <2> PICK t \in Thread : SyncAnswer(t)
    BY <1>3
  <2> DEFINE d == threads[t].target[1]
             a == threads[t].target[2]
             b == threads[t].target[3]
             seen == Visible(d, a..b)
             next == NextAfter(d, a..b, seen)
  <2>1. d \in Device /\ a \in 1..Len(log) /\ b \in a..Len(log) /\ Len(log) \in Nat
    BY DEF SyncAnswer, At, TypeInv, JobsTyped, JobTyped, LogTyped
  <2>2. got' = [got EXCEPT ![d] = @ \cup seen] /\ cursor' = [cursor EXCEPT ![d] = next]
    BY DEF SyncAnswer
  <2> HIDE DEF d, a, b
  <2>3. seen \subseteq a..b /\ next \in a..b
    BY <2>1, NextAfterTyped
  <2>4. a..b \subseteq Nat
    BY <2>1
  <2> HIDE DEF seen, next
  <2> QED
    BY <2>1, <2>2, <2>3, <2>4, <1>1 DEF ClientsTyped
<1> QED
  BY <1>2, <1>3, Frames DEF Changes

LEMMA RestStep ==
    ASSUME TypeInv, [Next]_vars
    PROVE  RestTyped'
<1>1. RestTyped
  BY DEF TypeInv
<1>2. inventory' \in [Package -> PackageStates]
  <2>1. CASE inventory' = inventory
    BY <2>1, <1>1 DEF RestTyped
  <2>2. CASE \E t \in Thread : CommitFresh(t)
    <3> PICK t \in Thread : CommitFresh(t)
      BY <2>2
    <3> DEFINE m == threads[t].message
    <3>1. inventory' = [k \in Package |-> IF k \in m.adds THEN "consumed" ELSE inventory[k]]
      BY DEF CommitFresh
    <3> HIDE DEF m
    <3> QED
      BY <3>1, <1>1 DEF RestTyped, PackageStates
  <2>3. CASE PackageStep
    <3> PICK k \in Package : PublishPackage(k) \/ ClaimPackage(k) \/ ExpireLease(k)
      BY <2>3 DEF PackageStep
    <3>1. CASE PublishPackage(k)
      <4> DEFINE old == Superseded(k)
      <4>1. inventory' = [j \in Package |->
              IF j = k THEN "available" ELSE IF j \in old THEN "consumed" ELSE inventory[j]]
        BY <3>1 DEF PublishPackage
      <4> HIDE DEF old
      <4> QED
        BY <4>1, <1>1 DEF RestTyped, PackageStates
    <3>2. CASE ClaimPackage(k) \/ ExpireLease(k)
      BY <3>2, <1>1 DEF ClaimPackage, ExpireLease, RestTyped, PackageStates
    <3> QED
      BY <3>1, <3>2
  <2> QED
    BY <2>1, <2>2, <2>3, Frames DEF Changes
<1>3. up' \in BOOLEAN
  BY <1>1, Frames DEF RestTyped, Changes, Crash, BootReady
<1>4. revoked' \subseteq Device /\ left' \subseteq Account /\ crashes' \in Nat
  <2>1. CASE Crash
    BY <2>1, <1>1 DEF RestTyped, Crash, disk, clients
  <2>2. CASE \E d \in Device : RevokeDevice(d)
    BY <2>2, <1>1 DEF RestTyped, RevokeDevice, clients
  <2>3. CASE Boot \/ UNCHANGED vars
    BY <2>3, <1>1 DEF RestTyped, Boot, BootLoad, BootReplay, BootReady, vars, disk, clients
  <2>4. CASE PackageStep
    BY <2>4, <1>1 DEF RestTyped, PackageStep, PublishPackage, ClaimPackage, ExpireLease, clients
  <2>5. CASE WelcomeStep
    BY <2>5, <1>1 DEF RestTyped, WelcomeStep, ClaimWelcome, AckWriteFails, disk, clients
  <2>6. CASE \E t \in Thread : ThreadStep(t)
    <3> PICK t \in Thread : ThreadStep(t)
      BY <2>6
    <3>1. CASE CommitFresh(t) \/ SaveCheckpoint(t)
      BY <3>1, <1>1 DEF RestTyped, CommitFresh, SaveCheckpoint
    <3>2. CASE RoomStep(t) /\ ~CommitFresh(t)
      BY <3>2, <1>1 DEF RestTyped, RoomStep, EventFresh, RepairProjection, Bootstrap, LeaveStep,
             Leave, LeaveRefused, AdminStep, GrantAdmin, RevokeAdmin, MarkForRepair,
             ActivateMembership, disk, clients
    <3>3. CASE ReplayStep(t) \/ ReportStep(t) \/ PageStep(t) \/ AckStep(t)
      BY <3>3, <1>1 DEF RestTyped, ReplayStep, CommitReplay, ReportStep, Report, PageStep,
             SyncPage, AckStep, AckWelcome, disk, clients
    <3>5. CASE Checks(t)
      BY <3>5, <1>1 DEF RestTyped, Checks, CommitCheck, EventCheck, disk, clients
    <3>4. CASE Refused(t) \/ CloneRooms(t) \/ SnapshotRooms(t) \/ SaveFails(t) \/ SyncAnswer(t)
      BY <3>4, <1>1 DEF RestTyped, Refused, CloneRooms, SnapshotRooms, SaveFails, SyncAnswer, disk,
             clients
    <3> QED
      BY <3>1, <3>2, <3>3, <3>4, <3>5 DEF ThreadStep
  <2> QED
    BY <2>1, <2>2, <2>3, <2>4, <2>5, <2>6, Cases
<1> QED
  BY <1>2, <1>3, <1>4 DEF RestTyped

LEMMA IdleTyped ==
    ASSUME NEW n \in Nat, NEW c, NEW r \in BOOLEAN, NEW k \in {"idle", "clone"}, NEW x
    PROVE  JobTyped(Job(k, None, NoRoom, x), n, c, r)
BY DEF JobTyped, Job, Pcs

\* One thread goes on, the others keep what they have.
LEMMA JobGoes ==
    ASSUME TypeInv, [Next]_vars, ~Crash, up, up', NEW t \in Thread, NEW j, Goes(t, j),
           JobTyped(j, Len(log'), claimed', room' # NoRoom)
    PROVE  JobsTyped'
<1>1. threads = [u \in Thread |-> threads[u]] /\ threads' = [threads EXCEPT ![t] = j]
  BY DEF TypeInv, JobsTyped, Goes
<1>2. Len(log) \in Nat /\ Len(log') \in Nat /\ Len(log) <= Len(log') /\ claimed \subseteq claimed'
  BY LogStep, WelcomesStep
<1>3. room # NoRoom => room' # NoRoom
  BY RoomsStep
<1>4. threads' = [u \in Thread |-> threads'[u]] /\ threads'[t] = j
      /\ \A u \in Thread \ {t} : threads'[u] = threads[u]
  BY <1>1
<1>5. \A u \in Thread : JobTyped(threads'[u], Len(log'), claimed', room' # NoRoom)
  <2> SUFFICES ASSUME NEW u \in Thread
               PROVE  JobTyped(threads'[u], Len(log'), claimed', room' # NoRoom)
    OBVIOUS
  <2>1. JobTyped(threads[u], Len(log), claimed, room # NoRoom)
    BY DEF TypeInv, JobsTyped
  <2>2. JobTyped(threads[u], Len(log'), claimed', room' # NoRoom)
    BY <2>1, <1>2, <1>3, JobGrows
  <2> QED
    BY <2>2, <1>4
<1> QED
  BY <1>4, <1>5 DEF JobsTyped

\* A request takes its steps while the server runs.
LEMMA ThreadIsUp ==
    ASSUME NEW t \in Thread, ThreadStep(t)
    PROVE  up /\ up' = up
<1>1. RoomStep(t) => up /\ up' = up
  BY DEF RoomStep, CommitFresh, EventFresh, RepairProjection, Bootstrap, LeaveStep, Leave,
         LeaveRefused, AdminStep, GrantAdmin, RevokeAdmin, MarkForRepair, ActivateMembership, At,
         Free
<1>2. Checks(t) => up /\ up' = up
  BY DEF Checks, CommitCheck, EventCheck, Free
<1>3. Refused(t) \/ ReplayStep(t) \/ ReportStep(t) \/ PageStep(t) => up /\ up' = up
  BY DEF Refused, ReplayStep, CommitReplay, ReportStep, Report, PageStep, SyncPage, At, Free
<1>4. CloneRooms(t) \/ SnapshotRooms(t) \/ SaveCheckpoint(t) \/ SaveFails(t) \/ AckStep(t)
          \/ SyncAnswer(t) => up /\ up' = up
  BY DEF CloneRooms, SnapshotRooms, SaveCheckpoint, SaveFails, AckStep, AckWelcome, SyncAnswer,
         At, Free
<1> QED
  BY <1>1, <1>2, <1>3, <1>4 DEF ThreadStep

LEMMA ThreadStepTyped ==
    ASSUME TypeInv, [Next]_vars, ~Crash, NEW t \in Thread, ThreadStep(t)
    PROVE  JobsTyped'
<1>1. Len(log) \in Nat /\ Len(log') \in Nat /\ Len(log) <= Len(log') /\ claimed \subseteq claimed'
  BY LogStep, WelcomesStep
<1>2. up /\ up' = up
  BY ThreadIsUp
<1>3. room \in KnownRoom(Len(log)) \cup {NoRoom} /\ log \in Seq(Message)
  BY DEF TypeInv, RoomsTyped, LogTyped
<1>4. KnownRoom(Len(log)) \subseteq KnownRoom(Len(log'))
  BY <1>1, KnownRoomGrows
<1>5. None \notin Message
  BY AbsentAssumption
<1>6. CASE \E k \in {"idle", "clone"}, x \in Account \cup {None} : Goes(t, Job(k, None, NoRoom, x))
  BY <1>6, <1>1, <1>2, IdleTyped, JobGoes
<1>7. CASE UNCHANGED threads
  <2> SUFFICES ASSUME NEW u \in Thread
               PROVE  JobTyped(threads[u], Len(log'), claimed', room' # NoRoom)
    BY <1>7, <1>2 DEF TypeInv, JobsTyped
  <2>1. JobTyped(threads[u], Len(log), claimed, room # NoRoom)
    BY DEF TypeInv, JobsTyped
  <2> QED
    BY <2>1, <1>1, <1>2, RoomsStep, JobGrows
<1>8. CASE Checks(t)
  <2> PICK i \in Id, d \in Device, e \in NamedEpochs :
        \/ \E x \in Deltas : CommitCheck(t, CommitMessage(i, d, e, x))
        \/ EventCheck(t, EventMessage(i, d, e))
    BY <1>8 DEF Checks
  <2>1. e \in Nat /\ e <= Len(log)
    BY <1>1, NamedEpochTyped
  <2>2. CASE \E x \in Deltas : CommitCheck(t, CommitMessage(i, d, e, x))
    <3> PICK x \in Deltas : CommitCheck(t, CommitMessage(i, d, e, x))
      BY <2>2
    <3> DEFINE m == CommitMessage(i, d, e, x)
    <3>1. m \in Message /\ m.epoch = e /\ m.commit
      BY <2>1, MessagesTyped DEF CommitMessage
    <3>2. Goes(t, Job("commit", m, NoRoom, None)) /\ log' = log
      BY DEF CommitCheck, disk
    <3> HIDE DEF m
    <3>3. JobTyped(Job("commit", m, NoRoom, None), Len(log'), claimed', room' # NoRoom)
      BY <3>1, <3>2, <2>1 DEF JobTyped, Job, Pcs
    <3> QED
      BY <3>2, <3>3, <1>2, JobGoes
  <2>3. CASE EventCheck(t, EventMessage(i, d, e))
    <3> DEFINE m == EventMessage(i, d, e)
    <3>1. m \in Message /\ m.epoch = e /\ ~m.commit
      BY <2>1, MessagesTyped DEF EventMessage
    <3>2. Goes(t, Job("event", m, NoRoom, None)) /\ log' = log /\ room' # NoRoom
      BY <2>3 DEF EventCheck, disk
    <3> HIDE DEF m
    <3>3. JobTyped(Job("event", m, NoRoom, None), Len(log'), claimed', room' # NoRoom)
      BY <3>1, <3>2, <2>1 DEF JobTyped, Job, Pcs
    <3> QED
      BY <3>2, <3>3, <1>2, JobGoes
  <2> QED
    BY <2>2, <2>3
<1>9. CASE ReplayStep(t)
  <2> PICK i \in Seqs : CommitReplay(t, i)
    BY <1>9 DEF ReplayStep
  <2> DEFINE m == log[i]
  <2>1. /\ Goes(t, Job("repair", m, NoRoom, i)) /\ log' = log /\ i \in 1..Len(log) /\ m.commit
        /\ i \in Commits
    BY DEF CommitReplay, disk, Commits
  <2>2. m \in Message /\ m.epoch < Len(log)
    BY <2>1, <1>3 DEF TypeInv, LogTyped
  <2>3. m.epoch \in Nat
    BY <2>2, MessageEpoch
  <2> HIDE DEF m
  <2>4. JobTyped(Job("repair", m, NoRoom, i), Len(log'), claimed', room' # NoRoom)
    BY <2>1, <2>2, <2>3, <1>1 DEF JobTyped, Job, Pcs
  <2> QED
    BY <2>1, <2>4, <1>2, JobGoes
<1>10. CASE ReportStep(t)
  <2>1. Goes(t, Job("report", None, room, None)) /\ log' = log /\ room # NoRoom
    BY <1>10 DEF ReportStep, Report, disk
  <2>2. JobTyped(Job("report", None, room, None), Len(log'), claimed', room' # NoRoom)
    BY <2>1, <1>3 DEF JobTyped, Job, Pcs
  <2> QED
    BY <2>1, <2>2, <1>2, JobGoes
<1>11. CASE CloneRooms(t) \/ SnapshotRooms(t)
  <2> PICK k \in {"write", "snapshot"}, x \in {threads[t].target, None} : Goes(t, Job(k, None, room, x))
    BY <1>11 DEF CloneRooms, SnapshotRooms
  <2>1. JobTyped(Job(k, None, room, x), Len(log'), claimed', room' # NoRoom)
    BY <1>3, <1>4 DEF JobTyped, Job, Pcs
  <2> QED
    BY <2>1, <1>2, JobGoes
<1>12. CASE AckStep(t)
  <2> PICK w \in claimed : Goes(t, Job("activate", None, NoRoom, w))
    BY <1>12 DEF AckStep, AckWelcome
  <2>1. JobTyped(Job("activate", None, NoRoom, w), Len(log'), claimed', room' # NoRoom)
    BY <1>1 DEF JobTyped, Job, Pcs
  <2> QED
    BY <2>1, <1>2, JobGoes
<1>13. CASE PageStep(t)
  <2> PICK d \in Device : SyncPage(t, d)
    BY <1>13 DEF PageStep
  <2> DEFINE a == cursor[d] + 1
             b == Least(cursor[d] + PageLimit, Len(log))
  <2>1. cursor[d] \in Nat /\ cursor[d] < Len(log) /\ PageLimit \in Nat \ {0}
    BY ConfigAssumption DEF SyncPage, TypeInv, ClientsTyped
  <2>2. a \in 1..Len(log) /\ b \in a..Len(log)
    BY <2>1, <1>1 DEF Least
  <2>3. Goes(t, Job("sync", None, NoRoom, <<d, a, b>>)) /\ log' = log
    BY DEF SyncPage, disk
  <2> HIDE DEF a, b
  <2>4. JobTyped(Job("sync", None, NoRoom, <<d, a, b>>), Len(log'), claimed', room' # NoRoom)
    BY <2>2, <2>3 DEF JobTyped, Job, Pcs
  <2> QED
    BY <2>3, <2>4, <1>2, JobGoes
<1>14. CASE RoomStep(t)
  <2>1. LeaveStep(t) => \/ UNCHANGED threads
                       \/ \E x \in Account : Goes(t, Job("clone", None, NoRoom, x))
    BY ConfigAssumption DEF LeaveStep, Leave, LeaveRefused
  <2>2. RoomStep(t) /\ ~LeaveStep(t) =>
            \E k \in {"idle", "clone"} : Goes(t, Job(k, None, NoRoom, None))
    BY DEF RoomStep, CommitFresh, EventFresh, RepairProjection, Bootstrap, AdminStep, GrantAdmin,
           RevokeAdmin, MarkForRepair, ActivateMembership, Idle
  <2> QED
    BY <2>1, <2>2, <1>14, <1>6, <1>7
<1>15. CASE Refused(t) \/ SaveCheckpoint(t) \/ SaveFails(t) \/ SyncAnswer(t)
  <2>1. Goes(t, Idle)
    BY <1>15 DEF Refused, SaveCheckpoint, SaveFails, SyncAnswer
  <2> QED
    BY <2>1, <1>6 DEF Idle
<1> QED
  BY <1>8, <1>9, <1>10, <1>11, <1>12, <1>13, <1>14, <1>15 DEF ThreadStep

LEMMA JobsStep ==
    ASSUME TypeInv, [Next]_vars
    PROVE  JobsTyped'
<1>1. Len(log) \in Nat /\ Len(log') \in Nat /\ Len(log) <= Len(log') /\ claimed \subseteq claimed'
  BY LogStep, WelcomesStep
<1>2. CASE Crash
  <2>1. /\ threads' = [t \in Thread |-> Idle]
        /\ JobTyped(Idle, Len(log'), claimed', room' # NoRoom)
        /\ Idle.pc = "idle"
    BY <1>1, <1>2, IdleTyped DEF Crash, Idle, Job
  <2> QED
    BY <2>1 DEF JobsTyped
<1>3. CASE ~Crash /\ \E t \in Thread : ThreadStep(t)
  BY <1>3, ThreadStepTyped
<1>4. CASE ~Crash /\ ~\E t \in Thread : ThreadStep(t)
  <2>1. threads' = threads /\ (~up' => ~up)
    BY <1>4, Frames DEF Changes, BootReady
  <2>2. up => (room # NoRoom => room' # NoRoom)
    BY <1>4, RoomsStep
  <2>3. \A t \in Thread : JobTyped(threads[t], Len(log'), claimed', room' # NoRoom)
    <3> SUFFICES ASSUME NEW t \in Thread
                 PROVE  JobTyped(threads[t], Len(log'), claimed', room' # NoRoom)
      OBVIOUS
    <3>1. JobTyped(threads[t], Len(log), claimed, room # NoRoom)
      BY DEF TypeInv, JobsTyped
    <3>2. CASE up
      BY <3>1, <3>2, <2>2, <1>1, JobGrows
    <3>3. CASE ~up
      <4>1. threads[t].pc = "idle"
        BY <3>3 DEF TypeInv, JobsTyped
      <4>2. JobTyped(threads[t], Len(log), claimed, room' # NoRoom)
        BY <3>1, <4>1 DEF JobTyped
      <4> QED
        BY <4>2, <1>1, JobGrows
    <3> QED
      BY <3>2, <3>3
  <2> QED
    BY <2>1, <2>3 DEF TypeInv, JobsTyped
<1> QED
  BY <1>2, <1>3, <1>4

LEMMA TypeInit == Init => TypeInv
<1> SUFFICES ASSUME Init PROVE TypeInv
  OBVIOUS
<1>1. log = << >> /\ Len(log) = 0 /\ log \in Seq(Message) /\ Commits = {} /\ MaxLog \in Nat
  BY ConfigAssumption DEF Init, Commits
<1>2. LogTyped
  BY <1>1 DEF LogTyped
<1>3. InitialProjection(Creator, 0, 0, TRUE) \in KnownRoom(0)
  <2>1. InitialProjection(Creator, 0, 0, TRUE) \in Projection
    BY InitialTyped, ConfigAssumption
  <2> QED
    BY <2>1 DEF KnownRoom, InitialProjection
<1>4. RoomsTyped
  BY <1>1, <1>3 DEF RoomsTyped, Init
<1>5. WelcomesTyped
  BY DEF WelcomesTyped, Init
<1>6. JobTyped(Idle, Len(log), claimed, room # NoRoom) /\ Idle.pc = "idle"
  BY <1>1, IdleTyped DEF Idle, Job
<1>7. JobsTyped
  BY <1>6 DEF JobsTyped, Init
<1>8. ClientsTyped /\ RestTyped
  BY ConfigAssumption DEF ClientsTyped, RestTyped, Init, PackageStates
<1> QED
  BY <1>2, <1>4, <1>5, <1>7, <1>8 DEF TypeInv

\* Type correctness: every variable stays in its type, the log and every projection
\* within what the log has reached.
THEOREM TypeCorrect == Spec => []TypeInv
<1>1. TypeInv /\ [Next]_vars => TypeInv'
  BY LogStep, RoomsStep, WelcomesStep, JobsStep, ClientsStep, RestStep DEF TypeInv
<1> QED
  BY <1>1, TypeInit, PTL DEF Spec

LEMMA TypeInvImpliesTypeOK == TypeInv => TypeOK
<1> SUFFICES ASSUME TypeInv PROVE TypeOK
  OBVIOUS
<1>1. LogTyped /\ RoomsTyped /\ WelcomesTyped /\ ClientsTyped /\ RestTyped
  BY DEF TypeInv
<1>2. checkpoint \in Projection \cup {NoRoom} /\ room \in Projection \cup {NoRoom}
  BY <1>1 DEF RoomsTyped, KnownRoom
<1>3. \A t \in Thread :
        /\ threads[t].pc \in Pcs
        /\ threads[t].message \in Message \cup {None}
        /\ threads[t].snapshot \in Projection \cup {NoRoom}
  BY DEF TypeInv, JobsTyped, JobTyped, KnownRoom
<1> QED
  BY <1>1, <1>2, <1>3 DEF TypeOK, LogTyped, WelcomesTyped, ClientsTyped, RestTyped, PackageStates,
         Pcs

\* The type invariant the runs check.
THEOREM ChatTyped == Spec => []TypeOK
BY TypeCorrect, TypeInvImpliesTypeOK, PTL
===============================================================================
