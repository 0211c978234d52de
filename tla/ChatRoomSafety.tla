---------------------------- MODULE ChatRoomSafety ----------------------------
(***************************************************************************)
(* What ChatRoom promises, for every set of devices, packages and threads. *)
(*                                                                         *)
(* First what every combination of endpoints and faults keeps: a KeyPackage*)
(* admits one device once, and the server implements ChatDelivery.  Then   *)
(* what needs the database to accept its writes (DiskWrites), what needs a *)
(* room that was bootstrapped (Bootstrapped), what needs a projection that *)
(* only the log changes (LogKept, OnlyTheLog), and what needs no Commit to *)
(* be replayed (NeverReplayed).                                            *)
(***************************************************************************)
EXTENDS ChatRoomTypes, FiniteSetTheorems

(***************************************************************************)
(* KeyPackages.                                                            *)
(***************************************************************************)
\* The packages of a recorded Commit are consumed.
PackageInv == \A i \in Commits : \A k \in log[i].adds : inventory[k] = "consumed"

LEMMA ConsumedStays ==
    ASSUME TypeInv, [Next]_vars, NEW k \in Package, inventory[k] = "consumed"
    PROVE  inventory'[k] = "consumed"
<1>1. inventory \in [Package -> PackageStates]
  BY DEF TypeInv, RestTyped
<1>2. CASE \E t \in Thread : CommitFresh(t)
  BY <1>1, <1>2 DEF CommitFresh
<1>3. CASE PackageStep
  <2> PICK j \in Package : PublishPackage(j) \/ ClaimPackage(j) \/ ExpireLease(j)
    BY <1>3 DEF PackageStep
  <2>1. CASE PublishPackage(j)
    BY <2>1 DEF PublishPackage
  <2>2. CASE ClaimPackage(j)
    BY <2>2, <1>1 DEF ClaimPackage
  <2>3. CASE ExpireLease(j)
    BY <2>3, <1>1 DEF ExpireLease, LeaseExpires
  <2> QED
    BY <2>1, <2>2, <2>3
<1> QED
  BY <1>2, <1>3, Frames DEF Changes

\* What a step appends.
LEMMA Appended ==
    ASSUME TypeInv, NEW t \in Thread, CommitFresh(t) \/ EventFresh(t)
    PROVE  /\ threads[t].message \in Message
           /\ Len(log) \in Nat /\ Len(log) < MaxLog /\ Len(log') = Len(log) + 1
           /\ log' = Append(log, threads[t].message)
           /\ \A i \in 1..Len(log) : log'[i] = log[i] /\ log[i] \in Message
           /\ log'[Len(log) + 1] = threads[t].message
           /\ ~Recorded(threads[t].message)
           /\ threads[t].message.epoch <= Len(log)
           /\ Commits' = Commits \cup (IF CommitFresh(t) THEN {Len(log) + 1} ELSE {})
           /\ CommitFresh(t) <=> threads[t].message.commit
<1> DEFINE m == threads[t].message
<1>1. log \in Seq(Message) /\ Len(log) \in Nat
  BY DEF TypeInv, LogTyped
<1>2. /\ m \in Message /\ m.epoch <= Len(log) /\ (CommitFresh(t) => m.commit)
      /\ (EventFresh(t) => ~m.commit)
  BY DEF CommitFresh, EventFresh, At, TypeInv, JobsTyped, JobTyped
<1>3. log' = Append(log, m) /\ Len(log) < MaxLog /\ ~Recorded(m)
  BY DEF CommitFresh, EventFresh, CommitAccepted, EpochAdmitted, EventAdmitted
<1> HIDE DEF m
<1>4. /\ Len(log') = Len(log) + 1
      /\ \A i \in 1..Len(log) : log'[i] = log[i] /\ log[i] \in Message
      /\ log'[Len(log) + 1] = m
  BY <1>1, <1>2, <1>3
<1>5. Commits' = Commits \cup (IF m.commit THEN {Len(log) + 1} ELSE {})
  <2>1. 1..Len(log') = 1..Len(log) \cup {Len(log) + 1}
    BY <1>1, <1>4
  <2>2. Commits' = {i \in 1..Len(log) \cup {Len(log) + 1} : log'[i].commit}
    BY <2>1 DEF Commits
  <2>3. Commits = {i \in 1..Len(log) : log'[i].commit}
    BY <1>4 DEF Commits
  <2> QED
    BY <2>2, <2>3, <1>4
<1> QED
  BY <1>1, <1>2, <1>3, <1>4, <1>5 DEF m

LEMMA PackageStepInv ==
    ASSUME TypeInv, PackageInv, [Next]_vars
    PROVE  PackageInv'
<1>1. \A i \in Commits : \A k \in log[i].adds : k \in Package /\ inventory'[k] = "consumed"
  <2> SUFFICES ASSUME NEW i \in Commits, NEW k \in log[i].adds
               PROVE  k \in Package /\ inventory'[k] = "consumed"
    OBVIOUS
  <2>1. log[i] \in Message
    BY DEF TypeInv, LogTyped, Commits
  <2>2. k \in Package
    BY <2>1 DEF Message
  <2> QED
    BY <2>2, ConsumedStays DEF PackageInv
<1>2. CASE log' = log
  BY <1>1, <1>2 DEF PackageInv, Commits
<1>3. CASE \E t \in Thread : CommitFresh(t) \/ EventFresh(t)
  <2> PICK t \in Thread : CommitFresh(t) \/ EventFresh(t)
    BY <1>3
  <2> DEFINE m == threads[t].message
  <2>1. /\ \A i \in 1..Len(log) : log'[i] = log[i]
        /\ log'[Len(log) + 1] = m /\ m \in Message
        /\ Commits' = Commits \cup (IF CommitFresh(t) THEN {Len(log) + 1} ELSE {})
    BY Appended
  <2>2. CommitFresh(t) => \A k \in m.adds : inventory'[k] = "consumed"
    BY <2>1 DEF CommitFresh, Message
  <2> HIDE DEF m
  <2>3. Commits \subseteq 1..Len(log)
    BY DEF Commits
  <2> QED
    BY <1>1, <2>1, <2>2, <2>3 DEF PackageInv
<1> QED
  BY <1>2, <1>3, Frames DEF Changes

OnceInv == PackageInv /\ PackageAdmitsOnce

LEMMA OnceStep ==
    ASSUME TypeInv, OnceInv, [Next]_vars
    PROVE  OnceInv'
<1>1. PackageInv'
  BY PackageStepInv DEF OnceInv
<1>2. CASE log' = log
  BY <1>1, <1>2 DEF OnceInv, PackageAdmitsOnce, Commits
<1>3. CASE \E t \in Thread : CommitFresh(t) \/ EventFresh(t)
  <2> PICK t \in Thread : CommitFresh(t) \/ EventFresh(t)
    BY <1>3
  <2> DEFINE m == threads[t].message
             n == Len(log) + 1
  <2>1. /\ \A i \in 1..Len(log) : log'[i] = log[i]
        /\ log'[n] = m
        /\ Commits' = Commits \cup (IF CommitFresh(t) THEN {n} ELSE {})
    BY Appended
  <2>2. CommitFresh(t) => \A k \in m.adds : inventory[k] = "claimed"
    BY DEF CommitFresh, CommitAccepted, PackagesClaimed
  <2>3. Commits \subseteq 1..Len(log)
    BY DEF Commits
  <2>4. CommitFresh(t) => \A i \in Commits : log[i].adds \cap m.adds = {}
    BY <2>2 DEF OnceInv, PackageInv
  <2> HIDE DEF m, n
  <2>5. PackageAdmitsOnce'
    BY <2>1, <2>3, <2>4 DEF OnceInv, PackageAdmitsOnce
  <2> QED
    BY <1>1, <2>5 DEF OnceInv
<1> QED
  BY <1>2, <1>3, Frames DEF Changes

\* Every KeyPackage is in at most one Commit, whatever is leased, given back, leased
\* again, superseded or retried.
THEOREM PackagesAdmitOnce == Spec => []PackageAdmitsOnce
<1>1. Init => OnceInv
  BY DEF Init, OnceInv, PackageInv, PackageAdmitsOnce, Commits
<1>2. TypeInv /\ OnceInv /\ [Next]_vars => OnceInv'
  BY OnceStep
<1>3. OnceInv => PackageAdmitsOnce
  BY DEF OnceInv
<1> QED
  BY <1>1, <1>2, <1>3, TypeCorrect, PTL DEF Spec

(***************************************************************************)
(* The delivery contract.                                                  *)
(***************************************************************************)
\* The messages of the log and of the requests under way.
Messages ==
    ({log[i] : i \in 1..Len(log)} \cup {threads[t].message : t \in Thread}) \ {None}

\* Ids are digests: nobody has one twice.
DigestInv == \A x, y \in Messages : x.id = y.id => x = y

\* No device is both added and removed.
Separate(m) == Added(m) \cap m.removes = {}

\* What a step of thread t leaves it with.
JobStep(t) ==
    \/ threads'[t] = threads[t] /\ LeaveStep(t)
    \/ threads'[t] = Idle
    \/ RoomStep(t) /\ \E x \in Account \cup {None} :
          threads'[t] = Job("clone", None, NoRoom, x)
    \/ \E m \in Message : /\ threads'[t] = Job("commit", m, NoRoom, None)
                          /\ CommitCheck(t, m) /\ Separate(m)
    \/ \E m \in Message : /\ threads'[t] = Job("event", m, NoRoom, None)
                          /\ EventCheck(t, m)
    \/ \E i \in Seqs : threads'[t] = Job("repair", log[i], NoRoom, i) /\ CommitReplay(t, i)
    \/ threads'[t] = Job("report", None, room, None) /\ ReportStep(t)
    \/ threads'[t] = Job("write", None, room, threads[t].target) /\ CloneRooms(t)
    \/ threads'[t] = Job("snapshot", None, room, None) /\ SnapshotRooms(t)
    \/ \E w \in claimed : threads'[t] = Job("activate", None, NoRoom, w) /\ AckWelcome(t, w)
    \/ \E d \in Device :
          /\ threads'[t] = Job("sync", None, NoRoom,
                  <<d, cursor[d] + 1, Least(cursor[d] + PageLimit, Len(log))>>)
          /\ SyncPage(t, d)

\* The other threads keep what they have.
LEMMA JobAfter ==
    ASSUME TypeInv, NEW t \in Thread, ThreadStep(t)
    PROVE  /\ \A u \in Thread \ {t} : threads'[u] = threads[u]
           /\ JobStep(t)
<1>1. threads = [u \in Thread |-> threads[u]] /\ Len(log) \in Nat
  BY DEF TypeInv, JobsTyped, LogTyped
<1>2. CASE CommitFresh(t) \/ EventFresh(t) \/ ActivateMembership(t) \/ Refused(t)
            \/ SaveCheckpoint(t) \/ SaveFails(t) \/ SyncAnswer(t)
  <2>1. Goes(t, Idle)
    BY <1>2 DEF CommitFresh, EventFresh, ActivateMembership, Refused, SaveCheckpoint, SaveFails,
           SyncAnswer
  <2> QED
    BY <2>1, <1>1 DEF Goes, JobStep
<1>3. CASE RepairProjection(t) \/ Bootstrap(t) \/ AdminStep(t) \/ MarkForRepair(t)
  <2>1. Goes(t, Job("clone", None, NoRoom, None))
    BY <1>3 DEF RepairProjection, Bootstrap, AdminStep, GrantAdmin, RevokeAdmin, MarkForRepair
  <2> QED
    BY <2>1, <1>1, <1>3 DEF Goes, RoomStep, JobStep
<1>4. CASE LeaveStep(t)
  <2>1. UNCHANGED threads \/ \E x \in Account : Goes(t, Job("clone", None, NoRoom, x))
    BY <1>4, ConfigAssumption DEF LeaveStep, Leave, LeaveRefused
  <2> QED
    BY <2>1, <1>1, <1>4 DEF Goes, RoomStep, JobStep
<1>5. CASE Checks(t)
  <2>1. \A e \in NamedEpochs : e \in Nat
    BY NamedEpochTyped, <1>1
  <2>2. PICK m \in Message : (CommitCheck(t, m) /\ Separate(m)) \/ EventCheck(t, m)
    <3>1. \A i \in Id, d \in Device, e \in Nat, x \in Deltas : Separate(CommitMessage(i, d, e, x))
      BY DEF Deltas, CommitMessage, Separate, Added
    <3> QED
      BY <1>5, <2>1, <3>1, MessagesTyped DEF Checks
  <2>3. CASE CommitCheck(t, m) /\ Separate(m)
    <3>1. Goes(t, Job("commit", m, NoRoom, None))
      BY <2>3 DEF CommitCheck
    <3> QED
      BY <3>1, <2>3, <1>1 DEF Goes, JobStep
  <2>4. CASE EventCheck(t, m)
    <3>1. Goes(t, Job("event", m, NoRoom, None))
      BY <2>4 DEF EventCheck
    <3> QED
      BY <3>1, <2>4, <1>1 DEF Goes, JobStep
  <2> QED
    BY <2>2, <2>3, <2>4
<1>6. CASE ReplayStep(t)
  <2> PICK i \in Seqs : CommitReplay(t, i)
    BY <1>6 DEF ReplayStep
  <2>1. Goes(t, Job("repair", log[i], NoRoom, i))
    BY DEF CommitReplay
  <2> QED
    BY <2>1, <1>1 DEF Goes, JobStep
<1>7. CASE ReportStep(t)
  <2>1. Goes(t, Job("report", None, room, None))
    BY <1>7 DEF ReportStep, Report
  <2> QED
    BY <2>1, <1>1, <1>7 DEF Goes, JobStep
<1>8. CASE CloneRooms(t)
  BY <1>8, <1>1 DEF CloneRooms, Goes, JobStep
<1>9. CASE SnapshotRooms(t)
  BY <1>9, <1>1 DEF SnapshotRooms, Goes, JobStep
<1>10. CASE AckStep(t)
  <2> PICK w \in claimed : AckWelcome(t, w)
    BY <1>10 DEF AckStep
  <2>1. Goes(t, Job("activate", None, NoRoom, w))
    BY DEF AckWelcome
  <2> QED
    BY <2>1, <1>1 DEF Goes, JobStep
<1>11. CASE PageStep(t)
  <2> PICK d \in Device : SyncPage(t, d)
    BY <1>11 DEF PageStep
  <2> DEFINE j == Job("sync", None, NoRoom, <<d, cursor[d] + 1, Least(cursor[d] + PageLimit, Len(log))>>)
  <2>1. Goes(t, j)
    BY DEF SyncPage
  <2> HIDE DEF j
  <2>2. threads'[t] = j /\ \A u \in Thread \ {t} : threads'[u] = threads[u]
    BY <2>1, <1>1 DEF Goes, JobStep
  <2> QED
    BY <2>2 DEF j, JobStep
<1> QED
  BY <1>2, <1>3, <1>4, <1>5, <1>6, <1>7, <1>8, <1>9, <1>10, <1>11 DEF ThreadStep, RoomStep

\* A step brings at most one message, and it is admissible.
LEMMA MessagesStep ==
    ASSUME TypeInv, [Next]_vars
    PROVE  \/ Messages' \subseteq Messages
           \/ \E m \in Message : /\ Messages' \subseteq Messages \cup {m}
                                 /\ \A x \in Messages : x.id = m.id => x = m
<1>1. threads = [u \in Thread |-> threads[u]] /\ Len(log) \in Nat /\ log \in Seq(Message)
  BY DEF TypeInv, JobsTyped, LogTyped
<1>2. None \notin Message
  BY AbsentAssumption
<1>4. CASE \E t \in Thread : CommitFresh(t) \/ EventFresh(t)
  <2> PICK t \in Thread : CommitFresh(t) \/ EventFresh(t)
    BY <1>4
  <2>1. /\ \A i \in 1..Len(log) : log'[i] = log[i]
        /\ log'[Len(log) + 1] = threads[t].message /\ Len(log') = Len(log) + 1
    BY Appended
  <2>2. Goes(t, Idle) /\ Idle.message = None
    BY DEF CommitFresh, EventFresh, Idle, Job
  <2>3. \A u \in Thread : threads'[u].message \in {threads[u].message, None}
    BY <2>2, <1>1 DEF Goes
  <2>4. \A i \in 1..Len(log') : log'[i] \in {log[k] : k \in 1..Len(log)} \cup {threads[t].message}
    BY <2>1, <1>1
  <2> QED
    BY <2>3, <2>4 DEF Messages
<1>5. CASE log' = log /\ \E t \in Thread : ThreadStep(t)
  <2> PICK t \in Thread : ThreadStep(t)
    BY <1>5
  <2>1. \A u \in Thread \ {t} : threads'[u] = threads[u]
    BY JobAfter
  <2>2. CASE threads'[t].message \in Messages \cup {None}
    BY <2>1, <2>2, <1>5 DEF Messages
  <2>3. CASE \E m \in Message : threads'[t].message = m /\ IdIsDigest(m)
    <3> PICK m \in Message : threads'[t].message = m /\ IdIsDigest(m)
      BY <2>3
    <3>1. Messages' \subseteq Messages \cup {m}
      BY <2>1, <1>5 DEF Messages
    <3>2. \A x \in Messages : x.id = m.id => x = m
      BY DEF IdIsDigest, Messages
    <3> QED
      BY <3>1, <3>2
  <2>4. \A i \in Commits : log[i] \in Messages
    <3>1. \A i \in Commits : i \in 1..Len(log) /\ log[i] \in Message
      BY <1>1 DEF Commits
    <3> QED
      BY <3>1, <1>2 DEF Messages
  <2>5. threads[t].message \in Messages \cup {None}
    BY DEF Messages
  <2>6. \/ threads'[t].message \in Messages \cup {None}
        \/ \E m \in Message : threads'[t].message = m /\ IdIsDigest(m)
    <3>1. \A m : CommitCheck(t, m) \/ EventCheck(t, m) => IdIsDigest(m)
      BY DEF CommitCheck, EventCheck
    <3>2. \A i : CommitReplay(t, i) => i \in Commits
      BY DEF CommitReplay
    <3>3. JobStep(t)
      BY JobAfter
    <3>4. CASE \E m \in Message : threads'[t] = Job("commit", m, NoRoom, None) /\ CommitCheck(t, m)
      BY <3>4, <3>1 DEF Job
    <3>5. CASE \E m \in Message : threads'[t] = Job("event", m, NoRoom, None) /\ EventCheck(t, m)
      BY <3>5, <3>1 DEF Job
    <3>6. CASE \E i \in Seqs : threads'[t] = Job("repair", log[i], NoRoom, i) /\ CommitReplay(t, i)
      BY <3>6, <3>2, <2>4 DEF Job
    <3>7. threads'[t] = Idle => threads'[t].message = None
      BY DEF Idle, Job
    <3>8. \A x \in Account \cup {None} :
            threads'[t] = Job("clone", None, NoRoom, x) => threads'[t].message = None
      BY DEF Job
    <3>9. \A y \in {"report", "snapshot"} :
            threads'[t] = Job(y, None, room, None) => threads'[t].message = None
      BY DEF Job
    <3>10. threads'[t] = Job("write", None, room, threads[t].target) => threads'[t].message = None
      BY DEF Job
    <3>11. \A w \in claimed :
            threads'[t] = Job("activate", None, NoRoom, w) => threads'[t].message = None
      BY DEF Job
    <3>12. \A d \in Device :
            threads'[t] = Job("sync", None, NoRoom,
                <<d, cursor[d] + 1, Least(cursor[d] + PageLimit, Len(log))>>)
                    => threads'[t].message = None
      BY DEF Job
    <3> QED
      BY <2>5, <3>3, <3>4, <3>5, <3>6, <3>7, <3>8, <3>9, <3>10, <3>11, <3>12 DEF JobStep
  <2> QED
    BY <2>2, <2>3, <2>6
<1>6. CASE log' = log /\ threads' = threads
  BY <1>6 DEF Messages
<1>7. CASE Crash
  <2>1. log' = log /\ \A t \in Thread : threads'[t].message = None
    BY <1>7 DEF Crash, disk, Idle, Job
  <2> QED
    BY <2>1 DEF Messages
<1> QED
  BY <1>4, <1>5, <1>6, <1>7, Frames DEF Changes

LEMMA DigestStep ==
    ASSUME TypeInv, DigestInv, [Next]_vars
    PROVE  DigestInv'
BY MessagesStep DEF DigestInv

\* What a step gives a thread to do.
NewJob(t) ==
    LET j == threads'[t] IN
    /\ j.pc = "commit" => j.message \in Message /\ CommitCheck(t, j.message) /\ Separate(j.message)
    /\ j.pc = "event" => j.message \in Message /\ EventCheck(t, j.message)
    /\ j.pc = "repair" => j.message = log[j.target] /\ CommitReplay(t, j.target)
    /\ j.pc = "report" => ReportStep(t)
    /\ j.pc = "clone" => RoomStep(t)
    /\ j.pc \in {"report", "write", "snapshot"} => j.snapshot = room
    /\ j.pc = "activate" => j.target \in claimed /\ AckWelcome(t, j.target)
    /\ j.pc = "sync" =>
        /\ j.target[1] \in Device /\ SyncPage(t, j.target[1])
        /\ j.target[2] = cursor[j.target[1]] + 1
        /\ j.target[3] = Least(cursor[j.target[1]] + PageLimit, Len(log))

LEMMA JobIsNew ==
    ASSUME TypeInv, NEW t \in Thread, JobStep(t), threads'[t] # threads[t]
    PROVE  NewJob(t)
<1>1. CASE threads'[t] = Idle
  BY <1>1 DEF Idle, Job, NewJob
<1>2. CASE RoomStep(t) /\ \E x \in Account \cup {None} : threads'[t] = Job("clone", None, NoRoom, x)
  BY <1>2 DEF Job, NewJob
<1>3. CASE \E m \in Message : /\ threads'[t] = Job("commit", m, NoRoom, None)
                              /\ CommitCheck(t, m) /\ Separate(m)
  BY <1>3 DEF Job, NewJob
<1>4. CASE \E m \in Message : threads'[t] = Job("event", m, NoRoom, None) /\ EventCheck(t, m)
  BY <1>4 DEF Job, NewJob
<1>5. CASE \E i \in Seqs : threads'[t] = Job("repair", log[i], NoRoom, i) /\ CommitReplay(t, i)
  BY <1>5 DEF Job, NewJob
<1>6. CASE threads'[t] = Job("report", None, room, None) /\ ReportStep(t)
  BY <1>6 DEF Job, NewJob
<1>7. CASE threads'[t] = Job("write", None, room, threads[t].target)
  BY <1>7 DEF Job, NewJob
<1>8. CASE threads'[t] = Job("snapshot", None, room, None)
  BY <1>8 DEF Job, NewJob
<1>9. CASE \E w \in claimed : threads'[t] = Job("activate", None, NoRoom, w) /\ AckWelcome(t, w)
  BY <1>9 DEF Job, NewJob
<1>10. CASE \E d \in Device :
                /\ threads'[t] = Job("sync", None, NoRoom,
                        <<d, cursor[d] + 1, Least(cursor[d] + PageLimit, Len(log))>>)
                /\ SyncPage(t, d)
  BY <1>10 DEF Job, NewJob
<1> QED
  BY <1>1, <1>2, <1>3, <1>4, <1>5, <1>6, <1>7, <1>8, <1>9, <1>10 DEF JobStep

\* Every thread keeps its job, loses it in a crash, or takes a step.
LEMMA JobsAfter ==
    ASSUME TypeInv, [Next]_vars, NEW u \in Thread
    PROVE  \/ threads'[u] = threads[u]
           \/ Crash /\ threads'[u] = Idle
           \/ ThreadStep(u) /\ NewJob(u)
<1>1. CASE threads' = threads
  BY <1>1
<1>2. CASE Crash
  BY <1>2 DEF Crash
<1>3. CASE \E t \in Thread : ThreadStep(t)
  <2> PICK t \in Thread : ThreadStep(t)
    BY <1>3
  <2>1. CASE u = t
    BY <2>1, JobAfter, JobIsNew
  <2>2. CASE u # t
    BY <2>2, JobAfter
  <2> QED
    BY <2>1, <2>2
<1> QED
  BY <1>1, <1>2, <1>3, Frames DEF Changes

\* The log, the Welcomes and the consumed packages, as the contract sees them.
GroupOf(l) == [i \in 1..Len(l) |->
                [id |-> l[i].id, epoch |-> IF l[i].commit THEN l[i].epoch ELSE None]]
Group == GroupOf(log)
Inbox == [d \in Device |-> {i \in Commits : d \in Added(log[i])}]
Consumed == {k \in Package : inventory[k] = "consumed"}

LEMMA GroupTyped ==
    ASSUME NEW l \in Seq(Message)
    PROVE  /\ GroupOf(l) \in Seq([id : Id, epoch : Nat \cup {None}])
           /\ Len(GroupOf(l)) = Len(l) /\ Len(l) \in Nat
<1>1. Len(l) \in Nat /\ \A i \in 1..Len(l) : l[i] \in Message
  OBVIOUS
<1>2. \A i \in 1..Len(l) : l[i].id \in Id /\ l[i].epoch \in Nat
  BY <1>1 DEF Message
<1> QED
  BY <1>1, <1>2 DEF GroupOf

\* What a Commit or an event appends is admissible, and appended as it is.
LEMMA GroupAppends ==
    ASSUME TypeInv, TypeInv', DigestInv, NEW t \in Thread, CommitFresh(t) \/ EventFresh(t),
           NEW e, e = IF CommitFresh(t) THEN threads[t].message.epoch ELSE None
    PROVE  LET m == threads[t].message IN
           /\ m.id \in Id
           /\ \A i \in 1..Len(Group) : Group[i].id # m.id
           /\ e # None => e \in Epochs /\ \A i \in 1..Len(Group) : Group[i].epoch # e
           /\ Len(Group) < MaxLog
           /\ Group' = Append(Group, [id |-> m.id, epoch |-> e])
<1> DEFINE m == threads[t].message
           n == Len(log)
<1>1. /\ m \in Message /\ n \in Nat /\ n < MaxLog /\ Len(log') = n + 1
      /\ \A i \in 1..n : log'[i] = log[i] /\ log[i] \in Message
      /\ log'[n + 1] = m /\ ~Recorded(m) /\ m.epoch <= n /\ (CommitFresh(t) <=> m.commit)
  BY Appended
<1>2. None \notin Message /\ None \notin Nat /\ MaxLog \in Nat
  BY AbsentAssumption, ConfigAssumption
<1>3. CommitFresh(t) => \A i \in Commits : log[i].epoch # m.epoch
  BY DEF CommitFresh, CommitAccepted, EpochAdmitted
<1>4. m \in Messages
  BY <1>1, <1>2 DEF Messages
<1>5. \A i \in 1..n : log[i] \in Messages /\ log[i] # m
  BY <1>1, <1>2 DEF Messages, Recorded
<1> HIDE DEF m
<1>6. m.id \in Id /\ m.epoch \in Nat
  BY <1>1 DEF Message
<1>7. \A i \in 1..n : log[i].id # m.id
  BY <1>4, <1>5 DEF DigestInv
<1>8. Group \in Seq([id : Id, epoch : Nat \cup {None}]) /\ Len(Group) = n
  BY GroupTyped DEF n, Group, TypeInv, LogTyped
<1>9. Group' \in Seq([id : Id, epoch : Nat \cup {None}]) /\ Len(Group') = n + 1
  <2>1. Group' \in Seq([id : Id, epoch : Nat \cup {None}]) /\ Len(Group') = Len(log')
    BY GroupTyped DEF Group, TypeInv, LogTyped
  <2> QED
    BY <2>1, <1>1
<1>10. \A i \in 1..n : Group[i].id = log[i].id
                       /\ Group[i].epoch = IF log[i].commit THEN log[i].epoch ELSE None
  BY DEF Group, GroupOf, n
<1>11. e # None => e \in Epochs /\ \A i \in 1..n : Group[i].epoch # e
  <2> SUFFICES ASSUME e # None PROVE e \in Epochs /\ \A i \in 1..n : Group[i].epoch # e
    OBVIOUS
  <2>1. CommitFresh(t) /\ e = m.epoch
    BY DEF m
  <2>2. e \in Epochs
    BY <2>1, <1>1, <1>2, <1>6 DEF Epochs
  <2>3. \A i \in 1..n : log[i].commit => i \in Commits
    BY DEF Commits, n
  <2> QED
    BY <2>1, <2>2, <2>3, <1>3, <1>10
<1>12. Group' = Append(Group, [id |-> m.id, epoch |-> e])
  <2> DEFINE x == [id |-> m.id, epoch |-> e]
  <2>1. e \in Nat \cup {None}
    BY <1>6 DEF m
  <2>2. /\ Append(Group, x) \in Seq([id : Id, epoch : Nat \cup {None}])
        /\ Len(Append(Group, x)) = n + 1
        /\ \A i \in 1..n : Append(Group, x)[i] = Group[i]
        /\ Append(Group, x)[n + 1] = x
    BY <1>1, <1>6, <1>8, <2>1
  <2>3. \A i \in 1..n : Group'[i] = Group[i]
    <3>1. \A i \in 1..(n + 1) :
            Group'[i] = [id |-> log'[i].id, epoch |-> IF log'[i].commit THEN log'[i].epoch ELSE None]
      BY <1>1 DEF Group, GroupOf
    <3>2. \A i \in 1..n :
            Group[i] = [id |-> log[i].id, epoch |-> IF log[i].commit THEN log[i].epoch ELSE None]
      BY DEF Group, GroupOf, n
    <3>3. \A i \in 1..n : i \in 1..(n + 1) /\ log'[i] = log[i]
      BY <1>1
    <3> HIDE DEF n
    <3> QED
      BY <3>1, <3>2, <3>3
  <2>4. Group'[n + 1] = x
    <3>1. Group'[n + 1] = [id |-> m.id, epoch |-> IF m.commit THEN m.epoch ELSE None]
      BY <1>1 DEF Group, GroupOf
    <3> QED
      BY <3>1, <1>1 DEF m
  <2>5. \A i \in 1..(n + 1) : Group'[i] = Append(Group, x)[i]
    BY <2>2, <2>3, <2>4, <1>1
  <2> HIDE DEF x
  <2>6. Group' = Append(Group, x)
    BY <2>2, <2>5, <1>9, <1>1
  <2> QED
    BY <2>6 DEF x
<1> QED
  BY <1>1, <1>6, <1>7, <1>8, <1>10, <1>11, <1>12 DEF m

LEMMA DeliveryStep ==
    ASSUME TypeInv, TypeInv', DigestInv, [Next]_vars
    PROVE  [Delivery!Next]_(Delivery!vars)
<1>1. \A k \in Package : inventory[k] = "consumed" => inventory'[k] = "consumed"
  BY ConsumedStays
<1> DEFINE used == Consumed' \ Consumed
<1>2. used \in SUBSET (Package \ Consumed) /\ Consumed' = Consumed \cup used
  BY <1>1 DEF Consumed
<1>3. CASE log' = log
  <2>1. Group' = Group /\ Inbox' = Inbox
    BY <1>3 DEF Group, GroupOf, Inbox, Commits
  <2>2. Delivery!Retire
    BY <2>1, <1>2 DEF Delivery!Retire, Group, GroupOf, Inbox, Consumed
  <2> QED
    BY <2>2 DEF Delivery!Next
<1>4. CASE \E t \in Thread : EventFresh(t)
  <2> PICK t \in Thread : EventFresh(t)
    BY <1>4
  <2> DEFINE m == threads[t].message
  <2>1. /\ \A i \in 1..Len(log) : log'[i] = log[i]
        /\ Commits' = Commits \cup (IF CommitFresh(t) THEN {Len(log) + 1} ELSE {})
        /\ (CommitFresh(t) <=> m.commit)
    BY Appended
  <2>2. ~CommitFresh(t)
    BY DEF CommitFresh, EventFresh, At
  <2>3. Inbox' = Inbox
    BY <2>1, <2>2 DEF Inbox, Commits
  <2>4. Consumed' = Consumed
    BY DEF Consumed, EventFresh
  <2>5. /\ m.id \in Id
        /\ \A i \in 1..Len(Group) : Group[i].id # m.id
        /\ Len(Group) < MaxLog
        /\ Group' = Append(Group, [id |-> m.id, epoch |-> None])
    BY <2>2, GroupAppends
  <2> HIDE DEF m
  <2> PICK i \in Id : i = m.id
    BY <2>5
  <2>6. Delivery!Publish(i)
    BY <2>3, <2>4, <2>5 DEF Delivery!Publish, Delivery!CheckAppend, Group, GroupOf, Inbox, Consumed
  <2> QED
    <3>1. \E x \in Id : Delivery!Publish(x)
      BY <2>6
    <3> QED
      BY <3>1 DEF Delivery!Next
<1>5. CASE \E t \in Thread : CommitFresh(t)
  <2> PICK t \in Thread : CommitFresh(t)
    BY <1>5
  <2> DEFINE m == threads[t].message
             e == m.epoch
  <2>1. /\ \A i \in 1..Len(log) : log'[i] = log[i]
        /\ log'[Len(log) + 1] = m /\ m \in Message
        /\ Commits' = Commits \cup {Len(log) + 1}
    BY Appended
  <2>2. e # None /\ e \in Nat
    BY <2>1, MessageEpoch, ConfigAssumption
  <2>3. /\ m.id \in Id
        /\ \A i \in 1..Len(Group) : Group[i].id # m.id
        /\ e \in Epochs /\ \A i \in 1..Len(Group) : Group[i].epoch # e
        /\ Len(Group) < MaxLog
        /\ Group' = Append(Group, [id |-> m.id, epoch |-> e])
    BY <2>2, GroupAppends
  <2>4. Len(Group) = Len(log) /\ Len(log) \in Nat
    BY GroupTyped DEF Group, TypeInv, LogTyped
  <2>5. Added(m) \in SUBSET Device
    BY <2>1, ConfigAssumption DEF Added, Message
  <2> HIDE DEF m, e
  <2>6. Inbox' = [d \in Device |->
            IF d \in Added(m) THEN Inbox[d] \cup {Len(Group) + 1} ELSE Inbox[d]]
    <3>1. \A i \in Commits : i \in 1..Len(log)
      BY DEF Commits
    <3>2. \A d \in Device : Inbox'[d] = {i \in Commits' : d \in Added(log'[i])}
      BY DEF Inbox, Added
    <3>3. \A d \in Device : Inbox[d] = {i \in Commits : d \in Added(log[i])}
      BY DEF Inbox
    <3>4. \A d \in Device : Inbox'[d] =
            IF d \in Added(m) THEN Inbox[d] \cup {Len(Group) + 1} ELSE Inbox[d]
      BY <3>1, <3>2, <3>3, <2>1, <2>4
    <3> QED
      BY <3>4 DEF Inbox
  <2> PICK i \in Id, f \in Epochs : i = m.id /\ f = e
    BY <2>3
  <2>7. Delivery!PublishCommit(i, f)
    BY <2>2, <2>3, <2>5, <2>6, <1>2
       DEF Delivery!PublishCommit, Delivery!CheckAppend, Group, GroupOf, Inbox, Consumed
  <2> QED
    <3>1. \E x \in Id : \E y \in Epochs : Delivery!PublishCommit(x, y)
      BY <2>7
    <3> QED
      BY <3>1 DEF Delivery!Next
<1> QED
  BY <1>3, <1>4, <1>5, Frames DEF Changes

\* The server implements the delivery contract: whatever its threads, retries and
\* restarts do, each step appends at most one entry, with an id and, for a Commit, an
\* epoch nobody has, together with its Welcomes and its KeyPackages.
THEOREM DeliveryImplemented == Spec => ImplementsDelivery
<1>1. Init => Delivery!Init
  <2> SUFFICES ASSUME Init PROVE Delivery!Init
    OBVIOUS
  <2>1. log = << >> /\ Commits = {}
    BY DEF Init, Commits
  <2>2. \A k \in Package : inventory[k] # "consumed"
    BY ConfigAssumption DEF Init
  <2> QED
    BY <2>1, <2>2 DEF Delivery!Init
<1>2. Init => DigestInv
  <2> SUFFICES ASSUME Init PROVE DigestInv
    OBVIOUS
  <2>1. log = << >> /\ \A t \in Thread : threads[t].message = None
    BY DEF Init, Idle, Job
  <2>2. Messages = {}
    BY <2>1 DEF Messages
  <2> QED
    BY <2>2 DEF DigestInv
<1>3. TypeInv /\ DigestInv /\ [Next]_vars => DigestInv'
  BY DigestStep
<1>4. TypeInv /\ TypeInv' /\ DigestInv /\ [Next]_vars => [Delivery!Next]_(Delivery!vars)
  BY DeliveryStep
<1> QED
  BY <1>1, <1>2, <1>3, <1>4, TypeCorrect, PTL DEF Spec, ImplementsDelivery, Delivery!Spec

(***************************************************************************)
(* Acknowledgements, as long as the database accepts its writes.  When an  *)
(* acknowledgement is marked in memory and its write fails, the repeated   *)
(* request skips the write and confirms what the disk does not have.       *)
(***************************************************************************)
DiskWrites == "disk" \notin Faults

DurableInv ==
    /\ acked \subseteq ackedDisk /\ activated \subseteq ackedDisk
    /\ \A t \in Thread : threads[t].pc = "activate" => threads[t].target \in ackedDisk

LEMMA AckedDiskGrows ==
    ASSUME [Next]_vars
    PROVE  ackedDisk \subseteq ackedDisk'
BY Frames DEF Changes, AckStep, AckWelcome

LEMMA DurableStep ==
    ASSUME TypeInv, DiskWrites, DurableInv, [Next]_vars
    PROVE  DurableInv'
<1>1. ackedDisk \subseteq ackedDisk'
  BY AckedDiskGrows
<1>2. acked' \subseteq ackedDisk'
  <2>1. CASE acked' = acked \/ Crash \/ BootReady
    BY <2>1, <1>1 DEF DurableInv, Crash, BootReady
  <2>2. CASE \E t \in Thread : AckStep(t)
    BY <2>2, <1>1 DEF DurableInv, AckStep, AckWelcome
  <2>3. CASE WelcomeStep
    BY <2>3, <1>1 DEF DurableInv, WelcomeStep, ClaimWelcome, AckWriteFails, DiskWrites
  <2> QED
    BY <2>1, <2>2, <2>3, Frames DEF Changes
<1>3. activated' \subseteq ackedDisk'
  BY <1>1, Frames DEF Changes, DurableInv, ActivateMembership, At
<1>4. ASSUME NEW t \in Thread, threads'[t].pc = "activate"
      PROVE  threads'[t].target \in ackedDisk'
  <2>1. CASE threads'[t] = threads[t]
    BY <2>1, <1>1, <1>4 DEF DurableInv
  <2>2. CASE threads'[t] = Idle
    BY <2>2, <1>4 DEF Idle, Job
  <2>3. CASE NewJob(t)
    BY <2>3, <1>4 DEF NewJob, AckWelcome, DurableInv
  <2> QED
    BY <2>1, <2>2, <2>3, JobsAfter
<1> QED
  BY <1>2, <1>3, <1>4 DEF DurableInv

\* A confirmed acknowledgement is in the database: it survives a restart.
THEOREM AcksAreDurable == Spec => [](DiskWrites => AckIsDurable)
<1>1. Init => DurableInv
  BY DEF Init, DurableInv, Idle, Job
<1>2. TypeInv /\ (DiskWrites => DurableInv) /\ [Next]_vars => (DiskWrites => DurableInv)'
  BY DurableStep DEF DiskWrites
<1>3. (DiskWrites => DurableInv) => (DiskWrites => AckIsDurable)
  BY DEF DurableInv, AckIsDurable
<1> QED
  BY <1>1, <1>2, <1>3, TypeCorrect, PTL DEF Spec

(***************************************************************************)
(* Senders.                                                                *)
(***************************************************************************)
\* The Welcomes the Commits of the log released.
Released == {w \in Device \X Nat : w[2] \in Commits /\ w[1] \in Added(log[w[2]])}

LEMMA CommitsGrow ==
    ASSUME TypeInv, [Next]_vars
    PROVE  /\ \A i \in 1..Len(log) : i \in 1..Len(log') /\ log'[i] = log[i]
           /\ Commits \subseteq Commits' /\ Released \subseteq Released'
<1>1. \A i \in 1..Len(log) : i \in 1..Len(log') /\ log'[i] = log[i]
  <2>1. CASE log' = log
    BY <2>1
  <2>2. CASE \E t \in Thread : CommitFresh(t) \/ EventFresh(t)
    <3> PICK t \in Thread : CommitFresh(t) \/ EventFresh(t)
      BY <2>2
    <3>1. /\ Len(log) \in Nat /\ Len(log') = Len(log) + 1
          /\ \A i \in 1..Len(log) : log'[i] = log[i]
      BY Appended
    <3> QED
      BY <3>1
  <2> QED
    BY <2>1, <2>2, Frames DEF Changes
<1>2. Commits \subseteq Commits'
  BY <1>1 DEF Commits
<1>3. Released \subseteq Released'
  BY <1>1, <1>2 DEF Released, Commits, Added
<1> QED
  BY <1>1, <1>2, <1>3

LEMMA ReleasedTyped ==
    ASSUME NEW d \in Device, NEW s \in Commits, d \in Added(log[s])
    PROVE  <<d, s>> \in Released
<1>1. s \in Nat
  BY DEF Commits
<1> QED
  BY <1>1 DEF Released

\* Every Welcome that is claimed was released.
ClaimInv == claimed \subseteq Released

LEMMA ClaimStep ==
    ASSUME TypeInv, ClaimInv, [Next]_vars
    PROVE  ClaimInv'
<1>1. Released \subseteq Released'
  BY CommitsGrow
<1>2. CASE claimed' = claimed
  BY <1>1, <1>2 DEF ClaimInv
<1>3. CASE \E d \in Device, s \in Seqs : ClaimWelcome(d, s)
  <2> PICK d \in Device, s \in Seqs : ClaimWelcome(d, s)
    BY <1>3
  <2>1. <<d, s>> \in Released
    BY ReleasedTyped DEF ClaimWelcome
  <2> QED
    BY <2>1, <1>1 DEF ClaimInv, ClaimWelcome
<1> QED
  BY <1>2, <1>3, Frames DEF Changes

\* Every interval of p began with the bootstrap or with a Welcome of R, and is active
\* only if that Welcome is in K.
Grounded(p, R, K) ==
    /\ p.complete
    /\ \A d \in Device : \A v \in p.intervals[d] :
        \/ v.start = 0 /\ d = Creator
        \/ <<d, v.start>> \in R /\ (v.active => <<d, v.start>> \in K)

\* Every interval of q comes from one of p, and is active if that one is or its
\* Welcome is in K.
ComesFrom(q, p, K) ==
    /\ q.complete = p.complete
    /\ \A d \in Device : \A v \in q.intervals[d] : \E u \in p.intervals[d] :
        v.start = u.start /\ (v.active = u.active \/ <<d, v.start>> \in K)

LEMMA GroundedGrows ==
    ASSUME NEW p, NEW R, NEW K, Grounded(p, R, K), NEW S, R \subseteq S, NEW L, K \subseteq L
    PROVE  Grounded(p, S, L)
BY DEF Grounded

LEMMA GroundedFrom ==
    ASSUME NEW p, NEW q, NEW R, NEW K, Grounded(p, R, K), ComesFrom(q, p, K)
    PROVE  Grounded(q, R, K)
<1> SUFFICES ASSUME NEW d \in Device, NEW v \in q.intervals[d]
             PROVE  \/ v.start = 0 /\ d = Creator
                    \/ <<d, v.start>> \in R /\ (v.active => <<d, v.start>> \in K)
  BY DEF Grounded, ComesFrom
<1>1. PICK u \in p.intervals[d] : v.start = u.start /\ (v.active = u.active \/ <<d, v.start>> \in K)
  BY DEF ComesFrom
<1>2. \/ u.start = 0 /\ d = Creator
      \/ <<d, u.start>> \in R /\ (u.active => <<d, u.start>> \in K)
  BY DEF Grounded
<1> QED
  BY <1>1, <1>2

LEMMA EndOpenFrom ==
    ASSUME NEW I \in SUBSET Interval, NEW s, NEW v \in EndOpen(I, s)
    PROVE  \E u \in I : v.start = u.start /\ v.active = u.active
<1>1. PICK u \in I : v = IF u.end = Open THEN [u EXCEPT !.end = s] ELSE u
  BY DEF EndOpen
<1> QED
  BY <1>1 DEF Interval

LEMMA ActivateFrom ==
    ASSUME NEW p \in Projection, NEW d \in Device, NEW s \in Nat, NEW K, <<d, s>> \in K
    PROVE  ComesFrom(Activate(p, d, s), p, K)
<1> DEFINE after == {IF v.start = s THEN [v EXCEPT !.active = TRUE] ELSE v : v \in p.intervals[d]}
<1>1. Activate(p, d, s) = [p EXCEPT !.intervals = [p.intervals EXCEPT ![d] = after]]
  BY DEF Activate, Projection
<1>2. \A v \in after : \E u \in p.intervals[d] :
        v.start = u.start /\ (v.active = u.active \/ <<d, v.start>> \in K)
  <2> SUFFICES ASSUME NEW v \in after
               PROVE  \E u \in p.intervals[d] :
                        v.start = u.start /\ (v.active = u.active \/ <<d, v.start>> \in K)
    OBVIOUS
  <2>1. PICK u \in p.intervals[d] : v = IF u.start = s THEN [u EXCEPT !.active = TRUE] ELSE u
    OBVIOUS
  <2>2. u \in Interval
    BY DEF Projection
  <2> QED
    BY <2>1, <2>2 DEF Interval
<1> HIDE DEF after
<1>3. /\ Activate(p, d, s).complete = p.complete
      /\ \A x \in Device : Activate(p, d, s).intervals[x] = IF x = d THEN after ELSE p.intervals[x]
  BY <1>1 DEF Projection
<1> QED
  BY <1>2, <1>3 DEF ComesFrom

LEMMA WelcomedFrom ==
    ASSUME NEW p \in Projection
    PROVE  ComesFrom(Welcomed(p), p, ackedDisk)
<1>1. /\ Welcomed(p).complete = p.complete
      /\ \A d \in Device : Welcomed(p).intervals[d] =
            {IF <<d, v.start>> \in ackedDisk THEN [v EXCEPT !.active = TRUE] ELSE v :
                v \in p.intervals[d]}
  BY DEF Welcomed, Projection
<1>2. ASSUME NEW d \in Device, NEW v \in Welcomed(p).intervals[d]
      PROVE  \E u \in p.intervals[d] :
                v.start = u.start /\ (v.active = u.active \/ <<d, v.start>> \in ackedDisk)
  <2>1. PICK u \in p.intervals[d] :
            v = IF <<d, u.start>> \in ackedDisk THEN [u EXCEPT !.active = TRUE] ELSE u
    BY <1>1, <1>2
  <2>2. u \in Interval
    BY DEF Projection
  <2> QED
    BY <2>1, <2>2 DEF Interval
<1> QED
  BY <1>1, <1>2 DEF ComesFrom

LEMMA DepartingFrom ==
    ASSUME NEW a, room \in Projection, NEW K
    PROVE  ComesFrom(Departing(a), room, K)
<1>1. /\ Departing(a).complete = room.complete
      /\ \A d \in Device : Departing(a).intervals[d] =
            IF AccountOf[d] = a THEN EndOpen(room.intervals[d], room.last) ELSE room.intervals[d]
  BY DEF Departing, Projection
<1>2. \A d \in Device : room.intervals[d] \in SUBSET Interval
  BY DEF Projection
<1> QED
  BY <1>1, <1>2, EndOpenFrom DEF ComesFrom

LEMMA DeltaGrounded ==
    ASSUME NEW p \in Projection, NEW m \in Message, NEW s \in Nat, NEW R, NEW K,
           Grounded(p, R, K), \A d \in Device \cap Added(m) : <<d, s>> \in R
    PROVE  Grounded(ApplyDelta(p, m, s), R, K)
<1> DEFINE q == ApplyDelta(p, m, s)
<1>1. Base(p, m) = p
  BY AbsentAssumption DEF Base
<1>2. /\ q.complete = p.complete
      /\ \A d \in Device : q.intervals[d] =
            (IF d \in m.removes THEN EndOpen(p.intervals[d], s) ELSE p.intervals[d])
                \cup (IF d \in Added(m)
                      THEN {[start |-> s, end |-> Open, active |-> FALSE]} ELSE {})
  BY <1>1, ApplyDeltaFields
<1> HIDE DEF q
<1> SUFFICES ASSUME NEW d \in Device, NEW v \in q.intervals[d]
             PROVE  \/ v.start = 0 /\ d = Creator
                    \/ <<d, v.start>> \in R /\ (v.active => <<d, v.start>> \in K)
  BY <1>2 DEF Grounded, q
<1>3. p.intervals[d] \in SUBSET Interval
  BY DEF Projection
<1>4. CASE \E u \in p.intervals[d] : v.start = u.start /\ v.active = u.active
  BY <1>4 DEF Grounded
<1>5. CASE d \in Added(m) /\ v = [start |-> s, end |-> Open, active |-> FALSE]
  BY <1>5
<1> QED
  BY <1>2, <1>3, <1>4, <1>5, EndOpenFrom

\* The room was bootstrapped before the instance begins: the server never has to
\* accept a Commit it has no projection to check against.
Bootstrapped == "bootstrap" \notin Handlers

\* The Welcomes that were released and are acknowledged.
Welcomes == Released \cap ackedDisk

\* d is the creator, or W holds its Welcome of a Commit before entry n.
WelcomedBefore(d, n, W) == d = Creator \/ \E w \in W : w[1] = d /\ w[2] < n

RoomsGrounded ==
    /\ up => room # NoRoom
    /\ room # NoRoom => Grounded(room, Released, ackedDisk)
    /\ checkpoint # NoRoom /\ Grounded(checkpoint, Released, ackedDisk)
    /\ \A t \in Thread :
        /\ threads[t].pc \in {"report", "write", "snapshot"} =>
            threads[t].snapshot # NoRoom /\ Grounded(threads[t].snapshot, Released, ackedDisk)
        /\ threads[t].pc = "repair" =>
            threads[t].target \in Commits /\ threads[t].message = log[threads[t].target]

SendersInv ==
    /\ \A i \in 1..Len(log) : WelcomedBefore(log[i].sender, i, Welcomes)
    /\ \A t \in Thread : threads[t].pc \in {"commit", "event"} =>
        WelcomedBefore(threads[t].message.sender, Len(log) + 1, Welcomes)

GroundInv == DurableInv /\ ClaimInv /\ RoomsGrounded

LEMMA RoomGroundedStep ==
    ASSUME TypeInv, GroundInv, Bootstrapped, NEW t \in Thread, RoomStep(t),
           Released \subseteq Released', ackedDisk \subseteq ackedDisk'
    PROVE  room' # NoRoom /\ Grounded(room', Released', ackedDisk')
<1> DEFINE j == threads[t]
           R == Released'
           K == ackedDisk'
<1>1. up
  BY DEF RoomStep, CommitFresh, EventFresh, RepairProjection, Bootstrap, LeaveStep, Leave,
         LeaveRefused, AdminStep, GrantAdmin, RevokeAdmin, MarkForRepair, ActivateMembership, At,
         Free
<1>2. room \in Projection /\ room # NoRoom /\ Grounded(room, R, K)
  BY <1>1, GroundedGrows DEF GroundInv, RoomsGrounded, TypeInv, RoomsTyped, KnownRoom
<1>3. NoRoom \notin Projection
  BY AbsentAssumption
<1>4. JobTyped(j, Len(log), claimed, room # NoRoom) /\ Len(log) \in Nat
  BY DEF TypeInv, JobsTyped, LogTyped
<1>5. ASSUME room' \in Projection, ComesFrom(room', room, K)
      PROVE  room' # NoRoom /\ Grounded(room', R, K)
  BY <1>2, <1>3, <1>5, GroundedFrom
<1>6. ASSUME NEW m \in Message, NEW s \in Nat, \A d \in Device \cap Added(m) : <<d, s>> \in R,
             room' = ApplyDelta(room, m, s)
      PROVE  room' # NoRoom /\ Grounded(room', R, K)
  BY <1>2, <1>3, <1>6, DeltaGrounded, ApplyDeltaTyped
<1>7. CASE CommitFresh(t)
  <2>1. /\ j.message \in Message /\ log'[Len(log) + 1] = j.message
        /\ Commits' = Commits \cup {Len(log) + 1}
    BY <1>7, Appended
  <2>2. room' = ApplyDelta(room, j.message, Len(log) + 1)
    BY <1>7 DEF CommitFresh
  <2>3. \A d \in Device \cap Added(j.message) : <<d, Len(log) + 1>> \in R
    BY <2>1, <1>4 DEF Released, Added
  <2>4. Len(log) + 1 \in Nat
    BY <1>4
  <2> HIDE DEF j, R, K
  <2> QED
    BY <2>1, <2>2, <2>3, <2>4, <1>6 DEF R, K
<1>8. CASE EventFresh(t)
  <2> DEFINE n == Len(log) + 1
  <2>1. n \in Nat /\ (room' = room \/ room' = [room EXCEPT !.last = n])
    BY <1>4, <1>8 DEF EventFresh
  <2> HIDE DEF n
  <2>2. room' \in Projection /\ room'.complete = room.complete /\ room'.intervals = room.intervals
    BY <2>1, <1>2 DEF Projection
  <2> QED
    BY <2>2, <1>2, <1>5 DEF ComesFrom
<1>9. CASE RepairProjection(t)
  <2>1. /\ j.pc = "repair" /\ room' = ApplyDelta(room, j.message, j.target)
    BY <1>9 DEF RepairProjection, At
  <2>2. j.message \in Message /\ j.target \in Nat /\ j.target \in Commits /\ j.message = log[j.target]
    BY <2>1, <1>4 DEF JobTyped, GroundInv, RoomsGrounded
  <2>3. \A d \in Device \cap Added(j.message) : <<d, j.target>> \in R
    BY <2>2, ReleasedTyped
  <2> HIDE DEF j, R, K
  <2> QED
    BY <2>1, <2>2, <2>3, <1>6 DEF R, K
<1>10. CASE Bootstrap(t)
  BY <1>10 DEF Bootstrap, Free, Bootstrapped
<1>11. CASE LeaveStep(t)
  <2> PICK d \in Device : Leave(t, d) \/ LeaveRefused(t, d)
    BY <1>11 DEF LeaveStep
  <2> DEFINE a == AccountOf[d]
             p == Departing(a)
  <2>1. p \in Projection /\ ComesFrom(p, room, K)
    BY <1>2, DepartingTyped, DepartingFrom
  <2>2. Grounded(p, R, K)
    BY <2>1, <1>2, GroundedFrom
  <2>3. CASE Leave(t, d)
    <3>1. room' = [p EXCEPT !.departed = @ \cup {a}, !.admins = @ \ {a}]
      BY <2>3 DEF Leave
    <3> HIDE DEF p, a
    <3>2. room'.complete = p.complete /\ room'.intervals = p.intervals
      BY <3>1, <2>1 DEF Projection
    <3> QED
      BY <3>2, <2>2, <1>3, <2>3, RoomStepTyped, <1>2, <1>4, LogStep DEF Grounded, Leave, disk
  <2>4. CASE LeaveRefused(t, d)
    <3> DEFINE after == [x \in Device |->
            IF AccountOf[x] = a
            THEN {IF v.end = room.last THEN [v EXCEPT !.end = Open] ELSE v : v \in p.intervals[x]}
            ELSE p.intervals[x]]
    <3>1. room' = [p EXCEPT !.intervals = after]
      <4>1. room' = [p EXCEPT !.intervals = [x \in Device |->
            IF AccountOf[x] = a
            THEN {IF v.end = room.last THEN [v EXCEPT !.end = Open] ELSE v : v \in @[x]}
            ELSE @[x]]]
        BY <2>4 DEF LeaveRefused
      <4> HIDE DEF p, a
      <4> QED
        BY <4>1, <2>1 DEF Projection
    <3>2. \A x \in Device : p.intervals[x] \in SUBSET Interval
      BY <2>1 DEF Projection
    <3>3. \A v \in Interval : /\ [v EXCEPT !.end = Open].start = v.start
                              /\ [v EXCEPT !.end = Open].active = v.active
      BY DEF Interval
    <3> HIDE DEF p, a
    <3>4. ASSUME NEW x \in Device, NEW v \in after[x]
          PROVE  \E u \in p.intervals[x] : v.start = u.start /\ v.active = u.active
      <4>1. CASE AccountOf[x] = a
        <5>1. PICK u \in p.intervals[x] : v = IF u.end = room.last THEN [u EXCEPT !.end = Open] ELSE u
          BY <3>4, <4>1
        <5>2. u \in Interval
          BY <3>2
        <5> QED
          BY <5>1, <5>2, <3>3
      <4>2. CASE AccountOf[x] # a
        BY <3>4, <4>2
      <4> QED
        BY <4>1, <4>2
    <3> HIDE DEF after
    <3>5. room'.complete = p.complete /\ room'.intervals = after
      BY <3>1, <2>1 DEF Projection
    <3>6. ComesFrom(room', p, K)
      BY <3>4, <3>5 DEF ComesFrom
    <3>7. Grounded(room', R, K)
      BY <3>6, <2>2, GroundedFrom
    <3> QED
      BY <3>7, <1>3, <1>2, <1>4, <2>4, RoomStepTyped DEF LeaveRefused, disk
  <2> QED
    BY <2>3, <2>4
<1>12. CASE AdminStep(t)
  <2> PICK d \in Device, a \in Account : GrantAdmin(t, d, a) \/ RevokeAdmin(t, d, a)
    BY <1>12 DEF AdminStep
  <2>1. \/ room' = [room EXCEPT !.admins = @ \cup {a}]
        \/ room' = [room EXCEPT !.admins = @ \ {a}]
    BY DEF GrantAdmin, RevokeAdmin
  <2> QED
    BY <2>1, <1>2, <1>5 DEF ComesFrom, Projection
<1>13. CASE MarkForRepair(t)
  <2> DEFINE p == j.snapshot
  <2>1. /\ p \in Projection /\ room' = [p EXCEPT !.status = "repair"] /\ j.pc = "report"
    BY <1>13, <1>4 DEF MarkForRepair, At, JobTyped, KnownRoom
  <2>2. Grounded(p, R, K)
    BY <2>1, GroundedGrows DEF GroundInv, RoomsGrounded
  <2> HIDE DEF p
  <2>3. room' \in Projection /\ room'.complete = p.complete /\ room'.intervals = p.intervals
    BY <2>1 DEF Projection
  <2> QED
    BY <2>2, <2>3, <1>3 DEF Grounded
<1>14. CASE ActivateMembership(t)
  <2> DEFINE w == j.target
  <2>1. /\ w \in ackedDisk /\ w \in claimed /\ w \in Device \X Nat
        /\ room' = Activate(room, w[1], w[2])
    BY <1>2, <1>14 DEF ActivateMembership, At, GroundInv, DurableInv, TypeInv, WelcomesTyped
  <2>2. w = <<w[1], w[2]>> /\ w[1] \in Device /\ w[2] \in Nat
    BY <2>1
  <2> HIDE DEF w
  <2>3. room' \in Projection /\ ComesFrom(room', room, K)
    BY <2>1, <2>2, <1>2, ActivateTyped, ActivateFrom
  <2> QED
    BY <2>3, <1>5
<1> QED
  BY <1>7, <1>8, <1>9, <1>10, <1>11, <1>12, <1>13, <1>14 DEF RoomStep

LEMMA ReadyGrounded ==
    ASSUME TypeInv, RoomsGrounded, BootReady
    PROVE  room' # NoRoom /\ Grounded(room', Released, ackedDisk)
<1>1. room # NoRoom /\ room \in Projection /\ room' = Welcomed(room)
  BY DEF RoomsGrounded, BootReady, TypeInv, RoomsTyped, KnownRoom
<1>2. Welcomed(room) \in Projection /\ ComesFrom(Welcomed(room), room, ackedDisk)
  BY <1>1, WelcomedTyped, WelcomedFrom
<1>3. Grounded(room, Released, ackedDisk)
  BY <1>1 DEF RoomsGrounded
<1> QED
  BY <1>1, <1>2, <1>3, GroundedFrom, AbsentAssumption

LEMMA BootGrounded ==
    ASSUME TypeInv, RoomsGrounded, Boot
    PROVE  room' # NoRoom => Grounded(room', Released, ackedDisk)
<1>1. CASE BootLoad
  BY <1>1 DEF BootLoad, RoomsGrounded
<1>2. CASE BootReplay
  <2> DEFINE i == room.last + 1
  <2>1. /\ room \in Projection /\ room # NoRoom /\ i \in 1..Len(log) /\ room' = ReplayEntry(room, i)
        /\ Grounded(room, Released, ackedDisk)
    BY <1>2 DEF BootReplay, RoomsGrounded, TypeInv, RoomsTyped, KnownRoom, Projection, LogTyped
  <2>2. log[i] \in Message /\ i \in Nat
    BY <2>1 DEF TypeInv, LogTyped
  <2> HIDE DEF i
  <2>3. CASE log[i].commit
    <3>1. room' = ApplyDelta(room, log[i], i) /\ i \in Commits
      BY <2>1, <2>3 DEF ReplayEntry, Commits
    <3>2. \A d \in Device \cap Added(log[i]) : <<d, i>> \in Released
      BY <3>1, ReleasedTyped
    <3> QED
      BY <2>1, <2>2, <3>1, <3>2, DeltaGrounded
  <2>4. CASE ~log[i].commit
    <3>1. room' = [room EXCEPT !.last = i]
      BY <2>1, <2>4 DEF ReplayEntry
    <3>2. room'.complete = room.complete /\ room'.intervals = room.intervals
      BY <2>1, <3>1 DEF Projection
    <3> QED
      BY <2>1, <3>2 DEF Grounded
  <2> QED
    BY <2>3, <2>4
<1>3. CASE BootReady
  BY <1>3, ReadyGrounded
<1> QED
  BY <1>1, <1>2, <1>3 DEF Boot

LEMMA GroundStep ==
    ASSUME TypeInv, GroundInv, DiskWrites, Bootstrapped, [Next]_vars
    PROVE  GroundInv'
<1>1. DurableInv' /\ ClaimInv'
  BY DurableStep, ClaimStep DEF GroundInv
<1>2. /\ Released \subseteq Released' /\ ackedDisk \subseteq ackedDisk' /\ Commits \subseteq Commits'
      /\ \A i \in 1..Len(log) : log'[i] = log[i]
  BY CommitsGrow, AckedDiskGrows
<1>3. Boot => log' = log /\ ackedDisk' = ackedDisk
  BY DEF Boot, BootLoad, BootReplay, BootReady, disk
<1>4. Boot => Released' = Released
  BY <1>3 DEF Released, Commits
<1>5. room' # NoRoom => Grounded(room', Released', ackedDisk')
  <2>1. CASE room' = room
    BY <2>1, <1>2, GroundedGrows DEF GroundInv, RoomsGrounded
  <2>2. CASE Crash
    BY <2>2 DEF Crash
  <2>3. CASE Boot
    BY <2>3, <1>3, <1>4, BootGrounded DEF GroundInv
  <2>4. CASE \E t \in Thread : RoomStep(t)
    BY <2>4, <1>2, RoomGroundedStep
  <2> QED
    BY <2>1, <2>2, <2>3, <2>4, Frames DEF Changes
<1>6. up' => room' # NoRoom
  <2>1. CASE BootReady
    BY <2>1, ReadyGrounded DEF GroundInv
  <2>2. CASE Crash
    BY <2>2 DEF Crash
  <2>3. CASE ~BootReady /\ ~Crash
    BY <2>3, RoomsStep, Frames DEF Changes, GroundInv, RoomsGrounded
  <2> QED
    BY <2>1, <2>2, <2>3
<1>7. checkpoint' # NoRoom /\ Grounded(checkpoint', Released', ackedDisk')
  <2>1. CASE checkpoint' = checkpoint
    BY <2>1, <1>2, GroundedGrows DEF GroundInv, RoomsGrounded
  <2>2. CASE BootReady
    <3>1. checkpoint' = room' /\ Boot
      BY <2>2 DEF BootReady, Boot
    <3> QED
      BY <2>2, <3>1, <1>3, <1>4, ReadyGrounded DEF GroundInv
  <2>3. CASE \E t \in Thread : SaveCheckpoint(t)
    <3> PICK t \in Thread : SaveCheckpoint(t)
      BY <2>3
    <3>1. checkpoint' = threads[t].snapshot /\ threads[t].pc \in {"write", "snapshot"}
      BY DEF SaveCheckpoint, At
    <3>2. checkpoint' # NoRoom /\ Grounded(checkpoint', Released, ackedDisk)
      BY <3>1 DEF GroundInv, RoomsGrounded
    <3> QED
      BY <3>2, <1>2, GroundedGrows
  <2> QED
    BY <2>1, <2>2, <2>3, Frames DEF Changes
<1>8. ASSUME NEW t \in Thread
      PROVE  /\ threads'[t].pc \in {"report", "write", "snapshot"} =>
                    threads'[t].snapshot # NoRoom
                    /\ Grounded(threads'[t].snapshot, Released', ackedDisk')
             /\ threads'[t].pc = "repair" =>
                    threads'[t].target \in Commits' /\ threads'[t].message = log'[threads'[t].target]
  <2>1. CASE threads'[t] = threads[t]
    <3>1. threads[t].pc = "repair" => threads[t].target \in 1..Len(log)
      BY DEF GroundInv, RoomsGrounded, Commits
    <3>2. threads[t].pc \in {"report", "write", "snapshot"} =>
                    threads[t].snapshot # NoRoom
                    /\ Grounded(threads[t].snapshot, Released', ackedDisk')
      BY <1>2, GroundedGrows DEF GroundInv, RoomsGrounded
    <3> QED
      BY <2>1, <3>1, <3>2, <1>2 DEF GroundInv, RoomsGrounded
  <2>2. CASE threads'[t] = Idle
    BY <2>2 DEF Idle, Job
  <2>3. CASE ThreadStep(t) /\ NewJob(t)
    <3>1. ASSUME threads'[t].pc \in {"report", "write", "snapshot"}
          PROVE  threads'[t].snapshot # NoRoom /\ Grounded(threads'[t].snapshot, Released', ackedDisk')
      <4>1. threads'[t].snapshot = room
        BY <2>3, <3>1 DEF NewJob
      <4>2. up
        BY <2>3, ThreadIsUp
      <4>3. room # NoRoom /\ Grounded(room, Released, ackedDisk)
        BY <4>2 DEF GroundInv, RoomsGrounded
      <4> QED
        BY <4>1, <4>3, <1>2, GroundedGrows
    <3>2. ASSUME threads'[t].pc = "repair"
          PROVE  threads'[t].target \in Commits' /\ threads'[t].message = log'[threads'[t].target]
      <4>1. threads'[t].message = log[threads'[t].target] /\ threads'[t].target \in Commits
        BY <2>3, <3>2 DEF NewJob, CommitReplay
      <4> QED
        BY <4>1, <1>2 DEF Commits
    <3> QED
      BY <3>1, <3>2
  <2> QED
    BY <2>1, <2>2, <2>3, JobsAfter
<1>9. RoomsGrounded'
  BY <1>5, <1>6, <1>7, <1>8 DEF RoomsGrounded
<1> QED
  BY <1>1, <1>9 DEF GroundInv

LEMMA GroundInit == Init /\ Bootstrapped => GroundInv
<1> SUFFICES ASSUME Init, Bootstrapped PROVE GroundInv
  OBVIOUS
<1> DEFINE p == InitialProjection(Creator, 0, 0, TRUE)
<1>1. p \in Projection
  BY InitialTyped, ConfigAssumption
<1>2. room = p /\ checkpoint = p /\ p # NoRoom
  BY <1>1, AbsentAssumption DEF Init, Bootstrapped
<1>3. Grounded(p, Released, ackedDisk)
  BY DEF Grounded, InitialProjection
<1> HIDE DEF p
<1>4. \A t \in Thread : threads[t].pc = "idle"
  BY DEF Init, Idle, Job
<1>5. RoomsGrounded
  BY <1>2, <1>3, <1>4 DEF RoomsGrounded
<1>6. DurableInv /\ ClaimInv
  BY <1>4 DEF DurableInv, ClaimInv, Init
<1> QED
  BY <1>5, <1>6 DEF GroundInv

\* The check of the sender.
LEMMA SenderChecked ==
    ASSUME TypeInv, GroundInv, NEW t \in Thread, NEW m \in Message,
           CommitCheck(t, m) \/ EventCheck(t, m)
    PROVE  WelcomedBefore(m.sender, Len(log) + 1, Welcomes)
<1> DEFINE d == m.sender
<1>1. d \in Device /\ Len(log) \in Nat
  BY DEF Message, TypeInv, LogTyped
<1>2. room # NoRoom /\ Grounded(room, Released, ackedDisk) /\ SenderAdmissible(room, d)
  BY DEF CommitCheck, EventCheck, Free, GroundInv, RoomsGrounded
<1>3. ActiveAtHead(room, d)
  BY <1>2 DEF SenderAdmissible, Grounded
<1>4. PICK v \in room.intervals[d] : v.active
  BY <1>3 DEF ActiveAtHead, OpenIntervals
<1>5. d = Creator \/ <<d, v.start>> \in Welcomes
  BY <1>1, <1>2, <1>4 DEF Grounded, Welcomes
<1>6. <<d, v.start>> \in Welcomes => v.start < Len(log) + 1
  BY <1>1 DEF Welcomes, Released, Commits
<1> QED
  BY <1>5, <1>6 DEF WelcomedBefore

LEMMA SendersStep ==
    ASSUME TypeInv, GroundInv, SendersInv, [Next]_vars
    PROVE  SendersInv'
<1>1. /\ Welcomes \subseteq Welcomes'
      /\ \A i \in 1..Len(log) : log'[i] = log[i]
      /\ Len(log) \in Nat /\ Len(log') \in Nat /\ Len(log) <= Len(log')
  BY CommitsGrow, AckedDiskGrows, LogStep DEF Welcomes
<1>2. ASSUME NEW d, NEW n \in Nat, NEW k \in Nat, n <= k, WelcomedBefore(d, n, Welcomes)
      PROVE  WelcomedBefore(d, k, Welcomes')
  BY <1>1, <1>2 DEF WelcomedBefore, Welcomes, Released, Commits
<1>3. \A i \in 1..Len(log') : WelcomedBefore(log'[i].sender, i, Welcomes')
  <2>1. ASSUME NEW i \in 1..Len(log) PROVE WelcomedBefore(log'[i].sender, i, Welcomes')
    BY <1>1, <1>2 DEF SendersInv
  <2>2. CASE log' = log
    BY <2>1, <2>2
  <2>3. CASE \E t \in Thread : CommitFresh(t) \/ EventFresh(t)
    <3> PICK t \in Thread : CommitFresh(t) \/ EventFresh(t)
      BY <2>3
    <3>1. log'[Len(log) + 1] = threads[t].message /\ Len(log') = Len(log) + 1
      BY Appended
    <3>2. WelcomedBefore(threads[t].message.sender, Len(log) + 1, Welcomes)
      BY DEF CommitFresh, EventFresh, At, SendersInv
    <3>3. WelcomedBefore(log'[Len(log) + 1].sender, Len(log) + 1, Welcomes')
      BY <3>1, <3>2, <1>1, <1>2
    <3> QED
      BY <2>1, <3>1, <3>3, <1>1
  <2> QED
    BY <2>2, <2>3, Frames DEF Changes
<1>4. ASSUME NEW t \in Thread, threads'[t].pc \in {"commit", "event"}
      PROVE  WelcomedBefore(threads'[t].message.sender, Len(log') + 1, Welcomes')
  <2>1. ASSUME WelcomedBefore(threads'[t].message.sender, Len(log) + 1, Welcomes)
        PROVE  WelcomedBefore(threads'[t].message.sender, Len(log') + 1, Welcomes')
    BY <2>1, <1>1, <1>2
  <2>2. CASE threads'[t] = threads[t]
    BY <1>4, <2>1, <2>2 DEF SendersInv
  <2>3. CASE threads'[t] = Idle
    BY <2>3, <1>4 DEF Idle, Job
  <2>4. CASE NewJob(t)
    BY <2>4, <1>4, <2>1, SenderChecked DEF NewJob
  <2> QED
    BY <2>2, <2>3, <2>4, JobsAfter
<1> QED
  BY <1>3, <1>4 DEF SendersInv

\* A Welcome in the log is that of a Commit.
LEMMA SendersKnown == SendersInv => SenderAcknowledged
<1> SUFFICES ASSUME SendersInv, NEW i \in 1..Len(log), log[i].sender # Creator
             PROVE  \E j \in Commits : j < i /\ log[i].sender \in Added(log[j])
                                            /\ <<log[i].sender, j>> \in ackedDisk
  BY DEF SenderAcknowledged
<1>1. PICK w \in Welcomes : w[1] = log[i].sender /\ w[2] < i
  BY DEF SendersInv, WelcomedBefore
<1>2. w = <<w[1], w[2]>> /\ w[2] \in Commits /\ w[1] \in Added(log[w[2]]) /\ w \in ackedDisk
  BY DEF Welcomes, Released
<1> QED
  BY <1>1, <1>2

LEMMA Ground == Spec => [](DiskWrites /\ Bootstrapped => GroundInv)
<1> DEFINE Inv == DiskWrites /\ Bootstrapped => GroundInv
<1>1. Init => Inv
  BY GroundInit
<1>2. TypeInv /\ Inv /\ [Next]_vars => Inv'
  BY GroundStep DEF DiskWrites, Bootstrapped
<1> HIDE DEF Inv
<1>3. Spec => []Inv
  BY <1>1, <1>2, TypeCorrect, PTL DEF Spec
<1> QED
  BY <1>3 DEF Inv

\* Nobody sends before it was added and has acknowledged its Welcome, in a room that
\* was bootstrapped on a server whose database accepts its writes.
THEOREM SendersAcknowledged == Spec => [](DiskWrites /\ Bootstrapped => SenderAcknowledged)
<1> DEFINE Inv == DiskWrites /\ Bootstrapped => SendersInv
           Rooms == DiskWrites /\ Bootstrapped => GroundInv
<1>1. Init => Inv
  BY DEF Init, SendersInv, Idle, Job
<1>2. TypeInv /\ Rooms /\ Inv /\ [Next]_vars => Inv'
  BY SendersStep DEF DiskWrites, Bootstrapped
<1>3. Inv => (DiskWrites /\ Bootstrapped => SenderAcknowledged)
  BY SendersKnown
<1>4. Spec => []Rooms
  BY Ground
<1> HIDE DEF Inv, Rooms
<1> QED
  BY <1>1, <1>2, <1>3, <1>4, TypeCorrect, PTL DEF Spec

(***************************************************************************)
(* The projection as the log tells it.  As long as no endpoint changes the *)
(* intervals behind the log's back, every projection, live, saved or about *)
(* to be saved, is the one a prefix of the log defines, so that replaying  *)
(* the rest never fails and ends where the live projection is.             *)
(***************************************************************************)
\* Epoch e is the one after the last Commit of the first n entries of log l.
EpochAt(l, n, e) ==
    /\ \A i \in 1..n : l[i].commit => l[i].epoch < e
    /\ e = 0 \/ \E i \in 1..n : l[i].commit /\ l[i].epoch = e - 1

\* I are the memberships of d in the first n entries of log l, one interval each, at
\* most one of them open.
Tells(l, n, d, I) ==
    /\ \A v \in I : /\ Began(l, n, d, v.start) /\ Ended(l, n, d, v.start, v.end)
                    /\ v.start = 0 => v.active
    /\ \A s \in 0..n : Began(l, n, d, s) => \E v \in I : v.start = s
    /\ \A u, v \in I : u.start = v.start \/ (u.end = Open /\ v.end = Open) => u = v

\* Projection p is the one the first p.last entries of log l define.
Follows(p, l) ==
    /\ p.status = "open" /\ p.complete
    /\ EpochAt(l, p.last, p.epoch)
    /\ \A d \in Device : Tells(l, p.last, d, p.intervals[d])

\* d is a member after the first n entries of log l.
InRoom(l, n, d) == \E s \in 0..n : Began(l, n, d, s) /\ Ended(l, n, d, s, Open)

LEMMA EpochIsOne ==
    ASSUME NEW l, NEW n \in Nat, \A i \in 1..n : l[i].epoch \in Nat, NEW e \in Nat, NEW f \in Nat,
           EpochAt(l, n, e), EpochAt(l, n, f)
    PROVE  e = f
BY DEF EpochAt

LEMMA EndIsOne ==
    ASSUME NEW l, NEW n \in Nat, NEW d, NEW s \in Nat, NEW e, NEW f,
           Ended(l, n, d, s, e), Ended(l, n, d, s, f)
    PROVE  e = f
BY DEF Ended, Open

LEMMA BeganTyped ==
    ASSUME NEW l, NEW n \in Nat, NEW d, NEW s, Began(l, n, d, s)
    PROVE  s \in 0..n
BY DEF Began

\* What the first n entries tell does not depend on the others.
LEMMA BeganPrefix ==
    ASSUME NEW l, NEW k, NEW n \in Nat, \A i \in 1..n : k[i] = l[i], NEW d, NEW s, NEW e
    PROVE  /\ Began(k, n, d, s) <=> Began(l, n, d, s)
           /\ Ended(k, n, d, s, e) <=> Ended(l, n, d, s, e)
BY DEF Began, Ended, Removes, Added

LEMMA FollowsPrefix ==
    ASSUME NEW p \in Projection, NEW l, NEW k, \A i \in 1..p.last : k[i] = l[i], Follows(p, l)
    PROVE  Follows(p, k)
<1>1. p.last \in Nat
  BY DEF Projection
<1>2. EpochAt(k, p.last, p.epoch)
  BY DEF Follows, EpochAt
<1>3. \A d \in Device : Tells(k, p.last, d, p.intervals[d])
  BY <1>1, BeganPrefix DEF Follows, Tells
<1> QED
  BY <1>2, <1>3 DEF Follows

LEMMA InRoomPrefix ==
    ASSUME NEW l, NEW k, NEW n \in Nat, \A i \in 1..n : k[i] = l[i], NEW d, InRoom(l, n, d)
    PROVE  InRoom(k, n, d)
BY BeganPrefix DEF InRoom

\* The next entry is an event: nothing begins and nothing ends.
LEMMA EventTells ==
    ASSUME NEW l, NEW n \in Nat, ~l[n + 1].commit, NEW d, NEW s \in Nat, NEW e
    PROVE  /\ Began(l, n + 1, d, s) <=> Began(l, n, d, s)
           /\ Ended(l, n + 1, d, s, e) <=> Ended(l, n, d, s, e)
BY DEF Began, Ended, Removes, Open

LEMMA InRoomEvent ==
    ASSUME NEW l, NEW n \in Nat, ~l[n + 1].commit, NEW d, InRoom(l, n, d)
    PROVE  InRoom(l, n + 1, d)
<1>1. PICK s \in 0..n : Began(l, n, d, s) /\ Ended(l, n, d, s, Open)
  BY DEF InRoom
<1>2. s \in 0..(n + 1)
  OBVIOUS
<1> QED
  BY <1>1, <1>2, EventTells DEF InRoom

LEMMA FollowsEvent ==
    ASSUME NEW p \in Projection, NEW l, Follows(p, l), ~l[p.last + 1].commit, NEW q,
           q = [p EXCEPT !.last = p.last + 1]
    PROVE  Follows(q, l)
<1> DEFINE n == p.last
<1>1. n \in Nat
  BY DEF Projection
<1>2. /\ q.last = n + 1 /\ q.epoch = p.epoch /\ q.status = p.status /\ q.complete = p.complete
      /\ q.intervals = p.intervals
  BY DEF Projection
<1>3. EpochAt(l, n, p.epoch) /\ \A d \in Device : Tells(l, n, d, p.intervals[d])
  BY DEF Follows
<1> HIDE DEF n
<1>4. ~l[n + 1].commit
  BY DEF n
<1>5. EpochAt(l, n + 1, p.epoch)
  BY <1>1, <1>3, <1>4 DEF EpochAt
<1>6. ASSUME NEW d \in Device PROVE Tells(l, n + 1, d, p.intervals[d])
  <2> DEFINE I == p.intervals[d]
  <2>1. Tells(l, n, d, I) /\ \A v \in I : v.start \in Nat
    BY <1>3 DEF Projection, Interval
  <2> HIDE DEF I
  <2>2. \A s \in 0..(n + 1) : Began(l, n + 1, d, s) => s \in 0..n /\ Began(l, n, d, s)
    <3> SUFFICES ASSUME NEW s \in 0..(n + 1), Began(l, n + 1, d, s)
                 PROVE  s \in 0..n /\ Began(l, n, d, s)
      OBVIOUS
    <3>1. s \in Nat
      BY <1>1
    <3>2. Began(l, n, d, s)
      BY <3>1, <1>1, <1>4, EventTells
    <3> QED
      BY <3>2, <1>1, BeganTyped
  <2> QED
    BY <1>1, <1>4, <2>1, <2>2, EventTells DEF Tells, I
<1> QED
  BY <1>2, <1>5, <1>6 DEF Follows

\* The next entry is a Commit.
LEMMA CommitBegan ==
    ASSUME NEW l, NEW n \in Nat, l[n + 1].commit, NEW d, NEW s \in Nat
    PROVE  Began(l, n + 1, d, s) <=> Began(l, n, d, s) \/ (s = n + 1 /\ d \in Added(l[n + 1]))
BY DEF Began

LEMMA CommitEnded ==
    ASSUME NEW l, NEW n \in Nat, l[n + 1].commit, NEW d, NEW s \in 0..n, NEW e \in Nat \cup {Open},
           Ended(l, n, d, s, e)
    PROVE  /\ e # Open \/ d \notin l[n + 1].removes => Ended(l, n + 1, d, s, e)
           /\ e = Open /\ d \in l[n + 1].removes => Ended(l, n + 1, d, s, n + 1)
BY DEF Ended, Removes, Open

\* The intervals of d after a Commit.
After(I, removed, added, s) ==
    (IF removed THEN EndOpen(I, s) ELSE I)
        \cup (IF added THEN {[start |-> s, end |-> Open, active |-> FALSE]} ELSE {})

LEMMA CommitTells ==
    ASSUME NEW l, NEW n \in Nat, l[n + 1].commit, NEW d, NEW I \in SUBSET Interval,
           Tells(l, n, d, I),
           d \in Added(l[n + 1]) => \A v \in I : v.end # Open
    PROVE  Tells(l, n + 1, d, After(I, d \in l[n + 1].removes, d \in Added(l[n + 1]), n + 1))
<1> DEFINE s == n + 1
           removed == d \in l[s].removes
           added == d \in Added(l[s])
           f == [v \in Interval |-> IF removed /\ v.end = Open THEN [v EXCEPT !.end = s] ELSE v]
           new == [start |-> s, end |-> Open, active |-> FALSE]
           J == After(I, removed, added, s)
<1>1. s \in Nat /\ s # Open /\ s > n /\ s # 0
  BY DEF Open
<1>2. \A v \in Interval : /\ f[v].start = v.start /\ f[v].active = v.active
                          /\ f[v].end = IF removed /\ v.end = Open THEN s ELSE v.end
  BY DEF Interval
<1>3. J = {f[v] : v \in I} \cup (IF added THEN {new} ELSE {})
  <2>1. removed => EndOpen(I, s) = {f[v] : v \in I}
    BY DEF EndOpen
  <2>2. ~removed => I = {f[v] : v \in I}
    OBVIOUS
  <2> QED
    BY <2>1, <2>2 DEF After
<1>4. \A v \in I : /\ v.start \in 0..n /\ v.end \in Nat \cup {Open}
                   /\ Began(l, n, d, v.start) /\ Ended(l, n, d, v.start, v.end)
                   /\ v.start = 0 => v.active
  BY BeganTyped DEF Tells, Interval
<1>5. \A u, v \in I : u.start = v.start \/ (u.end = Open /\ v.end = Open) => u = v
  BY DEF Tells
<1>6. added => \A v \in I : v.end # Open
  OBVIOUS
<1>7. new.start = s /\ new.end = Open
  OBVIOUS
<1> HIDE DEF f, J, new
<1>8. ASSUME NEW v \in I
      PROVE  /\ Began(l, s, d, f[v].start) /\ Ended(l, s, d, f[v].start, f[v].end)
             /\ f[v].start = 0 => f[v].active
  <2>1. Began(l, s, d, v.start)
    BY <1>4, CommitBegan
  <2>2. Ended(l, s, d, v.start, f[v].end)
    <3>1. v.start \in 0..n /\ v.end \in Nat \cup {Open} /\ Ended(l, n, d, v.start, v.end)
      BY <1>4
    <3>2. /\ v.end # Open \/ ~removed => Ended(l, s, d, v.start, v.end)
          /\ v.end = Open /\ removed => Ended(l, s, d, v.start, s)
      BY <3>1, CommitEnded
    <3> QED
      BY <3>2, <1>2
  <2> QED
    BY <2>1, <2>2, <1>2, <1>4
<1>9. added => Began(l, s, d, s) /\ Ended(l, s, d, s, Open)
  BY <1>1 DEF Began, Ended
<1>10. \A v \in J : /\ Began(l, s, d, v.start) /\ Ended(l, s, d, v.start, v.end)
                    /\ v.start = 0 => v.active
  BY <1>1, <1>3, <1>7, <1>8, <1>9
<1>11. ASSUME NEW x \in 0..s, Began(l, s, d, x) PROVE \E v \in J : v.start = x
  <2>1. CASE Began(l, n, d, x)
    <3>1. PICK v \in I : v.start = x
      BY <2>1, BeganTyped DEF Tells
    <3> QED
      BY <3>1, <1>2, <1>3
  <2>2. CASE x = s /\ added
    BY <2>2, <1>3, <1>7
  <2> QED
    BY <1>11, <2>1, <2>2, CommitBegan
<1>12. ASSUME NEW u \in J, NEW v \in J, u.start = v.start \/ (u.end = Open /\ v.end = Open)
       PROVE  u = v
  <2>1. CASE \E x, y \in I : u = f[x] /\ v = f[y]
    <3> PICK x \in I, y \in I : u = f[x] /\ v = f[y]
      BY <2>1
    <3>1. x.start = y.start \/ (x.end = Open /\ y.end = Open)
      BY <1>1, <1>2, <1>12
    <3> QED
      BY <3>1, <1>5
  <2>2. \A x \in I : added => f[x].start # s /\ f[x].end # Open
    BY <1>1, <1>2, <1>4, <1>6
  <2> QED
    BY <2>1, <2>2, <1>3, <1>7, <1>12
<1> QED
  BY <1>10, <1>11, <1>12 DEF Tells, J

LEMMA FollowsDelta ==
    ASSUME NEW p \in Projection, NEW l, Follows(p, l), \A i \in 1..p.last : l[i].epoch \in Nat,
           NEW m \in Message, m = l[p.last + 1], m.commit, DeltaApplies(p, m)
    PROVE  Follows(ApplyDelta(p, m, p.last + 1), l)
<1> DEFINE n == p.last
           q == ApplyDelta(p, m, n + 1)
<1>1. n \in Nat /\ p.epoch \in Nat /\ m.epoch \in Nat /\ \A d \in Device : p.intervals[d] \in SUBSET Interval
  BY DEF Projection, Message
<1>2. Base(p, m) = p
  BY AbsentAssumption DEF Base
<1>3. m.epoch = p.epoch /\ \A d \in Added(m) : OpenIntervals(p, d) = {}
  BY <1>2 DEF DeltaApplies, AddsAdmissible
<1>4. /\ q.epoch = m.epoch + 1 /\ q.last = n + 1 /\ q.status = p.status /\ q.complete = p.complete
      /\ \A d \in Device :
            q.intervals[d] = After(p.intervals[d], d \in m.removes, d \in Added(m), n + 1)
  BY <1>1, <1>2, ApplyDeltaFields DEF After
<1>5. m = l[n + 1]
  OBVIOUS
<1>6. EpochAt(l, n, p.epoch) /\ \A d \in Device : Tells(l, n, d, p.intervals[d])
  BY DEF Follows
<1>9. \A i \in 1..n : l[i].epoch \in Nat
  OBVIOUS
<1> HIDE DEF q, n
<1>7. EpochAt(l, n + 1, q.epoch)
  <2>1. \A i \in 1..(n + 1) : l[i].commit => l[i].epoch < q.epoch
    <3> SUFFICES ASSUME NEW i \in 1..(n + 1), l[i].commit PROVE l[i].epoch < q.epoch
      OBVIOUS
    <3>1. CASE i \in 1..n
      <4>1. l[i].epoch < p.epoch
        BY <3>1, <1>6 DEF EpochAt
      <4>2. q.epoch = p.epoch + 1
        BY <1>3, <1>4
      <4> QED
        BY <3>1, <4>1, <4>2, <1>1, <1>9
    <3>2. CASE i = n + 1
      BY <3>2, <1>1, <1>3, <1>4, <1>5
    <3> QED
      BY <3>1, <3>2, <1>1
  <2>2. n + 1 \in 1..(n + 1) /\ l[n + 1].commit /\ l[n + 1].epoch = q.epoch - 1
    BY <1>1, <1>4, <1>5
  <2> QED
    BY <2>1, <2>2 DEF EpochAt
<1>8. ASSUME NEW d \in Device PROVE Tells(l, n + 1, d, q.intervals[d])
  <2>1. d \in Added(m) => \A v \in p.intervals[d] : v.end # Open
    BY <1>3 DEF OpenIntervals
  <2> DEFINE I == p.intervals[d]
  <2>2. I \in SUBSET Interval /\ Tells(l, n, d, I) /\ l[n + 1].commit
    BY <1>1, <1>5, <1>6
  <2>3. q.intervals[d] = After(I, d \in l[n + 1].removes, d \in Added(l[n + 1]), n + 1)
    BY <1>4, <1>5
  <2>4. d \in Added(l[n + 1]) => \A v \in I : v.end # Open
    BY <2>1, <1>5
  <2> HIDE DEF I
  <2> QED
    BY <2>2, <2>3, <2>4, <1>1, CommitTells
<1> QED
  BY <1>4, <1>7, <1>8 DEF Follows, q, n

\* The intervals I, those that begin at an entry of S active.
Activated(I, S) == {IF v.start \in S THEN [v EXCEPT !.active = TRUE] ELSE v : v \in I}

LEMMA ActivatedTells ==
    ASSUME NEW l, NEW n \in Nat, NEW d, NEW I \in SUBSET Interval, NEW S, Tells(l, n, d, I)
    PROVE  Tells(l, n, d, Activated(I, S))
<1> DEFINE f == [v \in Interval |-> IF v.start \in S THEN [v EXCEPT !.active = TRUE] ELSE v]
           J == Activated(I, S)
<1>1. J = {f[v] : v \in I}
  BY DEF Activated
<1>2. \A v \in Interval : /\ f[v].start = v.start /\ f[v].end = v.end
                          /\ v.active => f[v].active
  BY DEF Interval
<1> HIDE DEF f, J
<1>3. \A v \in J : /\ Began(l, n, d, v.start) /\ Ended(l, n, d, v.start, v.end)
                   /\ v.start = 0 => v.active
  BY <1>1, <1>2 DEF Tells
<1>4. \A s \in 0..n : Began(l, n, d, s) => \E v \in J : v.start = s
  BY <1>1, <1>2 DEF Tells
<1>5. \A u, v \in J : u.start = v.start \/ (u.end = Open /\ v.end = Open) => u = v
  BY <1>1, <1>2 DEF Tells
<1> QED
  BY <1>3, <1>4, <1>5 DEF Tells, J

LEMMA ActivateFields ==
    ASSUME NEW p \in Projection, NEW d \in Device, NEW s \in Nat
    PROVE  /\ Activate(p, d, s).epoch = p.epoch /\ Activate(p, d, s).last = p.last
           /\ Activate(p, d, s).status = p.status /\ Activate(p, d, s).complete = p.complete
           /\ Activate(p, d, s).admins = p.admins /\ Activate(p, d, s).departed = p.departed
           /\ \A x \in Device : Activate(p, d, s).intervals[x] =
                IF x = d THEN Activated(p.intervals[d], {s}) ELSE p.intervals[x]
<1> DEFINE after == Activated(p.intervals[d], {s})
<1>1. Activate(p, d, s) = [p EXCEPT !.intervals = [p.intervals EXCEPT ![d] = after]]
  BY DEF Activate, Activated, Projection
<1> HIDE DEF after
<1> QED
  BY <1>1 DEF Projection, after

LEMMA WelcomedFields ==
    ASSUME NEW p \in Projection, NEW q, q = Welcomed(p)
    PROVE  /\ q.epoch = p.epoch /\ q.last = p.last /\ q.status = p.status /\ q.complete = p.complete
           /\ q.admins = p.admins /\ q.departed = p.departed
           /\ \A x \in Device : q.intervals[x] =
                Activated(p.intervals[x], {s \in Nat : <<x, s>> \in ackedDisk})
<1> DEFINE after == [x \in Device |->
        {IF <<x, v.start>> \in ackedDisk THEN [v EXCEPT !.active = TRUE] ELSE v :
            v \in p.intervals[x]}]
<1>1. q = [p EXCEPT !.intervals = after]
  BY DEF Welcomed, Projection
<1>2. ASSUME NEW x \in Device
      PROVE  after[x] = Activated(p.intervals[x], {s \in Nat : <<x, s>> \in ackedDisk})
  <2>1. \A v \in p.intervals[x] : v.start \in Nat
    BY DEF Projection, Interval
  <2> QED
    BY <2>1 DEF Activated
<1> HIDE DEF after
<1> QED
  BY <1>1, <1>2 DEF Projection

LEMMA FollowsActivate ==
    ASSUME NEW p \in Projection, NEW l, Follows(p, l), NEW d \in Device, NEW s \in Nat, NEW q,
           q = Activate(p, d, s)
    PROVE  Follows(q, l)
<1>1. p.last \in Nat /\ \A x \in Device : p.intervals[x] \in SUBSET Interval
  BY DEF Projection
<1>2. /\ q.epoch = p.epoch /\ q.last = p.last /\ q.status = p.status /\ q.complete = p.complete
      /\ \A x \in Device : \/ q.intervals[x] = Activated(p.intervals[x], {s})
                          \/ q.intervals[x] = p.intervals[x]
  <2>1. /\ q.epoch = p.epoch /\ q.last = p.last /\ q.status = p.status
        /\ q.complete = p.complete
    BY ActivateFields
  <2>2. \A x \in Device : Activate(p, d, s).intervals[x] =
                IF x = d THEN Activated(p.intervals[d], {s}) ELSE p.intervals[x]
    BY ActivateFields
  <2> QED
    BY <2>1, <2>2
<1>3. ASSUME NEW x \in Device PROVE Tells(l, q.last, x, q.intervals[x])
  <2>1. Tells(l, q.last, x, p.intervals[x])
    BY <1>2 DEF Follows
  <2> QED
    BY <2>1, <1>1, <1>2, ActivatedTells
<1> QED
  BY <1>2, <1>3 DEF Follows

LEMMA FollowsWelcomed ==
    ASSUME NEW p \in Projection, NEW l, Follows(p, l), NEW q, q = Welcomed(p)
    PROVE  Follows(q, l)
<1>1. p.last \in Nat /\ \A x \in Device : p.intervals[x] \in SUBSET Interval
  BY DEF Projection
<1>2. /\ q.epoch = p.epoch /\ q.last = p.last /\ q.status = p.status /\ q.complete = p.complete
      /\ \A x \in Device : q.intervals[x] =
            Activated(p.intervals[x], {s \in Nat : <<x, s>> \in ackedDisk})
  BY WelcomedFields
<1>3. ASSUME NEW x \in Device PROVE Tells(l, q.last, x, q.intervals[x])
  <2>1. Tells(l, q.last, x, p.intervals[x])
    BY <1>2 DEF Follows
  <2> DEFINE S == {s \in Nat : <<x, s>> \in ackedDisk}
             I == p.intervals[x]
  <2>2. I \in SUBSET Interval /\ q.last \in Nat /\ q.intervals[x] = Activated(I, S)
    BY <1>1, <1>2
  <2> HIDE DEF S
  <2> QED
    BY <2>1, <2>2, ActivatedTells
<1> QED
  BY <1>2, <1>3 DEF Follows

LEMMA InitialFollows ==
    ASSUME NEW l
    PROVE  Follows(InitialProjection(Creator, 0, 0, TRUE), l)
<1> DEFINE p == InitialProjection(Creator, 0, 0, TRUE)
           v == [start |-> 0, end |-> Open, active |-> TRUE]
<1>1. /\ p.status = "open" /\ p.complete /\ p.epoch = 0 /\ p.last = 0
      /\ \A d \in Device : p.intervals[d] = IF d = Creator THEN {v} ELSE {}
  BY DEF InitialProjection
<1> HIDE DEF p
<1>2. EpochAt(l, 0, 0)
  BY DEF EpochAt
<1>3. ASSUME NEW d \in Device PROVE Tells(l, 0, d, p.intervals[d])
  <2> DEFINE I == p.intervals[d]
  <2>1. I = IF d = Creator THEN {v} ELSE {}
    BY <1>1
  <2>2. v.start = 0 /\ v.end = Open /\ v.active
    OBVIOUS
  <2> HIDE DEF v, I
  <2>3. \A s : Began(l, 0, d, s) <=> s = 0 /\ d = Creator
    BY DEF Began
  <2>4. Ended(l, 0, d, 0, Open)
    BY DEF Ended
  <2> QED
    BY <2>1, <2>2, <2>3, <2>4 DEF Tells, I
<1> QED
  BY <1>1, <1>2, <1>3 DEF Follows, p

\* An open interval is a member of the log.
LEMMA OpenIsMember ==
    ASSUME NEW p \in Projection, NEW l, Follows(p, l), NEW d \in Device
    PROVE  OpenIntervals(p, d) # {} <=> InRoom(l, p.last, d)
<1>1. p.last \in Nat /\ Tells(l, p.last, d, p.intervals[d])
  BY DEF Projection, Follows
<1>2. ASSUME NEW v \in p.intervals[d], v.end = Open PROVE InRoom(l, p.last, d)
  <2>1. Began(l, p.last, d, v.start) /\ Ended(l, p.last, d, v.start, Open)
    BY <1>1, <1>2 DEF Tells
  <2> QED
    BY <2>1, <1>1, BeganTyped DEF InRoom
<1>3. ASSUME InRoom(l, p.last, d) PROVE \E v \in p.intervals[d] : v.end = Open
  <2>1. PICK s \in 0..p.last : Began(l, p.last, d, s) /\ Ended(l, p.last, d, s, Open)
    BY <1>3 DEF InRoom
  <2>2. PICK v \in p.intervals[d] : v.start = s
    BY <1>1, <2>1 DEF Tells
  <2>3. Ended(l, p.last, d, s, v.end)
    BY <1>1, <2>2 DEF Tells
  <2> QED
    BY <1>1, <2>1, <2>2, <2>3, EndIsOne
<1> QED
  BY <1>2, <1>3 DEF OpenIntervals

\* A delta applies to every projection that follows the same entries, or to none.
LEMMA AppliesToAll ==
    ASSUME NEW p \in Projection, NEW q \in Projection, NEW l, Follows(p, l), Follows(q, l),
           p.last = q.last, \A i \in 1..p.last : l[i].epoch \in Nat, NEW m \in Message,
           DeltaApplies(p, m)
    PROVE  DeltaApplies(q, m)
<1>1. Base(p, m) = p /\ Base(q, m) = q
  BY AbsentAssumption DEF Base
<1>2. p.last \in Nat /\ p.epoch \in Nat /\ q.epoch \in Nat
  BY DEF Projection
<1>3. p.epoch = q.epoch
  BY <1>2, EpochIsOne DEF Follows
<1>4. \A d \in Device : OpenIntervals(p, d) = {} <=> OpenIntervals(q, d) = {}
  BY OpenIsMember
<1>5. \A a \in Account : CurrentDevices(p, a) = CurrentDevices(q, a)
  BY <1>4 DEF CurrentDevices
<1>6. \A d \in Added(m) : OpenIntervals(q, d) = {}
  <2> SUFFICES ASSUME NEW d \in Added(m) PROVE OpenIntervals(q, d) = {}
    OBVIOUS
  <2>1. OpenIntervals(p, d) = {}
    BY <1>1 DEF DeltaApplies, AddsAdmissible
  <2>2. d \in Device
    BY ConfigAssumption DEF Added, Message
  <2> QED
    BY <2>1, <2>2, <1>4
<1> QED
  BY <1>1, <1>3, <1>5, <1>6 DEF DeltaApplies, AddsAdmissible

\* The endpoints that change intervals or replace the projection on their own (a
\* bootstrap of a room that has a log, a leave, a repair report) are not used.
LogKept == Handlers \cap {"bootstrap", "leave", "report"} = {}

\* Every Commit of log l came from a member, and applies to whatever follows the
\* entries before it.
Replays(l) ==
    \A j \in 1..Len(l) : l[j].commit =>
        /\ Separate(l[j]) /\ InRoom(l, j - 1, l[j].sender)
        /\ \A p \in Projection : Follows(p, l) /\ p.last = j - 1 => DeltaApplies(p, l[j])

RoomsFollow ==
    /\ up => room # NoRoom /\ room.last = Len(log)
    /\ room # NoRoom => Follows(room, log)
    /\ checkpoint # NoRoom /\ Follows(checkpoint, log)
    /\ \A t \in Thread :
        /\ threads[t].pc \notin {"repair", "report"}
        /\ threads[t].pc \in {"write", "snapshot"} =>
            threads[t].snapshot # NoRoom /\ Follows(threads[t].snapshot, log)

\* What was checked of a Commit holds as long as the epoch has not moved.
CommitsChecked ==
    \A t \in Thread : threads[t].pc = "commit" =>
        LET m == threads[t].message IN
        /\ Separate(m) /\ m.epoch <= room.epoch
        /\ m.epoch = room.epoch => InRoom(log, Len(log), m.sender)

KeptInv == Replays(log) /\ RoomsFollow /\ CommitsChecked

LEMMA EpochsTyped ==
    ASSUME NEW l \in Seq(Message), NEW n \in Nat, n <= Len(l)
    PROVE  \A i \in 1..n : l[i] \in Message /\ l[i].epoch \in Nat
<1> SUFFICES ASSUME NEW i \in 1..n PROVE l[i] \in Message
  BY MessageEpoch
<1>1. i \in 1..Len(l)
  OBVIOUS
<1> QED
  BY <1>1

LEMMA KeptRoomStep ==
    ASSUME TypeInv, KeptInv, LogKept, NEW t \in Thread, RoomStep(t)
    PROVE  /\ room' \in Projection /\ room' # NoRoom /\ room'.last = Len(log')
           /\ Follows(room', log')
           /\ room.epoch <= room'.epoch
           /\ CommitFresh(t) => room.epoch < room'.epoch
<1> DEFINE n == Len(log)
           m == threads[t].message
<1>1. up
  BY DEF RoomStep, CommitFresh, EventFresh, RepairProjection, Bootstrap, LeaveStep, Leave,
         LeaveRefused, AdminStep, GrantAdmin, RevokeAdmin, MarkForRepair, ActivateMembership, At,
         Free
<1>2. /\ room \in Projection /\ room # NoRoom /\ room.last = n /\ Follows(room, log)
      /\ n \in Nat /\ room.epoch \in Nat /\ log \in Seq(Message)
  BY <1>1 DEF KeptInv, RoomsFollow, TypeInv, RoomsTyped, KnownRoom, Projection, LogTyped
<1>3. NoRoom \notin Projection
  BY AbsentAssumption
<1>4. CASE CommitFresh(t)
  <2>1. /\ m \in Message /\ log'[n + 1] = m /\ Len(log') = n + 1 /\ m.commit
        /\ \A i \in 1..n : log'[i] = log[i] /\ log[i] \in Message
    BY <1>4, Appended
  <2>2. DeltaApplies(room, m) /\ room' = ApplyDelta(room, m, n + 1)
    BY <1>4 DEF CommitFresh, CommitAccepted
  <2>3. \A i \in 1..n : log'[i].epoch \in Nat
    BY <2>1, MessageEpoch
  <2>4. m.epoch = room.epoch
    BY <2>2, <1>2 DEF DeltaApplies, Base
  <2> HIDE DEF m, n
  <2>5. Follows(room, log')
    BY <1>2, <2>1, FollowsPrefix
  <2>6. Follows(room', log')
    BY <2>1, <2>2, <2>3, <2>5, <1>2, FollowsDelta
  <2>7. room'.last = n + 1 /\ room'.epoch = room.epoch + 1 /\ room' \in Projection
    <3> DEFINE s == n + 1
    <3>1. s \in Nat /\ room' = ApplyDelta(room, m, s)
      BY <1>2, <2>2
    <3> HIDE DEF s
    <3>2. room'.last = s /\ room'.epoch = m.epoch + 1
      BY <3>1, <2>1, <1>2, ApplyDeltaFields
    <3>3. room' \in Projection
      BY <3>1, <2>1, <1>2, ApplyDeltaTyped
    <3> QED
      BY <3>2, <3>3, <2>4 DEF s
  <2> QED
    BY <2>1, <2>6, <2>7, <1>2, <1>3
<1>5. CASE EventFresh(t)
  <2>1. /\ log'[n + 1] = m /\ Len(log') = n + 1 /\ ~m.commit
        /\ \A i \in 1..n : log'[i] = log[i]
    BY <1>5, Appended DEF EventFresh, At, TypeInv, JobsTyped, JobTyped
  <2>2. room' = [room EXCEPT !.last = n + 1]
    BY <1>2, <1>5 DEF EventFresh
  <2> HIDE DEF m, n
  <2>3. Follows(room, log')
    BY <1>2, <2>1, FollowsPrefix
  <2>4. Follows(room', log')
    BY <1>2, <2>1, <2>2, <2>3, FollowsEvent
  <2>5. room' \in Projection /\ room'.last = n + 1 /\ room'.epoch = room.epoch
    BY <1>2, <2>2 DEF Projection
  <2>6. ~CommitFresh(t)
    BY <1>5 DEF EventFresh, CommitFresh, At
  <2> QED
    BY <2>1, <2>4, <2>5, <2>6, <1>2, <1>3
<1>6. ASSUME log' = log, room' \in Projection, Follows(room', log), room'.last = room.last,
             room'.epoch = room.epoch, ~CommitFresh(t)
      PROVE  /\ room' \in Projection /\ room' # NoRoom /\ room'.last = Len(log')
             /\ Follows(room', log')
             /\ room.epoch <= room'.epoch
             /\ CommitFresh(t) => room.epoch < room'.epoch
  BY <1>2, <1>3, <1>6
<1>7. ASSUME log' = log PROVE ~CommitFresh(t)
  BY <1>7, <1>2, Appended
<1>8. CASE AdminStep(t)
  <2> PICK d \in Device, a \in Account : GrantAdmin(t, d, a) \/ RevokeAdmin(t, d, a)
    BY <1>8 DEF AdminStep
  <2>1. /\ log' = log
        /\ \/ room' = [room EXCEPT !.admins = @ \cup {a}]
           \/ room' = [room EXCEPT !.admins = @ \ {a}]
    BY DEF GrantAdmin, RevokeAdmin, disk
  <2>2. /\ room' \in Projection /\ room'.last = room.last /\ room'.epoch = room.epoch
        /\ room'.status = room.status /\ room'.complete = room.complete
        /\ room'.intervals = room.intervals
    BY <2>1, <1>2 DEF Projection
  <2>3. Follows(room', log)
    BY <2>2, <1>2 DEF Follows
  <2> QED
    BY <2>1, <2>2, <2>3, <1>6, <1>7
<1>9. CASE ActivateMembership(t)
  <2> DEFINE w == threads[t].target
  <2>1. log' = log /\ w \in Device \X Nat /\ room' = Activate(room, w[1], w[2])
    BY <1>2, <1>9 DEF ActivateMembership, At, TypeInv, WelcomesTyped, JobsTyped, JobTyped, disk
  <2>2. w[1] \in Device /\ w[2] \in Nat
    BY <2>1
  <2> HIDE DEF w
  <2>3. Follows(room', log)
    BY <2>1, <2>2, <1>2, FollowsActivate
  <2>4. room' \in Projection /\ room'.last = room.last /\ room'.epoch = room.epoch
    BY <2>1, <2>2, <1>2, ActivateTyped
  <2> QED
    BY <2>1, <2>3, <2>4, <1>6, <1>7
<1>10. ~RepairProjection(t) /\ ~MarkForRepair(t)
  BY DEF RepairProjection, MarkForRepair, At, KeptInv, RoomsFollow
<1>11. ~Bootstrap(t) /\ ~LeaveStep(t)
  BY DEF Bootstrap, LeaveStep, Leave, LeaveRefused, Free, LogKept
<1> QED
  BY <1>4, <1>5, <1>8, <1>9, <1>10, <1>11 DEF RoomStep

LEMMA KeptBootStep ==
    ASSUME TypeInv, KeptInv, Boot
    PROVE  /\ room' # NoRoom => Follows(room', log)
           /\ BootReady => room' # NoRoom /\ room'.last = Len(log)
<1>1. CASE BootLoad
  <2>1. ~BootReady
    BY <1>1 DEF BootLoad, BootReady, KeptInv, RoomsFollow
  <2> QED
    BY <1>1, <2>1 DEF BootLoad, KeptInv, RoomsFollow
<1>2. CASE BootReplay
  <2> DEFINE i == room.last + 1
  <2>1. /\ room \in Projection /\ room # NoRoom /\ i \in 1..Len(log) /\ room' = ReplayEntry(room, i)
        /\ Follows(room, log) /\ room.last \in Nat /\ room.last <= Len(log)
        /\ log \in Seq(Message) /\ Len(log) \in Nat
        /\ log[i].commit => DeltaApplies(room, log[i])
    BY <1>2 DEF BootReplay, KeptInv, RoomsFollow, TypeInv, RoomsTyped, KnownRoom, Projection, LogTyped
  <2>2. log[i] \in Message /\ \A k \in 1..room.last : log[k].epoch \in Nat
    BY <2>1, EpochsTyped
  <2>5. ~BootReady
    BY <1>2, <2>1 DEF BootReplay, BootReady, KeptInv, RoomsFollow
  <2>3. CASE log[i].commit
    <3>1. room' = ApplyDelta(room, log[i], room.last + 1) /\ DeltaApplies(room, log[i])
      BY <2>1, <2>3 DEF ReplayEntry
    <3>2. PICK m \in Message : m = log[room.last + 1] /\ m = log[i]
      BY <2>2
    <3> HIDE DEF i
    <3> QED
      BY <2>1, <2>2, <2>3, <2>5, <3>1, <3>2, FollowsDelta
  <2>4. CASE ~log[i].commit
    <3>1. room' = [room EXCEPT !.last = room.last + 1] /\ ~log[room.last + 1].commit
      BY <2>1, <2>4 DEF ReplayEntry
    <3> HIDE DEF i
    <3> QED
      BY <2>1, <2>5, <3>1, FollowsEvent
  <2> QED
    BY <2>3, <2>4
<1>3. CASE BootReady
  <2>1. room \in Projection /\ room # NoRoom /\ room.last = Len(log) /\ room' = Welcomed(room)
    BY <1>3 DEF BootReady, KeptInv, RoomsFollow, TypeInv, RoomsTyped, KnownRoom
  <2>2. Follows(room', log)
    BY <2>1, FollowsWelcomed DEF KeptInv, RoomsFollow
  <2>3. room' \in Projection /\ room'.last = room.last
    BY <2>1, WelcomedTyped
  <2> QED
    BY <2>1, <2>2, <2>3, AbsentAssumption
<1> QED
  BY <1>1, <1>2, <1>3 DEF Boot

LEMMA ReplaysStep ==
    ASSUME TypeInv, KeptInv, [Next]_vars
    PROVE  Replays(log')
<1> DEFINE n == Len(log)
<1>1. log \in Seq(Message) /\ n \in Nat /\ Replays(log)
  BY DEF TypeInv, LogTyped, KeptInv
<1>2. CASE log' = log
  BY <1>1, <1>2
<1>3. CASE \E t \in Thread : CommitFresh(t) \/ EventFresh(t)
  <2> PICK t \in Thread : CommitFresh(t) \/ EventFresh(t)
    BY <1>3
  <2> DEFINE m == threads[t].message
  <2>1. /\ m \in Message /\ log'[n + 1] = m /\ Len(log') = n + 1
        /\ CommitFresh(t) <=> m.commit
        /\ \A i \in 1..n : log'[i] = log[i] /\ log[i] \in Message
    BY Appended
  <2>2. ASSUME NEW k \in 0..n
        PROVE  /\ \A p \in Projection : p.last = k /\ Follows(p, log') => Follows(p, log)
               /\ \A d : InRoom(log, k, d) => InRoom(log', k, d)
    <3>1. k \in Nat /\ \A i \in 1..k : log[i] = log'[i]
      BY <1>1, <2>1
    <3> QED
      BY <3>1, FollowsPrefix, InRoomPrefix
  <2> SUFFICES ASSUME NEW j \in 1..Len(log'), log'[j].commit
               PROVE  /\ Separate(log'[j]) /\ InRoom(log', j - 1, log'[j].sender)
                      /\ \A p \in Projection :
                            Follows(p, log') /\ p.last = j - 1 => DeltaApplies(p, log'[j])
    BY DEF Replays
  <2>3. CASE j \in 1..n
    <3>1. log'[j] = log[j] /\ j - 1 \in 0..n
      BY <2>1, <2>3, <1>1
    <3>2. /\ Separate(log[j]) /\ InRoom(log, j - 1, log[j].sender)
          /\ \A p \in Projection : Follows(p, log) /\ p.last = j - 1 => DeltaApplies(p, log[j])
      BY <3>1, <2>3, <1>1 DEF Replays
    <3> QED
      BY <3>1, <3>2, <2>2
  <2>4. CASE j = n + 1
    <3>1. CommitFresh(t) /\ log'[j] = m /\ j - 1 = n /\ n \in 0..n
      BY <2>1, <2>4, <1>1
    <3>2. up /\ threads[t].pc = "commit" /\ DeltaApplies(room, m)
      BY <3>1 DEF CommitFresh, At, CommitAccepted
    <3>3. room \in Projection /\ room.last = n /\ Follows(room, log) /\ room # NoRoom
      BY <3>2 DEF KeptInv, RoomsFollow, TypeInv, RoomsTyped, KnownRoom
    <3>4. m.epoch = room.epoch
      BY <3>2, <3>3 DEF DeltaApplies, Base
    <3>5. Separate(m) /\ InRoom(log, n, m.sender)
      BY <3>2, <3>4 DEF KeptInv, CommitsChecked
    <3>6. \A i \in 1..n : log[i].epoch \in Nat
      BY <2>1, MessageEpoch
    <3> HIDE DEF m, n
    <3>7. \A p \in Projection : Follows(p, log') /\ p.last = n => DeltaApplies(p, m)
      <4> SUFFICES ASSUME NEW p \in Projection, Follows(p, log'), p.last = n
                   PROVE  DeltaApplies(p, m)
        OBVIOUS
      <4>1. Follows(p, log)
        BY <3>1, <2>2
      <4>2. \A i \in 1..room.last : log[i].epoch \in Nat
        BY <3>3, <3>6
      <4>3. m \in Message
        BY <2>1
      <4> QED
        BY <4>1, <4>2, <4>3, <3>2, <3>3, AppliesToAll
    <3> QED
      BY <3>1, <3>5, <3>7, <2>2
  <2> QED
    BY <2>1, <2>3, <2>4, <1>1
<1> QED
  BY <1>2, <1>3, Frames DEF Changes

LEMMA FollowsGrows ==
    ASSUME TypeInv, [Next]_vars, NEW p \in KnownRoom(Len(log)), Follows(p, log)
    PROVE  Follows(p, log')
<1>1. p \in Projection /\ p.last \in Nat /\ p.last <= Len(log) /\ Len(log) \in Nat
  BY DEF KnownRoom, Projection, TypeInv, LogTyped
<1>2. \A i \in 1..p.last : log'[i] = log[i]
  BY <1>1, CommitsGrow
<1> QED
  BY <1>1, <1>2, FollowsPrefix

LEMMA RoomsFollowStep ==
    ASSUME TypeInv, KeptInv, LogKept, [Next]_vars
    PROVE  RoomsFollow'
<1>1. /\ room \in KnownRoom(Len(log)) \cup {NoRoom} /\ checkpoint \in KnownRoom(Len(log)) \cup {NoRoom}
      /\ RoomsFollow
  BY DEF TypeInv, RoomsTyped, KeptInv
<1>2. Boot => log' = log
  BY DEF Boot, BootLoad, BootReplay, BootReady, disk
<1>3. log' # log => \E t \in Thread : RoomStep(t)
  BY Frames DEF Changes, RoomStep
<1>4. room' # NoRoom => Follows(room', log')
  <2>1. CASE room' = room
    BY <2>1, <1>1, FollowsGrows DEF RoomsFollow
  <2>2. CASE Crash
    BY <2>2 DEF Crash
  <2>3. CASE Boot
    BY <2>3, <1>2, KeptBootStep
  <2>4. CASE \E t \in Thread : RoomStep(t)
    BY <2>4, KeptRoomStep
  <2> QED
    BY <2>1, <2>2, <2>3, <2>4, Frames DEF Changes
<1>5. up' => room' # NoRoom /\ room'.last = Len(log')
  <2>1. CASE BootReady
    BY <2>1, <1>2, KeptBootStep DEF Boot
  <2>2. CASE Crash
    BY <2>2 DEF Crash
  <2>3. CASE \E t \in Thread : RoomStep(t)
    BY <2>3, KeptRoomStep
  <2>4. CASE BootLoad \/ BootReplay
    BY <2>4 DEF BootLoad, BootReplay
  <2>5. CASE room' = room /\ log' = log /\ up' = up
    BY <2>5, <1>1 DEF RoomsFollow
  <2> QED
    BY <2>1, <2>2, <2>3, <2>4, <2>5, <1>3, Frames DEF Changes, Boot
<1>6. checkpoint' # NoRoom /\ Follows(checkpoint', log')
  <2>1. CASE checkpoint' = checkpoint
    BY <2>1, <1>1, FollowsGrows DEF RoomsFollow
  <2>2. CASE BootReady
    <3>1. checkpoint' = room' /\ room' # NoRoom
      BY <2>2, KeptBootStep DEF BootReady, Boot
    <3> QED
      BY <3>1, <1>4
  <2>3. CASE \E t \in Thread : SaveCheckpoint(t)
    <3> PICK t \in Thread : SaveCheckpoint(t)
      BY <2>3
    <3> DEFINE p == threads[t].snapshot
    <3>1. /\ checkpoint' = p /\ threads[t].pc \in {"write", "snapshot"}
          /\ p \in KnownRoom(Len(log)) \cup {NoRoom}
      BY DEF SaveCheckpoint, At, TypeInv, JobsTyped, JobTyped
    <3>2. p # NoRoom /\ Follows(p, log)
      BY <3>1, <1>1 DEF RoomsFollow
    <3> HIDE DEF p
    <3>3. Follows(p, log')
      BY <3>1, <3>2, FollowsGrows
    <3> QED
      BY <3>1, <3>2, <3>3
  <2> QED
    BY <2>1, <2>2, <2>3, Frames DEF Changes
<1>7. ASSUME NEW t \in Thread
      PROVE  /\ threads'[t].pc \notin {"repair", "report"}
             /\ threads'[t].pc \in {"write", "snapshot"} =>
                    threads'[t].snapshot # NoRoom /\ Follows(threads'[t].snapshot, log')
  <2>1. CASE threads'[t] = threads[t]
    <3> DEFINE p == threads[t].snapshot
    <3>1. p \in KnownRoom(Len(log)) \cup {NoRoom}
      BY DEF TypeInv, JobsTyped, JobTyped
    <3>2. /\ threads[t].pc \notin {"repair", "report"}
          /\ threads[t].pc \in {"write", "snapshot"} => p # NoRoom /\ Follows(p, log)
      BY <1>1 DEF RoomsFollow
    <3> HIDE DEF p
    <3>3. p # NoRoom /\ Follows(p, log) => Follows(p, log')
      BY <3>1, FollowsGrows
    <3> QED
      BY <2>1, <3>2, <3>3 DEF p
  <2>2. CASE threads'[t] = Idle
    BY <2>2 DEF Idle, Job
  <2>3. CASE ThreadStep(t) /\ NewJob(t)
    <3>1. up /\ room # NoRoom /\ Follows(room, log) /\ room.last = Len(log)
      BY <2>3, <1>1, ThreadIsUp DEF RoomsFollow
    <3>2. threads'[t].pc # "report"
      BY <2>3 DEF NewJob, ReportStep, Report, Free, LogKept
    <3>3. ASSUME threads'[t].pc = "repair" PROVE FALSE
      <4> DEFINE i == threads'[t].target
      <4>1. i \in Commits /\ (room.epoch < log[i].epoch + 1 \/ room.last < i)
        BY <2>3, <3>1, <3>3 DEF NewJob, CommitReplay
      <4>2. log[i] \in Message /\ Len(log) \in Nat /\ i \in 1..Len(log) /\ log[i].commit
        BY <4>1 DEF Commits, TypeInv, LogTyped
      <4>3. log[i].epoch \in Nat /\ room.epoch \in Nat
        BY <4>2, <1>1, <3>1, MessageEpoch DEF KnownRoom, Projection
      <4>4. log[i].epoch < room.epoch
        BY <4>2, <3>1 DEF Follows, EpochAt
      <4> QED
        BY <4>1, <4>2, <4>3, <4>4, <3>1
    <3>4. threads'[t].pc \in {"write", "snapshot"} => threads'[t].snapshot = room
      BY <2>3 DEF NewJob
    <3>5. Follows(room, log')
      BY <3>1, <1>1, FollowsGrows
    <3> QED
      BY <3>1, <3>2, <3>3, <3>4, <3>5
  <2> QED
    BY <2>1, <2>2, <2>3, JobsAfter
<1> QED
  BY <1>4, <1>5, <1>6, <1>7 DEF RoomsFollow

LEMMA CommitsCheckedStep ==
    ASSUME TypeInv, KeptInv, LogKept, [Next]_vars
    PROVE  CommitsChecked'
<1> SUFFICES ASSUME NEW u \in Thread, threads'[u].pc = "commit"
             PROVE  /\ Separate(threads'[u].message) /\ threads'[u].message.epoch <= room'.epoch
                    /\ threads'[u].message.epoch = room'.epoch =>
                            InRoom(log', Len(log'), threads'[u].message.sender)
  BY DEF CommitsChecked
<1> DEFINE m == threads'[u].message
<1>1. CASE threads'[u] = threads[u]
  <2>1. up /\ m \in Message
    BY <1>1, AbsentAssumption DEF TypeInv, JobsTyped, JobTyped
  <2>2. Separate(m) /\ m.epoch <= room.epoch /\ (m.epoch = room.epoch => InRoom(log, Len(log), m.sender))
    BY <1>1 DEF KeptInv, CommitsChecked
  <2>3. m.epoch \in Nat /\ room \in Projection /\ room.epoch \in Nat /\ Len(log) \in Nat
    BY <2>1, MessageEpoch DEF KeptInv, RoomsFollow, TypeInv, RoomsTyped, KnownRoom, Projection, LogTyped
  <2>4. ~Crash /\ ~Boot
    BY <2>1 DEF Crash, Boot, BootLoad, BootReplay, BootReady, Idle, Job
  <2>5. CASE \E t \in Thread : RoomStep(t)
    <3> PICK t \in Thread : RoomStep(t)
      BY <2>5
    <3>1. /\ room' \in Projection /\ room.epoch <= room'.epoch
          /\ CommitFresh(t) => room.epoch < room'.epoch
      BY KeptRoomStep
    <3>2. room'.epoch \in Nat
      BY <3>1 DEF Projection
    <3>3. CASE CommitFresh(t)
      BY <2>2, <2>3, <3>1, <3>2, <3>3
    <3>4. CASE EventFresh(t)
      <4>1. /\ ~log'[Len(log) + 1].commit /\ Len(log') = Len(log) + 1
            /\ \A i \in 1..Len(log) : log'[i] = log[i]
        BY <3>4, Appended DEF EventFresh, At, TypeInv, JobsTyped, JobTyped
      <4>2. \A d : InRoom(log, Len(log), d) => InRoom(log', Len(log), d)
        BY <4>1, <2>3, InRoomPrefix
      <4>3. \A d : InRoom(log', Len(log), d) => InRoom(log', Len(log) + 1, d)
        BY <4>1, <2>3, InRoomEvent
      <4> QED
        BY <2>2, <2>3, <3>1, <3>2, <4>1, <4>2, <4>3
    <3>5. CASE ~CommitFresh(t) /\ ~EventFresh(t)
      <4>1. log' = log
        BY <3>5 DEF RoomStep, RepairProjection, Bootstrap, LeaveStep, Leave, LeaveRefused, AdminStep,
               GrantAdmin, RevokeAdmin, MarkForRepair, ActivateMembership, disk
      <4> QED
        BY <2>2, <2>3, <3>1, <3>2, <4>1
    <3> QED
      BY <3>3, <3>4, <3>5
  <2>6. CASE room' = room /\ log' = log
    BY <2>2, <2>6
  <2> QED
    BY <2>4, <2>5, <2>6, Frames DEF Changes, RoomStep
<1>2. CASE threads'[u] = Idle
  BY <1>2 DEF Idle, Job
<1>3. CASE ThreadStep(u) /\ NewJob(u)
  <2>1. m \in Message /\ CommitCheck(u, m) /\ Separate(m)
    BY <1>3 DEF NewJob
  <2>2. /\ room \in Projection /\ room # NoRoom /\ Follows(room, log) /\ room.last = Len(log)
        /\ room.epoch \in Nat
    BY <1>3, ThreadIsUp DEF KeptInv, RoomsFollow, TypeInv, RoomsTyped, KnownRoom, Projection
  <2>3. /\ room' = room /\ log' = log /\ room.epoch = m.epoch /\ SenderAdmissible(room, m.sender)
    BY <2>1, <2>2 DEF CommitCheck, disk
  <2>4. OpenIntervals(room, m.sender) # {} /\ m.sender \in Device
    BY <2>1, <2>2, <2>3 DEF SenderAdmissible, ActiveAtHead, Follows, Message
  <2>5. InRoom(log, Len(log), m.sender)
    BY <2>2, <2>4, OpenIsMember
  <2> QED
    BY <2>1, <2>2, <2>3, <2>5
<1> QED
  BY <1>1, <1>2, <1>3, JobsAfter

LEMMA KeptStep ==
    ASSUME TypeInv, KeptInv, LogKept, [Next]_vars
    PROVE  KeptInv'
BY ReplaysStep, RoomsFollowStep, CommitsCheckedStep DEF KeptInv

LEMMA KeptInit == Init /\ LogKept => KeptInv
<1> SUFFICES ASSUME Init, LogKept PROVE KeptInv
  OBVIOUS
<1> DEFINE p == InitialProjection(Creator, 0, 0, TRUE)
<1>1. p \in Projection /\ p.last = 0
  BY InitialTyped, ConfigAssumption DEF InitialProjection
<1>2. room = p /\ checkpoint = p /\ p # NoRoom /\ log = << >>
  BY <1>1, AbsentAssumption DEF Init, LogKept
<1>3. Follows(p, log)
  BY InitialFollows
<1> HIDE DEF p
<1>4. \A t \in Thread : threads[t].pc = "idle"
  BY DEF Init, Idle, Job
<1> QED
  BY <1>1, <1>2, <1>3, <1>4 DEF KeptInv, Replays, RoomsFollow, CommitsChecked

\* The log holds KeptInv whatever fails and whenever the server crashes.
LEMMA Kept == Spec => [](LogKept => KeptInv)
<1> DEFINE Inv == LogKept => KeptInv
<1>1. Init => Inv
  BY KeptInit
<1>2. TypeInv /\ Inv /\ [Next]_vars => Inv'
  BY KeptStep DEF LogKept
<1> HIDE DEF Inv
<1>3. Spec => []Inv
  BY <1>1, <1>2, TypeCorrect, PTL DEF Spec
<1> QED
  BY <1>3 DEF Inv

\* Whoever is a member after n entries was not removed since it was added.
LEMMA MemberNotRemoved ==
    ASSUME Replays(log), Len(log) \in Nat, NEW n \in 0..Len(log), NEW d, InRoom(log, n, d)
    PROVE  ~RemovedBefore(d, n + 1)
<1> SUFFICES ASSUME NEW j \in Commits, j < n + 1, d \in log[j].removes,
                    \A k \in Commits : j < k /\ k < n + 1 => d \notin Added(log[k])
             PROVE  FALSE
  BY DEF RemovedBefore
<1>1. PICK s \in 0..n : Began(log, n, d, s) /\ Ended(log, n, d, s, Open)
  BY DEF InRoom
<1>2. j \in 1..n /\ Removes(log, j, d)
  BY DEF Commits, Removes
<1>3. ~(s < j)
  BY <1>1, <1>2 DEF Ended
<1>4. s \in Commits /\ d \in Added(log[s]) /\ s < n + 1
  BY <1>1, <1>2, <1>3 DEF Began, Commits
<1>5. s = j
  BY <1>2, <1>3, <1>4
<1> QED
  BY <1>4, <1>5 DEF Replays, Separate, Commits

\* No Commit comes from a device that was removed before it: the sender is checked
\* under one lock and the entry appended under another, but the epoch the Commit
\* names is only admitted while the room has not moved.
THEOREM RemovedNeverCommit == Spec => [](LogKept => RemovedCannotCommit)
<1>1. TypeInv /\ KeptInv => RemovedCannotCommit
  <2> SUFFICES ASSUME TypeInv, KeptInv, NEW i \in Commits
               PROVE  ~RemovedBefore(log[i].sender, i)
    BY DEF RemovedCannotCommit
  <2>1. Len(log) \in Nat /\ i \in 1..Len(log) /\ log[i].commit /\ Replays(log)
    BY DEF Commits, TypeInv, LogTyped, KeptInv
  <2>2. InRoom(log, i - 1, log[i].sender) /\ i - 1 \in 0..Len(log) /\ (i - 1) + 1 = i
    BY <2>1 DEF Replays
  <2> QED
    BY <2>1, <2>2, MemberNotRemoved
<1> QED
  BY <1>1, Kept, TypeCorrect, PTL

\* A device that was removed has no open interval, pending or active, in the live
\* projection nor in the one boot is rebuilding.
THEOREM RemovedIsOut == Spec => [](LogKept => RemovedStaysRemoved)
<1>1. TypeInv /\ KeptInv => RemovedStaysRemoved
  <2> SUFFICES ASSUME TypeInv, KeptInv, room # NoRoom, NEW d \in Device,
                      RemovedBefore(d, room.last + 1)
               PROVE  OpenIntervals(room, d) = {}
    BY DEF RemovedStaysRemoved
  <2>1. /\ room \in Projection /\ room.last \in 0..Len(log) /\ Len(log) \in Nat
        /\ Follows(room, log) /\ Replays(log)
    BY DEF TypeInv, RoomsTyped, KnownRoom, Projection, LogTyped, KeptInv, RoomsFollow
  <2> QED
    BY <2>1, OpenIsMember, MemberNotRemoved
<1> QED
  BY <1>1, Kept, TypeCorrect, PTL

(***************************************************************************)
(* Sync.  What a device may see of an entry depends on the entries up to   *)
(* it alone, so that a page that was taken before the projection's lock is *)
(* filtered as it would have been at any later time.                       *)
(***************************************************************************)
\* Device d is a member for entry s of log l; the removal itself is included.
MemberAt(l, d, s) ==
    \E b \in 0..s : Began(l, s, d, b) /\ \A i \in 1..s : b < i /\ i < s => ~Removes(l, i, d)

CursorsInv ==
    /\ \A d \in Device : /\ cursor[d] <= Len(log)
                         /\ \A s \in 1..cursor[d] : MemberAt(log, d, s) => s \in got[d]
    /\ \A t \in Thread : threads[t].pc = "sync" =>
            threads[t].target[2] = cursor[threads[t].target[1]] + 1
    /\ \A t, u \in Thread :
            threads[t].pc = "sync" /\ threads[u].pc = "sync"
                /\ threads[t].target[1] = threads[u].target[1] => t = u

LEMMA MemberAtPrefix ==
    ASSUME NEW l, NEW k, NEW s \in Nat, \A i \in 1..s : k[i] = l[i], NEW d, MemberAt(l, d, s)
    PROVE  MemberAt(k, d, s)
<1>1. PICK b \in 0..s : Began(l, s, d, b) /\ \A i \in 1..s : b < i /\ i < s => ~Removes(l, i, d)
  BY DEF MemberAt
<1>2. Began(k, s, d, b)
  BY <1>1, BeganPrefix
<1>3. \A i \in 1..s : b < i /\ i < s => ~Removes(k, i, d)
  BY <1>1 DEF Removes
<1> QED
  BY <1>2, <1>3 DEF MemberAt

LEMMA MemberForSeqIsMemberAt ==
    ASSUME NEW p \in Projection, NEW l, Follows(p, l), NEW d \in Device, NEW s \in 1..p.last
    PROVE  MemberForSeq(p, d, s) <=> MemberAt(l, d, s)
<1> DEFINE n == p.last
           I == p.intervals[d]
<1>1. n \in Nat /\ s \in 1..n /\ Tells(l, n, d, I) /\ I \in SUBSET Interval
  BY DEF Projection, Follows
<1> HIDE DEF n, I
<1>2. ASSUME NEW v \in I, v.start <= s, v.end = Open \/ s <= v.end PROVE MemberAt(l, d, s)
  <2>1. Began(l, n, d, v.start) /\ Ended(l, n, d, v.start, v.end)
    BY <1>1 DEF Tells
  <2>2. v.start \in 0..s /\ v.end \in Nat \cup {Open}
    BY <1>1, <1>2 DEF Interval
  <2>3. Began(l, s, d, v.start)
    BY <1>1, <2>1, <2>2 DEF Began
  <2>4. \A i \in 1..s : v.start < i /\ i < s => ~Removes(l, i, d)
    BY <1>1, <1>2, <2>1, <2>2 DEF Ended
  <2> QED
    BY <2>2, <2>3, <2>4 DEF MemberAt
<1>3. ASSUME MemberAt(l, d, s)
      PROVE  \E v \in I : v.start <= s /\ (v.end = Open \/ s <= v.end)
  <2>1. PICK b \in 0..s : Began(l, s, d, b) /\ \A i \in 1..s : b < i /\ i < s => ~Removes(l, i, d)
    BY <1>3 DEF MemberAt
  <2>2. b \in 0..n /\ Began(l, n, d, b)
    BY <1>1, <2>1 DEF Began
  <2>3. PICK v \in I : v.start = b
    BY <1>1, <2>2 DEF Tells
  <2>4. Ended(l, n, d, b, v.end)
    BY <1>1, <2>3 DEF Tells
  <2>5. v.end = Open \/ s <= v.end
    BY <1>1, <2>1, <2>4 DEF Ended
  <2> QED
    BY <1>1, <2>1, <2>3, <2>5
<1> QED
  BY <1>2, <1>3 DEF MemberForSeq, I

LEMMA CursorsStep ==
    ASSUME TypeInv, KeptInv, CursorsInv, [Next]_vars
    PROVE  CursorsInv'
<1>1. /\ Len(log) \in Nat /\ Len(log') \in Nat /\ Len(log) <= Len(log')
      /\ \A i \in 1..Len(log) : log'[i] = log[i]
      /\ cursor \in [Device -> Nat] /\ got \in [Device -> SUBSET Nat]
  BY LogStep, CommitsGrow DEF TypeInv, ClientsTyped
<1>2. ASSUME NEW d, NEW s \in 1..Len(log), MemberAt(log', d, s) PROVE MemberAt(log, d, s)
  <2>1. s \in Nat /\ \A i \in 1..s : log[i] = log'[i]
    BY <1>1
  <2> QED
    BY <1>2, <2>1, MemberAtPrefix
<1>3. CASE cursor' = cursor /\ got' = got
  <2>1. ASSUME NEW d \in Device
        PROVE  /\ cursor'[d] <= Len(log')
               /\ \A s \in 1..cursor'[d] : MemberAt(log', d, s) => s \in got'[d]
    <3>1. cursor[d] \in Nat /\ cursor[d] <= Len(log)
      BY <1>1 DEF CursorsInv
    <3>2. \A s \in 1..cursor[d] : s \in 1..Len(log)
      BY <3>1, <1>1
    <3>3. \A s \in 1..cursor[d] : MemberAt(log', d, s) => s \in got[d]
      BY <3>2, <1>2 DEF CursorsInv
    <3> QED
      BY <3>1, <3>3, <1>1, <1>3
  <2>2. ASSUME NEW t \in Thread, threads'[t].pc = "sync"
        PROVE  threads'[t].target[2] = cursor'[threads'[t].target[1]] + 1
    <3>1. CASE threads'[t] = threads[t]
      BY <1>3, <2>2, <3>1 DEF CursorsInv
    <3>2. CASE threads'[t] = Idle
      BY <2>2, <3>2 DEF Idle, Job
    <3>3. CASE NewJob(t)
      BY <1>3, <2>2, <3>3 DEF NewJob
    <3> QED
      BY <3>1, <3>2, <3>3, JobsAfter
  <2>3. ASSUME NEW t \in Thread, NEW u \in Thread, t # u,
               threads'[t].pc = "sync", threads'[u].pc = "sync", ThreadStep(t), NewJob(t)
        PROVE  threads'[t].target[1] # threads'[u].target[1]
    <3>1. threads'[u] = threads[u]
      BY <2>3, JobAfter
    <3>2. SyncPage(t, threads'[t].target[1])
      BY <2>3 DEF NewJob
    <3> QED
      BY <2>3, <3>1, <3>2 DEF SyncPage
  <2>4. ASSUME NEW t \in Thread, NEW u \in Thread, threads'[t].pc = "sync", threads'[u].pc = "sync",
               threads'[t].target[1] = threads'[u].target[1]
        PROVE  t = u
    <3>1. \A x \in Thread : threads'[x].pc = "sync" =>
            threads'[x] = threads[x] \/ (ThreadStep(x) /\ NewJob(x))
      BY JobsAfter DEF Idle, Job
    <3>2. CASE threads'[t] = threads[t] /\ threads'[u] = threads[u]
      BY <2>4, <3>2 DEF CursorsInv
    <3> QED
      BY <2>3, <2>4, <3>1, <3>2
  <2> QED
    BY <2>1, <2>2, <2>4 DEF CursorsInv
<1>4. CASE \E t \in Thread : SyncAnswer(t)
  <2> PICK t \in Thread : SyncAnswer(t)
    BY <1>4
  <2> DEFINE e == threads[t].target[1]
             a == threads[t].target[2]
             b == threads[t].target[3]
             seen == Visible(e, a..b)
             next == NextAfter(e, a..b, seen)
  <2>1. /\ e \in Device /\ a \in 1..Len(log) /\ b \in a..Len(log) /\ threads[t].pc = "sync" /\ up
        /\ a = cursor[e] + 1
    BY DEF SyncAnswer, At, TypeInv, JobsTyped, JobTyped, CursorsInv
  <2>2. /\ got' = [got EXCEPT ![e] = @ \cup seen] /\ cursor' = [cursor EXCEPT ![e] = next]
        /\ Goes(t, Idle) /\ log' = log
    BY DEF SyncAnswer, disk
  <2>3. threads'[t].pc # "sync" /\ \A u \in Thread \ {t} : threads'[u] = threads[u]
    BY <2>2 DEF Goes, Idle, Job, TypeInv, JobsTyped
  <2>4. room \in Projection /\ room # NoRoom /\ room.last = Len(log) /\ Follows(room, log)
    BY <2>1 DEF KeptInv, RoomsFollow, TypeInv, RoomsTyped, KnownRoom
  <2>5. \A u \in Thread \ {t} : threads[u].pc = "sync" => threads[u].target[1] # e
    BY <2>1 DEF CursorsInv
  <2> HIDE DEF e, a, b
  <2>6. next \in a..b
    <3>1. Len(log) \in Nat /\ a \in 1..Len(log) /\ b \in a..Len(log)
      BY <1>1, <2>1
    <3> QED
      BY <3>1, NextAfterTyped
  <2>7. \A s \in a..b : MemberAt(log, e, s) => s \in seen
    <3> SUFFICES ASSUME NEW s \in a..b, MemberAt(log, e, s) PROVE MemberForSeq(room, e, s)
      BY DEF Visible
    <3>1. s \in 1..room.last
      BY <1>1, <2>1, <2>4
    <3> QED
      BY <3>1, <2>1, <2>4, MemberForSeqIsMemberAt
  <2> HIDE DEF seen, next
  <2>8. ASSUME NEW d \in Device
        PROVE  /\ cursor'[d] <= Len(log')
               /\ \A s \in 1..cursor'[d] : MemberAt(log', d, s) => s \in got'[d]
    <3>1. CASE d = e
      <4>1. cursor'[d] = next /\ got'[d] = got[d] \cup seen
        BY <3>1, <2>1, <2>2, <1>1
      <4>2. ASSUME NEW s \in 1..next, MemberAt(log, d, s) PROVE s \in got[d] \cup seen
        <5>1. s \in 1..cursor[d] \/ s \in a..b
          BY <3>1, <2>1, <2>6, <1>1
        <5> QED
          BY <5>1, <4>2, <3>1, <2>7 DEF CursorsInv
      <4> QED
        BY <4>1, <4>2, <2>1, <2>2, <2>6, <1>1
    <3>2. CASE d # e
      <4>1. cursor'[d] = cursor[d] /\ got'[d] = got[d]
        BY <3>2, <2>1, <2>2, <1>1
      <4> QED
        BY <4>1, <2>2 DEF CursorsInv
    <3> QED
      BY <3>1, <3>2
  <2>9. ASSUME NEW u \in Thread, threads'[u].pc = "sync"
        PROVE  /\ u # t /\ threads'[u] = threads[u]
               /\ threads'[u].target[2] = cursor'[threads'[u].target[1]] + 1
    <3>1. u # t /\ threads'[u] = threads[u]
      BY <2>3, <2>9
    <3>2. threads[u].target[1] \in Device /\ threads[u].target[1] # e
      BY <2>5, <2>9, <3>1 DEF TypeInv, JobsTyped, JobTyped
    <3>3. cursor'[threads[u].target[1]] = cursor[threads[u].target[1]]
      BY <3>2, <2>1, <2>2, <1>1
    <3> QED
      BY <3>1, <3>3, <2>9 DEF CursorsInv
  <2> QED
    BY <2>8, <2>9 DEF CursorsInv
<1> QED
  BY <1>3, <1>4, Frames DEF Changes

\* A device's cursor never passes an entry of its membership it was not given, although
\* the page is taken before the projection and the room changes in between.
THEOREM NothingSkipped == Spec => [](LogKept => CursorSkipsNothing)
<1> DEFINE Inv == LogKept => CursorsInv
           Room == LogKept => KeptInv
<1>1. Init => Inv
  BY DEF Init, CursorsInv, Idle, Job
<1>2. TypeInv /\ Room /\ Inv /\ [Next]_vars => Inv'
  BY CursorsStep DEF LogKept
<1>3. TypeInv /\ Room /\ Inv => (LogKept => CursorSkipsNothing)
  <2> SUFFICES ASSUME TypeInv, KeptInv, CursorsInv, up, room # NoRoom, NEW d \in Device,
                      NEW s \in 1..cursor[d], MemberForSeq(room, d, s)
               PROVE  s \in got[d]
    BY DEF CursorSkipsNothing
  <2>1. room \in Projection /\ room.last = Len(log) /\ Follows(room, log) /\ Len(log) \in Nat
    BY DEF KeptInv, RoomsFollow, TypeInv, RoomsTyped, KnownRoom, LogTyped
  <2>2. cursor[d] \in Nat /\ cursor[d] <= Len(log)
    BY DEF CursorsInv, TypeInv, ClientsTyped
  <2>3. s \in 1..room.last
    BY <2>1, <2>2
  <2>4. MemberAt(log, d, s)
    BY <2>1, <2>3, MemberForSeqIsMemberAt
  <2> QED
    BY <2>4 DEF CursorsInv
<1>4. Spec => []Room
  BY Kept
<1> HIDE DEF Inv, Room
<1> QED
  BY <1>1, <1>2, <1>3, <1>4, TypeCorrect, PTL DEF Spec

(***************************************************************************)
(* Crashes.  The projection that boot derives is exactly the one that was  *)
(* lost, activations included, when nothing but the log, the Welcomes and  *)
(* the snapshots touches it and the database accepts its writes.           *)
(***************************************************************************)
OnlyTheLog == LogKept /\ "admin" \notin Handlers /\ DiskWrites

\* Nobody but the creator's account administers the room, and nobody has left.
Founded(p) == p.admins = {AccountOf[Creator]} /\ p.departed = {}

FoundedInv ==
    /\ room # NoRoom => Founded(room)
    /\ Founded(checkpoint)
    /\ \A t \in Thread : threads[t].pc \in {"write", "snapshot"} => Founded(threads[t].snapshot)

\* A request is about to activate the membership of Welcome w.
Activating(w) == \E t \in Thread : threads[t].pc = "activate" /\ threads[t].target = w

\* An acknowledged membership is active, or about to be.
ActiveInv ==
    up => \A d \in Device : \A v \in room.intervals[d] :
        <<d, v.start>> \in ackedDisk => v.active \/ Activating(<<d, v.start>>)

LEMMA FoundedDelta ==
    ASSUME NEW p \in Projection, Founded(p), NEW m \in Message, NEW s \in Nat, NEW q,
           q = ApplyDelta(p, m, s)
    PROVE  Founded(q)
<1>1. Base(p, m) = p
  BY AbsentAssumption DEF Base
<1>2. q.admins = p.admins /\ q.departed = p.departed \ {AccountOf[d] : d \in m.removes}
  BY <1>1, ApplyDeltaFields
<1> QED
  BY <1>2 DEF Founded

LEMMA FoundedLast ==
    ASSUME NEW p \in Projection, Founded(p), NEW s, NEW q, q = [p EXCEPT !.last = s]
    PROVE  Founded(q) /\ q.intervals = p.intervals
BY DEF Founded, Projection

LEMMA FoundedRoomStep ==
    ASSUME TypeInv, KeptInv, FoundedInv, OnlyTheLog, NEW t \in Thread, RoomStep(t)
    PROVE  Founded(room')
<1>1. up
  BY DEF RoomStep, CommitFresh, EventFresh, RepairProjection, Bootstrap, LeaveStep, Leave,
         LeaveRefused, AdminStep, GrantAdmin, RevokeAdmin, MarkForRepair, ActivateMembership, At,
         Free
<1>2. room \in Projection /\ room # NoRoom /\ Founded(room) /\ Len(log) \in Nat
  BY <1>1 DEF KeptInv, RoomsFollow, FoundedInv, TypeInv, RoomsTyped, KnownRoom, LogTyped
<1>3. CASE CommitFresh(t)
  <2> DEFINE m == threads[t].message
             s == Len(log) + 1
  <2>1. m \in Message /\ s \in Nat /\ room' = ApplyDelta(room, m, s)
    BY <1>2, <1>3, Appended DEF CommitFresh
  <2> HIDE DEF m, s
  <2> QED
    BY <2>1, <1>2, FoundedDelta
<1>4. CASE EventFresh(t)
  BY <1>2, <1>4, FoundedLast DEF EventFresh
<1>5. CASE ActivateMembership(t)
  <2> DEFINE w == threads[t].target
  <2>1. w[1] \in Device /\ w[2] \in Nat /\ room' = Activate(room, w[1], w[2])
    BY <1>2, <1>5 DEF ActivateMembership, At, TypeInv, WelcomesTyped, JobsTyped, JobTyped
  <2> HIDE DEF w
  <2>2. PICK d \in Device, s \in Nat : room' = Activate(room, d, s)
    BY <2>1
  <2>3. Activate(room, d, s).admins = room.admins /\ Activate(room, d, s).departed = room.departed
    BY <1>2, ActivateFields
  <2> QED
    BY <2>2, <2>3, <1>2 DEF Founded
<1>6. ~RepairProjection(t) /\ ~MarkForRepair(t)
  BY DEF RepairProjection, MarkForRepair, At, KeptInv, RoomsFollow
<1>7. ~Bootstrap(t) /\ ~LeaveStep(t) /\ ~AdminStep(t)
  BY DEF Bootstrap, LeaveStep, Leave, LeaveRefused, AdminStep, GrantAdmin, RevokeAdmin, Free,
         OnlyTheLog, LogKept
<1> QED
  BY <1>3, <1>4, <1>5, <1>6, <1>7 DEF RoomStep

LEMMA FoundedBootStep ==
    ASSUME TypeInv, KeptInv, FoundedInv, Boot
    PROVE  Founded(room')
<1>1. CASE BootLoad
  BY <1>1 DEF BootLoad, FoundedInv
<1>2. CASE BootReplay
  <2> DEFINE i == room.last + 1
  <2>1. /\ room \in Projection /\ i \in 1..Len(log) /\ room' = ReplayEntry(room, i) /\ Founded(room)
    BY <1>2 DEF BootReplay, FoundedInv, TypeInv, RoomsTyped, KnownRoom, Projection, LogTyped
  <2>2. log[i] \in Message /\ i \in Nat
    BY <2>1 DEF TypeInv, LogTyped
  <2> HIDE DEF i
  <2>3. CASE log[i].commit
    BY <2>1, <2>2, <2>3, FoundedDelta DEF ReplayEntry
  <2>4. CASE ~log[i].commit
    BY <2>1, <2>4, FoundedLast DEF ReplayEntry
  <2> QED
    BY <2>3, <2>4
<1>3. CASE BootReady
  <2>1. room \in Projection /\ room # NoRoom /\ Founded(room) /\ room' = Welcomed(room)
    BY <1>3 DEF BootReady, KeptInv, RoomsFollow, FoundedInv, TypeInv, RoomsTyped, KnownRoom
  <2>2. room'.admins = room.admins /\ room'.departed = room.departed
    BY <2>1, WelcomedFields
  <2> QED
    BY <2>1, <2>2 DEF Founded
<1> QED
  BY <1>1, <1>2, <1>3 DEF Boot

LEMMA FoundedStep ==
    ASSUME TypeInv, KeptInv, FoundedInv, OnlyTheLog, [Next]_vars
    PROVE  FoundedInv'
<1>1. room' # NoRoom => Founded(room')
  <2>1. CASE room' = room
    BY <2>1 DEF FoundedInv
  <2>2. CASE Crash
    BY <2>2 DEF Crash
  <2>3. CASE Boot
    BY <2>3, FoundedBootStep
  <2>4. CASE \E t \in Thread : RoomStep(t)
    BY <2>4, FoundedRoomStep
  <2> QED
    BY <2>1, <2>2, <2>3, <2>4, Frames DEF Changes
<1>2. Founded(checkpoint')
  <2>1. CASE checkpoint' = checkpoint
    BY <2>1 DEF FoundedInv
  <2>2. CASE BootReady
    BY <2>2, FoundedBootStep DEF BootReady, Boot
  <2>3. CASE \E t \in Thread : SaveCheckpoint(t)
    BY <2>3 DEF SaveCheckpoint, At, FoundedInv
  <2> QED
    BY <2>1, <2>2, <2>3, Frames DEF Changes
<1>3. ASSUME NEW t \in Thread, threads'[t].pc \in {"write", "snapshot"}
      PROVE  Founded(threads'[t].snapshot)
  <2>1. CASE threads'[t] = threads[t]
    BY <2>1, <1>3 DEF FoundedInv
  <2>2. CASE threads'[t] = Idle
    BY <2>2, <1>3 DEF Idle, Job
  <2>3. CASE ThreadStep(t) /\ NewJob(t)
    <3>1. threads'[t].snapshot = room
      BY <2>3, <1>3 DEF NewJob
    <3>2. room # NoRoom
      BY <2>3, ThreadIsUp DEF KeptInv, RoomsFollow
    <3> QED
      BY <3>1, <3>2 DEF FoundedInv
  <2> QED
    BY <2>1, <2>2, <2>3, JobsAfter
<1> QED
  BY <1>1, <1>2, <1>3 DEF FoundedInv

\* An activation under way is not lost, unless in a crash.
LEMMA ActivationStays ==
    ASSUME TypeInv, [Next]_vars, ~Crash, NEW u \in Thread, threads[u].pc = "activate"
    PROVE  threads'[u] = threads[u] \/ ActivateMembership(u)
<1>1. CASE ThreadStep(u)
  <2>1. ~CommitFresh(u) /\ ~EventFresh(u) /\ ~RepairProjection(u) /\ ~MarkForRepair(u)
    BY DEF CommitFresh, EventFresh, RepairProjection, MarkForRepair, At
  <2>2. ~Bootstrap(u) /\ ~LeaveStep(u) /\ ~AdminStep(u)
    BY DEF Bootstrap, LeaveStep, Leave, LeaveRefused, AdminStep, GrantAdmin, RevokeAdmin, Free
  <2>3. ~Checks(u) /\ ~ReplayStep(u) /\ ~ReportStep(u) /\ ~PageStep(u) /\ ~AckStep(u)
    BY DEF Checks, CommitCheck, EventCheck, ReplayStep, CommitReplay, ReportStep, Report, PageStep,
           SyncPage, AckStep, AckWelcome, Free
  <2>4. ~Refused(u) /\ ~CloneRooms(u) /\ ~SnapshotRooms(u) /\ ~SaveCheckpoint(u) /\ ~SaveFails(u)
          /\ ~SyncAnswer(u)
    BY DEF Refused, CloneRooms, SnapshotRooms, SaveCheckpoint, SaveFails, SyncAnswer, At, Free
  <2> QED
    BY <1>1, <2>1, <2>2, <2>3, <2>4 DEF ThreadStep, RoomStep
<1> QED
  BY <1>1, JobsAfter

\* The intervals after a delta come from those before it, or begin at s.
LEMMA DeltaIntervals ==
    ASSUME NEW p \in Projection, NEW m \in Message, NEW s \in Nat, NEW d \in Device,
           NEW v \in ApplyDelta(p, m, s).intervals[d]
    PROVE  v.start = s \/ \E u \in p.intervals[d] : v.start = u.start /\ v.active = u.active
<1>1. Base(p, m) = p
  BY AbsentAssumption DEF Base
<1>2. ApplyDelta(p, m, s).intervals[d] =
            (IF d \in m.removes THEN EndOpen(p.intervals[d], s) ELSE p.intervals[d])
                \cup (IF d \in Added(m)
                      THEN {[start |-> s, end |-> Open, active |-> FALSE]} ELSE {})
  BY <1>1, ApplyDeltaFields
<1>3. p.intervals[d] \in SUBSET Interval
  BY DEF Projection
<1> QED
  BY <1>2, <1>3, EndOpenFrom

LEMMA ActivatedOrNot ==
    ASSUME NEW I \in SUBSET Interval, NEW S, NEW v \in Activated(I, S)
    PROVE  \/ v.start \in S /\ v.active
           \/ v.start \notin S /\ v \in I
<1>1. PICK u \in I : v = IF u.start \in S THEN [u EXCEPT !.active = TRUE] ELSE u
  BY DEF Activated
<1> QED
  BY <1>1 DEF Interval

LEMMA ActiveStep ==
    ASSUME TypeInv, KeptInv, ClaimInv, ActiveInv, OnlyTheLog, [Next]_vars
    PROVE  ActiveInv'
<1> SUFFICES ASSUME up', NEW d \in Device, NEW v \in room'.intervals[d],
                    <<d, v.start>> \in ackedDisk', ~v.active
             PROVE  Activating(<<d, v.start>>)'
  BY DEF ActiveInv
<1> DEFINE w == <<d, v.start>>
<1>1. ~Crash /\ ~BootLoad /\ ~BootReplay
  BY DEF Crash, BootLoad, BootReplay
<1>2. CASE BootReady
  <2> DEFINE S == {s \in Nat : <<d, s>> \in ackedDisk}
  <2>1. room \in Projection /\ room' = Welcomed(room) /\ ackedDisk' = ackedDisk
    BY <1>2 DEF BootReady, KeptInv, RoomsFollow, TypeInv, RoomsTyped, KnownRoom
  <2>2. room.intervals[d] \in SUBSET Interval /\ v \in Activated(room.intervals[d], S)
    <3>1. Welcomed(room).intervals[d] = Activated(room.intervals[d], S)
      BY <2>1, WelcomedFields
    <3> HIDE DEF S
    <3> QED
      BY <2>1, <3>1 DEF Projection
  <2>3. v.start \notin S /\ v \in room.intervals[d]
    <3> HIDE DEF S
    <3> QED
      BY <2>2, ActivatedOrNot
  <2> QED
    BY <2>1, <2>2, <2>3 DEF Interval
<1>3. CASE ~BootReady
  <2>1. up /\ room \in Projection /\ Len(log) \in Nat
    <3>1. up
      BY <1>1, <1>3, Frames DEF Changes
    <3> QED
      BY <3>1 DEF KeptInv, RoomsFollow, TypeInv, RoomsTyped, KnownRoom, LogTyped
  <2>2. ASSUME NEW u \in room.intervals[d], u.start = v.start, u.active = v.active, w \in ackedDisk,
               \A t \in Thread : ActivateMembership(t) => threads[t].target # w
        PROVE  Activating(w)'
    <3>1. PICK t \in Thread : threads[t].pc = "activate" /\ threads[t].target = w
      BY <2>1, <2>2 DEF ActiveInv, Activating
    <3>2. threads'[t] = threads[t]
      BY <3>1, <2>2, <1>1, ActivationStays
    <3> QED
      BY <3>1, <3>2 DEF Activating
  <2>3. CASE \E t \in Thread : CommitFresh(t)
    <3> PICK t \in Thread : CommitFresh(t)
      BY <2>3
    <3> DEFINE m == threads[t].message
               s == Len(log) + 1
    <3>1. m \in Message /\ s \in Nat /\ room' = ApplyDelta(room, m, s) /\ ackedDisk' = ackedDisk
      BY <2>1, Appended DEF CommitFresh
    <3>2. v.start # s
      <4>1. w \in Released
        BY <3>1 DEF ClaimInv, TypeInv, WelcomesTyped
      <4>2. v.start \in 1..Len(log)
        BY <4>1 DEF Released, Commits
      <4> QED
        BY <4>2, <2>1
    <3> HIDE DEF m, s
    <3>3. PICK u \in room.intervals[d] : v.start = u.start /\ v.active = u.active
      BY <3>1, <3>2, <2>1, DeltaIntervals
    <3>4. ASSUME NEW x \in Thread PROVE ~ActivateMembership(x)
      <4>1. Len(log') = Len(log) + 1
        BY Appended
      <4>2. ActivateMembership(x) => log' = log
        BY DEF ActivateMembership, disk
      <4> QED
        BY <4>1, <4>2, <2>1
    <3> QED
      BY <3>1, <3>3, <3>4, <2>2
  <2>4. CASE \E t \in Thread : EventFresh(t)
    <3> PICK t \in Thread : EventFresh(t)
      BY <2>4
    <3>1. ackedDisk' = ackedDisk /\ room'.intervals = room.intervals
      BY <2>1, FoundedLast DEF EventFresh, Projection
    <3>2. ASSUME NEW x \in Thread PROVE ~ActivateMembership(x)
      <4>1. Len(log') = Len(log) + 1
        BY Appended
      <4>2. ActivateMembership(x) => log' = log
        BY DEF ActivateMembership, disk
      <4> QED
        BY <4>1, <4>2, <2>1
    <3> QED
      BY <3>1, <3>2, <2>2
  <2>5. CASE \E t \in Thread : ActivateMembership(t)
    <3> PICK t \in Thread : ActivateMembership(t)
      BY <2>5
    <3> DEFINE e == threads[t].target[1]
               s == threads[t].target[2]
    <3>1. /\ threads[t].target = <<e, s>> /\ e \in Device /\ s \in Nat
          /\ room' = Activate(room, e, s) /\ ackedDisk' = ackedDisk
          /\ threads[t].pc = "activate" /\ Goes(t, Idle)
      BY <2>1, AbsentAssumption DEF ActivateMembership, At, TypeInv, WelcomesTyped, JobsTyped, JobTyped, disk
    <3> HIDE DEF e, s
    <3>2. room'.intervals[d] = IF d = e THEN Activated(room.intervals[e], {s}) ELSE room.intervals[d]
      <4>1. e \in Device /\ s \in Nat /\ room \in Projection
        BY <3>1, <2>1
      <4>2. \A x \in Device : Activate(room, e, s).intervals[x] =
                IF x = e THEN Activated(room.intervals[e], {s}) ELSE room.intervals[x]
        BY <4>1, ActivateFields
      <4> QED
        BY <4>2, <3>1
    <3>3. room.intervals[d] \in SUBSET Interval
      BY <2>1 DEF Projection
    <3>4. v \in room.intervals[d] /\ (d # e \/ v.start # s)
      <4>1. CASE d = e
        BY <4>1, <3>2, <3>3, ActivatedOrNot
      <4>2. CASE d # e
        BY <4>2, <3>2
      <4> QED
        BY <4>1, <4>2
    <3>5. PICK x \in Thread : threads[x].pc = "activate" /\ threads[x].target = w
      BY <3>1, <3>4, <2>1 DEF ActiveInv, Activating
    <3>6. x # t
      BY <3>1, <3>4, <3>5
    <3>7. threads'[x] = threads[x]
      BY <3>1, <3>6 DEF Goes, TypeInv, JobsTyped
    <3> QED
      BY <3>5, <3>7 DEF Activating
  <2>6. CASE room' = room /\ ackedDisk' = ackedDisk /\ \A t \in Thread : ~ActivateMembership(t)
    BY <2>6, <2>2
  <2>7. CASE \E t \in Thread : AckStep(t)
    <3> PICK t \in Thread : AckStep(t)
      BY <2>7
    <3> PICK x \in claimed : AckWelcome(t, x)
      BY DEF AckStep
    <3>1. /\ room' = room /\ ackedDisk' \subseteq ackedDisk \cup {x}
          /\ Goes(t, Job("activate", None, NoRoom, x)) /\ threads[t].pc = "idle"
      BY DEF AckWelcome, Free
    <3>2. /\ threads'[t] = Job("activate", None, NoRoom, x)
          /\ \A u \in Thread \ {t} : threads'[u] = threads[u]
      BY <3>1 DEF Goes, TypeInv, JobsTyped
    <3>3. CASE w = x
      BY <3>2, <3>3 DEF Activating, Job
    <3>4. CASE w \in ackedDisk
      <4>1. PICK u \in Thread : threads[u].pc = "activate" /\ threads[u].target = w
        BY <3>1, <3>4, <2>1 DEF ActiveInv, Activating
      <4>2. u # t
        BY <4>1, <3>1
      <4> QED
        BY <4>1, <4>2, <3>2 DEF Activating
    <3> QED
      BY <3>1, <3>3, <3>4
  <2>8. ASSUME NEW t \in Thread, RoomStep(t)
        PROVE  CommitFresh(t) \/ EventFresh(t) \/ ActivateMembership(t)
    <3>1. ~RepairProjection(t) /\ ~MarkForRepair(t)
      BY DEF RepairProjection, MarkForRepair, At, KeptInv, RoomsFollow
    <3>2. ~Bootstrap(t) /\ ~LeaveStep(t) /\ ~AdminStep(t)
      BY DEF Bootstrap, LeaveStep, Leave, LeaveRefused, AdminStep, GrantAdmin, RevokeAdmin, Free,
             OnlyTheLog, LogKept
    <3> QED
      BY <2>8, <3>1, <3>2 DEF RoomStep
  <2> QED
    BY <2>3, <2>4, <2>5, <2>6, <2>7, <2>8, <1>1, <1>3, Frames DEF Changes, Boot
<1> QED
  BY <1>2, <1>3

LEMMA NextEpochIs ==
    ASSUME LogTyped, NEW e \in Nat, EpochAt(log, Len(log), e)
    PROVE  NextEpoch = e
<1>1. /\ Len(log) \in Nat
      /\ \A i \in Commits : log[i].epoch \in Nat /\ log[i].epoch < e /\ i \in 1..Len(log)
  BY MessageEpoch DEF LogTyped, Commits, EpochAt
<1>2. e = 0 \/ \E i \in Commits : log[i].epoch = e - 1
  BY DEF EpochAt, Commits
<1>3. CASE Commits = {}
  BY <1>2, <1>3 DEF NextEpoch
<1>4. CASE Commits # {}
  <2> DEFINE E == {log[i].epoch : i \in Commits}
             c == CHOOSE x \in E : \A i \in Commits : log[i].epoch <= x
  <2>1. e # 0
    BY <1>1, <1>4
  <2>2. e - 1 \in E /\ \A i \in Commits : log[i].epoch <= e - 1
    BY <1>1, <1>2, <2>1
  <2>3. c \in E /\ \A i \in Commits : log[i].epoch <= c
    BY <2>2
  <2>4. NextEpoch = c + 1
    BY <1>4 DEF NextEpoch
  <2>5. PICK i \in Commits : c = log[i].epoch
    BY <2>3
  <2>6. PICK k \in Commits : e - 1 = log[k].epoch
    BY <2>2
  <2> HIDE DEF c, E
  <2>7. c <= e - 1 /\ e - 1 <= c
    BY <2>2, <2>3, <2>5, <2>6
  <2> QED
    BY <2>4, <2>5, <2>7, <1>1
<1> QED
  BY <1>3, <1>4

\* The intervals of d, as LogProjection defines them.
LogIntervals(d) ==
    {v \in [start : 0..Len(log), end : {Open} \cup 1..Len(log), active : BOOLEAN] :
        /\ Began(log, Len(log), d, v.start) /\ Ended(log, Len(log), d, v.start, v.end)
        /\ v.active = (v.start = 0 \/ <<d, v.start>> \in ackedDisk)}

LEMMA IntervalsExact ==
    ASSUME TypeInv, KeptInv, GroundInv, ActiveInv, up, Settled, NEW d \in Device
    PROVE  room.intervals[d] = LogIntervals(d)
<1> DEFINE n == Len(log)
           I == room.intervals[d]
<1>1. /\ n \in Nat /\ I \in SUBSET Interval /\ Tells(log, n, d, I)
      /\ Grounded(room, Released, ackedDisk)
  BY DEF TypeInv, RoomsTyped, KnownRoom, Projection, LogTyped, KeptInv, RoomsFollow, Follows,
         GroundInv, RoomsGrounded
<1>2. ASSUME NEW v \in I
      PROVE  v.active <=> (v.start = 0 \/ <<d, v.start>> \in ackedDisk)
  <2>1. v.active => v.start = 0 \/ <<d, v.start>> \in ackedDisk
    BY <1>1 DEF Grounded
  <2>2. v.start = 0 => v.active
    BY <1>1 DEF Tells
  <2>3. <<d, v.start>> \in ackedDisk => v.active
    BY DEF ActiveInv, Activating, Settled
  <2> QED
    BY <2>1, <2>2, <2>3
<1> HIDE DEF I
<1>3. \A v \in I : v.active = (v.start = 0 \/ <<d, v.start>> \in ackedDisk)
  <2>1. \A v \in I : v.active \in BOOLEAN
    BY <1>1 DEF Interval
  <2> QED
    BY <2>1, <1>2, Zenon
<1>4. ASSUME NEW v \in I PROVE v \in LogIntervals(d)
  <2>1. Began(log, n, d, v.start) /\ Ended(log, n, d, v.start, v.end)
    BY <1>1 DEF Tells
  <2>2. v.start \in 0..n /\ v.end \in {Open} \cup 1..n
    BY <1>1, <2>1, BeganTyped DEF Ended
  <2>3. v \in Interval
    BY <1>1
  <2>4. v \in [start : 0..n, end : {Open} \cup 1..n, active : BOOLEAN]
    BY <2>2, <2>3 DEF Interval
  <2> QED
    BY <2>1, <2>4, <1>3 DEF LogIntervals
<1>5. ASSUME NEW v \in LogIntervals(d) PROVE v \in I
  <2>1. /\ v \in [start : 0..n, end : {Open} \cup 1..n, active : BOOLEAN]
        /\ Began(log, n, d, v.start) /\ Ended(log, n, d, v.start, v.end)
        /\ v.active = (v.start = 0 \/ <<d, v.start>> \in ackedDisk)
    BY DEF LogIntervals
  <2>2. v.start \in 0..n
    BY <2>1
  <2>3. PICK u \in I : u.start = v.start
    BY <1>1, <2>1, <2>2 DEF Tells
  <2>4. Ended(log, n, d, v.start, u.end)
    BY <1>1, <2>3 DEF Tells
  <2>5. u.end = v.end
    BY <1>1, <2>1, <2>2, <2>4, EndIsOne
  <2>6. u.active = (v.start = 0 \/ <<d, v.start>> \in ackedDisk)
    BY <1>3, <2>3
  <2>7. u \in Interval /\ u.active = v.active
    BY <1>1, <2>1, <2>6
  <2> QED
    BY <2>1, <2>3, <2>5, <2>7 DEF Interval
<1> QED
  BY <1>4, <1>5 DEF I

LEMMA RoomExact ==
    ASSUME TypeInv, KeptInv, GroundInv, FoundedInv, ActiveInv, up, Settled
    PROVE  room = LogProjection
<1>1. /\ room \in Projection /\ room.last = Len(log) /\ Follows(room, log) /\ Founded(room)
      /\ LogTyped /\ room.epoch \in Nat
  BY DEF TypeInv, RoomsTyped, KnownRoom, Projection, KeptInv, RoomsFollow, FoundedInv
<1>2. room.epoch = NextEpoch
  BY <1>1, NextEpochIs DEF Follows
<1>3. room.intervals = [d \in Device |-> LogIntervals(d)]
  BY <1>1, IntervalsExact DEF Projection
<1>4. LogProjection = [epoch |-> NextEpoch, last |-> Len(log), status |-> "open", complete |-> TRUE,
            admins |-> {AccountOf[Creator]}, departed |-> {},
            intervals |-> [d \in Device |-> LogIntervals(d)]]
  <2> DEFINE J == [d \in Device |-> LogIntervals(d)]
  <2>1. LogProjection = [InitialProjection(Creator, NextEpoch, Len(log), TRUE) EXCEPT !.intervals = J]
    BY DEF LogProjection, LogIntervals
  <2> HIDE DEF J
  <2>2. LogProjection = [epoch |-> NextEpoch, last |-> Len(log), status |-> "open",
            complete |-> TRUE, admins |-> {AccountOf[Creator]}, departed |-> {}, intervals |-> J]
    BY <2>1 DEF InitialProjection
  <2> QED
    BY <2>2 DEF J
<1>5. room.status = "open" /\ room.complete = TRUE
  BY <1>1 DEF Follows, Projection
<1>6. room.admins = {AccountOf[Creator]} /\ room.departed = {}
  BY <1>1 DEF Founded
<1>7. room = [epoch |-> room.epoch, last |-> room.last, status |-> room.status,
            complete |-> room.complete, admins |-> room.admins, departed |-> room.departed,
            intervals |-> room.intervals]
  BY <1>1 DEF Projection
<1> QED
  BY <1>1, <1>2, <1>3, <1>4, <1>5, <1>6, <1>7

LEMMA BootNeverFails ==
    ASSUME TypeInv, KeptInv
    PROVE  BootGoesOn
<1> SUFFICES ASSUME ~up
             PROVE  \/ checkpoint = NoRoom
                    \/ room = NoRoom /\ checkpoint.last <= Len(log)
                    \/ room # NoRoom /\ room.last = Len(log)
                    \/ /\ room # NoRoom /\ room.last < Len(log)
                       /\ log[room.last + 1].commit => DeltaApplies(room, log[room.last + 1])
  BY DEF BootGoesOn
<1>1. checkpoint # NoRoom => checkpoint.last <= Len(log)
  BY DEF TypeInv, RoomsTyped, KnownRoom
<1>2. CASE room # NoRoom
  <2> DEFINE i == room.last + 1
  <2>1. /\ room \in Projection /\ room.last \in Nat /\ room.last <= Len(log) /\ Len(log) \in Nat
        /\ Follows(room, log) /\ Replays(log)
    BY <1>2 DEF TypeInv, RoomsTyped, KnownRoom, Projection, LogTyped, KeptInv, RoomsFollow
  <2>2. ASSUME room.last # Len(log), log[i].commit PROVE DeltaApplies(room, log[i])
    <3>1. i \in 1..Len(log) /\ room.last = i - 1
      BY <2>1, <2>2
    <3> HIDE DEF i
    <3> QED
      BY <3>1, <2>1, <2>2 DEF Replays
  <2> QED
    BY <1>2, <2>1, <2>2
<1> QED
  BY <1>1, <1>2

\* Boot never fails closed, whatever the age of the checkpoint.
THEOREM BootsAlways == Spec => [](LogKept => BootGoesOn)
<1>1. TypeInv /\ KeptInv => BootGoesOn
  BY BootNeverFails
<1> QED
  BY <1>1, Kept, TypeCorrect, PTL

\* A crash while no request is between its change of the projection and its write
\* costs nothing: live or derived by boot, the projection is the one the log and the
\* acknowledged Welcomes define.
THEOREM NothingLost == Spec => [](OnlyTheLog => CrashLosesNothing)
<1> DEFINE Inv == OnlyTheLog => FoundedInv /\ ActiveInv
           Room == LogKept => KeptInv
           Rooms == DiskWrites /\ Bootstrapped => GroundInv
<1>1. Init => Inv
  <2> SUFFICES ASSUME Init, OnlyTheLog PROVE FoundedInv /\ ActiveInv
    OBVIOUS
  <2>1. room = InitialProjection(Creator, 0, 0, TRUE) /\ checkpoint = room /\ ackedDisk = {}
    BY DEF Init, OnlyTheLog, LogKept
  <2>2. Founded(room)
    BY <2>1 DEF Founded, InitialProjection
  <2>3. \A t \in Thread : threads[t].pc = "idle"
    BY DEF Init, Idle, Job
  <2> QED
    BY <2>1, <2>2, <2>3 DEF FoundedInv, ActiveInv
<1>2. OnlyTheLog => LogKept /\ DiskWrites /\ Bootstrapped
  BY DEF OnlyTheLog, LogKept, Bootstrapped
<1>3. TypeInv /\ Room /\ Rooms /\ Inv /\ [Next]_vars => Inv'
  <2> SUFFICES ASSUME TypeInv, Room, Rooms, Inv, [Next]_vars, OnlyTheLog
               PROVE  FoundedInv' /\ ActiveInv'
    BY DEF OnlyTheLog, LogKept, DiskWrites
  <2>1. KeptInv /\ ClaimInv /\ FoundedInv /\ ActiveInv
    BY <1>2 DEF GroundInv
  <2> QED
    BY <2>1, FoundedStep, ActiveStep
<1>4. TypeInv /\ Room /\ Rooms /\ Inv => (OnlyTheLog => CrashLosesNothing)
  BY <1>2, BootNeverFails, RoomExact DEF CrashLosesNothing
<1>5. Spec => []Room /\ []Rooms
  BY Kept, Ground
<1> HIDE DEF Inv, Room, Rooms
<1> QED
  BY <1>1, <1>3, <1>4, <1>5, TypeCorrect, PTL DEF Spec

(***************************************************************************)
(* One membership at a time, with every endpoint but the replay of a       *)
(* recorded Commit: leaves, refused leaves, reports and a bootstrap over   *)
(* an old log move intervals behind the log's back, but never make two of  *)
(* them overlap.  A replay does: it applies an entry below the head and    *)
(* puts the head back there, boot moves it forward over the events behind  *)
(* it, and a refused leave then opens whatever ended at that head, the     *)
(* interval an earlier leave closed included.                              *)
(***************************************************************************)
NeverReplayed == "replay" \notin Handlers

Before(u, v) == u.end # Open /\ u.end < v.start

\* The intervals I of a projection with head n do not overlap.
ApartSet(I, n) ==
    /\ \A v \in I : v.start <= n /\ (v.end = Open \/ (v.start <= v.end /\ v.end <= n))
    /\ \A u, v \in I : u = v \/ Before(u, v) \/ Before(v, u)

Apart(p) == \A d \in Device : ApartSet(p.intervals[d], p.last)

ApartInv ==
    /\ room # NoRoom => Apart(room)
    /\ checkpoint # NoRoom => Apart(checkpoint)
    /\ \A t \in Thread :
        /\ threads[t].pc \in {"report", "write", "snapshot"} =>
                (threads[t].snapshot # NoRoom => Apart(threads[t].snapshot))
        /\ threads[t].pc # "repair"

\* An interval that ended before the head keeps its end; the others may take any.
LEMMA ApartMap ==
    ASSUME NEW I \in SUBSET Interval, NEW n \in Nat, ApartSet(I, n), NEW f,
           \A v \in I : /\ f[v].start = v.start
                        /\ v.end # Open /\ v.end < n => f[v].end = v.end
                        /\ f[v].end = Open \/ (v.start <= f[v].end /\ f[v].end <= n),
           NEW J, J = {f[v] : v \in I}
    PROVE  ApartSet(J, n)
<1>1. \A v \in I : v.start \in Nat /\ v.start <= n /\ v.end \in Nat \cup {Open}
  BY DEF Interval, ApartSet
<1>2. ASSUME NEW u \in I, NEW v \in I, Before(u, v) PROVE Before(f[u], f[v])
  <2>1. u.end # Open /\ u.end < v.start /\ u.end \in Nat /\ u.end < n
    BY <1>1, <1>2 DEF Before
  <2> QED
    BY <2>1 DEF Before
<1>3. \A v \in J : v.start <= n /\ (v.end = Open \/ (v.start <= v.end /\ v.end <= n))
  <2> SUFFICES ASSUME NEW w \in I
               PROVE  /\ f[w].start <= n
                      /\ f[w].end = Open \/ (f[w].start <= f[w].end /\ f[w].end <= n)
    OBVIOUS
  <2>1. f[w].start = w.start /\ (f[w].end = Open \/ (w.start <= f[w].end /\ f[w].end <= n))
    OBVIOUS
  <2>2. w.start <= n
    BY <1>1
  <2> QED
    BY <2>1, <2>2
<1>4. \A u, v \in I : f[u] = f[v] \/ Before(f[u], f[v]) \/ Before(f[v], f[u])
  BY <1>2 DEF ApartSet
<1> QED
  BY <1>3, <1>4 DEF ApartSet

LEMMA ApartGrows ==
    ASSUME NEW I \in SUBSET Interval, NEW n \in Nat, NEW k \in Nat, n <= k, ApartSet(I, n)
    PROVE  ApartSet(I, k)
<1>1. \A v \in I : v.start \in Nat /\ v.end \in Nat \cup {Open}
  BY DEF Interval
<1> QED
  BY <1>1 DEF ApartSet

LEMMA ApartEndOpen ==
    ASSUME NEW I \in SUBSET Interval, NEW n \in Nat, ApartSet(I, n)
    PROVE  ApartSet(EndOpen(I, n), n)
<1> DEFINE f == [v \in Interval |-> IF v.end = Open THEN [v EXCEPT !.end = n] ELSE v]
<1>1. EndOpen(I, n) = {f[v] : v \in I}
  BY DEF EndOpen
<1>2. \A v \in Interval : f[v].start = v.start /\ f[v].end = IF v.end = Open THEN n ELSE v.end
  BY DEF Interval
<1>3. \A v \in I : v.start \in Nat /\ v.end \in Nat \cup {Open} /\ v \in Interval
  BY DEF Interval
<1> HIDE DEF f
<1>4. \A v \in I : /\ f[v].start = v.start
                   /\ v.end # Open /\ v.end < n => f[v].end = v.end
                   /\ f[v].end = Open \/ (v.start <= f[v].end /\ f[v].end <= n)
  BY <1>2, <1>3 DEF ApartSet
<1> QED
  BY <1>1, <1>4, ApartMap

LEMMA ApartActivated ==
    ASSUME NEW I \in SUBSET Interval, NEW n \in Nat, ApartSet(I, n), NEW S
    PROVE  ApartSet(Activated(I, S), n)
<1> DEFINE f == [v \in Interval |-> IF v.start \in S THEN [v EXCEPT !.active = TRUE] ELSE v]
<1>1. Activated(I, S) = {f[v] : v \in I}
  BY DEF Activated
<1>2. \A v \in Interval : f[v].start = v.start /\ f[v].end = v.end
  BY DEF Interval
<1> HIDE DEF f
<1>3. \A v \in I : /\ f[v].start = v.start
                   /\ v.end # Open /\ v.end < n => f[v].end = v.end
                   /\ f[v].end = Open \/ (v.start <= f[v].end /\ f[v].end <= n)
  BY <1>2 DEF ApartSet
<1> QED
  BY <1>1, <1>3, ApartMap

\* A new membership begins above the head, when the last one has ended.
LEMMA ApartAfter ==
    ASSUME NEW I \in SUBSET Interval, NEW n \in Nat, NEW s \in Nat, n < s, ApartSet(I, n),
           NEW removed \in BOOLEAN, NEW added \in BOOLEAN, added => \A v \in I : v.end # Open
    PROVE  ApartSet(After(I, removed, added, s), s)
<1> DEFINE J == IF removed THEN EndOpen(I, s) ELSE I
           new == [start |-> s, end |-> Open, active |-> FALSE]
<1>1. ApartSet(J, s)
  <2>1. ApartSet(I, s)
    BY ApartGrows
  <2> QED
    BY <2>1, ApartEndOpen
<1>2. ASSUME added, NEW v \in J PROVE Before(v, new)
  <2>1. J = I
    BY <1>2 DEF EndOpen
  <2>2. v \in Interval /\ v.end # Open /\ v.end <= n
    BY <1>2, <2>1 DEF ApartSet
  <2> QED
    BY <2>2 DEF Before, Interval
<1>3. After(I, removed, added, s) = J \cup (IF added THEN {new} ELSE {})
  BY DEF After
<1>4. new.start = s /\ new.end = Open
  OBVIOUS
<1> HIDE DEF J, new
<1>5. CASE added
  BY <1>1, <1>2, <1>3, <1>4, <1>5 DEF ApartSet
<1>6. CASE ~added
  BY <1>1, <1>3, <1>6
<1> QED
  BY <1>5, <1>6

LEMMA InitialApart ==
    ASSUME NEW d \in Device, NEW e \in Nat, NEW l \in Nat, NEW c
    PROVE  Apart(InitialProjection(d, e, l, c))
<1> DEFINE p == InitialProjection(d, e, l, c)
           v == [start |-> 0, end |-> Open, active |-> TRUE]
<1>1. p.last = l /\ \A x \in Device : p.intervals[x] = IF x = d THEN {v} ELSE {}
  BY DEF InitialProjection
<1>2. v.start = 0 /\ v.end = Open
  OBVIOUS
<1> HIDE DEF p, v
<1>3. ApartSet({v}, l) /\ ApartSet({}, l)
  BY <1>2 DEF ApartSet
<1> QED
  BY <1>1, <1>3 DEF Apart, p

\* A refused leave opens what ended at the head.
LEMMA ApartReopened ==
    ASSUME NEW I \in SUBSET Interval, NEW n \in Nat, ApartSet(I, n)
    PROVE  ApartSet({IF v.end = n THEN [v EXCEPT !.end = Open] ELSE v : v \in I}, n)
<1> DEFINE f == [v \in Interval |-> IF v.end = n THEN [v EXCEPT !.end = Open] ELSE v]
           J == {IF v.end = n THEN [v EXCEPT !.end = Open] ELSE v : v \in I}
<1>1. J = {f[v] : v \in I}
  OBVIOUS
<1>2. \A v \in Interval : f[v].start = v.start /\ f[v].end = IF v.end = n THEN Open ELSE v.end
  BY DEF Interval
<1>3. \A v \in I : v.start \in Nat /\ v.end \in Nat \cup {Open} /\ v \in Interval
  BY DEF Interval
<1> HIDE DEF f, J
<1>4. \A v \in I : /\ f[v].start = v.start
                   /\ v.end # Open /\ v.end < n => f[v].end = v.end
                   /\ f[v].end = Open \/ (v.start <= f[v].end /\ f[v].end <= n)
  BY <1>2, <1>3 DEF ApartSet
<1>5. ApartSet(J, n)
  BY <1>1, <1>4, ApartMap
<1> QED
  BY <1>5 DEF J

LEMMA DeltaApart ==
    ASSUME NEW p \in Projection \cup {NoRoom}, NEW m \in Message, NEW s \in Nat, s > 0,
           p # NoRoom => Apart(p) /\ p.last < s, DeltaApplies(p, m)
    PROVE  Apart(ApplyDelta(p, m, s))
<1> DEFINE b == Base(p, m)
           q == ApplyDelta(p, m, s)
<1>1. b \in Projection /\ b.last \in Nat /\ \A d \in Device : b.intervals[d] \in SUBSET Interval
  BY BaseTyped DEF Projection
<1>2. Apart(b) /\ b.last < s
  <2>1. CASE p = NoRoom
    <3>1. m.sender \in Device /\ m.epoch \in Nat
      BY DEF Message
    <3>2. b = InitialProjection(m.sender, m.epoch, 0, m.epoch = 0)
      BY <2>1 DEF Base
    <3>3. Apart(b)
      BY <3>1, <3>2, InitialApart
    <3>4. b.last = 0
      BY <3>2 DEF InitialProjection
    <3> HIDE DEF b
    <3> QED
      BY <3>3, <3>4
  <2>2. CASE p # NoRoom
    BY <2>2 DEF Base
  <2> QED
    BY <2>1, <2>2
<1>3. \A d \in Added(m) : OpenIntervals(b, d) = {}
  BY DEF DeltaApplies, AddsAdmissible
<1>4. /\ q.last = s
      /\ \A d \in Device : q.intervals[d] = After(b.intervals[d], d \in m.removes, d \in Added(m), s)
  BY ApplyDeltaFields DEF After
<1> HIDE DEF b, q
<1>5. ASSUME NEW d \in Device PROVE ApartSet(q.intervals[d], s)
  <2>1. b.intervals[d] \in SUBSET Interval /\ ApartSet(b.intervals[d], b.last)
    BY <1>1, <1>2 DEF Apart
  <2>2. d \in Added(m) => \A v \in b.intervals[d] : v.end # Open
    BY <1>3 DEF OpenIntervals
  <2>3. (d \in m.removes) \in BOOLEAN /\ (d \in Added(m)) \in BOOLEAN
    OBVIOUS
  <2>4. ApartSet(After(b.intervals[d], d \in m.removes, d \in Added(m), s), s)
    BY <2>1, <2>2, <2>3, <1>1, <1>2, ApartAfter
  <2> QED
    BY <2>4, <1>4
<1>6. Apart(q)
  BY <1>4, <1>5 DEF Apart
<1> QED
  BY <1>6 DEF q

\* A projection with the same intervals, whose head is no older.
LEMMA ApartMoved ==
    ASSUME NEW p \in Projection, Apart(p), NEW q, q.last \in Nat, p.last <= q.last,
           \A d \in Device : q.intervals[d] = p.intervals[d]
    PROVE  Apart(q)
<1> SUFFICES ASSUME NEW d \in Device PROVE ApartSet(q.intervals[d], q.last)
  BY DEF Apart
<1>1. p.intervals[d] \in SUBSET Interval /\ p.last \in Nat /\ ApartSet(p.intervals[d], p.last)
  BY DEF Projection, Apart
<1> QED
  BY <1>1, ApartGrows

LEMMA ApartActivate ==
    ASSUME NEW p \in Projection, Apart(p), NEW d \in Device, NEW s \in Nat
    PROVE  Apart(Activate(p, d, s))
<1> DEFINE q == Activate(p, d, s)
<1>1. /\ q.last = p.last
      /\ \A x \in Device : q.intervals[x] =
                IF x = d THEN Activated(p.intervals[d], {s}) ELSE p.intervals[x]
  BY ActivateFields
<1> HIDE DEF q
<1>2. ASSUME NEW x \in Device PROVE ApartSet(q.intervals[x], q.last)
  <2>1. p.intervals[x] \in SUBSET Interval /\ p.last \in Nat /\ ApartSet(p.intervals[x], p.last)
    BY DEF Projection, Apart
  <2>2. ApartSet(Activated(p.intervals[x], {s}), p.last)
    BY <2>1, ApartActivated
  <2> QED
    BY <2>1, <2>2, <1>1
<1> QED
  BY <1>2 DEF Apart, q

LEMMA ApartWelcomed ==
    ASSUME NEW p \in Projection, Apart(p)
    PROVE  Apart(Welcomed(p))
<1> DEFINE q == Welcomed(p)
<1>1. /\ q.last = p.last
      /\ \A x \in Device : q.intervals[x] =
                Activated(p.intervals[x], {s \in Nat : <<x, s>> \in ackedDisk})
  BY WelcomedFields
<1> HIDE DEF q
<1>2. ASSUME NEW x \in Device PROVE ApartSet(q.intervals[x], q.last)
  <2> DEFINE S == {s \in Nat : <<x, s>> \in ackedDisk}
  <2>1. p.intervals[x] \in SUBSET Interval /\ p.last \in Nat /\ ApartSet(p.intervals[x], p.last)
    BY DEF Projection, Apart
  <2>2. q.intervals[x] = Activated(p.intervals[x], S)
    BY <1>1
  <2> HIDE DEF S
  <2> QED
    BY <2>1, <2>2, <1>1, ApartActivated
<1> QED
  BY <1>2 DEF Apart, q

LEMMA ApartDeparting ==
    ASSUME room \in Projection, Apart(room), NEW a
    PROVE  Apart(Departing(a))
<1> DEFINE q == Departing(a)
<1>1. /\ q.last = room.last
      /\ \A d \in Device : q.intervals[d] =
            IF AccountOf[d] = a THEN EndOpen(room.intervals[d], room.last) ELSE room.intervals[d]
  BY DEF Departing, Projection
<1> HIDE DEF q
<1>2. ASSUME NEW d \in Device PROVE ApartSet(q.intervals[d], q.last)
  <2>1. room.intervals[d] \in SUBSET Interval /\ room.last \in Nat
        /\ ApartSet(room.intervals[d], room.last)
    BY DEF Projection, Apart
  <2>2. ApartSet(EndOpen(room.intervals[d], room.last), room.last)
    BY <2>1, ApartEndOpen
  <2> QED
    BY <2>1, <2>2, <1>1
<1> QED
  BY <1>2 DEF Apart, q

LEMMA ApartRoomStep ==
    ASSUME TypeInv, ApartInv, NEW t \in Thread, RoomStep(t)
    PROVE  room' # NoRoom => Apart(room')
<1> DEFINE j == threads[t]
<1>1. /\ room \in Projection \cup {NoRoom} /\ Len(log) \in Nat /\ Len(log) + 1 \in Nat
      /\ room # NoRoom => room \in Projection /\ room.last \in Nat /\ room.last <= Len(log)
                            /\ Apart(room)
  BY DEF TypeInv, RoomsTyped, KnownRoom, Projection, LogTyped, ApartInv
<1>2. JobTyped(j, Len(log), claimed, room # NoRoom)
  BY DEF TypeInv, JobsTyped
<1>3. CASE CommitFresh(t)
  <2>1. /\ j.message \in Message /\ DeltaApplies(room, j.message)
        /\ room' = ApplyDelta(room, j.message, Len(log) + 1)
    BY <1>3, Appended DEF CommitFresh, CommitAccepted
  <2>2. room # NoRoom => Apart(room) /\ room.last < Len(log) + 1
    BY <1>1
  <2>3. Len(log) + 1 > 0
    BY <1>1
  <2> HIDE DEF j
  <2> QED
    BY <2>1, <2>2, <2>3, <1>1, DeltaApart
<1>4. CASE EventFresh(t)
  <2> DEFINE n == Len(log) + 1
  <2>1. j.pc = "event" /\ (room' = room \/ room' = [room EXCEPT !.last = n])
    BY <1>4 DEF EventFresh, At
  <2>2. room # NoRoom
    BY <2>1, <1>2 DEF JobTyped
  <2>3. n \in Nat /\ room.last <= n /\ room \in Projection
    BY <2>2, <1>1
  <2> HIDE DEF n
  <2>4. (room'.last = room.last \/ room'.last = n) /\ room'.intervals = room.intervals
    BY <2>1, <2>3 DEF Projection
  <2>5. room'.last \in Nat /\ room.last <= room'.last
    BY <2>2, <2>3, <2>4, <1>1
  <2> QED
    BY <2>2, <2>4, <2>5, <1>1, ApartMoved
<1>5. CASE RepairProjection(t)
  BY <1>5 DEF RepairProjection, At, ApartInv
<1>6. CASE Bootstrap(t)
  <2>1. room' = InitialProjection(Creator, NextEpoch, Len(log), TRUE)
    BY <1>6 DEF Bootstrap
  <2>2. NextEpoch \in Nat /\ Creator \in Device
    BY NextEpochTyped, ConfigAssumption, <1>1 DEF TypeInv
  <2> QED
    BY <2>1, <2>2, <1>1, InitialApart
<1>7. CASE LeaveStep(t)
  <2> PICK d \in Device : Leave(t, d) \/ LeaveRefused(t, d)
    BY <1>7 DEF LeaveStep
  <2> DEFINE a == AccountOf[d]
             p == Departing(a)
  <2>1. room # NoRoom
    BY DEF Leave, LeaveRefused, LeaveAllowed
  <2>2. p \in Projection /\ Apart(p) /\ p.last = room.last /\ p.last \in Nat
    BY <2>1, <1>1, DepartingTyped, ApartDeparting
  <2>3. CASE Leave(t, d)
    <3>1. room' = [p EXCEPT !.departed = @ \cup {a}, !.admins = @ \ {a}]
      BY <2>3 DEF Leave
    <3> HIDE DEF p, a
    <3>2. room'.last = p.last /\ room'.intervals = p.intervals
      BY <3>1, <2>2 DEF Projection
    <3> QED
      BY <3>2, <2>2, ApartMoved
  <2>4. CASE LeaveRefused(t, d)
    <3> DEFINE after == [x \in Device |->
            IF AccountOf[x] = a
            THEN {IF v.end = room.last THEN [v EXCEPT !.end = Open] ELSE v : v \in p.intervals[x]}
            ELSE p.intervals[x]]
    <3>1. room' = [p EXCEPT !.intervals = after]
      <4>1. room' = [p EXCEPT !.intervals = [x \in Device |->
            IF AccountOf[x] = a
            THEN {IF v.end = room.last THEN [v EXCEPT !.end = Open] ELSE v : v \in @[x]}
            ELSE @[x]]]
        BY <2>4 DEF LeaveRefused
      <4> HIDE DEF p, a
      <4> QED
        BY <4>1, <2>2 DEF Projection
    <3> HIDE DEF p, a
    <3>2. ASSUME NEW x \in Device PROVE ApartSet(after[x], p.last)
      <4>1. p.intervals[x] \in SUBSET Interval /\ ApartSet(p.intervals[x], p.last)
        BY <2>2 DEF Projection, Apart
      <4>2. ApartSet({IF v.end = p.last THEN [v EXCEPT !.end = Open] ELSE v : v \in p.intervals[x]},
                     p.last)
        BY <4>1, <2>2, ApartReopened
      <4> QED
        BY <4>1, <4>2, <2>2
    <3> HIDE DEF after
    <3>3. room'.last = p.last /\ room'.intervals = after
      BY <3>1, <2>2 DEF Projection
    <3> QED
      BY <3>2, <3>3 DEF Apart
  <2> QED
    BY <2>3, <2>4
<1>8. CASE AdminStep(t)
  <2> PICK d \in Device, a \in Account : GrantAdmin(t, d, a) \/ RevokeAdmin(t, d, a)
    BY <1>8 DEF AdminStep
  <2>1. /\ room # NoRoom
        /\ \/ room' = [room EXCEPT !.admins = @ \cup {a}]
           \/ room' = [room EXCEPT !.admins = @ \ {a}]
    BY DEF GrantAdmin, RevokeAdmin, AdminAllowed
  <2>2. room'.last = room.last /\ room'.intervals = room.intervals
    BY <2>1, <1>1 DEF Projection
  <2> QED
    BY <2>1, <2>2, <1>1, ApartMoved
<1>9. CASE MarkForRepair(t)
  <2> DEFINE p == j.snapshot
  <2>1. /\ j.pc = "report" /\ room' = [p EXCEPT !.status = "repair"]
    BY <1>9 DEF MarkForRepair, At
  <2>2. p \in Projection /\ p.last \in Nat /\ Apart(p)
    BY <2>1, <1>2 DEF JobTyped, KnownRoom, ApartInv, Projection
  <2> HIDE DEF p
  <2>3. room'.last = p.last /\ room'.intervals = p.intervals
    BY <2>1, <2>2 DEF Projection
  <2> QED
    BY <2>2, <2>3, ApartMoved
<1>10. CASE ActivateMembership(t)
  <2> DEFINE w == j.target
  <2>1. j.pc = "activate" /\ room' = IF room = NoRoom THEN NoRoom ELSE Activate(room, w[1], w[2])
    BY <1>10 DEF ActivateMembership, At
  <2>2. w[1] \in Device /\ w[2] \in Nat
    BY <2>1, <1>2 DEF JobTyped, TypeInv, WelcomesTyped
  <2> HIDE DEF w
  <2> QED
    BY <2>1, <2>2, <1>1, ApartActivate
<1> QED
  BY <1>3, <1>4, <1>5, <1>6, <1>7, <1>8, <1>9, <1>10 DEF RoomStep

LEMMA ApartBoot ==
    ASSUME TypeInv, ApartInv, Boot
    PROVE  room' # NoRoom => Apart(room')
<1>1. CASE BootLoad
  BY <1>1 DEF BootLoad, ApartInv
<1>2. CASE BootReplay
  <2> DEFINE i == room.last + 1
  <2>1. /\ room \in Projection /\ room # NoRoom /\ Apart(room) /\ room.last \in Nat
        /\ i \in 1..Len(log) /\ room' = ReplayEntry(room, i)
        /\ log[i].commit => DeltaApplies(room, log[i])
    BY <1>2 DEF BootReplay, ApartInv, TypeInv, RoomsTyped, KnownRoom, Projection, LogTyped
  <2>2. log[i] \in Message /\ i \in Nat /\ i > 0 /\ room.last < i
    BY <2>1 DEF TypeInv, LogTyped
  <2> HIDE DEF i
  <2>3. CASE log[i].commit
    <3>1. room' = ApplyDelta(room, log[i], i)
      BY <2>1, <2>3 DEF ReplayEntry
    <3> QED
      BY <2>1, <2>2, <2>3, <3>1, DeltaApart
  <2>4. CASE ~log[i].commit
    <3>1. room' = [room EXCEPT !.last = i]
      BY <2>1, <2>4 DEF ReplayEntry
    <3>2. room'.last = i /\ room'.intervals = room.intervals
      BY <2>1, <3>1 DEF Projection
    <3>3. room'.last \in Nat /\ room.last <= room'.last
      BY <2>1, <2>2, <3>2
    <3> QED
      BY <2>1, <3>2, <3>3, ApartMoved
  <2> QED
    BY <2>3, <2>4
<1>3. CASE BootReady
  <2>1. room' # NoRoom => room \in Projection /\ Apart(room) /\ room' = Welcomed(room)
    BY <1>3 DEF BootReady, ApartInv, TypeInv, RoomsTyped, KnownRoom
  <2> QED
    BY <2>1, ApartWelcomed
<1> QED
  BY <1>1, <1>2, <1>3 DEF Boot

LEMMA ApartStep ==
    ASSUME TypeInv, ApartInv, NeverReplayed, [Next]_vars
    PROVE  ApartInv'
<1>1. room' # NoRoom => Apart(room')
  <2>1. CASE room' = room
    BY <2>1 DEF ApartInv
  <2>2. CASE Crash
    BY <2>2 DEF Crash
  <2> QED
    BY <2>1, <2>2, ApartBoot, ApartRoomStep, Frames DEF Changes
<1>2. checkpoint' # NoRoom => Apart(checkpoint')
  <2>1. CASE checkpoint' = checkpoint
    BY <2>1 DEF ApartInv
  <2>2. CASE BootReady
    BY <2>2, <1>1 DEF BootReady
  <2>3. CASE \E t \in Thread : SaveCheckpoint(t)
    BY <2>3 DEF SaveCheckpoint, At, ApartInv
  <2> QED
    BY <2>1, <2>2, <2>3, Frames DEF Changes
<1>3. ASSUME NEW t \in Thread
      PROVE  /\ threads'[t].pc \in {"report", "write", "snapshot"} =>
                    (threads'[t].snapshot # NoRoom => Apart(threads'[t].snapshot))
             /\ threads'[t].pc # "repair"
  <2>1. CASE threads'[t] = threads[t]
    BY <2>1 DEF ApartInv
  <2>2. CASE threads'[t] = Idle
    BY <2>2 DEF Idle, Job
  <2>3. CASE NewJob(t)
    BY <2>3 DEF NewJob, ApartInv, CommitReplay, Free, NeverReplayed
  <2> QED
    BY <2>1, <2>2, <2>3, JobsAfter
<1> QED
  BY <1>1, <1>2, <1>3 DEF ApartInv

LEMMA ApartInit == Init => ApartInv
<1> SUFFICES ASSUME Init PROVE ApartInv
  OBVIOUS
<1>1. Apart(InitialProjection(Creator, 0, 0, TRUE))
  BY InitialApart, ConfigAssumption
<1>2. \A t \in Thread : threads[t].pc = "idle"
  BY DEF Init, Idle, Job
<1> QED
  BY <1>1, <1>2 DEF Init, ApartInv

\* A device is a member once, in the live projection and in the saved one: with the
\* endpoints that leave the log to itself, and with all of them but the replay of a
\* recorded Commit.
THEOREM MemberOnce == Spec => [](LogKept \/ NeverReplayed => OneOpenInterval)
<1> DEFINE Inv == NeverReplayed => ApartInv
           Once == LogKept \/ NeverReplayed => OneOpenInterval
<1>1. ASSUME \A p \in {room, checkpoint} \ {NoRoom} : \A d \in Device :
                \A u, v \in OpenIntervals(p, d) : u = v
      PROVE  OneOpenInterval
  <2> SUFFICES ASSUME NEW p \in {room, checkpoint} \ {NoRoom}, NEW d \in Device
               PROVE  Cardinality(OpenIntervals(p, d)) <= 1
    BY DEF OneOpenInterval
  <2>1. CASE OpenIntervals(p, d) = {}
    BY <2>1, FS_EmptySet
  <2>2. CASE OpenIntervals(p, d) # {}
    <3>1. PICK v \in OpenIntervals(p, d) : TRUE
      BY <2>2
    <3>2. OpenIntervals(p, d) = {v}
      BY <3>1, <1>1
    <3> QED
      BY <3>2, FS_Singleton
  <2> QED
    BY <2>1, <2>2
<1>2. KeptInv => OneOpenInterval
  <2> SUFFICES ASSUME KeptInv, NEW p \in {room, checkpoint} \ {NoRoom}, NEW d \in Device,
                      NEW u \in OpenIntervals(p, d), NEW v \in OpenIntervals(p, d)
               PROVE  u = v
    BY <1>1
  <2>1. Tells(log, p.last, d, p.intervals[d])
    BY DEF KeptInv, RoomsFollow, Follows
  <2> QED
    BY <2>1 DEF Tells, OpenIntervals
<1>3. ApartInv => OneOpenInterval
  <2> SUFFICES ASSUME ApartInv, NEW p \in {room, checkpoint} \ {NoRoom}, NEW d \in Device,
                      NEW u \in OpenIntervals(p, d), NEW v \in OpenIntervals(p, d)
               PROVE  u = v
    BY <1>1
  <2>1. ApartSet(p.intervals[d], p.last)
    BY DEF ApartInv, Apart
  <2> QED
    BY <2>1 DEF ApartSet, Before, OpenIntervals
<1>4. Init => Inv
  BY ApartInit
<1>5. TypeInv /\ Inv /\ [Next]_vars => Inv'
  BY ApartStep DEF NeverReplayed
<1>6. Inv /\ (LogKept => KeptInv) => Once
  BY <1>2, <1>3
<1> HIDE DEF Inv
<1>7. Spec => []Inv
  BY <1>4, <1>5, TypeCorrect, PTL DEF Spec
<1> HIDE DEF Once
<1>8. Spec => []Once
  BY <1>6, <1>7, Kept, PTL
<1> QED
  BY <1>8 DEF Once
===============================================================================
