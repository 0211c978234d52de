----------------------------- MODULE ChatDelivery -----------------------------
(***************************************************************************)
(* What the Finite Chat delivery service promises for one room, as its     *)
(* reference implementation (finitechat-delivery, HttpDeliveryService)     *)
(* keeps it: a group route whose sequence numbers are dense and never      *)
(* reused, a message id that is appended once and replayed afterwards, one *)
(* Commit for each source epoch, and KeyPackages that are consumed once.   *)
(* A typed Commit publishes to the group route and to the inbox of every   *)
(* device it adds in one batch.                                            *)
(*                                                                         *)
(* ChatRoom, the server with its threads, its volatile projection and its  *)
(* database, is shown to implement this module.                            *)
(***************************************************************************)
EXTENDS Naturals, Sequences

CONSTANTS Id,           \* message ids (also the idempotency keys)
          Device,
          Package,      \* KeyPackage ids
          Epoch,        \* source epochs
          NoEpoch,      \* the admission of a message that is no Commit
          MaxQueue      \* max_queue_entries_per_route

VARIABLES
    group,      \* the group route: a sequence of [id, epoch]
    inbox,      \* per device, the sequence numbers of the Commits that welcome it
    consumed    \* the KeyPackages a Commit has used

vars == <<group, inbox, consumed>>

Init ==
    /\ group = << >>
    /\ inbox = [d \in Device |-> {}]
    /\ consumed = {}

\* DeliveryQueue::check_append: a known id is replayed, not appended; a Commit
\* whose epoch was admitted is stale; a full queue refuses.
CheckAppend(m, e) ==
    /\ \A i \in 1..Len(group) : group[i].id # m
    /\ e # NoEpoch => \A i \in 1..Len(group) : group[i].epoch # e
    /\ Len(group) < MaxQueue

\* A message that is no Commit.
Publish(m) ==
    /\ CheckAppend(m, NoEpoch)
    /\ group' = Append(group, [id |-> m, epoch |-> NoEpoch])
    /\ UNCHANGED <<inbox, consumed>>

\* A Commit, the Welcomes of the devices it adds and the KeyPackages it uses.
PublishCommit(m, e) ==
    /\ CheckAppend(m, e)
    /\ group' = Append(group, [id |-> m, epoch |-> e])
    /\ \E added \in SUBSET Device :
        inbox' = [d \in Device |->
                    IF d \in added THEN inbox[d] \cup {Len(group) + 1} ELSE inbox[d]]
    /\ \E used \in SUBSET (Package \ consumed) : consumed' = consumed \cup used

\* A package leaves circulation without a Commit (a newer one supersedes it).
Retire ==
    /\ \E used \in SUBSET (Package \ consumed) : consumed' = consumed \cup used
    /\ UNCHANGED <<group, inbox>>

Next ==
    \/ \E m \in Id : Publish(m) \/ \E e \in Epoch : PublishCommit(m, e)
    \/ Retire

Spec == Init /\ [][Next]_vars
===============================================================================
