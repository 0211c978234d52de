-------------------------- MODULE MCTrialResidency --------------------------
(* Small instances of TrialResidency for TLC. *)
EXTENDS TrialResidency

CONSTANTS MaxRequests, SupportedKinds

MCRequestIds == 1..MaxRequests
MCSupported == [r \in Runtimes |-> SupportedKinds]
=============================================================================
