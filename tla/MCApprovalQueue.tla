--------------------------- MODULE MCApprovalQueue ---------------------------
(* Instances of ApprovalQueue for TLC. *)
EXTENDS ApprovalQueue

CONSTANTS a1, a2
=============================================================================
