---------------------------- MODULE MCScanIntake ----------------------------
(* The instance of ScanIntake for TLC: requests and tokens are interchangeable. *)
EXTENDS ScanIntake, TLC

IntakeSymmetry == Permutations(Requests) \cup Permutations(Tokens)

=============================================================================
