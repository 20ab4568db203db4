---------------------------- MODULE MCScanEngine ----------------------------
(* The instance of ScanEngine for TLC: its scans are interchangeable. *)
EXTENDS ScanEngine, TLC

ScanSymmetry == Permutations(Scans)

=============================================================================
