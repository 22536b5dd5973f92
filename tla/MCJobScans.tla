------------------------------ MODULE MCJobScans ------------------------------
(* One user's scans, served two at a time.                                 *)
EXTENDS JobScans, TLC

ScanSymmetry == Permutations(Scans)
=============================================================================
