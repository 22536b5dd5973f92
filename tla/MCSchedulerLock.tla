--------------------------- MODULE MCSchedulerLock ---------------------------
(* SchedulerLock with the passes of the burnout alerts as its work, on two *)
(* workers, interchangeable for safety.                                    *)
EXTENDS LockedAlerts, TLC

WorkerSymmetry == Permutations(Workers)
=============================================================================
