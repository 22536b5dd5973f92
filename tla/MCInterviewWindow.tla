---------------------------- MODULE MCInterviewWindow ----------------------------
(* Two profiles whose slots of a day begin at the same time on even days. *)
EXTENDS InterviewWindow, TLC

CONSTANTS p1, p2, r1, w

MCWorkdays == Days \ {3}
MCScore == [p \in Profiles |-> [d \in Days |->
  IF p = p1 THEN IF d % 3 = 0 THEN 90 ELSE 70
  ELSE IF d % 2 = 0 THEN 65 ELSE 60]]
MCStart == [p \in Profiles |-> [d \in Days |-> IF p = p1 \/ d % 2 = 0 THEN 1 ELSE 2]]
=============================================================================
