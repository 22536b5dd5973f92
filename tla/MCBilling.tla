------------------------------- MODULE MCBilling -------------------------------
(* A user who buys, fails to pay and expires, and an event of somebody else. *)
EXTENDS Billing

Answer(entitled, ends, grace, issue) ==
  [entitled |-> entitled, ends |-> ends, grace |-> grace, issue |-> issue]

MCSubscriber == [v \in Versions |->
  CASE v = 0 -> Answer(FALSE, "none", "none", FALSE)
    [] v = 1 -> Answer(TRUE, "ahead", "none", FALSE)
    [] v = 2 -> Answer(TRUE, "past", "ahead", TRUE)
    [] v = 3 -> Answer(TRUE, "past", "none", FALSE)]
=============================================================================
