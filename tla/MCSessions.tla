------------------------------ MODULE MCSessions ------------------------------
(* Sessions of four users served by two requests at a time.                *)
EXTENDS Sessions, TLC

UserSymmetry == Permutations(Users) \cup Permutations(Requests)
=============================================================================
