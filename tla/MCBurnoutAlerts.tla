--------------------------- MODULE MCBurnoutAlerts ---------------------------
(* BurnoutAlerts over two days, with a profile that is edited.             *)
EXTENDS BurnoutAlerts

CONSTANTS p1, p2

\* The first profile is at risk on both days, the second on the first day.
MCRisky == {<<p1, 0>>, <<p1, 1>>, <<p2, 0>>}
=============================================================================
