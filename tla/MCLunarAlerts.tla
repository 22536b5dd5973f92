--------------------------- MODULE MCLunarAlerts ---------------------------
(* LunarAlerts over two days, with a profile that is edited.               *)
EXTENDS LunarAlerts

CONSTANTS p1, p2

\* The first profile is in range on both days, the second on the first day.
MCRisky == {<<p1, 0>>, <<p1, 1>>, <<p2, 0>>}
=============================================================================
