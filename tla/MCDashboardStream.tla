------------------------- MODULE MCDashboardStream -------------------------
(* Small instances of DashboardStream for TLC. *)
EXTENDS DashboardStream
CONSTANTS phone, wall
MCClients == {phone, wall}
MCPhone == {phone}
=============================================================================
