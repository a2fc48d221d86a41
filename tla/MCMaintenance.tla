---------------------------- MODULE MCMaintenance ----------------------------
(* A small instance of Maintenance for TLC.                                *)
EXTENDS Maintenance

CONSTANTS m1, m2, m3

MCQueries == {{m1, m2, m3}, {m2, m3}}

=============================================================================
