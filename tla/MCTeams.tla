------------------------------ MODULE MCTeams ------------------------------
(* Model checking of Teams: two programs from boot, and what they spawn.   *)
EXTENDS Teams, TLC

MCImages == <<100, 101>>
=============================================================================
