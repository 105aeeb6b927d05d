------------------------------ MODULE MCStartup ------------------------------
(* Model values for Startup: two client connections.                      *)
EXTENDS Startup, TLC

CONSTANTS r1, r2

MCRequests == {r1, r2}
====
