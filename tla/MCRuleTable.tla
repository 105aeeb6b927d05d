---------------------------- MODULE MCRuleTable ----------------------------
(* Model values for RuleTable: two hosts, of which only h1 has a backend   *)
(* in the safety run; h2 has one too in the override run.                 *)
EXTENDS RuleTable, TLC

CONSTANTS h1, h2

MCHosts == {h1, h2}
====
