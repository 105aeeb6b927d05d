--------------------------- MODULE MCChallengeLoad ---------------------------
(* Model values for ChallengeLoad: a policy with two challenges, so both  *)
(* map iteration orders occur, and a name no challenge has.               *)
EXTENDS ChallengeLoad, TLC

CONSTANTS a, b

MCNames == {a, b}
====
