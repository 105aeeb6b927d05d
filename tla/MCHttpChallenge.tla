--------------------------- MODULE MCHttpChallenge ---------------------------
(* Two session cookie values and the absent cookie as model values.       *)
EXTENDS HttpChallenge

CONSTANTS v1, v2

MCValues == {v1, v2}
=============================================================================
