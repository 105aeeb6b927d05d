---------------------------- MODULE MCWasmRunner ----------------------------
(* Two concurrent requests on one wasm challenge.                          *)
EXTENDS WasmRunner

CONSTANTS q1, q2

MCRequests == {q1, q2}
=============================================================================
