------------------------------ MODULE WasmRunner ------------------------------
(***************************************************************************)
(* The wasm sandbox runner (src/lib/challenge/wasm/runner.go) and the wasm *)
(* runtime of a challenge (src/lib/state.go, NewState case "wasm").        *)
(*                                                                         *)
(* At load, Runner.Compile compiles the challenge's guest module and       *)
(* checks its exported interface; an error fails NewState.  Per request,   *)
(* ServeMakeChallenge and Verify call Runner.Instantiate, which            *)
(* instantiates the compiled module in the shared wazero runtime under the *)
(* module name WithName(challengeName), runs the guest export and closes   *)
(* the instance when the callback returns.  wazero keeps one live module   *)
(* per name in a runtime: InstantiateModule fails while a module of the    *)
(* same name is still open.  Requests are served concurrently.             *)
(***************************************************************************)
EXTENDS Naturals, Sequences, SequencesExt, FiniteSets

CONSTANTS
  Requests,   \* concurrent request goroutines using the challenge (model values)
  NoRequest   \* no live instance

(* The four exports the host calls, in the order Compile checks them.     *)
Checked == <<"MakeChallenge", "VerifyChallenge", "malloc", "free">>
Fns == Range(Checked)

(* A wasm function type; "absent" when the module does not export it.     *)
Signatures == [params : {<<"i32">>, <<"i64">>}, results : {<<>>, <<"i32">>, <<"i64">>}]
Absent == [params |-> <<>>, results |-> <<>>]
Exports == [Fns -> Signatures \cup {Absent}]

(* What a guest export returns: VerifyChallenge's three output codes, the  *)
(* status of a MakeChallenge page, or a trap / error of the call.         *)
GuestOutcomes == {"OK", "FAIL", "ERROR", "trap"}

VARIABLES
  exports,   \* exported functions of the challenge's guest binary
  loaded,    \* Compile: "pending", "ok", "rejected"
  live,      \* request whose instance holds the module name, or NoRequest
  rpc,       \* per request: "idle", "running", "done"
  kind,      \* per request: "make" (ServeMakeChallenge) or "verify" (Verify)
  guest,     \* per request: what its guest call returned, or "none"
  rout       \* per request: "none", "served", "pass", "fail", "error"

vars == <<exports, loaded, live, rpc, kind, guest, rout>>

Init ==
  /\ exports \in Exports
  /\ loaded = "pending"
  /\ live = NoRequest
  /\ rpc = [r \in Requests |-> "idle"]
  /\ kind \in [Requests -> {"make", "verify"}]
  /\ guest = [r \in Requests |-> "none"]
  /\ rout = [r \in Requests |-> "none"]

-----------------------------------------------------------------------------
(* The signature Compile requires of each export.                          *)
Wanted ==
  [f \in Fns |->
     CASE f \in {"MakeChallenge", "VerifyChallenge"} -> [params |-> <<"i64">>, results |-> <<"i64">>]
       [] f = "malloc" -> [params |-> <<"i32">>, results |-> <<"i32">>]
       [] f = "free"   -> [params |-> <<"i32">>, results |-> <<>>]]

(* Mutant: free's result types are not compared.                          *)
CheckFailsNoFreeResult(e, f) ==
  \/ e[f] = Absent
  \/ e[f].params # Wanted[f].params
  \/ f # "free" /\ e[f].results # Wanted[f].results

(* One export's check in Compile: missing, or slices.Compare of its        *)
(* parameter or result types with the wanted ones non-zero.               *)
CheckFails(e, f) ==
  \/ e[f] = Absent
  \/ e[f].params # Wanted[f].params
  \/ e[f].results # Wanted[f].results

(* Runner.Compile: the exports are checked in order and the first failing *)
(* check returns its error; with none, the module is kept under its key.   *)
CompileError(e) == SelectInSeq(Checked, LAMBDA f : CheckFails(e, f))

(* NewState, case "wasm": read the runtime asset and Compile it.          *)
Compile ==
  /\ loaded = "pending"
  /\ loaded' = IF CompileError(exports) = 0 THEN "ok" ELSE "rejected"
  /\ UNCHANGED <<exports, live, rpc, kind, guest, rout>>

(* Mutant: a failed instantiation returns without an error page.         *)
InstantiateNoErrorPage(r) ==
  /\ loaded = "ok" /\ rpc[r] = "idle"
  /\ IF live = NoRequest
     THEN /\ live' = r
          /\ rpc' = [rpc EXCEPT ![r] = "running"]
     ELSE /\ rpc' = [rpc EXCEPT ![r] = "done"]
          /\ UNCHANGED live
  /\ UNCHANGED <<exports, loaded, kind, guest, rout>>

(* Runner.Instantiate: InstantiateModule under the challenge's name.  With *)
(* that name live, wazero returns an error, which ServeMakeChallenge turns *)
(* into a 500 page and Verify returns as (false, err).                    *)
Instantiate(r) ==
  /\ loaded = "ok" /\ rpc[r] = "idle"
  /\ IF live = NoRequest
     THEN /\ live' = r
          /\ rpc' = [rpc EXCEPT ![r] = "running"]
          /\ UNCHANGED rout
     ELSE /\ rpc' = [rpc EXCEPT ![r] = "done"]
          /\ rout' = [rout EXCEPT ![r] = "error"]
          /\ UNCHANGED live
  /\ UNCHANGED <<exports, loaded, kind, guest>>

(* What the request makes of the guest call: ServeMakeChallenge writes    *)
(* the guest's response or a 500 page on error; Verify maps the ERROR     *)
(* output to an error and passes on OK only.                              *)
Verdict(k, g) ==
  CASE g = "trap" -> "error"
    [] k = "make" -> "served"
    [] g = "ERROR" -> "error"
    [] g = "OK" -> "pass"
    [] OTHER -> "fail"

(* The callback runs the guest export (MakeChallengeCall or               *)
(* VerifyChallengeCall) and returns; the deferred mod.Close frees the     *)
(* module name.                                                           *)
Call(r) ==
  /\ rpc[r] = "running"
  /\ \E g \in GuestOutcomes :
       /\ guest' = [guest EXCEPT ![r] = g]
       /\ rout' = [rout EXCEPT ![r] = Verdict(kind[r], g)]
  /\ rpc' = [rpc EXCEPT ![r] = "done"]
  /\ live' = NoRequest
  /\ UNCHANGED <<exports, loaded, kind>>

Next ==
  \/ Compile
  \/ \E r \in Requests : Instantiate(r) \/ Call(r)

(* Loading runs; every instantiated guest call returns (its running time  *)
(* is not bounded by the host, see the README).                           *)
Spec == Init /\ [][Next]_vars /\ WF_vars(Compile) /\ \A r \in Requests : WF_vars(Call(r))

-----------------------------------------------------------------------------
(* Every finished request has been answered.                               *)
TypeOK ==
  /\ exports \in Exports
  /\ loaded \in {"pending", "ok", "rejected"}
  /\ live \in Requests \cup {NoRequest}
  /\ rpc \in [Requests -> {"idle", "running", "done"}]
  /\ kind \in [Requests -> {"make", "verify"}]
  /\ guest \in [Requests -> GuestOutcomes \cup {"none"}]
  /\ rout \in [Requests -> {"none", "served", "pass", "fail", "error"}]
  /\ \A r \in Requests : (rpc[r] = "done") = (rout[r] # "none")

(* Spec 4.5: a guest must export exactly MakeChallenge(i64)->i64,          *)
(* VerifyChallenge(i64)->i64, malloc(i32)->i32 and free(i32)->void, and a   *)
(* module failing the interface check is rejected at load.                 *)
SpecInterface(e) ==
  /\ e["MakeChallenge"] = [params |-> <<"i64">>, results |-> <<"i64">>]
  /\ e["VerifyChallenge"] = [params |-> <<"i64">>, results |-> <<"i64">>]
  /\ e["malloc"] = [params |-> <<"i32">>, results |-> <<"i32">>]
  /\ e["free"] = [params |-> <<"i32">>, results |-> <<>>]

(* Compile accepts exactly the guests with the spec's interface: no guest  *)
(* with a missing export or a wrong parameter or result type is ever       *)
(* instantiated, and none with the right one is refused.                   *)
CompileMatchesInterface ==
  loaded # "pending" => ((loaded = "ok") <=> SpecInterface(exports))

(* Spec 4.5 and 5: independent invocations are isolated and each request   *)
(* is served on its own; an invocation fails only through its own guest   *)
(* call, never because another request uses the same challenge.            *)
InvocationsIndependent ==
  \A r \in Requests : rout[r] = "error" => guest[r] \in {"ERROR", "trap"}
=============================================================================
