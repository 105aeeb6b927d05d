------------------------------ MODULE RuleTable ------------------------------
(***************************************************************************)
(* Request dispatch of go-away (src/lib/http.go, State.handleRequest).     *)
(*                                                                         *)
(* One request walks the ordered rule list.  Each rule whose condition is  *)
(* true applies its action; a continuing action (CONTEXT, NONE) moves on   *)
(* to the next rule, a terminal one ends the walk, an evaluation error     *)
(* writes a 500 page and panics the handler.  When no rule ends the walk   *)
(* the request is passed by default.  Whenever an action hands the request *)
(* to the backend, cleanupRequest strips go-away's query arguments and     *)
(* cookies first and getBackend picks the backend.                         *)
(*                                                                         *)
(* The policy (rule list), the request and the outcome of every rule's     *)
(* condition program are chosen in Init from small sets, so one run checks *)
(* every policy up to MaxRules rules against every request.                *)
(***************************************************************************)
EXTENDS Naturals, Sequences, SequencesExt, FiniteSets

CONSTANTS
  Hosts,         \* request hosts (model values)
  BackendHosts,  \* hosts State.GetBackend has a backend for
  NoHost,        \* a rule without host scope / no backend-host option
  Actions,       \* rule actions a policy may use
  MaxRules       \* longest rule list checked

ASSUME BackendHosts \subseteq Hosts
ASSUME MaxRules \in Nat

(* policy.RuleAction values, split as spec 4.2 splits them.               *)
TerminalActions   == {"PASS", "DROP", "DENY", "BLOCK", "CODE", "CHALLENGE", "CHECK"}
ContinuingActions == {"CONTEXT", "NONE"}
ASSUME Actions \subseteq TerminalActions \cup ContinuingActions

(* Query arguments and cookies of a request; the go-away ones carry       *)
(* challenge.QueryArgPrefix / utils.DefaultCookiePrefix.                  *)
QueryArgs     == {"user", "goawayToken", "goawayReferer"}
GoAwayArgs    == {"goawayToken", "goawayReferer"}
CookieNames   == {"user", "goawayToken"}
GoAwayCookies == {"goawayToken"}

Rule     == [action : Actions, host : Hosts \cup {NoHost}]
Policies == BoundedSeq(Rule, MaxRules)

(* Outcome of a rule's compiled condition on the request.                 *)
CondResults == {"true", "false", "error"}

(* Referer header: the client's, none, or the one carried in the query.   *)
Referers == {"client", "none", "carried"}

Request == [host : Hosts, query : SUBSET QueryArgs, cookies : SUBSET CookieNames,
            referer : {"client", "none"}]

Outcomes == {"pending", "unavailable", "error", "backend", "drop", "deny", "code", "challenge"}

VARIABLES
  rules,       \* State.rules
  req,         \* the request as the handler sees it
  conds,       \* conds[i]: result of rules[i]'s condition program
  tokenValid,  \* EvaluateChallenges found a valid token for the rule's challenges
  pc,          \* "start", "rules", "done"
  i,           \* index of the rule being evaluated
  opt,         \* RequestOptBackendHost set by a CONTEXT action
  outcome,     \* how the request ended
  served,      \* host whose backend handled the request
  backendReq   \* the request handed to the backend

vars == <<rules, req, conds, tokenValid, pc, i, opt, outcome, served, backendReq>>

Init ==
  /\ rules \in Policies
  /\ req \in Request
  /\ conds \in [1..Len(rules) -> CondResults]
  /\ tokenValid \in BOOLEAN
  /\ pc = "start"
  /\ i = 1
  /\ opt = NoHost
  /\ outcome = "pending"
  /\ served = NoHost
  /\ backendReq = req

-----------------------------------------------------------------------------
(* cleanupRequest: drop the Referer of a request coming from a rule,      *)
(* restore the one go-away carried in its query, delete go-away query     *)
(* arguments and cookies.                                                 *)
Cleanup(r, fromChallenge) ==
  [r EXCEPT
     !.referer = IF "goawayReferer" \in r.query THEN "carried"
                 ELSE IF fromChallenge THEN "none" ELSE r.referer,
     !.query   = r.query \ GoAwayArgs,
     !.cookies = r.cookies \ GoAwayCookies]

(* getBackend: the backend-host option, when set to another host, is      *)
(* looked up with State.GetBackend(host), the request's own host, which   *)
(* handleRequest has already found to exist.                              *)
GetBackend(host, option) ==
  IF option # NoHost /\ option # host
  THEN (IF host \in BackendHosts THEN host ELSE NoHost)
  ELSE host

(* The backend callback passed to rule.Evaluate and action.Pass.          *)
ServeBackend(fromChallenge) ==
  LET b == GetBackend(req.host, opt) IN
  /\ backendReq' = Cleanup(req, fromChallenge)
  /\ served' = b
  /\ outcome' = IF b = NoHost THEN "unavailable" ELSE "backend"

(* Terminal action that does not reach the backend.                       *)
Refusal(action) ==
  CASE action = "DROP" -> "drop"
    [] action \in {"DENY", "BLOCK"} -> "deny"
    [] action = "CODE" -> "code"
    [] action \in {"CHALLENGE", "CHECK"} -> "challenge"

-----------------------------------------------------------------------------
(* handleRequest entry: no backend for the host is a 503.                 *)
Start ==
  /\ pc = "start"
  /\ IF req.host \in BackendHosts
     THEN /\ pc' = "rules"
          /\ UNCHANGED <<outcome>>
     ELSE /\ pc' = "done"
          /\ outcome' = "unavailable"
  /\ UNCHANGED <<rules, req, conds, tokenValid, i, opt, served, backendReq>>

(* rule.Evaluate on a rule that does not match: next rule.                *)
SkipRule ==
  /\ pc = "rules"
  /\ i <= Len(rules)
  /\ \/ conds[i] = "false"
     \/ rules[i].host \notin {NoHost, req.host}
  /\ i' = i + 1
  /\ UNCHANGED <<rules, req, conds, tokenValid, pc, opt, outcome, served, backendReq>>

(* Mutant: an evaluation error is logged and the rule skipped.            *)
RuleErrorSkips ==
  /\ pc = "rules"
  /\ i <= Len(rules)
  /\ rules[i].host \in {NoHost, req.host}
  /\ conds[i] = "error"
  /\ i' = i + 1
  /\ UNCHANGED <<rules, req, conds, tokenValid, pc, opt, outcome, served, backendReq>>

(* Mutant: the request ends without the error page being written.         *)
RuleErrorNoPage ==
  /\ pc = "rules"
  /\ i <= Len(rules)
  /\ rules[i].host \in {NoHost, req.host}
  /\ conds[i] = "error"
  /\ pc' = "done"
  /\ UNCHANGED <<rules, req, conds, tokenValid, i, opt, outcome, served, backendReq>>

(* An evaluation error: ErrorPage 500, then panic(err).                   *)
RuleError ==
  /\ pc = "rules"
  /\ i <= Len(rules)
  /\ rules[i].host \in {NoHost, req.host}
  /\ conds[i] = "error"
  /\ pc' = "done"
  /\ outcome' = "error"
  /\ UNCHANGED <<rules, req, conds, tokenValid, i, opt, served, backendReq>>

(* A matching continuing action: CONTEXT may set the backend-host option. *)
ContinueRule ==
  /\ pc = "rules"
  /\ i <= Len(rules)
  /\ rules[i].host \in {NoHost, req.host}
  /\ conds[i] = "true"
  /\ rules[i].action \in ContinuingActions
  /\ \/ /\ rules[i].action = "CONTEXT"
        /\ \E o \in Hosts \cup {NoHost} : opt' = o
     \/ /\ rules[i].action = "NONE"
        /\ UNCHANGED opt
  /\ i' = i + 1
  /\ UNCHANGED <<rules, req, conds, tokenValid, pc, outcome, served, backendReq>>

(* A matching terminal action.  PASS, and CHALLENGE/CHECK with a valid    *)
(* token, call the backend callback with fromChallenge = TRUE.            *)
TerminalRule ==
  /\ pc = "rules"
  /\ i <= Len(rules)
  /\ rules[i].host \in {NoHost, req.host}
  /\ conds[i] = "true"
  /\ rules[i].action \in TerminalActions
  /\ pc' = "done"
  /\ IF \/ rules[i].action = "PASS"
        \/ rules[i].action \in {"CHALLENGE", "CHECK"} /\ tokenValid
     THEN ServeBackend(TRUE)
     ELSE /\ outcome' = Refusal(rules[i].action)
          /\ UNCHANGED <<served, backendReq>>
  /\ UNCHANGED <<rules, req, conds, tokenValid, i, opt>>

(* No rule ended the walk: action.Pass with fromChallenge = FALSE.        *)
DefaultPass ==
  /\ pc = "rules"
  /\ i > Len(rules)
  /\ pc' = "done"
  /\ ServeBackend(FALSE)
  /\ UNCHANGED <<rules, req, conds, tokenValid, i, opt>>

Next == Start \/ SkipRule \/ RuleError \/ ContinueRule \/ TerminalRule \/ DefaultPass

Spec == Init /\ [][Next]_vars /\ WF_vars(Next)

-----------------------------------------------------------------------------
(* Every request ends with exactly one response, and the walk never goes  *)
(* past the end of the rule list (handleRequest's returns).               *)
TypeOK ==
  /\ rules \in Policies
  /\ req \in Request
  /\ pc \in {"start", "rules", "done"}
  /\ i \in 1..Len(rules) + 1
  /\ opt \in Hosts \cup {NoHost}
  /\ outcome \in Outcomes
  /\ served \in Hosts \cup {NoHost}
  /\ backendReq \in [host : Hosts, query : SUBSET QueryArgs,
                     cookies : SUBSET CookieNames, referer : Referers]
  /\ (pc = "done") = (outcome # "pending")

(* Reference decision of spec 4.2: the first rule in scope whose          *)
(* condition errs, or is true with a terminal action, decides; none       *)
(* deciding is PASS.  Written over the whole list at once.                *)
Decides(host, e) ==
  /\ e.rule.host \in {NoHost, host}
  /\ \/ e.cond = "error"
     \/ e.cond = "true" /\ e.rule.action \in TerminalActions

ExpectedOutcome(rs, cs, r, tv) ==
  LET entries == [k \in 1..Len(rs) |-> [rule |-> rs[k], cond |-> cs[k]]]
      first   == SelectInSeq(entries, LAMBDA e : Decides(r.host, e))
      rule    == rs[first]
  IN  IF r.host \notin BackendHosts THEN "unavailable"
      ELSE IF first = 0 THEN "backend"
      ELSE IF cs[first] = "error" THEN "error"
      ELSE IF rule.action = "PASS" \/ (rule.action \in {"CHALLENGE", "CHECK"} /\ tv)
           THEN "backend"
      ELSE Refusal(rule.action)

(* The rule loop of handleRequest, with its continue/return on next and   *)
(* err and the default pass after it, ends every request the way the     *)
(* reference decision says.                                               *)
DecisionMatchesPolicy ==
  pc = "done" => outcome = ExpectedOutcome(rules, conds, req, tokenValid)

=============================================================================
