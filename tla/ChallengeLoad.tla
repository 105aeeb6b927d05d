---------------------------- MODULE ChallengeLoad ----------------------------
(***************************************************************************)
(* Loading a policy into a State (src/lib/state.go, NewState).            *)
(*                                                                         *)
(* NewState runs its checks in a fixed order and returns the first error:  *)
(* key seed, challenge template, network lists, condition aliases, then    *)
(* one challenge after another in Go map iteration order (ids come from a  *)
(* counter in that order), then the rules in policy order, which resolve   *)
(* challenge names to ids.  Each part of the policy is chosen when the     *)
(* code first reads it, and kept in a history variable, so failed loads    *)
(* end early and the reference validity can be evaluated on what was read. *)
(***************************************************************************)
EXTENDS Naturals, Sequences, SequencesExt, FiniteSets

CONSTANTS
  Names,      \* challenge names of the policy (model values)
  Unknown,    \* a challenge name a rule may mention that the policy lacks
  MaxRules    \* longest rule list

ASSUME Unknown \notin Names

Ids == 1..Cardinality(Names)

(* Settings and policy parts, by what the code distinguishes.             *)
Seeds     == {"none", "ok", "short"}              \* PrivateKeySeed length 0, 32, other
Templates == {"builtin", "file", "file-bad", "missing"}
Networks  == {"ok", "fetch-fails", "insert-fails"}
Modes     == {"http", "http-nourl", "cookie", "bogus"}  \* p.Mode and p.Url
Runtimes  == {"", "key", "wasm", "wasm-noasset", "wasm-badabi", "bogus"}
Probs     == {0, 50, 150}                         \* p.Runtime.Probability in percent

ChallengeConfig == [mode : Modes, runtime : Runtimes, prob : Probs, condOk : BOOLEAN]
GatingActions == {"CHALLENGE", "CHECK"}
RuleConfig == [action : {"CHALLENGE", "PASS"},
               challenges : BoundedSeq(Names \cup {Unknown}, 1),
               condOk : BOOLEAN]

NoCfg == "unset"

VARIABLES
  pc,         \* NewState's position
  seedCfg, tmplCfg, netCfg, aliasOk,   \* settings and policy parts read so far
  chalCfg,    \* the policy of each challenge read so far (a partial function)
  ruleCfg,    \* the rules read so far
  pending,    \* challenge names the map iteration has not yet visited
  idCounter,
  registry,   \* state.Challenges: id -> name and VerifyProbability (percent)
  rules       \* state.Rules: the challenge ids of each compiled rule

vars == <<pc, seedCfg, tmplCfg, netCfg, aliasOk, chalCfg, ruleCfg, pending,
          idCounter, registry, rules>>

policyVars == <<seedCfg, tmplCfg, netCfg, aliasOk, chalCfg, ruleCfg>>
stateVars  == <<pending, idCounter, registry, rules>>

Init ==
  /\ pc = "seed"
  /\ seedCfg = NoCfg /\ tmplCfg = NoCfg /\ netCfg = NoCfg /\ aliasOk = NoCfg
  /\ chalCfg = << >>
  /\ ruleCfg = << >>
  /\ pending = Names
  /\ idCounter = 1
  /\ registry = << >>
  /\ rules = << >>

-----------------------------------------------------------------------------
(* An error return of NewState.                                           *)
Fail == pc' = "failed"

(* ed25519 seed: empty means a random key, else it must be 32 bytes.      *)
CheckSeed ==
  /\ pc = "seed"
  /\ \E s \in Seeds :
       /\ seedCfg' = s
       /\ IF s = "short" THEN Fail ELSE pc' = "template"
  /\ UNCHANGED <<tmplCfg, netCfg, aliasOk, chalCfg, ruleCfg>> /\ UNCHANGED stateVars

(* A template not built in is read from a file and initTemplate'd; the    *)
(* "no template defined" error is then returned whatever happened.        *)
CheckTemplate ==
  /\ pc = "template"
  /\ \E t \in Templates :
       /\ tmplCfg' = t
       /\ IF t = "builtin" THEN pc' = "networks" ELSE Fail
  /\ UNCHANGED <<seedCfg, netCfg, aliasOk, chalCfg, ruleCfg>> /\ UNCHANGED stateVars

(* Network prefix lists: a failed fetch skips the entry, a prefix the     *)
(* ranger refuses is an error.                                            *)
LoadNetworks ==
  /\ pc = "networks"
  /\ \E nw \in Networks :
       /\ netCfg' = nw
       /\ IF nw = "insert-fails" THEN Fail ELSE pc' = "aliases"
  /\ UNCHANGED <<seedCfg, tmplCfg, aliasOk, chalCfg, ruleCfg>> /\ UNCHANGED stateVars

(* Condition aliases are compiled and printed for the replacer.           *)
CompileAliases ==
  /\ pc = "aliases"
  /\ \E a \in {"ok", "fails"} :
       /\ aliasOk' = a
       /\ IF a = "ok" THEN pc' = "challenges" ELSE Fail
  /\ UNCHANGED <<seedCfg, tmplCfg, netCfg, chalCfg, ruleCfg>> /\ UNCHANGED stateVars

(* Mutant: probabilities above 1 are kept.                               *)
ClampProbabilityNoCeiling(p) ==
  IF p <= 0 THEN 10 ELSE p

(* VerifyProbability <= 0 becomes the 10% default, > 1 becomes 1.         *)
ClampProbability(p) ==
  IF p <= 0 THEN 10 ELSE IF p > 100 THEN 100 ELSE p

(* The error return, if any, of one challenge's load: its conditions,     *)
(* then the mode switch, then the runtime switch with the wasm asset      *)
(* read and Runner.Compile.                                               *)
ChallengeFails(cfg) ==
  \/ ~cfg.condOk
  \/ cfg.mode \in {"bogus", "http-nourl"}
  \/ cfg.runtime \in {"bogus", "wasm-noasset", "wasm-badabi"}

(* Mutant: the id counter is not advanced.                                *)
LoadChallengeSameId ==
  /\ pc = "challenges"
  /\ pending # {}
  /\ \E n \in pending, cfg \in ChallengeConfig :
       /\ chalCfg' = chalCfg @@ (n :> cfg)
       /\ UNCHANGED idCounter
       /\ IF ChallengeFails(cfg)
          THEN Fail /\ UNCHANGED <<pending, registry>>
          ELSE /\ pending' = pending \ {n}
               /\ registry' = (idCounter :> [name |-> n, prob |-> ClampProbability(cfg.prob)])
                                @@ registry
               /\ UNCHANGED pc
  /\ UNCHANGED <<seedCfg, tmplCfg, netCfg, aliasOk, ruleCfg, rules>>

(* One iteration of the loop over p.Challenges, in map order: the id is   *)
(* taken from the counter, the probability clamped, the challenge stored  *)
(* in state.Challenges under its id.                                      *)
LoadChallenge ==
  /\ pc = "challenges"
  /\ pending # {}
  /\ \E n \in pending, cfg \in ChallengeConfig :
       /\ chalCfg' = chalCfg @@ (n :> cfg)
       /\ idCounter' = idCounter + 1
       /\ IF ChallengeFails(cfg)
          THEN Fail /\ UNCHANGED <<pending, registry>>
          ELSE /\ pending' = pending \ {n}
               /\ registry' = (idCounter :> [name |-> n, prob |-> ClampProbability(cfg.prob)])
                                @@ registry
               /\ UNCHANGED pc
  /\ UNCHANGED <<seedCfg, tmplCfg, netCfg, aliasOk, ruleCfg, rules>>

(* The challenge loop is done when the map is exhausted.                  *)
ChallengesDone ==
  /\ pc = "challenges"
  /\ pending = {}
  /\ pc' = "rules"
  /\ UNCHANGED policyVars /\ UNCHANGED stateVars

(* GetChallengeByName: a stored challenge of that name, by its id; 0 if   *)
(* there is none.                                                         *)
Stored == DOMAIN registry
ChallengeByName(name) ==
  IF \E id \in Stored : registry[id].name = name
  THEN CHOOSE id \in Stored : registry[id].name = name
  ELSE 0

(* Mutant: a gating rule with no challenges is accepted.                  *)
RuleFailsEmptyAllowed(cfg) ==
  \/ \E k \in 1..Len(cfg.challenges) : ChallengeByName(cfg.challenges[k]) = 0
  \/ ~cfg.condOk

(* The error return, if any, of one rule: an unknown challenge name, a    *)
(* gating action with no challenges, conditions that do not compile.      *)
RuleFails(cfg) ==
  \/ \E k \in 1..Len(cfg.challenges) : ChallengeByName(cfg.challenges[k]) = 0
  \/ cfg.action \in GatingActions /\ cfg.challenges = << >>
  \/ ~cfg.condOk

(* One iteration of the loop over p.Rules.                                *)
LoadRule ==
  /\ pc = "rules"
  /\ Len(ruleCfg) < MaxRules
  /\ \E cfg \in RuleConfig :
       /\ ruleCfg' = Append(ruleCfg, cfg)
       /\ IF RuleFails(cfg)
          THEN /\ Fail
               /\ UNCHANGED rules
          ELSE /\ rules' = Append(rules, [i \in 1..Len(cfg.challenges) |->
                                            ChallengeByName(cfg.challenges[i])])
               /\ UNCHANGED pc
  /\ UNCHANGED <<seedCfg, tmplCfg, netCfg, aliasOk, chalCfg>>
  /\ UNCHANGED <<pending, idCounter, registry>>

(* The policy has no more rules: the mux is set up and the state returned. *)
Finish ==
  /\ pc = "rules"
  /\ pc' = "done"
  /\ UNCHANGED policyVars /\ UNCHANGED stateVars

Next ==
  \/ CheckSeed \/ CheckTemplate \/ LoadNetworks \/ CompileAliases
  \/ LoadChallenge \/ ChallengesDone \/ LoadRule \/ Finish

Spec == Init /\ [][Next]_vars /\ WF_vars(Next)

-----------------------------------------------------------------------------
TypeOK ==
  /\ pc \in {"seed", "template", "networks", "aliases", "challenges", "rules",
             "done", "failed"}
  /\ seedCfg \in Seeds \cup {NoCfg}
  /\ tmplCfg \in Templates \cup {NoCfg}
  /\ DOMAIN chalCfg \subseteq Names
  /\ \A n \in DOMAIN chalCfg : chalCfg[n] \in ChallengeConfig
  /\ ruleCfg \in Seq(RuleConfig)
  /\ pending \subseteq Names
  /\ idCounter \in 1..Cardinality(Names) + 1
  /\ DOMAIN registry \subseteq Ids
  /\ \A id \in DOMAIN registry : registry[id] \in [name : Names, prob : 0..100]
  /\ rules \in Seq(Seq(Ids))

(* Reference validity of what was read so far, from spec 7 (load-time     *)
(* fatal errors) and the checks NewState documents by its messages; a     *)
(* part not yet read counts as valid.  A template file that can be read   *)
(* and parsed is valid: NewState loads and renames it for that purpose.   *)
PartValid(x, bad) == x = NoCfg \/ x \notin bad
ChallengeValid(n) == ~ChallengeFails(chalCfg[n])
RuleValid(cfg) ==
  /\ \A k \in 1..Len(cfg.challenges) : cfg.challenges[k] \in Names
  /\ cfg.action \in GatingActions => cfg.challenges # << >>
  /\ cfg.condOk
ValidSoFar ==
  /\ PartValid(seedCfg, {"short"})
  /\ PartValid(tmplCfg, {"file-bad", "missing"})
  /\ PartValid(netCfg, {"insert-fails"})
  /\ PartValid(aliasOk, {"fails"})
  /\ \A n \in DOMAIN chalCfg : ChallengeValid(n)
  /\ \A k \in 1..Len(ruleCfg) : RuleValid(ruleCfg[k])

(* NewState never returns a State for a policy with a load-time fatal     *)
(* error, whatever order the challenge map is visited in (spec 7: refuse  *)
(* to start rather than run a partially valid policy).                    *)
LoadRefusesInvalid == pc = "done" => ValidSoFar

(* A returned State holds every challenge of the policy under its own id, *)
(* so GetChallengeByName finds each of them, and every rule's ids name    *)
(* the challenges the rule lists, in order.                               *)
ChallengesRegistered ==
  pc = "done" =>
    /\ \A n \in Names : ChallengeByName(n) # 0
    /\ \A k \in 1..Len(rules) : \A j \in 1..Len(rules[k]) :
         registry[rules[k][j]].name = ruleCfg[k].challenges[j]

=============================================================================
