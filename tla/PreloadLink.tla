----------------------------- MODULE PreloadLink -----------------------------
(***************************************************************************)
(* The preload-link challenge mode of go-away and the verify endpoint of  *)
(* the "key" runtime that resolves it (src/lib/state.go).                  *)
(*                                                                         *)
(* A preload-link request sends a 103 Early Hints response whose Link      *)
(* header points at <challenge>/verify-challenge?result=<hex key>, then    *)
(* blocks in State.AwaitChallenge: it stores a callback under the key in   *)
(* the process-wide sync.Map State.ChallengeSolve and waits for its        *)
(* context (deadline 3s, or client disconnect) to be done.  A verify       *)
(* request recomputes the key from its own request, compares it with the   *)
(* submitted result and calls State.SolveChallenge, which LoadAndDeletes   *)
(* the callback and runs it: the callback stores the result in an atomic   *)
(* and cancels the waiter's context.                                       *)
(*                                                                         *)
(* Every request is its own goroutine: waiters and verifiers interleave   *)
(* freely.  The clock that selects the key's expiry bucket advances       *)
(* between any two steps.                                                  *)
(***************************************************************************)
EXTENDS Naturals, FiniteSets

CONSTANTS
  Clients,        \* client addresses (model values)
  Waiters,        \* preload-link request goroutines (model values)
  Verifiers,      \* verify-challenge request goroutines (model values)
  MaxBucket,      \* last expiry bucket the clock reaches
  NoWaiter,       \* absent entry of ChallengeSolve / no callback loaded
  NoKey,          \* key not yet derived by a request
  NonHex,         \* a result parameter hex.DecodeString rejects
  KeyCodeRedirect \* TRUE iff the runtime's key-code is a 3xx (default 307)

ASSUME MaxBucket \in Nat
ASSUME KeyCodeRedirect \in BOOLEAN

Families == {"ipv4", "ipv6"}
Buckets  == 0..MaxBucket

(* ChallengeKey: a deterministic function of client address, address     *)
(* family flag and expiry bucket; keys are compared byte for byte, so a   *)
(* key is modelled by the triple it is derived from.                      *)
Keys == [client : Clients, family : Families, bucket : Buckets]

ChallengeKeyFor(c, f, b) == [client |-> c, family |-> f, bucket |-> b]

(* challenge.VerifyResult values the callback can carry; the zero value   *)
(* of the atomic.Int64 is NONE.  Ok() holds for PASS only.                 *)
VerifyResults == {"NONE", "FAIL", "PASS"}
Ok(r) == r = "PASS"

(* The redirect form value: absent, a local URL, or one that              *)
(* utils.EnsureNoOpenRedirect rejects.                                     *)
Redirects == {"none", "local", "open"}

VARIABLES
  now,        \* expiry bucket a request derives its key from
  solve,      \* State.ChallengeSolve: key -> waiter whose callback is stored
  hinted,     \* keys sent to clients in an Early Hints Link header
  wpc,        \* program counter of each preload-link goroutine
  wkey,       \* key the waiter derived
  wresult,    \* the waiter's atomic.Int64 result
  wdone,      \* the waiter's context is done (deadline, disconnect or cancel)
  wout,       \* challenge.Result the preload-link handler returned
  vpc,        \* program counter of each verify goroutine
  vkey,       \* key the verify request recomputed
  vres,       \* result the verify handler passes to SolveChallenge
  vcb,        \* callback SolveChallenge loaded (and deleted)
  vresp,      \* status the verify handler responds with
  proven,     \* history: keys presented as result by a request with that key
  landed,     \* history: a PASS for the waiter's key was delivered while it waited
  deliveries  \* history: number of callback invocations per waiter

vars == <<now, solve, hinted, wpc, wkey, wresult, wdone, wout,
          vpc, vkey, vres, vcb, vresp, proven, landed, deliveries>>
waiterVars   == <<wpc, wkey, wresult, wdone, wout>>
verifierVars == <<vpc, vkey, vres, vcb, vresp>>

Init ==
  /\ now = 0
  /\ solve = [k \in Keys |-> NoWaiter]
  /\ hinted = {}
  /\ wpc = [w \in Waiters |-> "idle"]
  /\ wkey = [w \in Waiters |-> NoKey]
  /\ wresult = [w \in Waiters |-> "NONE"]
  /\ wdone = [w \in Waiters |-> FALSE]
  /\ wout = [w \in Waiters |-> "none"]
  /\ vpc = [v \in Verifiers |-> "idle"]
  /\ vkey = [v \in Verifiers |-> NoKey]
  /\ vres = [v \in Verifiers |-> "NONE"]
  /\ vcb = [v \in Verifiers |-> NoWaiter]
  /\ vresp = [v \in Verifiers |-> "none"]
  /\ proven = {}
  /\ landed = [w \in Waiters |-> FALSE]
  /\ deliveries = [w \in Waiters |-> 0]

-----------------------------------------------------------------------------
(* The expiry bucket rolls over.                                          *)
Tick ==
  /\ now < MaxBucket
  /\ now' = now + 1
  /\ UNCHANGED <<solve, hinted, waiterVars, verifierVars, proven, landed, deliveries>>

(* preload-link ServeChallenge up to the Early Hints response.  An        *)
(* HTTP/1.x request whose writer is no http.Pusher is skipped with        *)
(* Continue; otherwise the Link header with the hex key is sent as 103.   *)
PreloadStart(w) ==
  /\ wpc[w] = "idle"
  /\ \E c \in Clients, f \in Families, h2 \in BOOLEAN :
       LET k == ChallengeKeyFor(c, f, now) IN
       IF h2
       THEN /\ wpc' = [wpc EXCEPT ![w] = "hinted"]
            /\ wkey' = [wkey EXCEPT ![w] = k]
            /\ hinted' = hinted \cup {k}
            /\ UNCHANGED wout
       ELSE /\ wpc' = [wpc EXCEPT ![w] = "done"]
            /\ wout' = [wout EXCEPT ![w] = "continue"]
            /\ UNCHANGED <<wkey, hinted>>
  /\ UNCHANGED <<now, solve, wresult, wdone, verifierVars, proven, landed, deliveries>>

(* AwaitChallenge: ChallengeSolve.Store(key, callback).  Store replaces   *)
(* whatever callback is already stored under the key.                     *)
Register(w) ==
  /\ wpc[w] = "hinted"
  /\ solve' = [solve EXCEPT ![wkey[w]] = w]
  /\ wpc' = [wpc EXCEPT ![w] = "waiting"]
  /\ UNCHANGED <<now, hinted, wkey, wresult, wdone, wout, verifierVars,
                 proven, landed, deliveries>>

(* The waiter's context ends without a callback: the preload deadline     *)
(* passes or the client disconnects (r.Context() is the parent).          *)
Timeout(w) ==
  /\ wpc[w] \in {"hinted", "waiting"}
  /\ ~wdone[w]
  /\ wdone' = [wdone EXCEPT ![w] = TRUE]
  /\ UNCHANGED <<now, solve, hinted, wpc, wkey, wresult, wout, verifierVars,
                 proven, landed, deliveries>>

(* Mutant: the handler waits for a delivered result, not for its context. *)
FinishOnResult(w) ==
  /\ wpc[w] = "waiting"
  /\ wdone[w]
  /\ wresult[w] # "NONE"
  /\ wpc' = [wpc EXCEPT ![w] = "done"]
  /\ wout' = [wout EXCEPT ![w] = IF Ok(wresult[w]) THEN "pass" ELSE "continue"]
  /\ UNCHANGED <<now, solve, hinted, wkey, wresult, wdone, verifierVars,
                 proven, landed, deliveries>>

(* <-ctx.Done() returns; the handler loads the atomic result and returns  *)
(* Pass if it is Ok, Continue otherwise.  No entry is deleted from        *)
(* ChallengeSolve on this path.                                           *)
Finish(w) ==
  /\ wpc[w] = "waiting"
  /\ wdone[w]
  /\ wpc' = [wpc EXCEPT ![w] = "done"]
  /\ wout' = [wout EXCEPT ![w] = IF Ok(wresult[w]) THEN "pass" ELSE "continue"]
  /\ UNCHANGED <<now, solve, hinted, wkey, wresult, wdone, verifierVars,
                 proven, landed, deliveries>>

-----------------------------------------------------------------------------
(* Mutant: the comparison ignores the address family flag of the key.    *)
KeyVerifyIgnoringFamily(key, result) ==
  result.client = key.client /\ result.bucket = key.bucket

(* The key runtime's Verify: the hex-decoded result must equal the key    *)
(* recomputed from the verify request.                                    *)
KeyVerify(key, result) == result = key

(* The happy-eyeballs case: the submitted result is a key of the IPv4     *)
(* family while the verify request arrived over IPv6.                     *)
FamilyFlip(key, result) == result.family = "ipv4" /\ key.family = "ipv6"

(* Mutant: SolveChallenge loads the callback without deleting it.        *)
AfterLoad(m, key) == m

(* ChallengeSolve after SolveChallenge's LoadAndDelete of the key.        *)
AfterLoadAndDelete(m, key) == [m EXCEPT ![key] = NoWaiter]

(* Mutant: a missing redirect target returns without an error page, so    *)
(* net/http answers 200.                                                  *)
AfterSolveStatusNoErrorPage(redirect) ==
  IF KeyCodeRedirect THEN (IF redirect = "none" THEN "200" ELSE "307")
  ELSE "content"

(* Status of the verify response once the result has been judged.        *)
AfterSolveStatus(redirect) ==
  IF KeyCodeRedirect THEN (IF redirect = "none" THEN "400" ELSE "307")
  ELSE "content"

(* ServeVerifyChallenge up to and including ChallengeSolve.LoadAndDelete. *)
(* The client submits a key it was hinted (its own or any other) or a     *)
(* malformed value, over either address family.                          *)
VerifyStart(v) ==
  /\ vpc[v] = "idle"
  /\ \E c \in Clients, f \in Families, result \in hinted \cup {NonHex},
        redirect \in Redirects :
       LET key == ChallengeKeyFor(c, f, now) IN
       \/ /\ redirect = "open"
          /\ vpc' = [vpc EXCEPT ![v] = "done"]
          /\ vresp' = [vresp EXCEPT ![v] = "400"]
          /\ UNCHANGED <<solve, vkey, vres, vcb, proven>>
       \/ /\ redirect # "open"
          /\ result = NonHex
          /\ vpc' = [vpc EXCEPT ![v] = "done"]
          /\ vresp' = [vresp EXCEPT ![v] = "500"]
          /\ UNCHANGED <<solve, vkey, vres, vcb, proven>>
       \/ /\ redirect # "open"
          /\ result # NonHex
          /\ LET ok == KeyVerify(key, result) IN
             /\ vres' = [vres EXCEPT ![v] = IF ok THEN "PASS" ELSE "FAIL"]
             /\ vresp' = [vresp EXCEPT ![v] =
                   IF ok \/ FamilyFlip(key, result)
                   THEN AfterSolveStatus(redirect) ELSE "403"]
          /\ vkey' = [vkey EXCEPT ![v] = key]
          /\ vcb' = [vcb EXCEPT ![v] = solve[key]]
          /\ solve' = AfterLoadAndDelete(solve, key)
          /\ vpc' = [vpc EXCEPT ![v] = "solving"]
          /\ proven' = IF result = key THEN proven \cup {key} ELSE proven
  /\ UNCHANGED <<now, hinted, waiterVars, landed, deliveries>>

(* SolveChallenge runs the loaded callback: result.Store and cancel().    *)
(* A PASS delivered to a waiter still waiting is the verify call landing  *)
(* before the deadline; the history also records it for every waiter of   *)
(* the same key still pending.                                            *)
VerifyDeliver(v) ==
  /\ vpc[v] = "solving"
  /\ LET w == vcb[v] IN
     IF w # NoWaiter
     THEN /\ wresult' = [wresult EXCEPT ![w] = vres[v]]
          /\ wdone' = [wdone EXCEPT ![w] = TRUE]
          /\ deliveries' = [deliveries EXCEPT ![w] = @ + 1]
     ELSE UNCHANGED <<wresult, wdone, deliveries>>
  /\ landed' = [u \in Waiters |->
                  landed[u] \/ (/\ Ok(vres[v])
                                /\ wpc[u] \in {"hinted", "waiting"}
                                /\ ~wdone[u]
                                /\ wkey[u] = vkey[v])]
  /\ vpc' = [vpc EXCEPT ![v] = "done"]
  /\ UNCHANGED <<now, solve, hinted, wpc, wkey, wout, vkey, vres, vcb, vresp, proven>>

-----------------------------------------------------------------------------
Next ==
  \/ Tick
  \/ \E w \in Waiters : PreloadStart(w) \/ Register(w) \/ Timeout(w) \/ Finish(w)
  \/ \E v \in Verifiers : VerifyStart(v) \/ VerifyDeliver(v)

(* Every goroutine that can run eventually does, and the context deadline *)
(* always fires.  Clients need not send requests, so the Start actions    *)
(* carry no fairness.                                                     *)
Fairness ==
  /\ \A w \in Waiters : WF_vars(Register(w)) /\ WF_vars(Timeout(w)) /\ WF_vars(Finish(w))
  /\ \A v \in Verifiers : WF_vars(VerifyDeliver(v))

Spec == Init /\ [][Next]_vars /\ Fairness

-----------------------------------------------------------------------------
TypeOK ==
  /\ now \in Buckets
  /\ solve \in [Keys -> Waiters \cup {NoWaiter}]
  /\ hinted \subseteq Keys
  /\ wpc \in [Waiters -> {"idle", "hinted", "waiting", "done"}]
  /\ wkey \in [Waiters -> Keys \cup {NoKey}]
  /\ wresult \in [Waiters -> VerifyResults]
  /\ wdone \in [Waiters -> BOOLEAN]
  /\ wout \in [Waiters -> {"none", "pass", "continue"}]
  /\ vpc \in [Verifiers -> {"idle", "solving", "done"}]
  /\ vkey \in [Verifiers -> Keys \cup {NoKey}]
  /\ vres \in [Verifiers -> VerifyResults]
  /\ vcb \in [Verifiers -> Waiters \cup {NoWaiter}]
  /\ vresp \in [Verifiers -> {"none", "400", "403", "500", "307", "content"}]
  /\ proven \subseteq Keys
  /\ landed \in [Waiters -> BOOLEAN]
  /\ deliveries \in [Waiters -> Nat]

(* A preload-link request returns Pass only for a key whose proof some    *)
(* verify request presented from a request deriving that same key: the    *)
(* callback keyed by the recomputed key carries PASS only from the        *)
(* successful comparison in the key runtime's Verify.                     *)
PassImpliesProven ==
  \A w \in Waiters : wout[w] = "pass" => wkey[w] \in proven

(* Take-once: SolveChallenge's LoadAndDelete hands a stored callback to   *)
(* one verify request only, so no waiter is resolved twice.               *)
TakeOnce ==
  \A w \in Waiters : deliveries[w] <= 1

(* A blocked preload-link request always returns: the deadline context    *)
(* of ServeChallenge bounds AwaitChallenge.                               *)
WaiterTerminates ==
  \A w \in Waiters : wpc[w] = "hinted" ~> wpc[w] = "done"

(* spec 3, 5 and 8: ChallengeSolve holds a waiter's callback exactly as  *)
(* long as that waiter waits.  A verify call for the derived key that     *)
(* lands while the request is blocked (after its Early Hints, before its  *)
(* deadline) makes that request observe Pass, and a request that has      *)
(* returned, by solve, deadline or disconnect, leaves no entry behind.    *)
RegistryTracksWaiters ==
  /\ \A w \in Waiters : (wpc[w] = "done" /\ landed[w]) => wout[w] = "pass"
  /\ \A k \in Keys : solve[k] # NoWaiter => wpc[solve[k]] # "done"

-----------------------------------------------------------------------------
(* Refinement mapping onto AwaitSolve.  A request that has sent its hint  *)
(* waits, registered or not; its wait is solved once a PASS callback has  *)
(* reached it.  A callback that lands after the handler has returned      *)
(* changes nothing the request can still show, so a finished request is   *)
(* solved exactly when it returned Pass.                                   *)
AwaitPhase(w) ==
  CASE wpc[w] = "idle" -> "idle"
    [] wpc[w] \in {"hinted", "waiting"} -> "waiting"
    [] wpc[w] = "done" -> "done"

SolvedFor(w) == IF wpc[w] = "done" THEN wout[w] = "pass" ELSE Ok(wresult[w])

Abstract == INSTANCE AwaitSolve WITH
  aw <- [w \in Waiters |-> AwaitPhase(w)],
  akey <- wkey,
  solved <- [w \in Waiters |-> SolvedFor(w)],
  aout <- wout

(* The registry, the callbacks and the verify requests implement what a   *)
(* preload-link request promises (AwaitSolve): a request is solved only   *)
(* while it waits and only for a key a verify request proved, is solved   *)
(* at most once and never unsolved, returns exactly once with Pass        *)
(* exactly when solved, and always returns.  A callback loaded by two     *)
(* verify requests, or one that reached the request under another key,    *)
(* breaks it.                                                              *)
AwaitSolveSpec == Abstract!Spec
=============================================================================
