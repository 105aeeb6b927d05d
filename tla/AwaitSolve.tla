----------------------------- MODULE AwaitSolve ------------------------------
(***************************************************************************)
(* What a preload-link request promises, without the registry, the        *)
(* callbacks, the clock or the verify requests that carry them (spec 3    *)
(* and 8).                                                                 *)
(*                                                                         *)
(* A request either skips the mode or starts waiting on a key.  While it  *)
(* waits, it may be marked solved, but only once the key has been proven  *)
(* by a verify request deriving that same key.  It returns exactly once,  *)
(* with Pass exactly when it was solved, and a waiting request always     *)
(* returns.                                                                *)
(***************************************************************************)
CONSTANTS
  Waiters,  \* preload-link requests
  Keys,     \* challenge keys
  NoKey     \* no key derived

VARIABLES
  aw,      \* per request: "idle", "waiting", "done"
  akey,    \* the key a waiting request waits on
  proven,  \* keys a verify request has proven
  solved,  \* per request: its wait has been solved
  aout     \* per request: "none", "pass", "continue"

avars == <<aw, akey, proven, solved, aout>>

Init ==
  /\ aw = [w \in Waiters |-> "idle"]
  /\ akey = [w \in Waiters |-> NoKey]
  /\ proven = {}
  /\ solved = [w \in Waiters |-> FALSE]
  /\ aout = [w \in Waiters |-> "none"]

(* The request starts waiting on a key.                                   *)
Begin(w, k) ==
  /\ aw[w] = "idle"
  /\ aw' = [aw EXCEPT ![w] = "waiting"]
  /\ akey' = [akey EXCEPT ![w] = k]
  /\ UNCHANGED <<proven, solved, aout>>

(* The request does not take part in the mode and continues.              *)
Skip(w) ==
  /\ aw[w] = "idle"
  /\ aw' = [aw EXCEPT ![w] = "done"]
  /\ aout' = [aout EXCEPT ![w] = "continue"]
  /\ UNCHANGED <<akey, proven, solved>>

(* A verify request proves a key.                                          *)
Prove(k) ==
  /\ proven' = proven \cup {k}
  /\ UNCHANGED <<aw, akey, solved, aout>>

(* A waiting request is solved, for a proven key only, and only once.     *)
Solve(w) ==
  /\ aw[w] = "waiting"
  /\ akey[w] \in proven
  /\ ~solved[w]
  /\ solved' = [solved EXCEPT ![w] = TRUE]
  /\ UNCHANGED <<aw, akey, proven, aout>>

(* The request returns: Pass when solved, Continue otherwise.              *)
Return(w) ==
  /\ aw[w] = "waiting"
  /\ aw' = [aw EXCEPT ![w] = "done"]
  /\ aout' = [aout EXCEPT ![w] = IF solved[w] THEN "pass" ELSE "continue"]
  /\ UNCHANGED <<akey, proven, solved>>

Next ==
  \/ \E w \in Waiters : Skip(w) \/ Solve(w) \/ Return(w) \/ \E k \in Keys : Begin(w, k)
  \/ \E k \in Keys : Prove(k)

(* A waiting request always returns.                                       *)
Spec == Init /\ [][Next]_avars /\ \A w \in Waiters : WF_avars(Return(w))
=============================================================================
