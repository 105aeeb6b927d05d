------------------------------- MODULE Startup -------------------------------
(***************************************************************************)
(* Start-up hand-off of the go-away binary (src/cmd/go-away/main.go).     *)
(*                                                                         *)
(* main first reads the key seed, the policy and the backends, exiting   *)
(* through log.Fatal on any error.  With -passthrough, a goroutine binds the listen address and serves the *)
(* backends directly while main builds the State.  main then cancels the  *)
(* pass-through context, waits on the WaitGroup, binds the same address   *)
(* again and serves the State.  The pass-through goroutine runs its        *)
(* server in an inner goroutine, shuts it down with a 30 s deadline when  *)
(* the context is cancelled, and log.Fatal()s if the deadline passes.     *)
(* Clients connect at any time; a connection to a bound, serving listener *)
(* is handled by that server, one to an unbound address is refused.       *)
(*                                                                         *)
(* The process can also be killed at any time (main installs no signal    *)
(* handler) and be started again.  A unix socket file is the one piece of *)
(* state that outlives the process: net.Listen creates it and only the    *)
(* listener's Close removes it.                                           *)
(***************************************************************************)
EXTENDS Naturals, FiniteSets

CONSTANTS
  Requests,     \* client connections (model values)
  PassThrough,  \* the -passthrough flag
  Network,      \* the -bind-network flag: "tcp" or "unix"
  MaxRestarts   \* starts of the process after the first

ASSUME Network \in {"tcp", "unix"}
ASSUME MaxRestarts \in Nat

Servers == {"pt", "state"}
NoServer == "none"

VARIABLES
  mpc,        \* main goroutine: "config", "loading", "cancel", "wait", "bind", "serving"
  ppc,        \* pass-through goroutine: "absent", "bind", "wait", "draining", "done"
  spc,        \* its inner Serve goroutine: "absent", "idle", "serving", "done"
  wg,         \* the WaitGroup counter
  ctxDone,    \* passThroughCtx cancelled
  bound,      \* server whose listener holds the address, or NoServer
  ptClosed,   \* the pass-through server has been shut down
  req,        \* req[r]: "new", "active", "answered", "refused", "reset"
  owner,      \* server handling each connection
  fatal,      \* reason the process ended (log.Fatal, os.Exit after printing a seed, a signal), or "none"
  sockFile,   \* a socket file exists at the unix bind address (survives the process)
  restarts    \* starts of the process so far after the first

vars == <<mpc, ppc, spc, wg, ctxDone, bound, ptClosed, req, owner, fatal, sockFile, restarts>>

Init ==
  /\ mpc = "config"
  /\ ppc = "absent"
  /\ spc = "absent"
  /\ wg = 0
  /\ ctxDone = FALSE
  /\ bound = NoServer
  /\ ptClosed = FALSE
  /\ req = [r \in Requests |-> "new"]
  /\ owner = [r \in Requests |-> NoServer]
  /\ fatal = "none"
  /\ sockFile = FALSE
  /\ restarts = 0

Alive == fatal = "none"

-----------------------------------------------------------------------------
(* setupListener: net.Listen fails with "address already in use" while   *)
(* another listener holds the address or, for a unix socket, while a      *)
(* socket file exists at the path; either is log.Fatal.  A unix socket is *)
(* then chmod-ed to -socket-mode; a mode that does not parse or a failed  *)
(* chmod closes the listener (removing the file) and is log.Fatal.        *)
Listen(s) ==
  IF bound # NoServer \/ (Network = "unix" /\ sockFile)
  THEN fatal' = "bind" /\ UNCHANGED <<bound, sockFile>>
  ELSE \/ /\ bound' = s
          /\ sockFile' = (Network = "unix")
          /\ UNCHANGED fatal
       \/ /\ Network = "unix"
          /\ fatal' = "socket"
          /\ UNCHANGED <<bound, sockFile>>

(* Mutant: the inner goroutine is started without wg.Add(1).             *)
PassBindNoAdd ==
  /\ Alive /\ ppc = "bind"
  /\ Listen("pt")
  /\ ppc' = "wait"
  /\ spc' = "idle"
  /\ UNCHANGED <<wg, mpc, ctxDone, ptClosed, req, owner, restarts>>

(* Pass-through goroutine: build the server, bind, start the inner        *)
(* goroutine with wg.Add(1).                                              *)
PassBind ==
  /\ Alive /\ ppc = "bind"
  /\ Listen("pt")
  /\ ppc' = "wait"
  /\ spc' = "idle"
  /\ wg' = wg + 1
  /\ UNCHANGED <<mpc, ctxDone, ptClosed, req, owner, restarts>>

(* Inner goroutine: server.Serve(listener); on a shut-down server it      *)
(* returns ErrServerClosed at once.                                       *)
PassServe ==
  /\ Alive /\ spc = "idle" /\ ~ptClosed
  /\ spc' = "serving"
  /\ UNCHANGED <<mpc, ppc, wg, ctxDone, bound, ptClosed, req, owner, fatal, sockFile, restarts>>

(* Mutant: the inner goroutine lacks its deferred wg.Done().              *)
PassServeReturnNoDone ==
  /\ Alive /\ spc \in {"idle", "serving"} /\ ptClosed
  /\ spc' = "done"
  /\ UNCHANGED <<mpc, ppc, wg, ctxDone, bound, ptClosed, req, owner, fatal, sockFile, restarts>>

(* Serve returns ErrServerClosed after Shutdown; deferred wg.Done().      *)
PassServeReturn ==
  /\ Alive /\ spc \in {"idle", "serving"} /\ ptClosed
  /\ spc' = "done"
  /\ wg' = wg - 1
  /\ UNCHANGED <<mpc, ppc, ctxDone, bound, ptClosed, req, owner, fatal, sockFile, restarts>>

(* <-passThroughCtx.Done(), then server.Shutdown: the listener is closed  *)
(* at once (removing a unix socket file), and Shutdown waits for active   *)
(* connections.                                                           *)
PassShutdown ==
  /\ Alive /\ ppc = "wait" /\ ctxDone
  /\ ppc' = "draining"
  /\ ptClosed' = TRUE
  /\ bound' = NoServer
  /\ sockFile' = FALSE
  /\ UNCHANGED <<mpc, spc, wg, ctxDone, req, owner, fatal, restarts>>

ActiveOn(s) == {r \in Requests : req[r] = "active" /\ owner[r] = s}

(* Shutdown returns nil once no connection is active; Close, the deferred *)
(* listener.Close and wg.Done follow.                                     *)
PassDrained ==
  /\ Alive /\ ppc = "draining"
  /\ ActiveOn("pt") = {}
  /\ ppc' = "done"
  /\ wg' = wg - 1
  /\ UNCHANGED <<mpc, spc, ctxDone, bound, ptClosed, req, owner, fatal, sockFile, restarts>>

(* The 30 s Shutdown deadline passes with a connection still active:      *)
(* Shutdown returns the context error and the goroutine log.Fatal()s.     *)
PassShutdownTimeout ==
  /\ Alive /\ ppc = "draining"
  /\ ActiveOn("pt") # {}
  /\ fatal' = "shutdown"
  /\ UNCHANGED <<mpc, ppc, spc, wg, ctxDone, bound, ptClosed, req, owner, sockFile, restarts>>

(* main before the hand-off: the key seed ("generate" prints one and      *)
(* exits; a bad seed is fatal), the policy file and its YAML, the backend *)
(* definitions and reverse proxies, the cache directories.  Then the      *)
(* WaitGroup and context, and with -passthrough wg.Add(1) and the         *)
(* pass-through goroutine.                                                *)
Configure ==
  /\ Alive /\ mpc = "config"
  /\ \/ /\ fatal' = "exit"
        /\ UNCHANGED <<mpc, ppc, wg>>
     \/ /\ fatal' = "config"
        /\ UNCHANGED <<mpc, ppc, wg>>
     \/ /\ mpc' = "loading"
        /\ ppc' = IF PassThrough THEN "bind" ELSE "absent"
        /\ wg' = IF PassThrough THEN 1 ELSE 0
        /\ UNCHANGED fatal
  /\ UNCHANGED <<spc, ctxDone, bound, ptClosed, req, owner, sockFile, restarts>>

(* lib.NewState returns the State, or an error and log.Fatal (the cases   *)
(* are ChallengeLoad's).                                                  *)
LoadState ==
  /\ Alive /\ mpc = "loading"
  /\ \/ mpc' = "cancel" /\ UNCHANGED fatal
     \/ fatal' = "state" /\ UNCHANGED mpc
  /\ UNCHANGED <<ppc, spc, wg, ctxDone, bound, ptClosed, req, owner, sockFile, restarts>>

(* cancelFunc()                                                           *)
Cancel ==
  /\ Alive /\ mpc = "cancel"
  /\ ctxDone' = TRUE
  /\ mpc' = "wait"
  /\ UNCHANGED <<ppc, spc, wg, bound, ptClosed, req, owner, fatal, sockFile, restarts>>

(* Mutant: main binds without waiting for the pass-through goroutine.     *)
WaitSkipped ==
  /\ Alive /\ mpc = "wait"
  /\ mpc' = "bind"
  /\ UNCHANGED <<ppc, spc, wg, ctxDone, bound, ptClosed, req, owner, fatal, sockFile, restarts>>

(* wg.Wait()                                                              *)
Wait ==
  /\ Alive /\ mpc = "wait"
  /\ wg = 0
  /\ mpc' = "bind"
  /\ UNCHANGED <<ppc, spc, wg, ctxDone, bound, ptClosed, req, owner, fatal, sockFile, restarts>>

(* setupListener and server.Serve for the State.                          *)
BindState ==
  /\ Alive /\ mpc = "bind"
  /\ Listen("state")
  /\ mpc' = "serving"
  /\ UNCHANGED <<ppc, spc, wg, ctxDone, ptClosed, req, owner, restarts>>

-----------------------------------------------------------------------------
Serving(s) ==
  \/ s = "pt" /\ spc = "serving"
  \/ s = "state" /\ mpc = "serving"

(* A client connects to a bound, serving listener.                        *)
Arrive(r) ==
  /\ Alive /\ req[r] = "new"
  /\ bound # NoServer /\ Serving(bound)
  /\ req' = [req EXCEPT ![r] = "active"]
  /\ owner' = [owner EXCEPT ![r] = bound]
  /\ UNCHANGED <<mpc, ppc, spc, wg, ctxDone, bound, ptClosed, fatal, sockFile, restarts>>

(* A client connects while no listener holds the address.                 *)
Refuse(r) ==
  /\ Alive /\ req[r] = "new"
  /\ bound = NoServer
  /\ req' = [req EXCEPT ![r] = "refused"]
  /\ UNCHANGED <<mpc, ppc, spc, wg, ctxDone, bound, ptClosed, owner, fatal, sockFile, restarts>>

(* The handler (backend proxy or State) answers.                          *)
Complete(r) ==
  /\ Alive /\ req[r] = "active"
  /\ req' = [req EXCEPT ![r] = "answered"]
  /\ UNCHANGED <<mpc, ppc, spc, wg, ctxDone, bound, ptClosed, owner, fatal, sockFile, restarts>>

(* The process is killed (SIGTERM, SIGINT, ...).  main installs no       *)
(* signal handler, so no deferred listener.Close runs.                    *)
Stop ==
  /\ Alive
  /\ fatal' = "signal"
  /\ UNCHANGED <<mpc, ppc, spc, wg, ctxDone, bound, ptClosed, req, owner, sockFile, restarts>>

(* The process has ended and is started again: every goroutine, listener *)
(* and connection of the old one is gone, the socket file is not.        *)
Restart ==
  /\ ~Alive /\ restarts < MaxRestarts
  /\ mpc' = "config" /\ ppc' = "absent" /\ spc' = "absent" /\ wg' = 0
  /\ ctxDone' = FALSE /\ bound' = NoServer /\ ptClosed' = FALSE /\ fatal' = "none"
  /\ req' = [r \in Requests |-> IF req[r] = "active" THEN "reset" ELSE req[r]]
  /\ restarts' = restarts + 1
  /\ UNCHANGED <<owner, sockFile>>

Next ==
  \/ Stop \/ Restart
  \/ PassBind \/ PassServe \/ PassServeReturn \/ PassShutdown
  \/ PassDrained \/ PassShutdownTimeout
  \/ Configure \/ LoadState \/ Cancel \/ Wait \/ BindState
  \/ \E r \in Requests : Arrive(r) \/ Refuse(r) \/ Complete(r)

(* Every goroutine that can run eventually runs; the Shutdown deadline   *)
(* eventually fires while connections stay active; handlers finish.       *)
Fairness ==
  /\ WF_vars(PassBind) /\ WF_vars(PassServe) /\ WF_vars(PassServeReturn)
  /\ WF_vars(PassShutdown) /\ WF_vars(PassDrained) /\ WF_vars(PassShutdownTimeout)
  /\ WF_vars(Configure) /\ WF_vars(LoadState) /\ WF_vars(Cancel) /\ WF_vars(Wait) /\ WF_vars(BindState)
  /\ \A r \in Requests : WF_vars(Complete(r))

Spec == Init /\ [][Next]_vars /\ Fairness

-----------------------------------------------------------------------------
TypeOK ==
  /\ mpc \in {"config", "loading", "cancel", "wait", "bind", "serving"}
  /\ ppc \in {"absent", "bind", "wait", "draining", "done"}
  /\ spc \in {"absent", "idle", "serving", "done"}
  /\ wg \in 0..2
  /\ bound \in Servers \cup {NoServer}
  /\ req \in [Requests -> {"new", "active", "answered", "refused", "reset"}]
  /\ owner \in [Requests -> Servers \cup {NoServer}]
  /\ fatal \in {"none", "exit", "config", "state", "bind", "socket", "shutdown", "signal"}
  /\ sockFile \in BOOLEAN
  /\ restarts \in 0..MaxRestarts

(* No setupListener finds its address taken: main's second bind never     *)
(* finds it still held by the pass-through listener (cancel, WaitGroup    *)
(* and Shutdown order the two binds, whichever goroutine runs first), and *)
(* a restarted process finds it free.                                     *)
NoBindConflict == fatal # "bind"

(* Start-up ends: main eventually serves the State, or the process has    *)
(* ended (log.Fatal, or os.Exit after printing a generated seed).        *)
StartupCompletes == <>(mpc = "serving" \/ fatal # "none")

(* go-away never ends itself over its own listeners once it is           *)
(* configured: a connection the pass-through server is still handling at *)
(* cancel time does not make Shutdown fail, and no bind, in the hand-off  *)
(* or after the process was restarted, finds its address in use.         *)
ListenerNeverFatal == fatal \notin {"bind", "shutdown"}
=============================================================================
