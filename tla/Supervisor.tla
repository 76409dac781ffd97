----------------------------- MODULE Supervisor -----------------------------
(***************************************************************************)
(* main() (main.go): boot, the SIGTERM and SIGHUP goroutines, and the loop *)
(* that starts one collector per enabled cluster under a run context,      *)
(* waits on reload / all collectors done / shutdown, and drains the run    *)
(* before it re-reads the config.                                          *)
(*                                                                         *)
(* A collector (statsloop) is kept as what main can see of it: it reads    *)
(* conf through the pointer main passed it, twice (at its start and again  *)
(* from the back end's Init), and it ends, on an error of its own or       *)
(* because its run was cancelled.                                          *)
(***************************************************************************)
EXTENDS DaemonState

CONSTANT
  MaxHups       \* bound on the SIGHUPs delivered in a behaviour

VARIABLES
  pc,           \* where main is
  code,         \* exit code, once pc = "exited"
  conf,         \* the config in force: the file as it was when loaded
  seen,         \* file.ver at the latest readConfig, successful or not
  gen,          \* number of runs started; the last one's number
  cancelled,    \* runs whose run context main has cancelled
  running,      \* collectors not yet ended: [gen, cl, uses]
  sigterm,      \* a SIGTERM or SIGINT is in its one-slot channel
  sighup,       \* a SIGHUP is in its one-slot channel
  forwarding,   \* the SIGHUP goroutine is alive
  hups          \* SIGHUPs delivered so far

mainVars   == <<pc, code, conf, seen, gen, cancelled, running>>
signalVars == <<sigterm, sighup, forwarding, hups>>

Pcs == {"start", "watch", "spawn", "wait", "drain", "reread", "unwind", "exited"}
-----------------------------------------------------------------------------
Exit(n) == pc' = "exited" /\ code' = n

\* setupLogging calls os.Exit on a setting it rejects (2 stands for 2 and 3).
SetupLogging(c, next) ==
  IF c.kind = "badlog" THEN Exit(2) ELSE pc' = next /\ UNCHANGED code

\* mustReadConfig, setupLogging and the signal handlers.
Boot ==
  /\ pc = "start"
  /\ seen' = file.ver
  /\ \/ ~Loads(file.content) /\ Exit(1) /\ UNCHANGED conf
     \/ Loads(file.content) /\ conf' = file /\ SetupLogging(file.content, "watch")
  /\ UNCHANGED <<file, ctxDone, reload, gen, cancelled, running>>
  /\ UNCHANGED signalVars
-----------------------------------------------------------------------------
(* The loop.                                                               *)

Collectors(g, on) == [gen : {g}, cl : on, uses : {{}}]

Spawn ==
  /\ pc = "spawn"
  /\ pc' = "wait"
  /\ gen' = gen + 1
  /\ running' = running \cup Collectors(gen', conf.content.on)
  /\ UNCHANGED <<file, ctxDone, reload, code, conf, seen, cancelled>>
  /\ UNCHANGED signalVars

CancelRun_Next == cancelled' = cancelled \cup {gen + 1}
CancelRun == cancelled' = cancelled \cup {gen}

\* The run's done channel is closed: wg.Wait() has returned.
Done_NotAwaited == TRUE
Done == running = {}

\* Mutant: back into the select with the run cancelled.
OnReload_Reselects ==
  /\ pc = "wait"
  /\ reload
  /\ reload' = FALSE
  /\ CancelRun
  /\ UNCHANGED <<file, ctxDone, pc, code, conf, seen, gen, running>>
  /\ UNCHANGED signalVars

\* Mutant: conf is assigned before the collectors are drained.
OnReload_AssignsFirst ==
  /\ pc = "wait"
  /\ reload
  /\ reload' = FALSE
  /\ CancelRun
  /\ conf' = IF Loads(file.content) THEN file ELSE conf
  /\ pc' = "drain"
  /\ UNCHANGED <<file, ctxDone, code, seen, gen, running>>
  /\ UNCHANGED signalVars

OnReload ==
  /\ pc = "wait"
  /\ reload
  /\ reload' = FALSE
  /\ CancelRun
  /\ pc' = "drain"
  /\ UNCHANGED <<file, ctxDone, code, conf, seen, gen, running>>
  /\ UNCHANGED signalVars

\* <-done, then the check for a SIGTERM that raced with the reload.
Drained ==
  /\ pc = "drain"
  /\ Done
  /\ IF ctxDone THEN Exit(0) ELSE pc' = "reread" /\ UNCHANGED code
  /\ UNCHANGED <<file, ctxDone, reload, conf, seen, gen, cancelled, running>>
  /\ UNCHANGED signalVars

Reread ==
  /\ pc = "reread"
  /\ seen' = file.ver
  /\ \/ ~Loads(file.content) /\ pc' = "spawn" /\ UNCHANGED <<code, conf>>
     \/ Loads(file.content) /\ conf' = file /\ SetupLogging(file.content, "spawn")
  /\ UNCHANGED <<file, ctxDone, reload, gen, cancelled, running>>
  /\ UNCHANGED signalVars

AllDone ==
  /\ pc = "wait"
  /\ Done
  /\ CancelRun
  /\ Exit(0)
  /\ UNCHANGED <<file, ctxDone, reload, conf, seen, gen, running>>
  /\ UNCHANGED signalVars

OnShutdown ==
  /\ pc = "wait"
  /\ ctxDone
  /\ CancelRun
  /\ pc' = "unwind"
  /\ UNCHANGED <<file, ctxDone, reload, code, conf, seen, gen, running>>
  /\ UNCHANGED signalVars

Unwound ==
  /\ pc = "unwind"
  /\ Done
  /\ Exit(0)
  /\ UNCHANGED <<file, ctxDone, reload, conf, seen, gen, cancelled, running>>
  /\ UNCHANGED signalVars

MainStep ==
  \/ Boot \/ Spawn \/ OnReload \/ Drained \/ Reread
  \/ AllDone \/ OnShutdown \/ Unwound
-----------------------------------------------------------------------------
(* The collectors.                                                         *)

\* runCtx is derived from the top-level context.
RunCancelled(g) == ctxDone \/ g \in cancelled

ReadsConf(r) ==
  /\ running' = (running \ {r}) \cup {[r EXCEPT !.uses = @ \cup {conf.ver}]}
  /\ UNCHANGED <<file, ctxDone, reload, pc, code, conf, seen, gen, cancelled>>
  /\ UNCHANGED signalVars

Ends(r) ==
  /\ r.uses # {}
  /\ running' = running \ {r}
  /\ UNCHANGED <<file, ctxDone, reload, pc, code, conf, seen, gen, cancelled>>
  /\ UNCHANGED signalVars

CollectorStep == \E r \in running : ReadsConf(r) \/ Ends(r)

\* A collector whose run is cancelled returns at its next wait or request.
CancelledEnds ==
  \E r \in running :
    /\ RunCancelled(r.gen)
    /\ IF r.uses = {} THEN ReadsConf(r) ELSE Ends(r)
-----------------------------------------------------------------------------
(* Signals, delivered from the moment main registers for them.             *)

Term ==
  /\ pc # "start"
  /\ ~sigterm
  /\ sigterm' = TRUE
  /\ UNCHANGED <<file, ctxDone, reload, sighup, forwarding, hups>>
  /\ UNCHANGED mainVars

\* os/signal drops a signal whose channel is full.
Hup ==
  /\ pc # "start"
  /\ hups < MaxHups
  /\ hups' = hups + 1
  /\ sighup' = TRUE
  /\ UNCHANGED <<file, ctxDone, reload, sigterm, forwarding>>
  /\ UNCHANGED mainVars

\* Mutant: the signal cancels the current run only.
Shutdown_RunOnly ==
  /\ sigterm
  /\ ~ctxDone
  /\ sigterm' = FALSE
  /\ CancelRun
  /\ UNCHANGED <<file, ctxDone, reload, sighup, forwarding, hups>>
  /\ UNCHANGED <<pc, code, conf, seen, gen, running>>

\* The SIGTERM goroutine takes one signal, cancels and returns.
Shutdown ==
  /\ sigterm
  /\ ~ctxDone
  /\ sigterm' = FALSE
  /\ ctxDone' = TRUE
  /\ UNCHANGED <<file, reload, sighup, forwarding, hups>>
  /\ UNCHANGED mainVars

\* Mutant: the goroutine returns after one signal, as the SIGTERM one does.
ForwardHup_Once ==
  /\ forwarding
  /\ sighup
  /\ sighup' = FALSE
  /\ OfferReload
  /\ forwarding' = FALSE
  /\ UNCHANGED <<file, ctxDone, sigterm, hups>>
  /\ UNCHANGED mainVars

ForwardHup ==
  /\ forwarding
  /\ sighup
  /\ sighup' = FALSE
  /\ OfferReload
  /\ UNCHANGED <<file, ctxDone, sigterm, forwarding, hups>>
  /\ UNCHANGED mainVars

StopForwarding ==
  /\ forwarding
  /\ ctxDone
  /\ forwarding' = FALSE
  /\ UNCHANGED <<file, ctxDone, reload, sigterm, sighup, hups>>
  /\ UNCHANGED mainVars

SignalStep == Shutdown \/ ForwardHup \/ StopForwarding
-----------------------------------------------------------------------------
SupervisorInit ==
  /\ ctxDone = FALSE
  /\ reload = FALSE
  /\ pc = "start"
  /\ code = 0
  /\ conf = [ver |-> 0, content |-> Absent]
  /\ seen = 0
  /\ gen = 0
  /\ cancelled = {}
  /\ running = {}
  /\ sigterm = FALSE
  /\ sighup = FALSE
  /\ forwarding = TRUE
  /\ hups = 0

SupervisorTypeOK ==
  /\ ctxDone \in BOOLEAN
  /\ reload \in BOOLEAN
  /\ pc \in Pcs
  /\ code \in 0..2
  /\ conf \in [ver : Nat, content : [kind : Kinds, on : SUBSET Clusters]]
  /\ seen \in Nat
  /\ gen \in Nat
  /\ cancelled \subseteq 1..gen
  /\ running \subseteq [gen : 1..gen, cl : Clusters, uses : SUBSET Nat]
  /\ sigterm \in BOOLEAN
  /\ sighup \in BOOLEAN
  /\ forwarding \in BOOLEAN
  /\ hups \in 0..MaxHups
=============================================================================
