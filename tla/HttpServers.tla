----------------------------- MODULE HttpServers -----------------------------
(***************************************************************************)
(* The HTTP servers of a Prometheus daemon over its successive runs        *)
(* (prometheus.go): the metrics endpoint of a cluster, which its collector *)
(* starts and whose handler shares the sink's mutex with the collector's   *)
(* writes, and the service discovery listener, which main starts.          *)
(*                                                                         *)
(* A run's servers are shut down by goroutines that wait for the run's     *)
(* context and that nothing waits for, so servers of several runs may      *)
(* listen on a port at once (SO_REUSEPORT, control_unix.go), and the       *)
(* kernel gives a connection to any of them.                               *)
(***************************************************************************)
EXTENDS Naturals

CONSTANTS
  MaxRuns,      \* bound on the runs
  Clients,      \* HTTP clients; each keeps one connection
  ServiceOf     \* the service a client uses

VARIABLES
  main,         \* main's loop
  stop,         \* the top-level context is cancelled
  run,          \* the current run
  collector,    \* the collector of the cluster, in the current run
  mutex,        \* who holds the mutex of a run's sink
  server,       \* the servers of a run
  stage,        \* what a client's connection is doing
  conn          \* the run whose server has it, 0 for none

mainVars   == <<main, stop, run>>
clientVars == <<stage, conn>>
httpVars   == <<mainVars, collector, mutex, server, clientVars>>

Runs     == 1..MaxRuns
Services == {"metrics", "sd"}

ASSUME HttpAssumption ==
  /\ MaxRuns \in Nat \ {0}
  /\ ServiceOf \in [Clients -> Services]

Open         == {"bound", "serving", "orphan", "doomed"}
ServerStates == Open \cup {"none", "shut"}
InHandler    == {"asked", "reading"}
Stages       == InHandler \cup {"off", "queued", "kept"}

\* cancelRun is called when main leaves the select of the run.
Cancelled(r) == r < run \/ main # "running" \/ stop

Listening(r, s) == server[r][s] \in Open

At(c, r, s) == conn[c] = r /\ ServiceOf[c] = s
-----------------------------------------------------------------------------
(* main (main.go:116-177) and the collector, as far as the servers see them. *)

Reload ==
  /\ main = "running"
  /\ main' = "draining"
  /\ UNCHANGED <<stop, run, collector, mutex, server, clientVars>>

Terminate ==
  /\ ~stop
  /\ main # "exited"
  /\ stop' = TRUE
  /\ main' = "draining"
  /\ UNCHANGED <<run, collector, mutex, server, clientVars>>

\* Mutant: the next run does not wait for the collectors of the last.
Drained_NotAwaited == TRUE

\* <-done
Drained == collector = "returned"

\* startPromSdListener, enabled or not, fails or makes its listener.
NextRun ==
  /\ main = "draining"
  /\ Drained
  /\ ~stop
  /\ run < MaxRuns
  /\ main' = "running"
  /\ run' = run + 1
  /\ collector' = "starting"
  /\ \E st \in {"none", "bound"} : server' = [server EXCEPT ![run']["sd"] = st]
  /\ UNCHANGED <<stop, mutex, clientVars>>

\* All collectors have returned, of themselves or after a SIGTERM.
Exit ==
  /\ Drained
  /\ main = "running" \/ (main = "draining" /\ stop)
  /\ main' = "exited"
  /\ UNCHANGED <<stop, run, collector, mutex, server, clientVars>>

\* Startup up to Init, which makes the listener as its last step.
Start ==
  /\ collector = "starting"
  /\ \/ collector' = "returned" /\ UNCHANGED server
     \/ /\ collector' = "looping"
        /\ server' = [server EXCEPT ![run]["metrics"] = "bound"]
  /\ UNCHANGED <<mainVars, mutex, clientVars>>

BeginWrite ==
  /\ collector = "looping"
  /\ mutex[run] = "free"
  /\ collector' = "writing"
  /\ mutex' = [mutex EXCEPT ![run] = "collector"]
  /\ UNCHANGED <<mainVars, server, clientVars>>

\* The write ends when its lookups of export ids do, made with the mutex held.
EndWrite ==
  /\ collector = "writing"
  /\ collector' = "looping"
  /\ mutex' = [mutex EXCEPT ![run] = "free"]
  /\ UNCHANGED <<mainVars, server, clientVars>>

\* Mutant: the lookups are made without the run's context.
CancelWrite_Never == FALSE /\ UNCHANGED httpVars

\* No lookup outlives the run's context.
CancelWrite == Cancelled(run) /\ EndWrite

\* A listing that fails, or the cancellation.
Return ==
  /\ collector = "looping"
  /\ collector' = "returned"
  /\ UNCHANGED <<mainVars, mutex, server, clientVars>>
-----------------------------------------------------------------------------
(* The goroutines of a server.                                             *)

\* What net/http and the kernel do: the listener is closed, with the connections
\* that are not accepted yet, and those that are kept without a request.
Close(r, s) ==
  LET closed == {c \in Clients : At(c, r, s) /\ stage[c] \notin InHandler} IN
  /\ server' = [server EXCEPT ![r][s] = "shut"]
  /\ stage' = [c \in Clients |-> IF c \in closed THEN "off" ELSE stage[c]]
  /\ conn' = [c \in Clients |-> IF c \in closed THEN 0 ELSE conn[c]]

\* Serve accepts, or closes the listener if it finds the server shut down; ServeTLS
\* may first find no certificate, and leaves the listener to the garbage collector.
Serve(r, s) ==
  /\ main # "exited"
  /\ \/ /\ server[r][s] = "bound"
        /\ server' = [server EXCEPT ![r][s] = "serving"]
        /\ UNCHANGED clientVars
     \/ server[r][s] = "doomed" /\ Close(r, s)
     \/ /\ server[r][s] \in {"bound", "doomed"}
        /\ s = "metrics"
        /\ server' = [server EXCEPT ![r][s] = "orphan"]
        /\ UNCHANGED clientVars
  /\ UNCHANGED <<mainVars, collector, mutex>>

\* Mutant: the goroutine waits for the top-level context.
ShutdownDue_AtExit(r) == stop

\* <-ctx.Done()
ShutdownDue(r) == Cancelled(r)

\* Requests in a handler go on; Shutdown waits 5 s for them.  It knows of no
\* listener that Serve was not called with.
Shutdown(r, s) ==
  /\ main # "exited"
  /\ ShutdownDue(r)
  /\ \/ /\ server[r][s] = "bound"
        /\ server' = [server EXCEPT ![r][s] = "doomed"]
        /\ UNCHANGED clientVars
     \/ server[r][s] = "serving" /\ Close(r, s)
  /\ UNCHANGED <<mainVars, collector, mutex>>

\* The garbage collector closes a listener that nobody has.
Finalize(r, s) ==
  /\ main # "exited"
  /\ server[r][s] = "orphan"
  /\ Close(r, s)
  /\ UNCHANGED <<mainVars, collector, mutex>>
-----------------------------------------------------------------------------
(* Requests.                                                               *)

\* The kernel queues a connection at any of the listeners of the port.
Dial(c) ==
  /\ main # "exited"
  /\ stage[c] = "off"
  /\ \E r \in Runs : Listening(r, ServiceOf[c]) /\ conn' = [conn EXCEPT ![c] = r]
  /\ stage' = [stage EXCEPT ![c] = "queued"]
  /\ UNCHANGED <<mainVars, collector, mutex, server>>

\* A new connection is accepted, or one that was kept brings another request.
Ask(c) ==
  /\ main # "exited"
  /\ stage[c] \in {"queued", "kept"}
  /\ server[conn[c]][ServiceOf[c]] = "serving"
  /\ stage' = [stage EXCEPT ![c] = "asked"]
  /\ UNCHANGED <<mainVars, collector, mutex, server, conn>>

\* Collect takes the mutex.
Lock(c) ==
  /\ main # "exited"
  /\ stage[c] = "asked"
  /\ ServiceOf[c] = "metrics"
  /\ mutex[conn[c]] = "free"
  /\ mutex' = [mutex EXCEPT ![conn[c]] = "handler"]
  /\ stage' = [stage EXCEPT ![c] = "reading"]
  /\ UNCHANGED <<mainVars, collector, server, conn>>

\* The response is sent; a server that was shut down keeps no connection.
Respond(c) ==
  /\ main # "exited"
  /\ \/ /\ stage[c] = "reading"
        /\ mutex' = [mutex EXCEPT ![conn[c]] = "free"]
     \/ /\ stage[c] = "asked"
        /\ ServiceOf[c] = "sd"
        /\ UNCHANGED mutex
  /\ IF server[conn[c]][ServiceOf[c]] = "serving"
     THEN stage' = [stage EXCEPT ![c] = "kept"] /\ UNCHANGED conn
     ELSE stage' = [stage EXCEPT ![c] = "off"] /\ conn' = [conn EXCEPT ![c] = 0]
  /\ UNCHANGED <<mainVars, collector, server>>
-----------------------------------------------------------------------------
Init ==
  /\ main = "running"
  /\ stop = FALSE
  /\ run = 1
  /\ collector = "starting"
  /\ mutex = [r \in Runs |-> "free"]
  /\ \E st \in {"none", "bound"} :
       server = [r \in Runs |->
                  [s \in Services |-> IF r = 1 /\ s = "sd" THEN st ELSE "none"]]
  /\ stage = [c \in Clients |-> "off"]
  /\ conn = [c \in Clients |-> 0]

MainStep == NextRun \/ Exit

CollectorStep == Start \/ BeginWrite \/ EndWrite \/ Return

ServerStep(r, s) == Serve(r, s) \/ Shutdown(r, s) \/ Finalize(r, s)

Next ==
  \/ Reload \/ Terminate \/ MainStep
  \/ CollectorStep
  \/ \E r \in Runs, s \in Services : ServerStep(r, s)
  \/ \E c \in Clients : Dial(c) \/ Ask(c) \/ Lock(c) \/ Respond(c)

Spec == Init /\ [][Next]_httpVars

Progress ==
  \/ MainStep
  \/ Start
  \/ Cancelled(run) /\ Return
  \/ \E r \in Runs, s \in Services : ServerStep(r, s)

(* Goroutines are scheduled, and so is the garbage collector; a mutex goes  *)
(* to whoever waits for it again and again (sync.Mutex is starvation-free); *)
(* the cluster need not answer the lookups of a write.  Main, the start and *)
(* end of collectors and the servers' goroutines take finitely many steps,  *)
(* so that fairness of their disjunction is fairness of each.               *)
FairSpec ==
  /\ Spec
  /\ WF_httpVars(Progress)
  /\ WF_httpVars(CancelWrite)
  /\ \A c \in Clients : /\ WF_httpVars(Ask(c) \/ Respond(c))
                        /\ SF_httpVars(Lock(c))
-----------------------------------------------------------------------------
(* Correctness.                                                            *)

\* Every variable keeps to its range; a run that has not begun has no server, and
\* a sink is worked in by whoever holds its mutex, its collector only in its run.
TypeOK ==
  /\ main \in {"running", "draining", "exited"}
  /\ stop \in BOOLEAN
  /\ run \in Runs
  /\ collector \in {"starting", "looping", "writing", "returned"}
  /\ mutex \in [Runs -> {"free", "collector", "handler"}]
  /\ server \in [Runs -> [Services -> ServerStates]]
  /\ stage \in [Clients -> Stages]
  /\ conn \in [Clients -> 0..run]
  /\ \A r \in Runs, s \in Services : r > run => server[r][s] = "none"
  /\ \A r \in Runs : mutex[r] = "collector" <=> (r = run /\ collector = "writing")
  /\ \A c \in Clients : stage[c] = "reading" => mutex[conn[c]] = "handler"

\* A run that is cancelled comes to leave its ports, and no client stays with
\* it: after a reload the scrapes come to be answered by the new run only, though
\* both runs listened on the same port for a while (main.go:150-152,
\* prometheus.go:95-104, 287-292).
OldRunsLeave ==
  \A r \in Runs :
    [](Cancelled(r) /\ r <= run =>
        <>[](main = "exited" \/ (/\ \A s \in Services : ~Listening(r, s)
                                 /\ \A c \in Clients : conn[c] # r)))

\* A request that has reached a listener is answered or dropped, although the
\* handler shares a mutex with a writer that waits for the cluster, unless a
\* lookup of a run that is not cancelled never ends (prometheus.go:449, 520).
RequestsEnd ==
  \A c \in Clients :
    \/ []<>(stage[c] \notin {"queued", "asked"} \/ main = "exited")
    \/ <>[](collector = "writing" /\ ~Cancelled(run))
-----------------------------------------------------------------------------
(* What the repository says and the code does not do.                      *)

\* "Prometheus HTTP servers (metrics and SD listener) shut down cleanly with a
\* 5-second timeout on SIGTERM/SIGINT" (Changelog.md:34).
ShutdownClean ==
  main = "exited" /\ stop => \A c \in Clients : stage[c] \notin InHandler
=============================================================================
