-------------------------------- MODULE Daemon --------------------------------
(***************************************************************************)
(* The goppstats process and its environment: the supervisor of main.go    *)
(* and the config watcher of config_watcher.go, which share the config     *)
(* file, the top-level context and the reload channel, with a user who     *)
(* saves the file and sends signals.                                       *)
(***************************************************************************)
EXTENDS ConfigWatcher, Supervisor

CONSTANT
  EarlyEdits    \* the user may save the file while the daemon starts

vars == <<file, ctxDone, reload, mainVars, signalVars, watcherVars>>

ASSUME DaemonAssumption ==
  /\ SaveStyles \subseteq AllStyles
  /\ MaxEdits \in Nat
  /\ MaxHups \in Nat
  /\ EarlyEdits \in BOOLEAN
-----------------------------------------------------------------------------
Init ==
  /\ file \in [ver : {1}, content : Contents \cup {Absent}]
  /\ SupervisorInit
  /\ WatcherInit

Up == pc # "exited"

\* main's own steps: the loop, and the call of startConfigWatcher before it.
Main ==
  \/ MainStep /\ UNCHANGED watcherVars
  \/ /\ pc = "watch"
     /\ pc' = "spawn"
     /\ StartWatcher
     /\ UNCHANGED <<code, conf, seen, gen, cancelled, running, signalVars>>

Signals == Up /\ SignalStep /\ UNCHANGED watcherVars

Watcher == Up /\ WatcherStep /\ UNCHANGED <<mainVars, signalVars>>

Collector == Up /\ CollectorStep /\ UNCHANGED watcherVars

User ==
  /\ Up
  /\ \/ (Term \/ Hup) /\ UNCHANGED watcherVars
     \/ /\ EarlyEdits \/ wpc # "init"
        /\ Edit
        /\ UNCHANGED <<mainVars, signalVars>>

\* The process is gone; nothing happens any more.
Exited == ~Up /\ UNCHANGED vars

Next == Main \/ Signals \/ Watcher \/ Collector \/ User \/ Exited

Spec == Init /\ [][Next]_vars

(* Goroutines are scheduled, and a collector whose run is cancelled        *)
(* returns: all its waits select on the context and all its requests but   *)
(* the InfluxDB v1 client's carry it.  Nothing is assumed of the user, nor *)
(* that a collector ever fails, nor of select beyond that it takes some    *)
(* ready branch.                                                           *)
Fairness ==
  /\ WF_vars(Main)
  /\ WF_vars(Up /\ Shutdown /\ UNCHANGED watcherVars)
  /\ WF_vars(Up /\ ForwardHup /\ UNCHANGED watcherVars)
  /\ WF_vars(Watcher)
  /\ WF_vars(Up /\ CancelledEnds /\ UNCHANGED watcherVars)

FairSpec == Spec /\ Fairness
-----------------------------------------------------------------------------
(* Correctness.                                                            *)

\* Every variable keeps to its range; only runs that were started are
\* cancelled (main.go:152, 170, 173).
TypeOK ==
  /\ file \in [ver : 1..(MaxEdits + 1), content : Contents \cup {Absent}]
  /\ SupervisorTypeOK
  /\ WatcherTypeOK

\* All collectors alive belong to the latest run, and every config version
\* any of them has read, at its start or later through the pointer to main's
\* conf, is the one in force (main.go:139, 153, 164: conf is assigned with no
\* lock and must not be while a collector can read it).
OneConfig ==
  \A r \in running : r.gen = gen /\ r.uses \subseteq {conf.ver}

\* A reload never stops the daemon by accident: when it exits with code 0 it
\* was told to shut down, or the collectors of the current run all ended of
\* their own accord, never because the run was cancelled for a reload
\* (main.go:150-175: done closes after cancelRun too).
ReloadNeverStops ==
  [][pc' = "exited" /\ pc # "exited" /\ code' = 0
       => ctxDone \/ gen \notin cancelled]_vars

\* A change on its way to main: an event, the armed timer, the token, or a
\* reload whose readConfig is still to come.
InFlight == events # <<>> \/ timer \/ reload \/ pc \in {"drain", "reread"}

\* The running daemon has not read the file as it is, and nothing will make
\* it do so.
Stale ==
  /\ pc \in Pcs \ {"start", "exited"}
  /\ ~ctxDone
  /\ file.ver # seen
  /\ ~InFlight

\* A change is missed only at the moment of the save, if the file is not watched
\* then; what the watch reports is never lost later, not to the debounce, nor to
\* a full reload channel, nor to a reload in progress (config_watcher.go:32-58,
\* main.go:150-168).
StaleOnlyUnwatched == [][~Stale /\ Stale' => ~watched /\ file' # file]_vars

Service == INSTANCE CollectionService
             WITH up <- Up, version <- conf.ver, run <- gen, active <- running

\* The daemon implements the promise of CollectionService: new configs and new
\* runs only between runs, one config per run, and no collector left at exit
\* (main.go:117-177).
ImplementsService == Service!Spec

\* A save the watcher can see is read in the end, unless the daemon ends first
\* (Changelog.md v0.32: the collector reloads "when the config file is modified
\* on disk").
SavesAreRead ==
  wpc = "run" /\ file.ver # seen ~> file.ver = seen \/ ctxDone \/ ~Up

\* A SIGHUP is honoured by a reload that starts after it, or the daemon ends;
\* also one that arrives while a reload is in progress (main.go:91-106).
HupIsServed == sighup ~> pc = "reread" \/ ctxDone \/ ~Up

\* SIGTERM ends the process, whatever reload it races with (main.go:154-157).
TermEnds == sigterm ~> ~Up
-----------------------------------------------------------------------------
(* What the repository says and the code does not do.                      *)

\* "This is used for config reloads (SIGHUP) where a failure should be logged
\* and recovered from rather than causing the process to exit" (config.go:112).
ReloadFailureRecovered ==
  [][pc = "reread" => pc' # "exited"]_vars
=============================================================================
