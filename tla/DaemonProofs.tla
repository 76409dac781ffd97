----------------------------- MODULE DaemonProofs -----------------------------
(***************************************************************************)
(* Proofs about Daemon for every set of clusters, of contents and of save  *)
(* styles, and every bound on edits and signals.                           *)
(*                                                                         *)
(* The safety theorems rest on one inductive invariant.  TypeOK and        *)
(* OneConfig are not inductive without Phases, which ties the program      *)
(* counter of main to the collectors, the contexts and the run number.     *)
(* The last theorems are what the liveness properties need but for the     *)
(* fairness: no step loses a SIGHUP, and after a SIGTERM main only gets    *)
(* nearer to its exit.                                                     *)
(***************************************************************************)
EXTENDS Daemon, TLAPS

\* Where main is while collectors may run, and what it knows there.
Phases ==
  /\ running # {} => pc \in {"wait", "drain", "unwind"}
  /\ pc \in {"wait", "drain", "unwind"} => gen >= 1
  /\ pc = "wait" => gen \notin cancelled
  /\ pc = "unwind" => ctxDone

\* The config in force is a past version of the file; a watch is on a file.
FileInv ==
  /\ conf.ver <= file.ver
  /\ watched => Present

IInv == TypeOK /\ OneConfig /\ Phases /\ FileInv
-----------------------------------------------------------------------------
LEMMA InitIInv == Init => IInv
<1> SUFFICES ASSUME Init PROVE IInv
  OBVIOUS
<1> USE DEF Init, SupervisorInit, WatcherInit
<1>1. file \in [ver : 1..(MaxEdits + 1), content : Contents \cup {Absent}]
  BY DaemonAssumption
<1>2. SupervisorTypeOK
  <2>1. /\ ctxDone \in BOOLEAN
        /\ reload \in BOOLEAN
        /\ sigterm \in BOOLEAN
        /\ sighup \in BOOLEAN
        /\ forwarding \in BOOLEAN
    BY Zenon
  <2>2. conf \in [ver : Nat, content : [kind : Kinds, on : SUBSET Clusters]]
    BY DEF Absent, Kinds
  <2>3. hups \in 0..MaxHups
    BY DaemonAssumption
  <2> QED
    BY <2>1, <2>2, <2>3 DEF SupervisorTypeOK, Pcs
<1>3. WatcherTypeOK
  <2>1. watched \in BOOLEAN /\ timer \in BOOLEAN
    BY Zenon
  <2> QED
    BY <2>1 DEF WatcherTypeOK
<1>4. OneConfig /\ Phases /\ FileInv
  BY <1>1 DEF OneConfig, Phases, FileInv
<1> QED
  BY <1>1, <1>2, <1>3, <1>4 DEF IInv, TypeOK

\* main's steps.  Only Boot and Reread assign conf, and only Spawn adds
\* collectors: at none of them is a collector alive.
LEMMA MainIInv == IInv /\ Main => IInv'
<1> SUFFICES ASSUME IInv, Main PROVE IInv'
  OBVIOUS
<1> USE DaemonAssumption, ContentsAssumption
    DEF IInv, TypeOK, SupervisorTypeOK, WatcherTypeOK, OneConfig, Phases,
        FileInv, Present, Absent, Kinds, Pcs, signalVars, watcherVars
<1>1. CASE Boot /\ UNCHANGED watcherVars
  BY <1>1 DEF Boot, Exit, SetupLogging, Loads
<1>2. CASE Spawn /\ UNCHANGED watcherVars
  BY <1>2 DEF Spawn, Collectors
<1>3. CASE OnReload /\ UNCHANGED watcherVars
  <2>1. cancelled' \subseteq 1..gen'
    BY <1>3 DEF OnReload, CancelRun
  <2>2. reload' \in BOOLEAN
    BY <1>3, Zenon DEF OnReload
  <2> QED
    BY <1>3, <2>1, <2>2 DEF OnReload
<1>4. CASE Drained /\ UNCHANGED watcherVars
  BY <1>4 DEF Drained, Done, Exit
<1>5. CASE Reread /\ UNCHANGED watcherVars
  BY <1>5 DEF Reread, Exit, SetupLogging, Loads
<1>6. CASE AllDone /\ UNCHANGED watcherVars
  BY <1>6 DEF AllDone, Done, CancelRun, Exit
<1>7. CASE OnShutdown /\ UNCHANGED watcherVars
  BY <1>7 DEF OnShutdown, CancelRun
<1>8. CASE Unwound /\ UNCHANGED watcherVars
  BY <1>8 DEF Unwound, Done, Exit
<1>9. CASE /\ pc = "watch"
           /\ pc' = "spawn"
           /\ StartWatcher
           /\ UNCHANGED <<code, conf, seen, gen, cancelled, running, signalVars>>
  BY <1>9 DEF StartWatcher
<1> QED
  BY <1>1, <1>2, <1>3, <1>4, <1>5, <1>6, <1>7, <1>8, <1>9 DEF Main, MainStep

LEMMA SignalsIInv == IInv /\ Signals => IInv'
<1> SUFFICES ASSUME IInv, Signals PROVE IInv'
  OBVIOUS
<1> USE DEF Signals, IInv, mainVars, watcherVars
<1>1. UNCHANGED <<file, mainVars, watcherVars, hups>> /\ (ctxDone' \/ UNCHANGED ctxDone)
  BY DEF SignalStep, Shutdown, ForwardHup, StopForwarding
<1>2. /\ ctxDone' \in BOOLEAN
      /\ reload' \in BOOLEAN
      /\ sigterm' \in BOOLEAN
      /\ sighup' \in BOOLEAN
      /\ forwarding' \in BOOLEAN
  BY DEF SignalStep, Shutdown, ForwardHup, StopForwarding, OfferReload,
         TypeOK, SupervisorTypeOK
<1>3. TypeOK'
  BY <1>1, <1>2 DEF TypeOK, SupervisorTypeOK, WatcherTypeOK
<1>4. OneConfig' /\ Phases' /\ FileInv'
  BY <1>1 DEF OneConfig, Phases, FileInv, Present
<1> QED
  BY <1>3, <1>4

LEMMA WatcherIInv == IInv /\ Watcher => IInv'
<1> SUFFICES ASSUME IInv, Watcher PROVE IInv'
  OBVIOUS
<1> USE DEF Watcher, IInv, mainVars, signalVars
<1>1. UNCHANGED <<file, ctxDone, mainVars, signalVars>>
  BY DEF WatcherStep, HandleEvent, TimerFires, StopWatcher
<1>2. reload' \in BOOLEAN /\ wpc' \in {"init", "run", "off"}
  BY DEF WatcherStep, HandleEvent, TimerFires, StopWatcher, OfferReload,
         TypeOK, SupervisorTypeOK, WatcherTypeOK
<1>3. watched' \in BOOLEAN /\ (watched' => Present)
  <2>1. CASE HandleEvent /\ Head(events) = "Gone"
    BY <2>1, Zenon DEF HandleEvent, Rewatch, Present
  <2>2. CASE HandleEvent /\ Head(events) # "Gone"
    <3>1. watched' = watched
      BY <2>2 DEF HandleEvent, Rewatch
    <3> QED
      BY <3>1, Zenon DEF TypeOK, WatcherTypeOK, FileInv
  <2>3. CASE TimerFires
    BY <2>3 DEF TimerFires, TypeOK, WatcherTypeOK, FileInv
  <2>4. CASE StopWatcher
    BY <2>4 DEF StopWatcher
  <2> QED
    BY <2>1, <2>2, <2>3, <2>4 DEF WatcherStep
<1>4. timer' \in BOOLEAN
  BY DEF WatcherStep, HandleEvent, TimerFires, StopWatcher, Debounced,
         TypeOK, WatcherTypeOK
<1>5. events' \in Seq({"Write", "Gone"})
  <2>1. CASE HandleEvent
    <3>1. events \in Seq({"Write", "Gone"}) /\ events # <<>>
      BY <2>1 DEF HandleEvent, TypeOK, WatcherTypeOK
    <3>2. Tail(events) \in Seq({"Write", "Gone"})
      BY <3>1
    <3> QED
      BY <2>1, <3>2 DEF HandleEvent
  <2>2. CASE TimerFires
    BY <2>2 DEF TimerFires, TypeOK, WatcherTypeOK
  <2>3. CASE StopWatcher
    BY <2>3 DEF StopWatcher
  <2> QED
    BY <2>1, <2>2, <2>3 DEF WatcherStep
<1>6. TypeOK'
  BY <1>1, <1>2, <1>3, <1>4, <1>5 DEF TypeOK, SupervisorTypeOK, WatcherTypeOK
<1>7. OneConfig' /\ Phases' /\ FileInv'
  BY <1>1, <1>3 DEF OneConfig, Phases, FileInv, Present
<1> QED
  BY <1>6, <1>7

\* A collector reads the conf in force, which is the only one it ever read.
LEMMA CollectorIInv == IInv /\ Collector => IInv'
<1> SUFFICES ASSUME IInv, Collector PROVE IInv'
  OBVIOUS
<1> USE DEF IInv, TypeOK, SupervisorTypeOK, WatcherTypeOK, OneConfig, Phases,
            FileInv, Present, signalVars, watcherVars, Collector
<1>1. PICK r \in running : ReadsConf(r) \/ Ends(r)
  BY DEF CollectorStep
<1>2. CASE ReadsConf(r)
  <2>1. [r EXCEPT !.uses = @ \cup {conf.ver}]
          \in [gen : {gen}, cl : Clusters, uses : SUBSET {conf.ver}]
    OBVIOUS
  <2> QED
    BY <1>2, <2>1 DEF ReadsConf
<1>3. CASE Ends(r)
  BY <1>3 DEF Ends
<1> QED
  BY <1>1, <1>2, <1>3

LEMMA SignalArrivalIInv == IInv /\ (Term \/ Hup) /\ UNCHANGED watcherVars => IInv'
<1> SUFFICES ASSUME IInv, Term \/ Hup, UNCHANGED watcherVars PROVE IInv'
  OBVIOUS
<1> USE DEF IInv, mainVars, watcherVars
<1>1. UNCHANGED <<file, ctxDone, reload, mainVars, watcherVars, forwarding>>
  BY DEF Term, Hup
<1>2. sigterm' \in BOOLEAN /\ sighup' \in BOOLEAN
  BY Zenon DEF Term, Hup, TypeOK, SupervisorTypeOK
<1>3. hups' \in 0..MaxHups
  BY DaemonAssumption DEF Term, Hup, TypeOK, SupervisorTypeOK
<1>4. TypeOK'
  BY <1>1, <1>2, <1>3 DEF TypeOK, SupervisorTypeOK, WatcherTypeOK
<1>5. OneConfig' /\ Phases' /\ FileInv'
  BY <1>1 DEF OneConfig, Phases, FileInv, Present
<1> QED
  BY <1>4, <1>5

\* A save leaves a file of the allowed kinds, one version on; it keeps the watch
\* only if it keeps the inode.
LEMMA EditIInv == IInv /\ Edit /\ UNCHANGED <<mainVars, signalVars>> => IInv'
<1> SUFFICES ASSUME IInv, Edit, UNCHANGED <<mainVars, signalVars>> PROVE IInv'
  OBVIOUS
<1> USE DEF IInv, mainVars, signalVars
<1>1. UNCHANGED <<ctxDone, reload, wpc, timer>>
  BY DEF Edit, WriteFile, ReplaceFile, RemoveFile, CreateFile, Save
<1>2. /\ file' \in [ver : 1..(MaxEdits + 1), content : Contents \cup {Absent}]
      /\ file'.ver = file.ver + 1
  BY DaemonAssumption
  DEF Edit, WriteFile, ReplaceFile, RemoveFile, CreateFile, Save, TypeOK
<1>3. watched' \in BOOLEAN /\ (watched' => file'.content # Absent)
  <2>1. ASSUME NEW c \in Contents PROVE c # Absent
    BY ContentsAssumption DEF Absent, Kinds
  <2>2. ASSUME NEW c \in Contents, WriteFile(c) PROVE file'.content # Absent
    BY <2>1, <2>2 DEF WriteFile, Save
  <2>3. ASSUME NEW c \in Contents, WriteFile(c) PROVE watched' \in BOOLEAN
    BY <2>3, Zenon DEF WriteFile, TypeOK, WatcherTypeOK
  <2>4. ASSUME NEW c \in Contents, ReplaceFile(c) \/ RemoveFile PROVE ~watched' /\ watched' \in BOOLEAN
    BY <2>4, Zenon DEF ReplaceFile, RemoveFile
  <2>5. ASSUME NEW c \in Contents, CreateFile(c) PROVE ~watched' /\ watched' \in BOOLEAN
    BY <2>5, Zenon DEF CreateFile, FileInv, TypeOK, WatcherTypeOK
  <2>6. RemoveFile => ~watched' /\ watched' \in BOOLEAN
    BY Zenon DEF RemoveFile
  <2> QED
    BY <2>2, <2>3, <2>4, <2>5, <2>6, Zenon DEF Edit
<1>4. events' \in Seq({"Write", "Gone"})
  BY DEF Edit, WriteFile, ReplaceFile, RemoveFile, CreateFile, Notify,
         TypeOK, WatcherTypeOK
<1>5. TypeOK'
  BY <1>1, <1>2, <1>3, <1>4 DEF TypeOK, SupervisorTypeOK, WatcherTypeOK
<1>6. OneConfig' /\ Phases'
  BY <1>1 DEF OneConfig, Phases
<1>7. FileInv'
  BY <1>2, <1>3 DEF FileInv, Present, TypeOK, SupervisorTypeOK
<1> QED
  BY <1>5, <1>6, <1>7

LEMMA StutterIInv == IInv /\ UNCHANGED vars => IInv'
BY DEF IInv, TypeOK, SupervisorTypeOK, WatcherTypeOK, OneConfig, Phases,
       FileInv, Present, vars, mainVars, signalVars, watcherVars

LEMMA NextIInv == IInv /\ [Next]_vars => IInv'
BY MainIInv, SignalsIInv, WatcherIInv, CollectorIInv, SignalArrivalIInv, EditIInv,
   StutterIInv
DEF Next, User, Exited

\* The inductive invariant holds in every reachable state of the daemon.
THEOREM Invariance == Spec => []IInv
BY InitIInv, NextIInv, PTL DEF Spec
-----------------------------------------------------------------------------
\* Every variable keeps to its range.
THEOREM TypeCorrect == Spec => []TypeOK
BY Invariance, PTL DEF IInv

\* No collector outlives its run or sees two configs: conf is written only when
\* no collector is alive (main.go:139, 153, 164).
THEOREM ConfigIsStable == Spec => []OneConfig
BY Invariance, PTL DEF IInv

\* A reload does not end the daemon with code 0: Exit(0) is taken in the select
\* only for a run that was not cancelled, and after a drain only on shutdown.
THEOREM ReloadKeepsUp == Spec => ReloadNeverStops
<1> DEFINE Stop == pc' = "exited" /\ pc # "exited" /\ code' = 0
                     => ctxDone \/ gen \notin cancelled
<1>1. IInv /\ [Next]_vars => [Stop]_vars
  <2> SUFFICES ASSUME IInv, Next, pc' = "exited", pc # "exited", code' = 0
               PROVE  ctxDone \/ gen \notin cancelled
    OBVIOUS
  <2>1. Main
    BY DEF Next, Signals, SignalStep, Shutdown, ForwardHup, StopForwarding,
           Watcher, Collector, CollectorStep, ReadsConf, Ends, User, Term, Hup,
           Exited, Up, mainVars, vars
  <2>2. AllDone \/ Drained \/ Unwound
    BY <2>1 DEF Main, MainStep, Boot, Spawn, OnReload, Reread, OnShutdown, Exit,
                SetupLogging
  <2> QED
    BY <2>2 DEF AllDone, Drained, Unwound, IInv, Phases
<1>2. ReloadNeverStops <=> [][Stop]_vars
  BY DEF ReloadNeverStops
<1> QED
  BY <1>1, <1>2, Invariance, PTL DEF Spec
-----------------------------------------------------------------------------
\* The daemon's own steps never lose a change that is on its way to main.
LEMMA StepsKeepChange ==
  ASSUME IInv, Main \/ Signals \/ Watcher \/ Collector, ~Stale
  PROVE  ~Stale'
<1> USE DEF Stale, InFlight, Pcs, mainVars, signalVars, watcherVars
<1>1. CASE Main
  <2> USE <1>1
  <2>1. CASE (Boot \/ Reread) /\ UNCHANGED watcherVars
    BY <2>1 DEF Boot, Reread
  <2>2. CASE OnReload /\ UNCHANGED watcherVars
    BY <2>2 DEF OnReload
  <2>3. CASE (Drained \/ AllDone \/ Unwound) /\ UNCHANGED watcherVars
    BY <2>3 DEF Drained, AllDone, Unwound, Exit
  <2>4. CASE (Spawn \/ OnShutdown) /\ UNCHANGED watcherVars
    BY <2>4 DEF Spawn, OnShutdown
  <2>5. CASE pc = "watch" /\ StartWatcher /\ UNCHANGED seen
    BY <2>5 DEF StartWatcher
  <2> QED
    BY <2>1, <2>2, <2>3, <2>4, <2>5 DEF Main, MainStep
<1>2. CASE Signals
  <2>1. UNCHANGED <<file, mainVars, watcherVars>>
    BY <1>2 DEF Signals, SignalStep, Shutdown, ForwardHup, StopForwarding
  <2>2. (reload => reload') /\ (ctxDone => ctxDone')
    BY <1>2 DEF Signals, SignalStep, Shutdown, ForwardHup, StopForwarding,
                OfferReload
  <2> QED
    BY <2>1, <2>2
<1>3. CASE Watcher
  <2>1. CASE HandleEvent
    <3>1. Head(events) \in {"Write", "Gone"}
      BY <2>1 DEF HandleEvent, IInv, TypeOK, WatcherTypeOK
    <3>2. timer'
      BY <2>1, <3>1, Zenon DEF HandleEvent, Debounced
    <3> QED
      BY <3>2
  <2>2. CASE TimerFires
    <3>1. reload'
      BY <2>2 DEF TimerFires, OfferReload
    <3> QED
      BY <3>1
  <2>3. CASE StopWatcher
    BY <2>3 DEF StopWatcher
  <2> QED
    BY <1>3, <2>1, <2>2, <2>3 DEF Watcher, WatcherStep
<1>4. CASE Collector
  BY <1>4 DEF Collector, CollectorStep, ReadsConf, Ends
<1> QED
  BY <1>1, <1>2, <1>3, <1>4

\* A save of a watched file leaves an event.
LEMMA WatchedSaveIsReported ==
  ASSUME IInv, Edit, watched
  PROVE  events' # <<>>
<1>1. Present
  BY DEF IInv, FileInv
<1>2. PICK e : events' = Append(events, e)
  BY <1>1 DEF Edit, WriteFile, ReplaceFile, RemoveFile, CreateFile, Notify
<1> QED
  BY <1>2 DEF IInv, TypeOK, WatcherTypeOK

\* Between a save the watch reports and the readConfig that follows it, there
\* is always an event, the armed timer, the token or a reload under way.
THEOREM NoChangeLost == Spec => StaleOnlyUnwatched
<1> DEFINE Lost == ~Stale /\ Stale' => ~watched /\ file' # file
<1>1. IInv /\ [Next]_vars => [Lost]_vars
  <2> SUFFICES ASSUME IInv, Next, ~Stale, Stale' PROVE ~watched /\ file' # file
    OBVIOUS
  <2>1. ~(Main \/ Signals \/ Watcher \/ Collector)
    BY StepsKeepChange
  <2>2. ~(UNCHANGED <<file, ctxDone, reload, pc, seen, events, timer>>)
    BY DEF Stale, InFlight
  <2>3. Edit
    BY <2>1, <2>2 DEF Next, User, Exited, Term, Hup, vars, mainVars, watcherVars
  <2>4. file' # file
    BY <2>3 DEF Edit, WriteFile, ReplaceFile, RemoveFile, CreateFile, Save, IInv, TypeOK
  <2>5. ~watched
    BY <2>3, WatchedSaveIsReported DEF Stale, InFlight
  <2> QED
    BY <2>4, <2>5
<1>2. StaleOnlyUnwatched <=> [][Lost]_vars
  BY DEF StaleOnlyUnwatched
<1> QED
  BY <1>1, <1>2, Invariance, PTL DEF Spec
-----------------------------------------------------------------------------
(* The refinement of CollectionService.                                    *)

LEMMA InitRefines == Init => Service!Init
BY DEF Init, SupervisorInit, Service!Init, Up

\* Boot, Reread and the exits are steps between runs; Spawn begins one.
LEMMA MainRefines ==
  ASSUME IInv, IInv', Main
  PROVE  [Service!Next]_Service!serviceVars
<1> USE DEF IInv, Phases, FileInv, Up, Done, Exit, Service!serviceVars, Service!Next,
            Service!Idle
<1>1. CASE Boot \/ Reread
  <2>1. running = {} /\ pc # "exited" /\ UNCHANGED <<gen, running>>
    BY <1>1 DEF Boot, Reread
  <2>2. conf'.ver \in Nat /\ conf'.ver >= conf.ver
    BY <1>1 DEF Boot, Reread, TypeOK, SupervisorTypeOK
  <2>3. Service!Adopt
    BY <2>1, <2>2 DEF Service!Adopt
  <2> QED
    BY <2>3
<1>2. CASE Spawn
  <2>1. running = {} /\ pc # "exited"
    BY <1>2 DEF Spawn
  <2>2. conf.content.on \in SUBSET Clusters
    BY DEF TypeOK, SupervisorTypeOK
  <2>3. Service!Begin(conf.content.on)
    BY <1>2, <2>1 DEF Spawn, Collectors, Service!Begin
  <2> QED
    BY <2>2, <2>3
<1>3. CASE Drained \/ AllDone \/ Unwound
  BY <1>3 DEF Drained, AllDone, Unwound, Service!GoDown
<1>4. CASE OnReload \/ OnShutdown
  BY <1>4 DEF OnReload, OnShutdown
<1>5. CASE pc = "watch" /\ pc' = "spawn" /\ UNCHANGED <<conf, gen, running>>
  BY <1>5
<1> QED
  BY <1>1, <1>2, <1>3, <1>4, <1>5 DEF Main, MainStep

LEMMA CollectorRefines ==
  ASSUME IInv, Collector
  PROVE  Service!Next
<1> USE DEF Collector, signalVars, watcherVars, Up
<1>1. PICK r \in running : ReadsConf(r) \/ Ends(r)
  BY DEF CollectorStep
<1>2. CASE ReadsConf(r)
  <2>1. r.uses \cup {conf.ver} = {conf.ver}
    BY DEF IInv, OneConfig
  <2>2. Service!UseConfig(r)
    BY <1>2, <2>1 DEF ReadsConf, Service!UseConfig
  <2> QED
    BY <2>2 DEF Service!Next
<1>3. CASE Ends(r)
  BY <1>3 DEF Ends, Service!Finish, Service!Next
<1> QED
  BY <1>1, <1>2, <1>3

\* Signals, file events and saves are invisible to the service.
LEMMA OthersStutter ==
  ASSUME Signals \/ Watcher \/ User \/ Exited \/ UNCHANGED vars
  PROVE  UNCHANGED Service!serviceVars
BY DEF Signals, SignalStep, Shutdown, ForwardHup, StopForwarding, Watcher, User,
       Term, Hup, Exited, vars, mainVars, Service!serviceVars, Up

\* Every behaviour of the daemon is one of CollectionService: configs and runs
\* change only when no collector is active, and it goes down leaving none.
THEOREM Implementation == Spec => ImplementsService
<1>1. IInv /\ IInv' /\ [Next]_vars => [Service!Next]_Service!serviceVars
  BY MainRefines, CollectorRefines, OthersStutter DEF Next
<1> QED
  BY <1>1, InitRefines, Invariance, PTL DEF Spec, ImplementsService, Service!Spec
-----------------------------------------------------------------------------
(* Collectors, signals and the shutdown.                                   *)

\* No cluster of the config has two collectors at once, of one run or of two: a
\* reload doubles neither the load on it nor the writers of its sink
\* (main.go:129-141, 151-153).
OnePerCluster == \A r, s \in running : r.cl = s.cl => r = s

LEMMA NextOnePerCluster == IInv /\ OnePerCluster /\ [Next]_vars => OnePerCluster'
<1> SUFFICES ASSUME IInv, OnePerCluster, [Next]_vars PROVE OnePerCluster'
  OBVIOUS
<1> USE DEF OnePerCluster
<1>1. CASE Spawn
  <2>1. running = {}
    BY <1>1 DEF IInv, Phases, Spawn
  <2>2. running' = Collectors(gen', conf.content.on)
    BY <1>1, <2>1 DEF Spawn
  <2>3. ASSUME NEW r \in running', NEW s \in running', r.cl = s.cl PROVE r = s
    <3>1. r = [gen |-> gen', cl |-> r.cl, uses |-> {}]
      BY <2>2 DEF Collectors
    <3>2. s = [gen |-> gen', cl |-> s.cl, uses |-> {}]
      BY <2>2 DEF Collectors
    <3> QED
      BY <2>3, <3>1, <3>2
  <2> QED
    BY <2>3
<1>2. CASE Collector
  <2>1. PICK r \in running : ReadsConf(r) \/ Ends(r)
    BY <1>2 DEF Collector, CollectorStep
  <2>2. CASE ReadsConf(r)
    <3> DEFINE q == [r EXCEPT !.uses = @ \cup {conf.ver}]
    <3>1. q.cl = r.cl
      BY DEF IInv, TypeOK, SupervisorTypeOK
    <3>2. running' = (running \ {r}) \cup {q}
      BY <2>2 DEF ReadsConf
    <3> HIDE DEF q
    <3> QED
      BY <2>1, <3>1, <3>2
  <2>3. CASE Ends(r)
    BY <2>3 DEF Ends
  <2> QED
    BY <2>1, <2>2, <2>3
<1>3. CASE ~(Spawn \/ Collector)
  <2>1. UNCHANGED running
    BY <1>3
       DEF Next, Main, MainStep, Boot, OnReload, Drained, Reread, AllDone, OnShutdown,
           Unwound, Signals, SignalStep, Shutdown, ForwardHup, StopForwarding, Watcher,
           User, Term, Hup, Exited, vars, mainVars
  <2> QED
    BY <2>1
<1> QED
  BY <1>1, <1>2, <1>3

\* A cluster has one collector, whatever reloads and deaths of collectors race.
THEOREM ClustersHaveOneCollector == Spec => []OnePerCluster
<1>1. Init => OnePerCluster
  BY DEF Init, SupervisorInit, OnePerCluster
<1> QED
  BY <1>1, NextOnePerCluster, Invariance, PTL DEF Spec

\* A SIGHUP whose config is still to be read: in its channel, turned into the
\* token, or taken by main.
Asked == sighup \/ reload \/ pc = "drain"

\* A SIGHUP, and several that were made into one, ends in a readConfig that starts
\* after it, or with the daemon (main.go:91-106, 150-160).
HupsAreKept == [][Asked /\ ~Asked' => pc' \in {"reread", "exited"}]_vars

\* HupIsServed but for the fairness: no step loses a SIGHUP, not the non-blocking
\* send, nor a reload under way.
THEOREM NoHupLost == Spec => HupsAreKept
<1> DEFINE Kept == Asked /\ ~Asked' => pc' \in {"reread", "exited"}
<1>1. ASSUME [Next]_vars, Asked, ~Asked' PROVE pc' \in {"reread", "exited"}
  <2> USE <1>1 DEF Asked, mainVars, signalVars, watcherVars
  <2>1. CASE Main
    BY <2>1
       DEF Main, MainStep, Boot, Spawn, OnReload, Drained, Reread, AllDone, OnShutdown,
           Unwound, Exit, SetupLogging, StartWatcher
  <2>2. CASE Signals \/ Watcher
    <3>1. reload' \/ (UNCHANGED <<sighup, pc>> /\ (reload => reload'))
      <4>1. CASE ForwardHup \/ TimerFires
        BY <4>1, Zenon DEF ForwardHup, TimerFires, OfferReload
      <4>2. CASE (Shutdown \/ StopForwarding) /\ Signals
        BY <4>2 DEF Shutdown, StopForwarding
      <4>3. CASE (HandleEvent \/ StopWatcher) /\ Watcher
        BY <4>3 DEF HandleEvent, StopWatcher, Watcher
      <4> QED
        BY <2>2, <4>1, <4>2, <4>3 DEF Signals, SignalStep, Watcher, WatcherStep
    <3> QED
      BY <3>1
  <2>3. CASE Collector \/ User \/ Exited \/ UNCHANGED vars
    BY <2>3
       DEF Collector, CollectorStep, ReadsConf, Ends, User, Term, Hup, Edit, WriteFile,
           ReplaceFile, RemoveFile, CreateFile, Save, Exited, vars
  <2> QED
    BY <2>1, <2>2, <2>3 DEF Next
<1>2. HupsAreKept <=> [][Kept]_vars
  BY DEF HupsAreKept
<1> QED
  BY <1>1, <1>2, PTL DEF Spec

\* How far main is from its exit.
ToExit(p) ==
  CASE p = "start"                -> 5
    [] p \in {"watch", "reread"}  -> 4
    [] p = "spawn"                -> 3
    [] p = "wait"                 -> 2
    [] p \in {"drain", "unwind"}  -> 1
    [] OTHER                      -> 0

\* After a SIGTERM every step of main brings it nearer to its exit: a reload that
\* races with the signal begins at most one more run (main.go:150-176).
WindsDown == [][ctxDone => ctxDone' /\ (pc' # pc => ToExit(pc') < ToExit(pc))]_vars

LEMMA ToExitFrom ==
  /\ ToExit("start") = 5 /\ ToExit("watch") = 4 /\ ToExit("reread") = 4
  /\ ToExit("spawn") = 3 /\ ToExit("wait") = 2 /\ ToExit("drain") = 1
  /\ ToExit("unwind") = 1 /\ ToExit("exited") = 0
BY DEF ToExit

\* TermEnds but for the fairness: main makes at most ToExit(pc) further steps.
THEOREM TermWindsDown == Spec => WindsDown
<1> DEFINE Nearer == ctxDone => ctxDone' /\ (pc' # pc => ToExit(pc') < ToExit(pc))
<1>1. ASSUME [Next]_vars, ctxDone, pc' # pc PROVE ToExit(pc') < ToExit(pc)
  <2>1. Main
    BY <1>1
       DEF Next, Signals, SignalStep, Shutdown, ForwardHup, StopForwarding, Watcher,
           Collector, CollectorStep, ReadsConf, Ends, User, Term, Hup, Exited, mainVars,
           vars
  <2>2. \/ pc = "start" /\ pc' \in {"watch", "exited"}
        \/ pc = "watch" /\ pc' = "spawn"
        \/ pc = "spawn" /\ pc' = "wait"
        \/ pc = "wait" /\ pc' \in {"drain", "unwind", "exited"}
        \/ pc \in {"drain", "unwind"} /\ pc' = "exited"
        \/ pc = "reread" /\ pc' \in {"spawn", "exited"}
    BY <1>1, <2>1
       DEF Main, MainStep, Boot, Spawn, OnReload, Drained, Reread, AllDone, OnShutdown,
           Unwound, Exit, SetupLogging
  <2> QED
    BY <2>2, ToExitFrom
<1>2. ASSUME [Next]_vars, ctxDone PROVE ctxDone'
  BY <1>2, Zenon
     DEF Next, Main, MainStep, Boot, Spawn, OnReload, Drained, Reread, AllDone, OnShutdown,
         Unwound, StartWatcher, Signals, SignalStep, Shutdown, ForwardHup, StopForwarding,
         Watcher, WatcherStep, HandleEvent, TimerFires, StopWatcher, Collector,
         CollectorStep, ReadsConf, Ends, User, Term, Hup, Edit, WriteFile, ReplaceFile,
         RemoveFile, CreateFile, Save, Exited, vars
<1>3. WindsDown <=> [][Nearer]_vars
  BY DEF WindsDown
<1> QED
  BY <1>1, <1>2, <1>3, PTL DEF Spec
=============================================================================
