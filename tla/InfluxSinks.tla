------------------------------ MODULE InfluxSinks ------------------------------
(***************************************************************************)
(* The back ends that keep no state of their own between writes, over the  *)
(* successive runs of a collector: the InfluxDB sinks (influxdb.go and     *)
(* influxdbv2.go) and the discard sink (discard.go), with the write loop   *)
(* of statsloop that drives them.                                          *)
(*                                                                         *)
(* A batch is the workloads of one sample of the cluster.  The database    *)
(* identifies a point by its series, that is its tags, and its time: a     *)
(* point sent again replaces itself, but only if its tags are the same.    *)
(* One tag is not the cluster's data, the path of the workload's NFS       *)
(* export, which the sink looks up while it makes the batch.               *)
(*                                                                         *)
(* A write is points under way to a database that may apply each of them   *)
(* at any later time, or never, whatever became of the client.  The v1     *)
(* client refuses points, for example those whose series is too long; what *)
(* it refuses depends on the point alone.                                  *)
(***************************************************************************)
EXTENDS Naturals

CONSTANTS
  Workloads,    \* the workloads of a dataset
  Exports,      \* NFS export ids
  NoExport,     \* the export id of a workload that has none
  ExportOf,     \* the export id of a workload
  Paths,        \* paths an export may have
  Refused,      \* points of which the v1 client's NewPoint makes an error
  MaxWrites,    \* stats_processor_max_retries
  MaxRuns,      \* bound on the runs of the collector
  MaxSamples    \* bound on the samples the cluster takes

VARIABLES
  at,           \* where statsloop is
  run,          \* the run of the daemon the collector belongs to
  plugin,       \* stats_processor, as this run's configuration has it
  lookups,      \* lookup_export_ids, likewise
  cancelled,    \* the run's context is cancelled
  exports,      \* the sink's exportMap.pathByID
  batch,        \* the sample that sr holds
  todo,         \* workloads of sr with no point yet
  points,       \* the points made of sr in this try
  tries,        \* tries of the batch made or being made
  sent,         \* points under way to the databases
  db,           \* the points in the databases
  sample        \* the cluster's last sample

sinkVars   == <<at, exports, batch, todo, points, tries>>
runVars    == <<run, plugin, lookups, cancelled>>
influxVars == <<sinkVars, runVars, sent, db, sample>>

ASSUME InfluxAssumption ==
  /\ NoExport \notin Exports
  /\ ExportOf \in [Workloads -> Exports \cup {NoExport}]
  /\ MaxWrites \in Nat \ {0}
  /\ MaxRuns \in Nat \ {0}
  /\ MaxSamples \in Nat \ {0}

Plugins == {"discard", "influxdb", "influxdbv2"}
Waits   == {"wait", "nap"}
Ats     == Waits \cup {"init", "read", "tags", "sent", "returned"}

Runs    == 1..MaxRuns
Samples == 1..MaxSamples

\* What tags["export_path"] can be.  The code writes "unknown (lookup failed)"
\* for both failures; they are kept apart by what made the lookup fail.
Unasked   == "not looked up"
NoTag     == "no tag"
Failed    == "refused by the cluster"
Cut       == "cut by the cancellation"
Lost      == {Failed, Cut}
PathTags  == Paths \cup Lost \cup {NoTag}

ASSUME PathsAssumption == Paths \cap {Unasked, NoTag, Failed, Cut} = {}

Points == [run : Runs, plugin : Plugins, time : Samples, of : Workloads, path : PathTags]

\* The v2 client's NewPoint has no error (influxdbv2.go:83).
ASSUME RefusedAssumption == Refused \subseteq {p \in Points : p.plugin = "influxdb"}

Return == at' = "returned" /\ UNCHANGED <<exports, batch, todo, points, tries>>
-----------------------------------------------------------------------------
(* Init of the sinks, once per run.                                        *)

\* newExportMap
NoPaths == [e \in Exports |-> Unasked]

\* The InfluxDB v1 client's Ping takes no context.
OpenSink ==
  /\ at = "init"
  /\ plugin = "influxdbv2" => ~cancelled
  /\ at' = "read"
  /\ UNCHANGED <<exports, batch, todo, points, tries>>
  /\ UNCHANGED <<runVars, sent, db, sample>>

\* A missing secret or token, or a database that does not answer the ping.
OpenFails ==
  /\ at = "init"
  /\ plugin # "discard"
  /\ Return
  /\ UNCHANGED <<runVars, sent, db, sample>>
-----------------------------------------------------------------------------
(* A batch: GetPPStats, then WritePPStats until it succeeds.               *)

\* A try of the batch; the discard sink's throws it away and succeeds.
BeginTry(n) ==
  /\ tries' = n
  /\ points' = {}
  /\ at' = IF plugin = "discard" THEN "nap" ELSE "tags"
  /\ todo' = IF plugin = "discard" THEN {} ELSE Workloads
  /\ UNCHANGED exports

\* The cluster's answer, its latest sample, which may be the one read before.
Read ==
  /\ at = "read"
  /\ ~cancelled
  /\ batch' = sample
  /\ BeginTry(1)
  /\ UNCHANGED <<runVars, sent, db, sample>>

\* The listing fails, or the context of the read is cancelled.
ReadEnds ==
  /\ at = "read"
  /\ Return
  /\ UNCHANGED <<runVars, sent, db, sample>>

\* Mutant: the path of a failed lookup is not kept.
Keep_OnlyFound(e, p) ==
  exports' = IF p \in Lost THEN exports ELSE [exports EXCEPT ![e] = p]

\* exports.pathByID[id] = path, also when the lookup failed.
Keep(e, p) == exports' = [exports EXCEPT ![e] = p]

\* The point of workload w in the batch, with p as its path.
PointOf(w, p) == [run |-> run, plugin |-> plugin, time |-> batch, of |-> w, path |-> p]

\* The point of w, unless the client refuses it: it is left out of the batch.
Tagged(w, p) == {PointOf(w, p)} \ Refused

\* Mutant: a refused point ends the batch, "break" for "continue".
AddPoint_Breaks(w, p) ==
  /\ at = "tags"
  /\ w \in todo
  /\ todo' = IF PointOf(w, p) \in Refused THEN {} ELSE todo \ {w}
  /\ points' = points \cup Tagged(w, p)
  /\ UNCHANGED <<at, batch, tries>>
  /\ UNCHANGED <<runVars, sent, db, sample>>

AddPoint(w, p) ==
  /\ at = "tags"
  /\ w \in todo
  /\ todo' = todo \ {w}
  /\ points' = points \cup Tagged(w, p)
  /\ UNCHANGED <<at, batch, tries>>
  /\ UNCHANGED <<runVars, sent, db, sample>>

Asks(w) == lookups /\ ExportOf[w] # NoExport

PlainPoint(w) ==
  /\ ~Asks(w)
  /\ AddPoint(w, NoTag)
  /\ UNCHANGED exports

KnownPath(w) ==
  /\ Asks(w)
  /\ exports[ExportOf[w]] # Unasked
  /\ AddPoint(w, exports[ExportOf[w]])
  /\ UNCHANGED exports

\* GetExportPathByID, while the context lives: the path that the export has on the
\* cluster by now, which changes as its administrators please, or an error.
Lookup(w) ==
  /\ Asks(w)
  /\ exports[ExportOf[w]] = Unasked
  /\ ~cancelled
  /\ \E p \in Paths \cup {Failed} :
       AddPoint(w, p) /\ Keep(ExportOf[w], p)

\* GetExportPathByID returns the context's error, taken for a failed lookup.
LookupCut(w) ==
  /\ Asks(w)
  /\ exports[ExportOf[w]] = Unasked
  /\ cancelled
  /\ AddPoint(w, Cut)
  /\ Keep(ExportOf[w], Cut)

\* Mutant: WritePoint is not given the run's context.
Cuttable_Never == FALSE

\* Of the two clients' writes, the v2 client's alone takes the context.
Cuttable == plugin = "influxdbv2"

\* The request leaves, unless the client sees the cancellation first.
Send ==
  /\ at = "tags"
  /\ todo = {}
  /\ ~(Cuttable /\ cancelled)
  /\ at' = "sent"
  /\ sent' = sent \cup points
  /\ UNCHANGED <<exports, batch, todo, points, tries>>
  /\ UNCHANGED <<runVars, db, sample>>

\* context.Canceled from WritePPStats.
Interrupted ==
  /\ at \in {"tags", "sent"}
  /\ at = "tags" => todo = {}
  /\ Cuttable
  /\ cancelled
  /\ Return
  /\ UNCHANGED <<runVars, sent, db, sample>>

\* The database applied all of the request and its answer came through.
WriteDone ==
  /\ at = "sent"
  /\ points \cap sent = {}
  /\ at' = "nap"
  /\ UNCHANGED <<exports, batch, todo, points, tries>>
  /\ UNCHANGED <<runVars, sent, db, sample>>

\* An error, a broken connection or a timeout: applied, in part, or not, now or later.
WriteFails ==
  /\ at = "sent"
  /\ at' = "wait"
  /\ UNCHANGED <<exports, batch, todo, points, tries>>
  /\ UNCHANGED <<runVars, sent, db, sample>>

\* Mutant: one try too many.
More_OffByOne == tries <= MaxWrites

More == tries < MaxWrites

\* A wait that ends by its timer before the cancellation.
Retry ==
  /\ at = "wait"
  /\ ~cancelled
  /\ More
  /\ BeginTry(tries + 1)
  /\ UNCHANGED batch
  /\ UNCHANGED <<runVars, sent, db, sample>>

\* Mutant: after the last try the collector goes on with the next sample.
Surrender_GoesOn == at' = "nap" /\ UNCHANGED <<exports, batch, todo, points, tries>>

\* "ProcessorMaxRetries exceeded": the collector ends.
Surrender == Return

GiveUp ==
  /\ at = "wait"
  /\ ~More
  /\ Surrender
  /\ UNCHANGED <<runVars, sent, db, sample>>

NextCycle ==
  /\ at = "nap"
  /\ ~cancelled
  /\ at' = "read"
  /\ UNCHANGED <<exports, batch, todo, points, tries>>
  /\ UNCHANGED <<runVars, sent, db, sample>>

StopWaiting ==
  /\ at \in Waits
  /\ cancelled
  /\ Return
  /\ UNCHANGED <<runVars, sent, db, sample>>
-----------------------------------------------------------------------------
(* main, the database and the cluster.                                     *)

Cancel ==
  /\ at # "returned"
  /\ ~cancelled
  /\ cancelled' = TRUE
  /\ UNCHANGED <<run, plugin, lookups>>
  /\ UNCHANGED <<sinkVars, sent, db, sample>>

\* The collector of the next run, with the configuration of the reload.
NextRun ==
  /\ at = "returned"
  /\ run < MaxRuns
  /\ run' = run + 1
  /\ plugin' \in Plugins
  /\ lookups' \in BOOLEAN
  /\ cancelled' = FALSE
  /\ at' = "init"
  /\ exports' = NoPaths
  /\ batch' = 0
  /\ todo' = {}
  /\ points' = {}
  /\ tries' = 0
  /\ UNCHANGED <<sent, db, sample>>

\* The database applies a point; one it never applies stays under way.  A point
\* sent again is the one that was sent before.
Apply ==
  /\ \E p \in sent : sent' = sent \ {p} /\ db' = db \cup {p}
  /\ UNCHANGED <<sinkVars, runVars, sample>>

TakeSample ==
  /\ sample < MaxSamples
  /\ sample' = sample + 1
  /\ UNCHANGED <<sinkVars, runVars, sent, db>>
-----------------------------------------------------------------------------
Init ==
  /\ at = "init"
  /\ run = 1
  /\ plugin \in Plugins
  /\ lookups \in BOOLEAN
  /\ cancelled = FALSE
  /\ exports = NoPaths
  /\ batch = 0
  /\ todo = {}
  /\ points = {}
  /\ tries = 0
  /\ sent = {}
  /\ db = {}
  /\ sample = 1

\* Steps that wait for nobody: the pings have a timeout of 30 s.
OwnStep ==
  \/ OpenSink \/ OpenFails
  \/ Interrupted \/ Send
  \/ GiveUp \/ Retry \/ NextCycle \/ StopWaiting
  \/ \E w \in Workloads : PlainPoint(w) \/ KnownPath(w) \/ LookupCut(w)

\* A read ends when its context is cancelled.
ReadCut == cancelled /\ ReadEnds

CollectorStep ==
  \/ OwnStep
  \/ Read \/ ReadEnds
  \/ WriteDone \/ WriteFails
  \/ \E w \in Workloads : Lookup(w)

Next == CollectorStep \/ Cancel \/ NextRun \/ Apply \/ TakeSample

Spec     == Init /\ [][Next]_influxVars
FairSpec == Spec /\ WF_influxVars(OwnStep \/ ReadCut)
-----------------------------------------------------------------------------
(* Properties.                                                             *)

\* The values of the variables (influxdb.go, influxdbv2.go; main.go:318-348).
TypeOK ==
  /\ at \in Ats
  /\ run \in Runs
  /\ plugin \in Plugins
  /\ lookups \in BOOLEAN
  /\ cancelled \in BOOLEAN
  /\ exports \in [Exports -> Paths \cup Lost \cup {Unasked}]
  /\ batch \in 0..MaxSamples
  /\ todo \subseteq Workloads
  /\ points \subseteq Points
  /\ tries \in 0..MaxWrites
  /\ sent \subseteq Points
  /\ db \subseteq Points
  /\ sample \in Samples

\* However often a batch is sent, and however late its requests are applied, a
\* run leaves one point per workload and sample in the database: every try makes
\* the same tags, because the sink keeps what its first lookup of an export said,
\* a failure too (backend.go:106-117).
OnePoint ==
  \A p, q \in db :
    p.run = q.run /\ p.time = q.time /\ p.of = q.of => p = q

\* The path tag of a workload's points in this run, once it is known.
TagOf(w) == IF Asks(w) THEN exports[ExportOf[w]] ELSE NoTag

\* The batch of the collector is in the database, but for refused points.
Stored == \A w \in Workloads : PointOf(w, TagOf(w)) \in db \cup Refused

\* A collector goes on to another sample only with all of the last one in the
\* database that the client does not refuse: lost requests, batches applied in
\* part, lost answers, retries and refused points leave no other gap between the
\* samples that a run read (main.go:323-348; influxdb.go:93-105).
LeavesNoGap ==
  [][run' = run /\ batch' # batch /\ batch # 0 /\ plugin # "discard" => Stored]_influxVars

\* A lookup that the end of a run cut off reaches a database only through the v1
\* client, whose write cannot be cut off in turn (influxdb.go:102; influxdbv2.go:85).
CutStaysOut == \A p \in db : p.path = Cut => p.plugin = "influxdb"

Store == INSTANCE SampleStore
           WITH Times   <- Samples,
                current <- IF plugin = "discard" THEN 0 ELSE batch,
                stored  <- db

\* The write loop and the sinks implement SampleStore: with requests that are lost,
\* late, repeated or applied in part, and whatever fails while points are made, a
\* workload is one series for all of a run, nothing is in the databases ahead of
\* its collector, and behind it there is all of each sample but the points refused
\* (influxdb.go:77-107; influxdbv2.go:70-89; main.go:323-348).
ImplementsStore == Store!Spec

\* A cancelled run ends, whatever cluster and database do; only a write of the v1
\* client that the database never answers can hold it up (influxdb.go:102).
CancelEnds ==
  cancelled ~> (at = "returned" \/ [](at = "sent" /\ plugin = "influxdb"))
=============================================================================
