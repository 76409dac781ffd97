# goppstats in TLA+

goppstats samples the partitioned performance statistics of OneFS clusters and
hands them to a back end: InfluxDB, or a Prometheus endpoint it serves itself.
This directory holds its specification, the TLC configurations that check it on
small instances, and the TLAPS proofs of its main properties. Source references
are to the files of the repository. `PROJECT.json` maps every definition to its
lines.

## Inventory

| Part | State | Operations | Talks to |
|---|---|---|---|
| Supervisor, `main()` (main.go:42-179) | `conf`, run context, `done`, `reload`, `sigterm` and `sighup` channels, exit code | boot, start a run, reload, end of all collectors, shutdown | collectors by pointer to `conf`, run context and wait group; watcher and signals by `reload` |
| Config watcher (config_watcher.go) | the fsnotify watch, its events, debounce timer | event, re-add, timer, stop | `reload`, one slot, non-blocking |
| Config and logging (config.go, logging.go) | none but the logger | `readConfig`, `setupLogging` | called by main; `setupLogging` may exit |
| Collector, `statsloop` (main.go:181-360), one goroutine per cluster | datasets of the cycle, rows, retry delay and counts | start, list, read, write, wait | API client, back end |
| API client (isilon_api.go) | cookies, CSRF token, re-authentication time | `Connect`, `Authenticate`, `restGet` | the cluster |
| Prometheus sink (prometheus.go, backend.go) | dataset definitions, families of samples, label counts, export paths | `UpdateDatasets`, `WritePPStats`, `Collect`/`Expire`, under one mutex | collector, HTTP scrapes, cluster (export lookups) |
| HTTP servers (prometheus.go:95-295, control_*.go, extnet.go) | listeners and connections of a run, on ports that runs share | listen, serve, shut down on cancellation | run context, the sink's mutex, scrapers |
| InfluxDB and discard sinks (influxdb.go, influxdbv2.go, discard.go) | a client, export paths of the run; the database's points | `Init`, `WritePPStats` | database, cluster (export lookups) |

Hard here: goroutines that share `conf` with no lock, kept apart only by the
order main works in; two one-slot channels that drop what does not fit;
`select`s with several ready branches; a file watch that an editor's save takes
away; retries without limit beside retries with one; definitions listed at one
time and used at another; incremental counts kept over additions, replacements
and expirations; ids that stand for labels; a cookie jar and a token that change
at different times; servers that nobody waits for; writes whose outcome is not
known. What makes each part correct:

- supervisor: one config per run, nothing started or adopted while a collector
  of the old run is alive, no exit but for a reason, every request to reload or
  stop honoured;
- watcher: a save that the watch reports leads to a reload;
- collector: every dataset of a listing delivered once, failures bounded or
  survived, cancellation effective everywhere;
- API client: requests with the token of their session, sessions renewed in
  time, calls that end, recovery from any trouble of the cluster;
- sink: a scrape shows the latest unexpired sample of every series of a workload,
  and nothing else, under the current definitions;
- HTTP servers: ports and clients left by a run that is over, requests that end;
- InfluxDB sinks: one point per workload and sample however often it is sent, no
  gap among the samples read but points that cannot be made, no path in the database that no lookup found.

## Modules

| Module | What it is |
|---|---|
| `DaemonState` | what main and the watcher share: the config file, the top-level context, the reload channel |
| `ConfigWatcher` | the user's saves, the inotify watch, `startConfigWatcher` and its goroutine |
| `Supervisor` | `main()`, the signal goroutines, collectors as main sees them |
| `Daemon` | composes the two; fairness and the daemon's properties |
| `CollectionService` | abstract: what the daemon promises its operator |
| `DaemonProofs` | theorems about `Daemon` |
| `Collector` | `statsloop` for one cluster, and the cluster's administrator |
| `Sampler` | abstract: cycles that deliver each listed dataset once |
| `CollectorProofs` | theorems about `Collector` |
| `PromSink` | the Prometheus sink of one cluster |
| `Exposition` | abstract: what a scraper may rely on |
| `PromSinkProofs` | theorems about `PromSink` |
| `ExpositionProofs` | proofs that `PromSink` implements `Exposition`, and when it keeps one sample for a series |
| `ConfigFile` | `readConfig` and `setupLogging` as operators, from settings to verdicts |
| `ApiClient` | `Connect`, `Authenticate`, `restGet` and the cluster's sessions |
| `BoundedCalls` | abstract: calls that spend a budget of requests and waits |
| `ApiClientProofs` | theorems about `ApiClient` |
| `HttpServers` | the listeners, servers and clients of successive runs |
| `HttpServersProofs` | theorems about `HttpServers` |
| `InfluxSinks` | the InfluxDB and discard sinks, the write loop and the database |
| `SampleStore` | abstract: what a reader of the databases may rely on |
| `InfluxSinksProofs` | theorems about `InfluxSinks` |
| `MC...` | one for each of the six systems: constants for TLC |

### Daemon

`pc` follows main: `start` (config, logging, signal handlers), `watch` (the call
of `startConfigWatcher`), `spawn`, `wait` (the select), `drain` (`<-done` of a
reload), `reread`, `unwind` (`<-done` of a shutdown), `exited`. A config is the
version of the file it was read from and its content; a content is the verdict
of `readConfig` and `setupLogging` and the set of enabled clusters. A collector
is a record of `running`: its run, its cluster and the versions it has read
through main's pointer (`uses`), so a config assigned too early would show as
two versions in one collector. The contents of the runs are computed by
`ConfigFile!ContentOf` from files with their settings: versions, logging sections
and cluster stanzas. A run is cancelled when its number is in
`cancelled` or the top-level context is. The done channel is closed exactly when
`running` is empty, as the wait group makes it.

In `ConfigWatcher` the watch belongs to the inode the path named when it was
added. A save in place reports `Write`; a rename over the path, a rename away or
a removal reports `Gone` and ends the watch; a creation is seen by nobody. The
debounce timer is armed or not, and fires at any time while armed: its 500 ms
are shorter or longer than anything the user does.

### Collector

`at` is the request or wait `statsloop` is in, `cur` the dataset being read or
written, `todo` the datasets of the cycle still to come, in whichever order the
cluster listed them. A definition is its creation time; `remote` is what the
cluster has, `told` what the back end was last told, `rows` the definition the
rows in hand were sampled under. Delays are in seconds, as the code computes
them. A query of a dataset that is not defined is an error (isilon_api.go:473
makes an error of any status but 200 and 401; that the cluster answers so is the
assumption). Requests to the cluster are atomic.

### Prometheus sink

A sample has its family, id, labels and expiration. The metrics of a definition
name the family. The eleven fields of a row go to eleven families that change
alike and are one here; the labels that are constant for a sink (cluster,
`instance_label_name`) are left out. `WritePPStats` is three actions, because
time passes while it holds the mutex and looks exports up: `BeginWrite` locks and
reads the clock, `WriteRow` takes a row with its export lookup, `EndWrite`
unlocks. The other operations need the mutex, as `Collect` and `UpdateDatasets` take
it: a scrape sees whole writes only, and what is checked is every order of whole
operations and of the time they take. The error for a null field
(prometheus.go:577) cannot happen: the fields are of type float64. The collector
calls `UpdateDatasets` and then writes each listed dataset; the model allows any
number of writes in any order after a listing.

A row of a dataset (`RowsOf`) may lack some of the dataset's metrics, and may have
the tags that `tagsForPPStat` takes from any row (`Others`: the workload id that
pinned workloads have, domain id, system name, job type; backend.go:181-198). These
are in the sample's id, and not in its labels unless they are metrics. So a series
may belong to several workloads: when a workload is pinned, unpinned and pinned
again under another id while its old sample lives, the sink holds two samples of
one series. `Exposition` therefore has a sample for each series of each workload,
the latest, until it expires. It does not promise a scraper one sample for a series,
because the code does not keep to that; `SeriesAreUnique` says for what rows it does.

### API client

A session is its CSRF token. `cookie` is the session in the jar, which the HTTP
library sets from the headers of every answer; `token` and `renew` are
`csrfToken` and the time to `reauthTime`, set from the body; `header` is the token
the request in hand was built with. The three differ after an answer whose body
does not decode, and the cluster may then refuse or admit a request. `at` is the
request or wait the client is in, `why` the caller of `Authenticate`: `Connect`,
the timer (isilon_api.go:433) or a 401. The cluster loses sessions, refuses
connections, breaks answers off, or never answers: the client has no timeout. Time
is relative to now; an answer that grants a session may be on its way for
`MaxAnswer` while the session already lives. A failed call with the run not
cancelled leaves the client ready; which calls the collector survives is in
`Collector`.

A call of `restGet` may authenticate once in each of its tries, with as many
tries each time. `BoundedCalls` says that a call begins with a budget and that
each request and wait takes from it. The client implements it with the budget
`Outstanding`, at most `MaxRetries * (2 * MaxRetries + 4)`: what the present try
or authentication may still do, and for each try that is left a request, a wait
and a whole authentication.

### HTTP servers

A run has two servers, the metrics endpoint of its collector and the discovery
list. A server is `bound` (it has a listener), `serving`, `orphan` (`ServeTLS`
failed: the listener is open and nobody has it, until the garbage collector
closes it), `doomed` (shut down before `Serve` was called, which then closes the
listener, or fails before it does) or `shut`. What a shutdown closes is net/http's
(`Close`, external). With
SO_REUSEPORT a client's connection goes to any open listener of its port, also
one of an earlier run. The metrics handler takes the mutex of its run's sink,
which a write holds during its export lookups. Main and the collector are as
coarse as the servers can see. When main exits, everything else stops at once.

### InfluxDB and discard sinks

A point is its run, plugin, sample, workload and export path; the other tags
follow from the workload. The v1 client's `NewPoint` may refuse a point: it is logged
and left out, and the rest of the batch is written (influxdb.go:93-98); `Refused` is
the set of the points it refuses, any set, since what `NewPoint` looks at is in the
point and the same in every try. The v2 client's has no error. A write puts the points
of its batch under way (`sent`); the database applies them one by one, in any order,
at any time, or never, whatever the client took the write for, so that a batch may
be applied in part. It succeeds when the answer comes through that all of it was
applied. The v1 client's `Ping` and `Write` take no context, the v2 client's do:
`Cuttable`. An export's path is whatever the cluster says when it is asked, and may
be another in each run. A failed lookup is written like a path; the code writes the same
words whether the cluster refused it or the run was cancelled, and the model tells them
apart. The discard sink is a plugin whose tries make nothing and succeed.

`SampleStore` is what a reader of the databases may rely on: points come in one by
one and stay, none is ahead of its run's collector, the points of a workload in a run
differ in time alone, and a run moves forward, from one sample to the next only when
the one before is there with a point for every workload, those excepted whose points
cannot be made, and these would be of the same series as the rest (`Done`). Requests,
retries, lookups and the plugins are not in it; a run with the discard sink stores no
sample of its own.

## Runs

| Run | Shows |
|---|---|
| `daemon_safety` | `TypeOK`, `OneConfig`, `ReloadNeverStops`, `StaleOnlyUnwatched`, and `Daemon` implements `CollectionService` |
| `daemon_liveness` | `SavesAreRead`, `HupIsServed`, `TermEnds` |
| `reload_exit` (violation) | a reload of a config with a bad logging section exits |
| `backup_save` (violation) | a save that leaves the path empty for a moment is never read |
| `collector` | `TypeOK`, `RowsAsTold`, `RetriesBounded`, `Collector` implements `Sampler`, `CancelEnds`, `KeepsSampling` |
| `removal` (violation) | a dataset removed after the listing is queried for ever |
| `prom_scrape` | `TypeOK`, `LabelCounts`, `DatasetsCurrent`, and `PromSink` implements `Exposition` |
| `prom_nodes` (violation) | rows of two nodes share a sample id |
| `api_calls` | `TypeOK`, `TokenOfSession`, `RenewedInTime`, `ApiClient` implements `BoundedCalls`, `CallsEnd`, `CancelEnds`, `Recovers` |
| `http_requests` | `TypeOK`, `OldRunsLeave`, `RequestsEnd` |
| `http_shutdown` (violation) | the process exits with requests in a handler, before the servers' 5 s |
| `influx_writes` | `TypeOK`, `OnePoint`, `CutStaysOut`, `LeavesNoGap`, `InfluxSinks` implements `SampleStore`, `CancelEnds` |

The violation runs are described under "findings" in `PROJECT.json`, with the
sentence of the repository each contradicts.

### Bounds

- Daemon: two clusters, so that one collector can end before the other; contents
  computed from eleven files, a plain one, two with other valid settings and one
  for each mistake that the code tells apart, which come to one content for each
  verdict and a change of the enabled clusters; two saves and one SIGHUP in the safety run: a save during a reload caused by the other,
  and a signal beside them. The first config of a behaviour may be any of them,
  or no file. The liveness run has two SIGHUPs, the second during the reload of
  the first. `MaxEdits` and `MaxHups` bound the user, never the program.
- Collector: two datasets, so that a failure of one can harm the other; two
  writes per dataset, an interval of 6 s, which passes 1280 s after eight
  doublings without meeting it; `MaxStamp` 4 gives three changes by the
  administrator. The delay needs no bound: it has one.
- Sink: two listings besides the empty one of the start: dataset 1, and dataset 1
  redefined with other metrics beside dataset 2, which shares its families with the
  first definition of dataset 1. Dataset 0 is in neither, to keep the run small; it
  is the same in all listings, and the proofs cover it. Rows: a workload unpinned,
  pinned, and pinned again under another workload id, one with an export, an overflow
  bucket and one of an unknown kind. A lifetime of 1 and a clock up to 2 let a sample
  be replaced, expire, and be born expired by a slow write. `MaxRows` bounds the
  rows of a write: two, so that one can replace the other. In `prom_scrape` one
  node reports; `prom_nodes` adds a row of a second node and shows why that matters.
- API client: three tries, so that there is one that is neither first nor last,
  and a longest delay of 3 s, which clamps the second doubling. Times are in
  units of half the grace: lifetimes of 2 (not above the grace) and 4, an assumed
  lifetime of 5 that outlives both, answers late by 1. Three tokens: a new
  session differs from those in the jar, the client and the request. Nothing
  bounds the calls or the failures.
- HTTP servers: two runs, the old and the new, and a client of each service. The
  process exits, so deadlock is not checked.
- InfluxDB: two runs, whose requests may outlive them, with any plugin and
  setting in each; two writes per batch; two samples; a workload on an NFS export
  with two paths and one without. The v1 client refuses the points of the one under one
  of its paths, and a single point of the other, so that a batch lacks a point in each
  place. The last run may end with nothing under way and no sample to come, which
  ends the behaviour: deadlock is not checked.

### Fairness

Safety runs assume none. `Daemon!Fairness` is weak fairness of main, of the
SIGTERM goroutine, of the forwarding of a SIGHUP, of the watcher's goroutine, and
of the return of a cancelled collector: the Go scheduler is fair, and every wait
of a collector selects on its context, as do all its requests but those of the
InfluxDB v1 client, which the daemon's liveness therefore takes to return.
Nothing is assumed of the user, nor that any collector ends by itself.
`Collector!FairSpec` has weak fairness of the loop and strong fairness of two
steps. `StopWaiting`: Go's select picks among ready branches at random, so a loop
of waits with the context cancelled ends. `Read`: a query of a dataset that
exists, retried for ever, succeeds in the end; this is an assumption about the
cluster, and only `KeepsSampling` needs it. A back end may fail for ever.

`ApiClient!FairSpec` has weak fairness of the client's own steps, of the return of
a request whose context is cancelled, of time, and of the answers of a cluster
that works. A cluster that does not work need not answer: `CallsEnd` and `Recovers`
say what follows from one that does or comes to. `HttpServers!FairSpec` has weak
fairness of the goroutines (the garbage collector's finalizers among them), of the
end of a write whose run is cancelled, and of requests in progress, and strong
fairness of `Lock`, since Go's mutex serves waiters in turn when they starve.
Lookups of a run that goes on need not end. `InfluxSinks!FairSpec` has weak
fairness of the collector's steps that wait for nobody and of the end of a read
that is cancelled; nothing is assumed of the database. `InfluxSinks!CancelEnds`
names the one exception to the daemon's assumption that cancelled collectors
return: a v1 write that is never answered.

## Proofs

`DaemonProofs` proves, for all clusters, contents, save styles and bounds:
`TypeCorrect`, `ConfigIsStable` (`OneConfig`), `ReloadKeepsUp`
(`ReloadNeverStops`), `NoChangeLost` (`StaleOnlyUnwatched`) and `Implementation`
(`Daemon` implements `CollectionService`). `OneConfig` is not inductive: that a
collector's reads agree with `conf` when `conf` is assigned rests on there being
no collector in `reread`, which rests on `drain` having waited, and that a new
run finds the old one gone rests on the same of `spawn`. `IInv` adds this
(`Phases`): no collector is alive but in `wait`, `drain` and `unwind`, and the
latest run is not cancelled while main waits on it; and (`FileInv`) that `conf` is
a version the file has had and a watch is on a file that exists. The theorems
rest on `ContentsAssumption` and `DaemonAssumption`, which only say what sort of
value each constant is.

Three more theorems of the daemon state what no run checks. `ClustersHaveOneCollector`
(`OnePerCluster`): no cluster entry of the config has two collectors, of one run or of
two (two entries may name one host; the code does not compare them).
`NoHupLost` (`HupsAreKept`): a SIGHUP is in its channel, is the reload token or has
been taken by main, until a `readConfig` starts or the process ends; this needs no
invariant, only that no step but those takes it away. `TermWindsDown`
(`WindsDown`): after a SIGTERM each step of main lowers `ToExit(pc)`, so that a
reload in progress begins at most one more run.

`CollectorProofs` proves `TypeCorrect`, `RowsMatch` (`RowsAsTold`),
`RetriesAreBounded` (`RetriesBounded`) and `Implementation` (`Collector`
implements `Sampler`), for any names, interval and positive number of tries.
The bound on the delay needs that a delay is below twice the limit or is the
configured interval as it was; the rows need that definitions only grow newer.
`OnlyReadsHoldUp` (`CyclesRunDown`) orders the states between two listings by the
datasets still to do and then by `StepsLeft` of the one in hand: every step but a
failed read and its retry goes down. Its use of `RetriesBounded` is what keeps the
number of steps left from going below zero.

`PromSinkProofs` proves `TypeCorrect`, `DefinitionsAreCurrent`
(`DatasetsCurrent`) and `CountsAreExact` (`LabelCounts`) for any rows, from any
number of nodes, and any listings that satisfy `ListingAssumption`: ids in the
range the API documents, a creation time that identifies a definition, and a
System dataset that is always the same. The code relies on each (prometheus.go:380,
:390). The counts are cardinalities, so their invariant also says that the
samples are finitely many; `AddSampleCounts` and `CollectCounts` are the lemmas
that count.

`ExpositionProofs` is about all rows, with any of the tags besides and any metrics
missing. The sink replaces samples by family and id, a scraper sees names and labels.
The invariant (`Shaped`) says that each sample is that of a row of some dataset, with
the path that the sink holds for the row's export (`MadeOf`): paths are written once,
so what was made of a row stays so (`MadeStays`). `OwnLabels`: the labels that a family
counts are those of each of its samples. `IdsIdentify`: ids that are the same say that
the labels are, but for the node. When one node reports (`OneNode`), adding a sample is
therefore putting it in the place of that of its series and workload (`AddedIsPut`),
and `ScrapesAreRight` (`ImplementsExposition`) follows; `prom_nodes` shows that the one
node is needed. The other way, labels say the id only while rows of a dataset that differ
in no label differ in no tag (`TellsApart`, `LabelsIdentify`); from this assumption, for
any number of nodes, `SeriesAreUnique` proves that no two samples show as one series. It
holds of rows whose further tags follow from their metrics, and not of a workload pinned
again, which has had two workload ids.

`ApiClientProofs` proves `TypeCorrect`, `RequestsMatch` (`TokenOfSession`) and
`RenewsInTime` (`RenewedInTime`) for any tokens, lifetimes and limits, provided
that an answer is not on its way for longer than the grace (`ClientAssumption`).
`TokenOfSession` needs that the client's token is the jar's at all times but after
a broken answer, and that a request is built after every authentication.
`RenewedInTime` needs that `renew` stays below `left` for a session announced with
its lifetime: the grace covers what the answer took. `Implementation`
(`ImplementsCalls`) shows that `Outstanding` goes down at every request and wait.
It is a sum with a product in it: the lemma `TryCosts` says what one try costs, and
`CallSpends`, `CallStays`, `CallEnds` and `CallBegins` what a step must show to be
one of the abstract calls; the client's steps are cited to them one by one. An
authentication that ends well goes back to the try it interrupted, which is one try
less, so that the budget pays for it (`AuthenticateCosts`).

`HttpServersProofs` proves `TypeCorrect` for any number of runs and clients. That a
mutex is held by one handler and no writer, and that a collector works in the current
run's sink only, is part of `TypeOK`; it rests on main having waited for the old
collector. `NoLockLost` (`HeldByReader`): a mutex that a handler holds is held by one
that is still there to give it back. `OldServersOnlyGo` (`OldServersGo`): the servers of
a run that is over never come to listen again, and each step of their goroutines lowers
`ToShut`, three at most, the failure to serve and the finalizer among them.

`InfluxSinksProofs` proves `TypeCorrect`, `PointsUnique` (`OnePoint`), `CutsStayOut`
(`CutStaysOut`) and `NoGaps` (`LeavesNoGap`) for any workloads, exports, paths,
refusals and limits. What is in the database says nothing of what is still under way, so `IInv`
speaks of both, and of the points being made: all points of the current run carry
the path that its export map holds (`Stamped`), whose entries are written once, a
cut lookup is in the map only once the run is cancelled (`Cuts`), the points made are
those of all workloads done with, but for `Refused` (`Current`), and a batch that
the collector has left is stored but for those (`Gapless`). `Implementation`
(`ImplementsStore`) adds what holds of all that a database may yet get (`Written`):
nothing is ahead of the collector, and the points of a workload in a run differ in
time alone; and shows that applying a point is `Store`, reading a sample is `MoveOn`
(`StoredIsDone`), and the start of a run is `NewRun`. That part of a batch may be there
while the rest never comes needs nothing of its own: a sample is left only after an
answer. `CancelWindsDown` (`WindsDown`) says that each step of a collector
whose run is cancelled lowers `StepsLeft`, the number of workloads without a tag among
it: it assumes that there are finitely many.

Only model-checked: all liveness properties (`SavesAreRead`, `HupIsServed`,
`TermEnds`, `KeepsSampling`, `CallsEnd`, `Recovers`, `OldRunsLeave`, `RequestsEnd`
and the three `CancelEnds`), since fairness and ENABLED are out of the provers'
reach. What they need but for fairness is proved where it is a matter of steps: nothing
asked is lost (`NoHupLost`, `NoChangeLost`, `NoLockLost`), and ranks that fall
(`TermWindsDown`, `OnlyReadsHoldUp`, `Implementation` of `BoundedCalls`,
`OldServersOnlyGo`, `CancelWindsDown`). What is left to TLC is that the scheduler, the
cluster or the select takes the step that lowers the rank.

## Not modelled

- Message texts, log handlers, the reading of the command line, and the HTTP and
  JSON encodings: nothing here depends on them; that one fails to decode is a
  failure of its request.
- The contents of the discovery list and the choice of its address (extnet.go),
  basic authentication and the landing page: each is computed from the config or
  the machine when it is asked for, with no state that changes. What can go wrong
  with the list (ports of disabled clusters, IPv6 addresses) is a matter of its
  format, which no document states.
- The choice between a name and an id of the same tag (backend.go), and the field
  values: to the sinks a row's tags are a function of the row.
- The race of a reload's new logger with goroutines that log (logging.go:159).
- The API documentation, which holds no code.

On Windows no SIGHUP arrives, which is one of the behaviours of the model.

## Plan

1. `Daemon`, `Collector`, `PromSink` with their abstract specifications, runs and
   first proofs: done.
2. `ApiClient`, `HttpServers`, `InfluxSinks` with their runs and proofs, and
   `ConfigFile`, which computes the daemon's contents: done.
3. Proof that `PromSink` implements `Exposition`: done.
   Proofs that `ApiClient` implements `BoundedCalls` and `InfluxSinks` implements
   `SampleStore`, and of the safety half of the liveness properties: done.
4. `Exporter`: `Collector` and `PromSink` composed, with one clock: samples of a
   dataset redefined between listing and query, the gap between a lifetime of
   30 s and a cycle of 30 s.
5. Pure operators: the identity tags of `tagsForPPStat`, the discovery list,
   against reference definitions.
