------------------------------- MODULE PromSink -------------------------------
(***************************************************************************)
(* The Prometheus back end of one cluster (prometheus.go) with the tags of *)
(* tagsForPPStat (backend.go): the dataset definitions, the families of    *)
(* samples and their label counts, all under one mutex that the collector  *)
(* (UpdateDatasets, WritePPStats) and the HTTP scrapes (Collect) compete   *)
(* for.  WritePPStats holds it across the rows of a dataset, and so across *)
(* the requests of the export lookups: time passes.                        *)
(*                                                                         *)
(* The eleven fields of a row go to eleven families that always change     *)
(* alike, kept here as one.  The value of a sample is told from that of    *)
(* another write by its expiration, and labels that never differ within a  *)
(* sink (cluster, instance_label_name) are left out.                       *)
(***************************************************************************)
EXTENDS Integers, FiniteSets

CONSTANTS
  Listings,     \* the sets of definitions [id, created, metrics] a query returns
  MaxDsID,      \* the highest dataset id UpdateDatasets looks at
  Rows,         \* workload entries [node, tags, kind], kind NoKind for most
  NoKind,       \* the row has no workload_type
  Pinned,       \* the workload types: pinned,
  Buckets,      \* and the overflow buckets
  LookUps,      \* lookup_export_ids
  TTL,          \* lifetime of a sample
  MaxRows,      \* bound on the rows of a write
  MaxTime       \* bound on the clock

VARIABLES
  clock,
  dsm,          \* definitions the sink works with
  inited,       \* dsm has been allocated
  given,        \* the listing of the latest UpdateDatasets
  samples,      \* [fam, id, labels, exp], unique by fam and id
  labelSet,     \* for each family there is, the count of each label
  paths,        \* the exports looked up, with the outcome
  writing,      \* the dataset WritePPStats holds the mutex for, or NoDataset
  started,      \* the time it read when it took the mutex
  left          \* rows still to come

dsVars    == <<dsm, inited, given>>
famVars   == <<samples, labelSet>>
writeVars == <<writing, started, left>>
sinkVars  == <<clock, dsVars, famVars, paths, writeVars>>

\* A listing gives an id one definition, an id and a creation time name one
\* definition ever, and the System dataset (0) is the same in every listing: the
\* API's side of what prometheus.go:380 and :390 rely on, with the range of
\* isilon_api.go:26-28.
ASSUME ListingAssumption ==
  /\ MaxDsID \in Nat \ {0}
  /\ Listings \subseteq
       SUBSET [id : 0..MaxDsID, created : Nat, metrics : SUBSET STRING]
  /\ \A L, M \in Listings : \A d \in L, e \in M :
       d.id = e.id /\ (L = M \/ d.created = e.created) => d = e
  /\ \A L, M \in Listings : {d \in L : d.id = 0} \subseteq M

\* The metrics of a dataset and the tags that the cluster gives a row have names of
\* their own: the list of metrics in the API's schema, and tagsForPPStat's.
ASSUME NamesAssumption ==
  LET Own == {"node", "pinned", "export_path"} IN
  /\ \A L \in Listings : \A d \in L : d.metrics \cap Own = {}
  /\ \A row \in Rows : DOMAIN row.tags \cap Own = {}

ASSUME SinkAssumption ==
  /\ TTL \in Nat
  /\ MaxRows \in Nat \ {0}
  /\ MaxTime \in Nat
  /\ LookUps \in BOOLEAN
  /\ Pinned # NoKind
  /\ NoKind \notin Buckets /\ Pinned \notin Buckets

NoDataset == [id |-> -1, created |-> 0, metrics |-> {}]
Free      == writing = NoDataset
LabelKeys == {"node", "pinned", "export_path"}
               \cup UNION {d.metrics : d \in UNION Listings}
-----------------------------------------------------------------------------
(* The dataset definitions.                                                *)

\* CreateDataset: what the sink keeps of a definition.
WithPath(e) ==
  IF LookUps /\ "export_id" \in e.metrics
  THEN [e EXCEPT !.metrics = @ \cup {"export_path"}]
  ELSE e

Same(d, e) == d.id = e.id /\ d.created = e.created

\* Mutant: the highest dataset id is not looked at.
Slots_OneShort == 1..(MaxDsID - 1)
Slots == 1..MaxDsID

\* Mutant: only the first listing's definitions get the export_path.
Updated_NoPath(listing) ==
  {d \in dsm : d.id \notin Slots \/ \E e \in listing : Same(d, e)}
    \cup {f \in listing : f.id \in Slots /\ \A d \in dsm : ~Same(d, f)}

\* Dataset 0 is taken to be immutable, a definition to be known by its
\* creation time.
Updated(listing) ==
  {d \in dsm : d.id \notin Slots \/ \E e \in listing : Same(d, e)}
    \cup {WithPath(e) : e \in {f \in listing :
             f.id \in Slots /\ \A d \in dsm : ~Same(d, f)}}

UpdateDatasets(listing) ==
  /\ Free
  /\ dsm' = IF inited THEN Updated(listing) ELSE {WithPath(e) : e \in listing}
  /\ inited' = TRUE
  /\ given' = listing
  /\ UNCHANGED <<clock, famVars, paths, writeVars>>
-----------------------------------------------------------------------------
(* A row and its samples.                                                  *)

\* The entry of dsm for a dataset; a Go map yields the zero value for none.
Known(ds) == {d \in dsm : d.id = ds.id}
MetricsOf(ds) == UNION {d.metrics : d \in Known(ds)}

IsBucket(row) == row.kind \notin {NoKind, Pinned}
Accepted(row) == IsBucket(row) => row.kind \in Buckets

\* The metric name: the definition's metrics, and the kind of an overflow bucket;
\* the empty name without a definition.
Family(ds, row) ==
  [named   |-> Known(ds) # {},
   metrics |-> MetricsOf(ds),
   bucket  |-> IF IsBucket(row) /\ Known(ds) # {} THEN row.kind ELSE NoKind]

\* What tagsForPPStat takes from a row whatever its dataset's metrics.
Others == {"workload_id", "domain_id", "system_name", "job_type"}

\* tagsForPPStat, given the outcome of the row's export lookup.
HasExport(row) == LookUps /\ "export_id" \in DOMAIN row.tags
Tags(row, path) ==
  [t \in DOMAIN row.tags \cup (IF HasExport(row) THEN {"export_path"} ELSE {}) |->
     IF t = "export_path" THEN path ELSE row.tags[t]]

\* A label's value: a metric that the row has no tag for is the empty string.
LabelOf(k, row, tags) ==
  CASE k = "node"         -> row.node
    [] k = "pinned"       -> IF row.kind = Pinned THEN "true" ELSE "false"
    [] k \in DOMAIN tags \ {"node", "pinned"} -> tags[k]
    [] OTHER              -> ""

Labels(ds, row, tags) ==
  [k \in {"node"} \cup (IF IsBucket(row) THEN {} ELSE {"pinned"} \cup MetricsOf(ds)) |->
     LabelOf(k, row, tags)]

\* Mutant: the id is made of the tags of metrics only.
SampleId_NoOthers(row, tags) ==
  [tags |-> [t \in DOMAIN tags \ Others |-> tags[t]], kind |-> NoKind]

\* CreateSampleID: all of the row's tags, and nothing but its tags.
SampleId(row, tags) == [tags |-> tags, kind |-> row.kind]

Families   == DOMAIN labelSet
InFam(f)   == {s \in samples : s.fam = f}
NoLabels   == [k \in LabelKeys |-> 0]
Has(s, k)  == IF k \in DOMAIN s.labels THEN 1 ELSE 0

\* Mutant: the labels of a replaced sample stay counted.
Recount_NoReplace(f, old, new) ==
  [k \in LabelKeys |-> f[k] + Has(new, k)]

\* addSample: the labels of the sample it replaces are uncounted first.
Recount(f, old, new) ==
  [k \in LabelKeys |->
     f[k] + Has(new, k) - Cardinality({s \in old : k \in DOMAIN s.labels})]

AddSample(new) ==
  LET old == {s \in InFam(new.fam) : s.id = new.id}
  IN  /\ samples' = (samples \ old) \cup {new}
      /\ labelSet' =
           [f \in Families \cup {new.fam} |->
              IF f # new.fam THEN labelSet[f]
              ELSE Recount(IF f \in Families THEN labelSet[f] ELSE NoLabels, old, new)]

\* The path of the row's export: asked of the cluster once, and its answer kept,
\* a failure too.
LookedUp(row) ==
  IF ~HasExport(row) THEN {"none"}
  ELSE LET e == row.tags["export_id"]
       IN  IF e \in DOMAIN paths THEN {paths[e]} ELSE {"found", "failed"}

Remember(row, path) ==
  paths' = IF HasExport(row)
           THEN [e \in DOMAIN paths \cup {row.tags["export_id"]} |->
                   IF e \in DOMAIN paths THEN paths[e] ELSE path]
           ELSE paths
-----------------------------------------------------------------------------
(* WritePPStats: lock, row after row, unlock.                              *)

\* A row of a dataset may lack some of its metrics, and may have tags besides.
RowsOf(ds) ==
  {row \in Rows : IsBucket(row) \/ DOMAIN row.tags \subseteq ds.metrics \cup Others}

BeginWrite(ds) ==
  /\ Free
  /\ writing' = ds
  /\ started' = clock
  /\ left' = MaxRows
  /\ UNCHANGED <<clock, dsVars, famVars, paths>>

WriteRow(row) ==
  /\ ~Free
  /\ left > 0
  /\ left' = left - 1
  /\ \E path \in LookedUp(row) :
       LET tags == Tags(row, path)
       IN  /\ Remember(row, path)
           /\ IF Accepted(row)
              THEN AddSample([fam    |-> Family(writing, row),
                              id     |-> SampleId(row, tags),
                              labels |-> Labels(writing, row, tags),
                              exp    |-> started + TTL])
              ELSE UNCHANGED famVars
  /\ UNCHANGED <<clock, dsVars, writing, started>>

EndWrite ==
  /\ ~Free
  /\ writing' = NoDataset
  /\ started' = 0
  /\ left' = 0
  /\ UNCHANGED <<clock, dsVars, famVars, paths>>
-----------------------------------------------------------------------------
(* A scrape: Collect expires what is past its time, and shows the rest.    *)

Live(s) == clock <= s.exp

Collect ==
  /\ Free
  /\ samples' = {s \in samples : Live(s)}
  /\ labelSet' =
       [f \in {s.fam : s \in samples'} |->
          [k \in LabelKeys |->
             labelSet[f][k]
               - Cardinality({s \in InFam(f) : ~Live(s) /\ k \in DOMAIN s.labels})]]
  /\ UNCHANGED <<clock, dsVars, paths, writeVars>>

\* What Collect shows of a sample: the labels its family counts, an absent one
\* as the empty string.
Shown(s) ==
  [k \in {l \in LabelKeys : labelSet[s.fam][l] > 0} |->
     IF k \in DOMAIN s.labels THEN s.labels[k] ELSE ""]

Series(s) == [name |-> s.fam, labels |-> Shown(s)]
-----------------------------------------------------------------------------
Tick ==
  /\ clock < MaxTime
  /\ clock' = clock + 1
  /\ UNCHANGED <<dsVars, famVars, paths, writeVars>>

Init ==
  /\ clock = 0
  /\ dsm = {}
  /\ inited = FALSE
  /\ given = {}
  /\ samples = {}
  /\ labelSet = [f \in {} |-> NoLabels]
  /\ paths = [e \in {} |-> "none"]
  /\ writing = NoDataset
  /\ started = 0
  /\ left = 0

\* statsloop tells the sink the listing first, and writes only what is in it.
Next ==
  \/ \E listing \in Listings : UpdateDatasets(listing)
  \/ \E ds \in given : BeginWrite(ds)
  \/ \E row \in RowsOf(writing) : WriteRow(row)
  \/ EndWrite
  \/ Collect
  \/ Tick

Spec == Init /\ [][Next]_sinkVars
-----------------------------------------------------------------------------
(* Correctness.                                                            *)

\* The samples are a map: a family holds one sample under an id.  The sink
\* holds the mutex for a dataset it was given, with a bounded number of rows.
TypeOK ==
  /\ clock \in 0..MaxTime
  /\ inited \in BOOLEAN
  /\ given \in Listings \cup {{}}
  /\ \A d \in dsm : \E L \in Listings : \E e \in L : d = WithPath(e)
  /\ writing \in given \cup {NoDataset}
  /\ started \in 0..clock
  /\ left \in 0..MaxRows
  /\ \A s, t \in samples : s.fam = t.fam /\ s.id = t.id => s = t
  /\ \A s \in samples : s.exp \in Nat /\ DOMAIN s.labels \subseteq LabelKeys

\* "LabelSet is the label counts for all Samples" (prometheus.go:88): through
\* additions, replacements and expirations, every family counts for each label
\* the samples that carry it, and a family is there exactly while it has samples.
LabelCounts ==
  /\ Families = {s.fam : s \in samples}
  /\ \A f \in Families, k \in LabelKeys :
       labelSet[f][k] = Cardinality({s \in InFam(f) : k \in DOMAIN s.labels})

\* Definitions are kept from one listing to the next by comparing ids and creation
\* times only; still the sink works with the very definitions of the latest
\* listing (prometheus.go:359-409).
DatasetsCurrent == inited => dsm = {WithPath(e) : e \in given}

\* As long as one node reports, the sink implements Exposition: a scrape finds for
\* every series of a workload the latest sample written to it until it expires,
\* whatever redefinitions, other samples and failed lookups come between, and no
\* other (prometheus.go:422-594).
Scrapes == INSTANCE Exposition
             WITH shown <- {[series |-> Series(s), of |-> s.id, exp |-> s.exp] : s \in samples}
ImplementsExposition == Scrapes!Spec
-----------------------------------------------------------------------------
(* What the repository says and the code does not do.                      *)

\* "SampleID uniquely identifies a Sample" (prometheus.go:70): the sample of an
\* id is never replaced by one of other labels.
SampleIdsIdentify ==
  [][\A s \in samples, t \in samples' :
       s.fam = t.fam /\ s.id = t.id => s.labels = t.labels]_samples
=============================================================================
