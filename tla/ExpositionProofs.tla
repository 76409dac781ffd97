--------------------------- MODULE ExpositionProofs ---------------------------
(***************************************************************************)
(* Proofs that the sink implements Exposition while one node reports, and  *)
(* that it keeps one sample for a series while rows are told apart by      *)
(* their labels.                                                           *)
(*                                                                         *)
(* The sink replaces samples by family and id, a scraper knows series by   *)
(* name and labels.  Every sample is that of a row of some dataset, with   *)
(* the path that the sink has for the row's export (Made): so its id says  *)
(* its labels, but for the node, and its labels say its id, but for tags   *)
(* that are no labels.  All samples of a family have the same label names, *)
(* so that the labels a scrape shows, those its family counts, are the     *)
(* sample's own whatever else comes or goes.                               *)
(***************************************************************************)
EXTENDS PromSinkProofs

\* One node reports.
OneNode(node) == \A row \in Rows : row.node = node

\* Rows of a dataset that differ in no label.
SameLabels(ds, row, other) ==
  /\ row.node = other.node
  /\ row.kind = other.kind
  /\ IsBucket(row)
       \/ \A m \in ds.metrics : LabelOf(m, row, row.tags) = LabelOf(m, other, other.tags)

\* The tags of rows that differ in no label are the same.
TellsApart ==
  \A L \in Listings : \A ds \in L : \A row, other \in RowsOf(ds) :
    SameLabels(ds, row, other) => row.tags = other.tags

\* The sample of a row, with the path of its export as the sink has it.
PathOf(row)  == IF HasExport(row) THEN paths[row.tags["export_id"]] ELSE "none"
TagsNow(row) == Tags(row, PathOf(row))

FamilyOf(ds, row) ==
  [named   |-> TRUE,
   metrics |-> WithPath(ds).metrics,
   bucket  |-> IF IsBucket(row) THEN row.kind ELSE NoKind]

LabelNames(f) ==
  {"node"} \cup (IF f.bucket # NoKind THEN {} ELSE {"pinned"} \cup f.metrics)

LabelsOf(f, row, tags) == [k \in LabelNames(f) |-> LabelOf(k, row, tags)]

MadeOf(s, ds, row) ==
  /\ HasExport(row) => row.tags["export_id"] \in DOMAIN paths
  /\ s.fam = FamilyOf(ds, row)
  /\ s.id = SampleId(row, TagsNow(row))
  /\ s.labels = LabelsOf(s.fam, row, TagsNow(row))

Defined == UNION Listings

Made(s) == \E ds \in Defined : \E row \in RowsOf(ds) : MadeOf(s, ds, row)

Shaped ==
  /\ ~inited => given = {}
  /\ \A s \in samples : Made(s)
-----------------------------------------------------------------------------
(* Ids and labels.                                                         *)

\* A family has the labels of its name.
LEMMA MadeNames ==
  ASSUME NEW s, Made(s)
  PROVE  DOMAIN s.labels = LabelNames(s.fam) /\ s.labels = [k \in LabelNames(s.fam) |-> s.labels[k]]
BY DEF Made, MadeOf, LabelsOf

\* The id of a sample says its labels, but for the node.
LEMMA IdsIdentify ==
  ASSUME NEW row, NEW tags, NEW other, NEW ctags,
         SampleId(row, tags) = SampleId(other, ctags), row.node = other.node,
         NEW f
  PROVE  LabelsOf(f, row, tags) = LabelsOf(f, other, ctags)
<1>1. tags = ctags /\ row.kind = other.kind
  BY DEF SampleId
<1>2. ASSUME NEW k PROVE LabelOf(k, row, tags) = LabelOf(k, other, ctags)
  BY <1>1 DEF LabelOf
<1> QED
  BY <1>2 DEF LabelsOf

\* A label of a metric is that of the row's tag.
LEMMA MetricLabel ==
  ASSUME NEW d \in Defined, NEW row \in RowsOf(d), NEW m \in d.metrics
  PROVE  LabelOf(m, row, TagsNow(row)) = LabelOf(m, row, row.tags)
<1>1. m \notin {"node", "pinned", "export_path"}
  BY NamesAssumption DEF Defined
<1>2. m \in DOMAIN TagsNow(row) <=> m \in DOMAIN row.tags
  BY <1>1 DEF TagsNow, Tags
<1>3. m \in DOMAIN row.tags => TagsNow(row)[m] = row.tags[m]
  BY <1>1 DEF TagsNow, Tags
<1> QED
  BY <1>1, <1>2, <1>3 DEF LabelOf

\* The name of a family says its dataset's metrics.
LEMMA FamilyMetrics ==
  ASSUME NEW d \in Defined, NEW e \in Defined, WithPath(d).metrics = WithPath(e).metrics
  PROVE  d.metrics = e.metrics
<1>1. d \in Definitions /\ e \in Definitions
  BY ListingAssumption DEF Defined, Definitions
<1>2. "export_path" \notin d.metrics /\ "export_path" \notin e.metrics
  BY NamesAssumption DEF Defined
<1>3. ASSUME NEW c \in Definitions, "export_path" \notin c.metrics
      PROVE  WithPath(c).metrics \ {"export_path"} = c.metrics
  BY <1>3 DEF WithPath, Definitions
<1> QED
  BY <1>1, <1>2, <1>3

\* The labels of a sample say its id, if rows are told apart by their labels.
LEMMA LabelsIdentify ==
  ASSUME TellsApart,
         NEW d \in Defined, NEW row \in RowsOf(d), NEW s, MadeOf(s, d, row),
         NEW e \in Defined, NEW other \in RowsOf(e), NEW t, MadeOf(t, e, other),
         s.fam = t.fam, s.labels = t.labels
  PROVE  s.id = t.id
<1>1. d.metrics = e.metrics
  BY FamilyMetrics DEF MadeOf, FamilyOf
<1>2. other \in RowsOf(d)
  BY <1>1 DEF RowsOf
<1>3. ASSUME NEW k \in LabelNames(s.fam)
      PROVE  LabelOf(k, row, TagsNow(row)) = LabelOf(k, other, TagsNow(other))
  <2>1. s.labels[k] = LabelOf(k, row, TagsNow(row))
    BY DEF MadeOf, LabelsOf
  <2>2. t.labels[k] = LabelOf(k, other, TagsNow(other))
    BY DEF MadeOf, LabelsOf
  <2> QED
    BY <2>1, <2>2
<1>4. row.node = other.node
  BY <1>3 DEF LabelNames, LabelOf
<1>5. /\ s.fam.bucket = IF IsBucket(row) THEN row.kind ELSE NoKind
      /\ s.fam.bucket = IF IsBucket(other) THEN other.kind ELSE NoKind
      /\ s.fam.metrics = WithPath(d).metrics
  BY DEF MadeOf, FamilyOf
<1>6. IsBucket(row) <=> IsBucket(other)
  BY <1>5 DEF IsBucket
<1>7. row.kind = other.kind
  <2>1. CASE IsBucket(row)
    BY <1>5, <1>6, <2>1
  <2>2. CASE ~IsBucket(row)
    <3>1. "pinned" \in LabelNames(s.fam)
      BY <1>5, <2>2 DEF LabelNames
    <3>2. LabelOf("pinned", row, TagsNow(row)) = LabelOf("pinned", other, TagsNow(other))
      BY <1>3, <3>1
    <3>3. row.kind = Pinned <=> other.kind = Pinned
      BY <3>2 DEF LabelOf
    <3> QED
      BY <1>6, <2>2, <3>3 DEF IsBucket
  <2> QED
    BY <2>1, <2>2
<1>8. ASSUME ~IsBucket(row), NEW m \in d.metrics
      PROVE  LabelOf(m, row, row.tags) = LabelOf(m, other, other.tags)
  <2>1. m \in LabelNames(s.fam)
    <3>1. d.metrics \subseteq WithPath(d).metrics
      BY ListingAssumption DEF WithPath, Defined
    <3> QED
      BY <1>5, <1>8, <3>1 DEF LabelNames
  <2> QED
    BY <1>2, <1>3, <2>1, MetricLabel
<1>9. SameLabels(d, row, other)
  BY <1>4, <1>7, <1>8 DEF SameLabels
<1>10. row.tags = other.tags
  BY <1>2, <1>9 DEF TellsApart, Defined
<1>11. TagsNow(row) = TagsNow(other)
  BY <1>10 DEF TagsNow, Tags, PathOf, HasExport
<1> QED
  BY <1>7, <1>11 DEF MadeOf, SampleId

\* A family counts the labels of every one of its samples, and no others.
LEMMA OwnLabels ==
  ASSUME IInv, Shaped, NEW s \in samples
  PROVE  Shown(s) = s.labels
<1> DEFINE ks == DOMAIN s.labels
<1>1. s.labels = [k \in ks |-> s.labels[k]] /\ ks \subseteq LabelKeys
  BY MadeNames DEF Shaped, IInv, TypeOK
<1>2. \A t \in InFam(s.fam) : DOMAIN t.labels = ks
  BY MadeNames DEF Shaped, InFam
<1>3. ASSUME NEW k \in LabelKeys PROVE labelSet[s.fam][k] > 0 <=> k \in ks
  <2> DEFINE C == {t \in InFam(s.fam) : k \in DOMAIN t.labels}
  <2>1. labelSet[s.fam][k] = Cardinality(C)
    BY DEF IInv, LabelCounts
  <2>2. IsFiniteSet(C) /\ C \subseteq samples
    BY FS_Subset DEF IInv, Basics, InFam
  <2>3. Cardinality(C) \in Nat /\ (Cardinality(C) = 0 <=> C = {})
    BY <2>2, FS_CardinalityType, FS_EmptySet
  <2>4. C = {} <=> k \notin ks
    BY <1>2 DEF InFam
  <2> QED
    BY <2>1, <2>3, <2>4
<1>4. {l \in LabelKeys : labelSet[s.fam][l] > 0} = ks
  BY <1>1, <1>3
<1> QED
  BY <1>1, <1>4 DEF Shown
-----------------------------------------------------------------------------
(* The samples that WritePPStats makes.                                    *)

\* The path of an export stays as it was first looked up.
LEMMA PathsStay ==
  ASSUME NEW row, NEW path, Remember(row, path)
  PROVE  \A e \in DOMAIN paths : e \in DOMAIN paths' /\ paths'[e] = paths[e]
BY DEF Remember

\* What was made of a row stays so.
LEMMA MadeStays ==
  ASSUME NEW s, Made(s), \A e \in DOMAIN paths : e \in DOMAIN paths' /\ paths'[e] = paths[e]
  PROVE  \E ds \in Defined : \E row \in RowsOf(ds) : MadeOf(s, ds, row)'
<1>1. PICK ds \in Defined : \E row \in RowsOf(ds) : MadeOf(s, ds, row)
  BY DEF Made
<1>2. PICK row \in RowsOf(ds) : MadeOf(s, ds, row)
  BY <1>1
<1>3. PathOf(row)' = PathOf(row)
  BY <1>2 DEF MadeOf, PathOf
<1>4. TagsNow(row)' = TagsNow(row)
  BY <1>3 DEF TagsNow
<1>5. MadeOf(s, ds, row)'
  BY <1>2, <1>4 DEF MadeOf
<1> QED
  BY <1>5

\* A sample that a row adds, to those that do not have its family and id.
Added(new) == samples' = (samples \ {s \in InFam(new.fam) : s.id = new.id}) \cup {new}

LEMMA WriteRowAdds ==
  ASSUME IInv, Shaped, NEW row \in RowsOf(writing), WriteRow(row)
  PROVE  \/ UNCHANGED famVars
         \/ \E new : Added(new) /\ \E ds \in Defined : row \in RowsOf(ds) /\ MadeOf(new, ds, row)'
<1> USE ListingAssumption, SinkAssumption
<1>0. PICK ds : ds = writing
  OBVIOUS
<1>1. ds \in given /\ inited /\ given \in Listings
  BY <1>0 DEF WriteRow, IInv, TypeOK, Free, Shaped, Basics
<1>2. ds \in Definitions /\ ds \in Defined /\ (\A e \in given : e.id = ds.id => e = ds)
  BY <1>1 DEF Definitions, Defined
<1>3. dsm = {WithPath(e) : e \in given}
  BY <1>1 DEF IInv, DatasetsCurrent
<1>4. Known(ds) = {WithPath(ds)}
  <2>1. \A e \in given : WithPath(e).id = e.id
    BY <1>1, WithPathKeeps DEF Definitions
  <2> QED
    BY <1>1, <1>2, <1>3, <2>1 DEF Known
<1>5. MetricsOf(ds) = WithPath(ds).metrics /\ Known(ds) # {}
  BY <1>4 DEF MetricsOf
<1>6. PICK path \in LookedUp(row) :
        /\ Remember(row, path)
        /\ IF Accepted(row)
           THEN AddSample([fam    |-> Family(ds, row),
                           id     |-> SampleId(row, Tags(row, path)),
                           labels |-> Labels(ds, row, Tags(row, path)),
                           exp    |-> started + TTL])
           ELSE UNCHANGED famVars
  BY <1>0 DEF WriteRow
<1>7. /\ HasExport(row) => row.tags["export_id"] \in DOMAIN paths'
      /\ PathOf(row)' = path
  BY <1>6 DEF LookedUp, Remember, PathOf
<1>8. TagsNow(row)' = Tags(row, path)
  BY <1>7 DEF TagsNow
<1>9. CASE Accepted(row)
  <2>0. PICK new : new = [fam    |-> Family(ds, row),
                          id     |-> SampleId(row, Tags(row, path)),
                          labels |-> Labels(ds, row, Tags(row, path)),
                          exp    |-> started + TTL]
    OBVIOUS
  <2>1. Family(ds, row) = FamilyOf(ds, row)
    BY <1>5 DEF Family, FamilyOf
  <2>2. LabelNames(FamilyOf(ds, row))
          = {"node"} \cup (IF IsBucket(row) THEN {} ELSE {"pinned"} \cup MetricsOf(ds))
    BY <1>5 DEF LabelNames, FamilyOf, IsBucket
  <2>3. Labels(ds, row, Tags(row, path)) = LabelsOf(FamilyOf(ds, row), row, Tags(row, path))
    BY <2>2 DEF Labels, LabelsOf
  <2>4. MadeOf(new, ds, row)'
    <3>1. new.fam = FamilyOf(ds, row) /\ new.id = SampleId(row, TagsNow(row)')
      BY <1>8, <2>0, <2>1
    <3>2. new.labels = LabelsOf(new.fam, row, TagsNow(row)')
      BY <1>8, <2>0, <2>1, <2>3
    <3>3. FamilyOf(ds, row)' = FamilyOf(ds, row)
      BY <1>1, <1>2 DEF WriteRow, dsVars, FamilyOf, WithPath
    <3> QED
      BY <1>7, <3>1, <3>2, <3>3 DEF MadeOf, LabelsOf, LabelNames, SampleId
  <2>5. Added(new)
    BY <1>6, <1>9, <2>0 DEF AddSample, Added
  <2> QED
    BY <1>0, <1>2, <2>4, <2>5
<1> QED
  BY <1>6, <1>9

LEMMA StepShaped ==
  ASSUME IInv, Shaped, [Next]_sinkVars
  PROVE  Shaped'
<1>1. CASE \E listing \in Listings : UpdateDatasets(listing)
  BY <1>1, MadeStays DEF UpdateDatasets, Shaped, Made, famVars
<1>2. ASSUME NEW row \in RowsOf(writing), WriteRow(row) PROVE Shaped'
  <2>1. UNCHANGED <<inited, given>>
    BY <1>2 DEF WriteRow, dsVars
  <2>2. \A e \in DOMAIN paths : e \in DOMAIN paths' /\ paths'[e] = paths[e]
    BY <1>2, PathsStay DEF WriteRow
  <2>3. ASSUME NEW s \in samples
        PROVE  \E ds \in Defined : \E r \in RowsOf(ds) : MadeOf(s, ds, r)'
    BY <2>2, MadeStays DEF Shaped
  <2>4. ASSUME NEW s \in samples'
        PROVE  \E ds \in Defined : \E r \in RowsOf(ds) : MadeOf(s, ds, r)'
    BY <1>2, <2>3, WriteRowAdds DEF Added, famVars
  <2> QED
    BY <2>1, <2>4 DEF Shaped, Made
<1>3. CASE Collect
  BY <1>3, MadeStays DEF Collect, Shaped, Made, dsVars
<1>4. CASE \/ \E ds \in given : BeginWrite(ds)
           \/ EndWrite \/ Tick \/ UNCHANGED sinkVars
  BY <1>4, MadeStays
     DEF BeginWrite, EndWrite, Tick, sinkVars, dsVars, famVars, Shaped, Made
<1> QED
  BY <1>1, <1>2, <1>3, <1>4 DEF Next

\* Every sample is that of a row (prometheus.go:531-590, backend.go:96-205).
LEMMA AlwaysShaped == Spec => [](IInv /\ Shaped)
<1>1. Init => Shaped
  BY DEF Init, Shaped
<1>2. IInv /\ Shaped /\ [Next]_sinkVars => Shaped'
  BY StepShaped
<1> QED
  BY <1>1, <1>2, Invariance, PTL DEF Spec
-----------------------------------------------------------------------------
(* One sample for a series.                                                *)

SeriesUnique == \A s, t \in samples : Series(s) = Series(t) => s = t

\* A scrape shows no series with two samples, of which a scraper could not tell which
\* holds, as long as tags that are no labels, like the workload_id of a pinned
\* workload, follow from those that are: whatever nodes report, metrics a row lacks,
\* and lookups fail (prometheus.go:449-489, backend.go:181-198).
THEOREM SeriesAreUnique ==
  ASSUME TellsApart
  PROVE  Spec => []SeriesUnique
<1>1. ASSUME IInv, Shaped, NEW s \in samples, NEW t \in samples, Series(s) = Series(t)
      PROVE  s = t
  <2>1. s.fam = t.fam /\ s.labels = t.labels
    BY <1>1, OwnLabels DEF Series
  <2>2. s.id = t.id
    BY <1>1, <2>1, LabelsIdentify DEF Shaped, Made
  <2> QED
    BY <1>1, <2>1, <2>2 DEF IInv, TypeOK
<1>2. IInv /\ Shaped => SeriesUnique
  BY <1>1 DEF SeriesUnique
<1> QED
  BY <1>2, AlwaysShaped, PTL
-----------------------------------------------------------------------------
(* The refinement.                                                         *)

\* What a scraper has of a sample.
View(s) == [series |-> [name |-> s.fam, labels |-> s.labels], of |-> s.id, exp |-> s.exp]

On(S)  == {View(s) : s \in S}
OnShow == {[series |-> Series(s), of |-> s.id, exp |-> s.exp] : s \in samples}

LEMMA ShowsOwnLabels == IInv /\ Shaped => OnShow = On(samples)
BY OwnLabels DEF OnShow, On, View, Series

LEMMA ShowsOwnLabelsNext ==
  (IInv /\ Shaped => OnShow = On(samples))'
BY ShowsOwnLabels, PTL

\* Adding a sample is putting it on show in the place of its workload's.
LEMMA AddedIsPut ==
  ASSUME Shaped, Shaped', NEW node, OneNode(node), NEW new, Added(new)
  PROVE  On(samples') = {x \in On(samples) : ~(/\ x.series = View(new).series
                                               /\ x.of = View(new).of)}
                          \cup {View(new)}
<1> DEFINE old == {s \in InFam(new.fam) : s.id = new.id}
<1>1. samples' = (samples \ old) \cup {new}
  BY DEF Added
<1>2. ASSUME NEW s \in samples
      PROVE  s \in old <=> View(s).series = View(new).series /\ View(s).of = View(new).of
  <2>1. View(s).series = View(new).series /\ View(s).of = View(new).of
          <=> s.fam = new.fam /\ s.labels = new.labels /\ s.id = new.id
    BY DEF View
  <2>2. ASSUME s.fam = new.fam, s.id = new.id PROVE s.labels = new.labels
    <3>1. Made(s)
      BY DEF Shaped
    <3>2. Made(new)'
      BY <1>1 DEF Shaped
    <3>3. PICK d \in Defined : \E row \in RowsOf(d) : MadeOf(s, d, row)
      BY <3>1 DEF Made
    <3>4. PICK row \in RowsOf(d) : MadeOf(s, d, row)
      BY <3>3
    <3>5. PICK e \in Defined : \E other \in RowsOf(e) : MadeOf(new, e, other)'
      BY <3>2 DEF Made
    <3>6. PICK other \in RowsOf(e) : MadeOf(new, e, other)'
      BY <3>5
    <3>7. row.node = other.node
      BY DEF RowsOf, OneNode
    <3>8. PICK tags : /\ s.id = SampleId(row, tags)
                      /\ s.labels = LabelsOf(s.fam, row, tags)
      BY <3>4 DEF MadeOf
    <3>9. PICK ctags : /\ new.id = SampleId(other, ctags)
                       /\ new.labels = LabelsOf(new.fam, other, ctags)
      BY <3>6 DEF MadeOf
    <3>10. LabelsOf(s.fam, row, tags) = LabelsOf(s.fam, other, ctags)
      <4>1. SampleId(row, tags) = SampleId(other, ctags)
        BY <2>2, <3>8, <3>9
      <4> QED
        BY <3>7, <4>1, IdsIdentify
    <3> QED
      BY <2>2, <3>8, <3>9, <3>10
  <2> QED
    BY <2>1, <2>2 DEF InFam
<1>3. On(samples') = On(samples \ old) \cup {View(new)}
  BY <1>1 DEF On
<1>4. On(samples \ old)
        = {x \in On(samples) : ~(x.series = View(new).series /\ x.of = View(new).of)}
  BY <1>2 DEF On
<1> QED
  BY <1>3, <1>4

LEMMA InitRefines == Init => Scrapes!Init
BY DEF Init, Scrapes!Init

LEMMA StepRefines ==
  ASSUME IInv, IInv', Shaped, Shaped', NEW node, OneNode(node), [Next]_sinkVars
  PROVE  [Scrapes!Next]_Scrapes!expositionVars
<1>1. OnShow = On(samples) /\ OnShow' = On(samples')
  <2>1. (OnShow = On(samples))'
    BY ShowsOwnLabelsNext
  <2> QED
    BY <2>1, ShowsOwnLabels DEF On
<1>2. ASSUME UNCHANGED <<clock, samples>>
      PROVE  UNCHANGED Scrapes!expositionVars
  BY <1>1, <1>2 DEF OnShow, Scrapes!expositionVars
<1>3. CASE \E row \in RowsOf(writing) : WriteRow(row)
  <2>1. UNCHANGED clock
    BY <1>3 DEF WriteRow
  <2>2. CASE UNCHANGED famVars
    BY <1>2, <2>1, <2>2 DEF famVars
  <2>3. ASSUME NEW new, Added(new)
        PROVE  Scrapes!Next
    <3> DEFINE x == View(new)
    <3>1. OnShow' = {y \in OnShow : ~(y.series = x.series /\ y.of = x.of)} \cup {x}
      BY <1>1, <2>3, AddedIsPut
    <3>2. Scrapes!Put(x)
      BY <2>1, <3>1 DEF Scrapes!Put, OnShow
    <3>3. x \in OnShow'
      BY <3>1
    <3> QED
      BY <3>2, <3>3 DEF Scrapes!Next, Scrapes!PutAny, OnShow
  <2> QED
    BY <1>3, <2>2, <2>3, WriteRowAdds
<1>4. CASE Collect
  <2>1. On(samples') = {x \in On(samples) : clock <= x.exp} /\ UNCHANGED clock
    BY <1>4 DEF Collect, Live, On, View
  <2>2. Scrapes!DropExpired
    BY <1>1, <2>1 DEF OnShow, Scrapes!DropExpired
  <2> QED
    BY <2>2 DEF Scrapes!Next
<1>5. CASE Tick
  <2>1. OnShow' = OnShow /\ clock' = clock + 1
    BY <1>1, <1>5 DEF Tick, famVars
  <2>2. Scrapes!Tick
    BY <2>1 DEF OnShow, Scrapes!Tick
  <2> QED
    BY <2>2 DEF Scrapes!Next
<1>6. CASE \/ \E listing \in Listings : UpdateDatasets(listing)
           \/ \E ds \in given : BeginWrite(ds)
           \/ EndWrite \/ UNCHANGED sinkVars
  <2>1. UNCHANGED <<clock, samples>>
    BY <1>6 DEF UpdateDatasets, BeginWrite, EndWrite, sinkVars, famVars
  <2> QED
    BY <1>2, <2>1
<1> QED
  BY <1>3, <1>4, <1>5, <1>6 DEF Next

\* When one node reports, a scrape finds for every series of a workload the latest
\* sample written to it until it expires, and no other, for all rows, whatever tags
\* they carry or lack, all listings and all bounds (prometheus.go:422-594).
THEOREM ScrapesAreRight ==
  ASSUME NEW node, OneNode(node)
  PROVE  Spec => ImplementsExposition
<1>1. IInv /\ IInv' /\ Shaped /\ Shaped' /\ [Next]_sinkVars
        => [Scrapes!Next]_Scrapes!expositionVars
  BY StepRefines
<1> QED
  BY <1>1, AlwaysShaped, InitRefines, PTL
  DEF Spec, ImplementsExposition, Scrapes!Spec
=============================================================================
