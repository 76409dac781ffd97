---------------------------- MODULE PromSinkProofs ----------------------------
(***************************************************************************)
(* Proofs about PromSink for every set of listings the API may give, every *)
(* set of rows, and every bound.                                           *)
(*                                                                         *)
(* LabelCounts speaks of cardinalities, and is inductive only while the    *)
(* samples are finitely many.  DatasetsCurrent needs nothing but TypeOK    *)
(* and the assumption on the listings.                                     *)
(***************************************************************************)
EXTENDS PromSink, FiniteSetTheorems, TLAPS

\* The sink was told of a listing; the samples are finitely many.
Basics ==
  /\ inited => given \in Listings
  /\ IsFiniteSet(samples)

IInv == TypeOK /\ DatasetsCurrent /\ LabelCounts /\ Basics

Definitions == [id : 0..MaxDsID, created : Nat, metrics : SUBSET STRING]
-----------------------------------------------------------------------------
(* The definitions.                                                        *)

\* CreateDataset leaves the id and the creation time of a definition alone.
LEMMA WithPathKeeps ==
  ASSUME NEW e \in Definitions
  PROVE  /\ WithPath(e).id = e.id
         /\ WithPath(e).created = e.created
         /\ WithPath(e).metrics \subseteq e.metrics \cup {"export_path"}
BY DEF WithPath, Definitions

\* An update by comparison turns the definitions of any listing into those of any
\* other.
LEMMA UpdateIsComplete ==
  ASSUME NEW L \in Listings, NEW M \in Listings,
         dsm = {WithPath(e) : e \in L}
  PROVE  Updated(M) = {WithPath(e) : e \in M}
<1> USE ListingAssumption
<1>1. /\ \A e \in L \cup M : /\ e \in Definitions
                             /\ WithPath(e).id = e.id
                             /\ WithPath(e).created = e.created
                             /\ e.id \in Slots \/ e.id = 0
  BY WithPathKeeps DEF Definitions, Slots
<1>2. \A d \in L, e \in M : Same(WithPath(d), e) => d = e
  BY <1>1 DEF Same
<1>3. \A e \in L : e.id \notin Slots => e \in M
  BY <1>1
<1>4. \A e \in M : e.id \notin Slots => e \in L
  BY <1>1
<1>5. ASSUME NEW x \in Updated(M) PROVE x \in {WithPath(e) : e \in M}
  <2>1. CASE x \in dsm /\ (x.id \notin Slots \/ \E e \in M : Same(x, e))
    <3>1. PICK d \in L : x = WithPath(d)
      BY <2>1
    <3>2. d \in M
      BY <3>1, <2>1, <1>1, <1>2, <1>3
    <3> QED
      BY <3>1, <3>2
  <2>2. CASE \E e \in M : x = WithPath(e)
    BY <2>2
  <2> QED
    BY <1>5, <2>1, <2>2 DEF Updated
<1>6. ASSUME NEW e \in M PROVE WithPath(e) \in Updated(M)
  <2>1. CASE e.id \notin Slots
    <3>1. WithPath(e) \in dsm /\ WithPath(e).id \notin Slots
      BY <2>1, <1>1, <1>4
    <3> QED
      BY <3>1 DEF Updated
  <2>2. CASE \E d \in dsm : Same(d, e)
    <3>1. e \in L
      BY <2>2, <1>2
    <3>2. WithPath(e) \in dsm /\ Same(WithPath(e), e)
      BY <3>1, <1>1 DEF Same
    <3> QED
      BY <3>2 DEF Updated
  <2>3. CASE e.id \in Slots /\ \A d \in dsm : ~Same(d, e)
    BY <2>3 DEF Updated
  <2> QED
    BY <2>1, <2>2, <2>3
<1> QED
  BY <1>5, <1>6
-----------------------------------------------------------------------------
(* The samples.                                                            *)

\* A sample's labels are among the keys the sink counts.
LEMMA LabelsCounted ==
  ASSUME IInv, NEW row, NEW tags, NEW ds
  PROVE  DOMAIN Labels(ds, row, tags) \subseteq LabelKeys
<1>1. \A d \in dsm : d.metrics \subseteq LabelKeys
  <2> TAKE d \in dsm
  <2>1. PICK L \in Listings : \E e \in L : d = WithPath(e)
    BY DEF IInv, TypeOK
  <2>2. PICK e \in L : d = WithPath(e)
    BY <2>1
  <2>3. e \in Definitions
    BY ListingAssumption DEF Definitions
  <2> QED
    BY <2>2, <2>3, WithPathKeeps DEF LabelKeys
<1> QED
  BY <1>1 DEF Labels, MetricsOf, Known, LabelKeys

\* addSample keeps the counts, whatever sample it replaces.
LEMMA AddSampleCounts ==
  ASSUME IInv, NEW new, AddSample(new)
  PROVE  LabelCounts' /\ IsFiniteSet(samples')
<1> DEFINE old == {s \in InFam(new.fam) : s.id = new.id}
           With(S, k) == {s \in S : k \in DOMAIN s.labels}
<1> USE DEF IInv, Basics
<1>1. /\ samples' = (samples \ old) \cup {new}
      /\ labelSet' =
           [f \in Families \cup {new.fam} |->
              IF f # new.fam THEN labelSet[f]
              ELSE Recount(IF f \in Families THEN labelSet[f] ELSE NoLabels, old, new)]
  BY DEF AddSample
<1>2. IsFiniteSet(samples')
  BY <1>1, FS_AddElement, FS_Subset
<1>3. Families' = {s.fam : s \in samples'}
  <2>1. Families' = {s.fam : s \in samples} \cup {new.fam}
    BY <1>1 DEF Families, LabelCounts
  <2> QED
    BY <2>1, <1>1 DEF InFam
<1>4. ASSUME NEW f \in Families', NEW k \in LabelKeys
      PROVE  labelSet'[f][k] = Cardinality(With(InFam(f)', k))
  <2>1. CASE f # new.fam
    <3>1. InFam(f)' = InFam(f)
      BY <2>1, <1>1 DEF InFam
    <3>2. f \in Families /\ labelSet'[f] = labelSet[f]
      BY <2>1, <1>1 DEF Families
    <3> QED
      BY <3>1, <3>2 DEF LabelCounts
  <2>2. CASE f = new.fam
    <3> DEFINE C == With(InFam(f), k)
               O == With(old, k)
               before == IF f \in Families THEN labelSet[f] ELSE NoLabels
    <3>1. IsFiniteSet(C) /\ O \subseteq C /\ IsFiniteSet(O)
      BY <2>2, FS_Subset DEF InFam
    <3>2. before[k] = Cardinality(C)
      <4>1. CASE f \in Families
        BY <4>1 DEF LabelCounts
      <4>2. CASE f \notin Families
        <5>1. C = {}
          BY <4>2 DEF LabelCounts, InFam
        <5> QED
          BY <5>1, <4>2, FS_EmptySet DEF NoLabels
      <4> QED
        BY <4>1, <4>2
    <3>3. labelSet'[f][k] = before[k] + Has(new, k) - Cardinality(O)
      BY <1>1, <2>2 DEF Recount
    <3>4. /\ IsFiniteSet(C \ O)
          /\ Cardinality(C \ O) = Cardinality(C) - Cardinality(O)
          /\ Cardinality(C) \in Nat /\ Cardinality(O) \in Nat
      <4>1. C \cap O = O
        BY <3>1
      <4> QED
        BY <3>1, <4>1, FS_Difference, FS_CardinalityType
    <3>5. new \notin C \ O
      BY <2>2 DEF InFam
    <3>6. With(InFam(f)', k) =
            (C \ O) \cup (IF k \in DOMAIN new.labels THEN {new} ELSE {})
      BY <1>1, <2>2 DEF InFam
    <3>7. CASE k \in DOMAIN new.labels
      <4>1. Cardinality((C \ O) \cup {new}) = Cardinality(C \ O) + 1
        BY <3>4, <3>5, FS_AddElement
      <4>2. With(InFam(f)', k) = (C \ O) \cup {new}
        BY <3>6, <3>7
      <4>3. Has(new, k) = 1
        BY <3>7 DEF Has
      <4> HIDE DEF C, O, before, With
      <4> QED
        BY <3>2, <3>3, <3>4, <4>1, <4>2, <4>3
    <3>8. CASE k \notin DOMAIN new.labels
      <4>1. With(InFam(f)', k) = C \ O
        BY <3>6, <3>8
      <4>2. Has(new, k) = 0
        BY <3>8 DEF Has
      <4> HIDE DEF C, O, before, With
      <4> QED
        BY <3>2, <3>3, <3>4, <4>1, <4>2
    <3> QED
      BY <3>7, <3>8
  <2> QED
    BY <2>1, <2>2
<1> QED
  BY <1>2, <1>3, <1>4 DEF LabelCounts

\* Expire keeps the counts, and leaves no family without a sample.
LEMMA CollectCounts ==
  ASSUME IInv, Collect
  PROVE  LabelCounts' /\ IsFiniteSet(samples')
<1> DEFINE With(S, k) == {s \in S : k \in DOMAIN s.labels}
<1> USE DEF IInv, Basics
<1>1. /\ samples' = {s \in samples : Live(s)}
      /\ labelSet' =
           [f \in {s.fam : s \in samples'} |->
              [k \in LabelKeys |->
                 labelSet[f][k]
                   - Cardinality({s \in InFam(f) : ~Live(s) /\ k \in DOMAIN s.labels})]]
  BY DEF Collect
<1>2. IsFiniteSet(samples')
  BY <1>1, FS_Subset
<1>3. Families' = {s.fam : s \in samples'}
  BY <1>1 DEF Families
<1>4. ASSUME NEW f \in Families', NEW k \in LabelKeys
      PROVE  labelSet'[f][k] = Cardinality(With(InFam(f)', k))
  <2> DEFINE C == With(InFam(f), k)
             D == {s \in InFam(f) : ~Live(s) /\ k \in DOMAIN s.labels}
  <2>1. f \in Families
    BY <1>1, <1>3 DEF LabelCounts
  <2>2. labelSet'[f][k] = Cardinality(C) - Cardinality(D)
    BY <1>1, <1>3, <2>1 DEF LabelCounts
  <2>3. IsFiniteSet(C) /\ D \subseteq C
    BY FS_Subset DEF InFam
  <2>4. Cardinality(C \ D) = Cardinality(C) - Cardinality(D)
    <3>1. C \cap D = D
      BY <2>3
    <3> QED
      BY <2>3, <3>1, FS_Difference
  <2>5. With(InFam(f)', k) = C \ D
    BY <1>1 DEF InFam
  <2> QED
    BY <2>2, <2>4, <2>5
<1> QED
  BY <1>2, <1>3, <1>4 DEF LabelCounts
-----------------------------------------------------------------------------
(* The invariant.                                                          *)

LEMMA InitIInv == Init => IInv
<1> SUFFICES ASSUME Init PROVE IInv
  OBVIOUS
<1> USE SinkAssumption DEF Init
<1>1. inited = FALSE
  BY Zenon
<1>2. TypeOK
  <2>1. inited \in BOOLEAN
    BY <1>1
  <2>2. given \in Listings \cup {{}} /\ writing \in given \cup {NoDataset}
    OBVIOUS
  <2>3. clock \in 0..MaxTime /\ started \in 0..clock /\ left \in 0..MaxRows
    OBVIOUS
  <2> QED
    BY <2>1, <2>2, <2>3 DEF TypeOK
<1>3. DatasetsCurrent /\ Basics
  BY <1>1, FS_EmptySet DEF DatasetsCurrent, Basics
<1>4. LabelCounts
  BY DEF LabelCounts, Families
<1> QED
  BY <1>2, <1>3, <1>4 DEF IInv

LEMMA UpdateIInv ==
  ASSUME IInv, NEW listing \in Listings, UpdateDatasets(listing)
  PROVE  IInv'
<1> USE DEF IInv, UpdateDatasets
<1>1. dsm' = {WithPath(e) : e \in listing}
  <2>1. CASE inited
    BY <2>1, UpdateIsComplete DEF DatasetsCurrent, Basics
  <2>2. CASE ~inited
    BY <2>2
  <2> QED
    BY <2>1, <2>2
<1>2. inited' \in BOOLEAN
  BY Zenon
<1>3. TypeOK'
  BY <1>1, <1>2 DEF TypeOK, famVars, writeVars, Free
<1>4. DatasetsCurrent' /\ Basics'
  BY <1>1 DEF DatasetsCurrent, Basics, famVars
<1>5. LabelCounts'
  BY DEF LabelCounts, Families, InFam, famVars
<1> QED
  BY <1>3, <1>4, <1>5

LEMMA WriteRowIInv ==
  ASSUME IInv, NEW row, WriteRow(row)
  PROVE  IInv'
<1> USE SinkAssumption DEF IInv
<1>1. PICK path : 
        /\ Remember(row, path)
        /\ IF Accepted(row)
           THEN AddSample([fam    |-> Family(writing, row),
                           id     |-> SampleId(row, Tags(row, path)),
                           labels |-> Labels(writing, row, Tags(row, path)),
                           exp    |-> started + TTL])
           ELSE UNCHANGED famVars
  BY DEF WriteRow
<1>2. /\ left' \in 0..MaxRows
      /\ UNCHANGED <<clock, dsVars, writing, started>>
  BY DEF WriteRow, TypeOK
<1>3. CASE ~Accepted(row)
  BY <1>1, <1>2, <1>3
     DEF TypeOK, DatasetsCurrent, LabelCounts, Basics, Families, InFam, famVars, dsVars
<1>4. CASE Accepted(row)
  <2> DEFINE new == [fam    |-> Family(writing, row),
                     id     |-> SampleId(row, Tags(row, path)),
                     labels |-> Labels(writing, row, Tags(row, path)),
                     exp    |-> started + TTL]
  <2>1. AddSample(new)
    BY <1>1, <1>4
  <2>2. new.exp \in Nat /\ DOMAIN new.labels \subseteq LabelKeys
    BY LabelsCounted DEF TypeOK
  <2>3. samples' = (samples \ {s \in InFam(new.fam) : s.id = new.id}) \cup {new}
    BY <2>1 DEF AddSample
  <2> HIDE DEF new
  <2>4. LabelCounts' /\ IsFiniteSet(samples')
    BY <2>1, AddSampleCounts
  <2>5. TypeOK'
    BY <1>2, <2>2, <2>3 DEF TypeOK, InFam, dsVars
  <2> QED
    BY <1>2, <2>4, <2>5 DEF DatasetsCurrent, Basics, dsVars
<1> QED
  BY <1>3, <1>4

LEMMA StepIInv == IInv /\ [Next]_sinkVars => IInv'
<1> SUFFICES ASSUME IInv, [Next]_sinkVars PROVE IInv'
  OBVIOUS
<1> USE SinkAssumption
    DEF dsVars, famVars, writeVars
<1>1. CASE \E listing \in Listings : UpdateDatasets(listing)
  BY <1>1, UpdateIInv
<1>2. CASE \E row \in RowsOf(writing) : WriteRow(row)
  BY <1>2, WriteRowIInv
<1>3. CASE Collect
  <2>1. LabelCounts' /\ IsFiniteSet(samples')
    BY <1>3, CollectCounts
  <2>2. samples' \subseteq samples /\ UNCHANGED <<clock, dsVars, writeVars>>
    BY <1>3 DEF Collect
  <2> QED
    BY <2>1, <2>2 DEF IInv, TypeOK, DatasetsCurrent, Basics
<1>4. CASE \/ \E ds \in given : BeginWrite(ds)
           \/ EndWrite
           \/ Tick
           \/ UNCHANGED sinkVars
  <2>1. /\ UNCHANGED <<dsm, inited, given, samples, labelSet>>
        /\ clock' \in 0..MaxTime /\ clock' >= clock
        /\ writing' \in given \cup {NoDataset}
        /\ started' \in 0..clock' /\ left' \in 0..MaxRows
    BY <1>4 DEF BeginWrite, EndWrite, Tick, sinkVars, IInv, TypeOK
  <2> QED
    BY <2>1 DEF IInv, TypeOK, DatasetsCurrent, LabelCounts, Basics, Families, InFam
<1> QED
  BY <1>1, <1>2, <1>3, <1>4 DEF Next

\* The strengthening of the sink's invariants holds throughout.
THEOREM Invariance == Spec => []IInv
<1> QED
  BY InitIInv, StepIInv, PTL DEF Spec

\* Every variable of the sink keeps to its range, and a family holds one sample
\* under an id (prometheus.go:84-92).
THEOREM TypeCorrect == Spec => []TypeOK
<1>1. IInv => TypeOK
  BY DEF IInv
<1> QED
  BY <1>1, Invariance, PTL

\* Whatever the order of writes, replacements, expirations and scrapes, each
\* family counts for each label the samples that carry it (prometheus.go:422-516).
THEOREM CountsAreExact == Spec => []LabelCounts
<1>1. IInv => LabelCounts
  BY DEF IInv
<1> QED
  BY <1>1, Invariance, PTL

\* The sink works with the very definitions of the latest listing, for every
\* sequence of listings the API may give (prometheus.go:359-409).
THEOREM DefinitionsAreCurrent == Spec => []DatasetsCurrent
<1>1. IInv => DatasetsCurrent
  BY DEF IInv
<1> QED
  BY <1>1, Invariance, PTL
=============================================================================
