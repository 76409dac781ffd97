-------------------------- MODULE InfluxSinksProofs --------------------------
(***************************************************************************)
(* Proofs about InfluxSinks for any workloads, exports, paths and limits.  *)
(*                                                                         *)
(* OnePoint and CutStaysOut speak of the databases alone; that they last   *)
(* rests on the points under way and on those being made, which may be     *)
(* applied later: all points of a run carry the path that its exportMap    *)
(* holds, and an entry of the map is written once.                         *)
(*                                                                         *)
(* That the databases implement SampleStore needs, besides, that the       *)
(* series of a run last in all that a database may yet get, and that none  *)
(* of it is ahead of the collector (Written).                              *)
(***************************************************************************)
EXTENDS InfluxSinks, FiniteSetTheorems, TLAPS

Applied    == db \cup sent
Everywhere == Applied \cup points

\* The points of this run agree with its plugin and its map.
Stamped ==
  \A p \in Everywhere :
    /\ p.run <= run
    /\ p.run = run => p.plugin = plugin /\ p.path = TagOf(p.of)

\* OnePoint, of the points that the database may yet get, too.
One ==
  \A p, q \in Everywhere :
    p.run = q.run /\ p.time = q.time /\ p.of = q.of => p = q

\* The points being made are those of the batch, but for the ones refused.
Current ==
  /\ \A p \in points : p.run = run /\ p.time = batch
  /\ at \in {"tags", "sent"} =>
       \A w \in Workloads \ todo : PointOf(w, TagOf(w)) \in points \cup Refused
  /\ at = "sent" => todo = {} /\ points \subseteq Applied

\* What the collector may be doing.
Phase ==
  /\ at \in {"tags", "sent", "wait"} => plugin # "discard" /\ batch # 0 /\ tries # 0
  /\ at = "init" => batch = 0

\* Where a lookup that was cut off may have left its mark.
Cuts ==
  /\ \A p \in Applied : p.path = Cut => p.plugin = "influxdb"
  /\ \A e \in Exports : exports[e] = Cut => cancelled

\* A sample that the collector is done with is stored, but for points refused.
Gapless == at \in {"nap", "read"} /\ batch # 0 /\ plugin # "discard" => Stored

IInv == TypeOK /\ Stamped /\ One /\ Current /\ Phase /\ Cuts /\ Gapless
-----------------------------------------------------------------------------
LEMMA InitIInv == Init => IInv
<1> SUFFICES ASSUME Init PROVE IInv
  OBVIOUS
<1> USE InfluxAssumption DEF Init
<1>1. lookups \in BOOLEAN /\ cancelled \in BOOLEAN
  BY Zenon
<1>2. exports \in [Exports -> Paths \cup Lost \cup {Unasked}]
  BY DEF NoPaths
<1>3. TypeOK
  BY <1>1, <1>2 DEF TypeOK, Ats, Waits, Runs, Samples
<1>4. \A e \in Exports : exports[e] # Cut
  BY DEF NoPaths, Unasked, Cut
<1>5. Everywhere = {} /\ Applied = {}
  BY DEF Everywhere, Applied
<1> QED
  BY <1>3, <1>4, <1>5
     DEF IInv, Stamped, One, Current, Phase, Cuts, Gapless, Everywhere

\* Steps of the collector that make no point and send none.
LEMMA QuietIInv ==
  ASSUME IInv, UNCHANGED <<runVars, sent, db, sample, exports, batch, todo, points>>,
         at' \in Ats, tries' \in 0..MaxWrites,
         at' \in {"tags", "sent"} => FALSE,
         at' = "wait" => at = "sent" /\ tries' = tries,
         at' = "init" => FALSE,
         at' \in {"nap", "read"} /\ batch # 0 /\ plugin # "discard" => Stored
  PROVE  IInv'
<1> USE DEF runVars
<1>1. TypeOK'
  BY DEF IInv, TypeOK
<1>2. Everywhere' = Everywhere /\ Applied' = Applied /\ \A w : TagOf(w)' = TagOf(w)
  BY DEF Everywhere, Applied, TagOf, Asks
<1>3. Stamped' /\ One'
  BY <1>2 DEF IInv, Stamped, One
<1>4. Current' /\ Phase'
  BY <1>2 DEF IInv, Current, Phase, PointOf
<1>5. Cuts'
  BY <1>2 DEF IInv, Cuts
<1>6. Gapless'
  BY <1>2 DEF Gapless, Stored, PointOf
<1> QED
  BY <1>1, <1>3, <1>4, <1>5, <1>6 DEF IInv

\* A new try: the points made before are only in the requests sent.
LEMMA TryIInv ==
  ASSUME IInv, NEW n \in 1..MaxWrites, BeginTry(n),
         UNCHANGED <<runVars, sent, db, sample>>,
         batch' \in Samples
  PROVE  IInv'
<1> USE DEF runVars
<1>1. TypeOK'
  BY InfluxAssumption DEF IInv, TypeOK, BeginTry, Ats, Waits, Samples
<1>2. Everywhere' \subseteq Everywhere /\ Applied' = Applied /\ points' = {}
      /\ \A w : TagOf(w)' = TagOf(w)
  BY DEF Everywhere, Applied, TagOf, Asks, BeginTry
<1>3. Stamped' /\ One'
  BY <1>2 DEF IInv, Stamped, One
<1>4. Current' /\ Phase'
  BY InfluxAssumption DEF IInv, TypeOK, Current, Phase, BeginTry, Samples
<1>5. Cuts'
  BY <1>2 DEF IInv, Cuts, BeginTry
<1>6. Gapless'
  BY DEF Gapless, BeginTry
<1> QED
  BY <1>1, <1>3, <1>4, <1>5, <1>6 DEF IInv

\* A point made with the path that the map holds, before the step or after it.
LEMMA PointIInv ==
  ASSUME IInv, NEW w \in Workloads, NEW t \in PathTags, AddPoint(w, t),
         exports' \in [Exports -> Paths \cup Lost \cup {Unasked}],
         TagOf(w)' = t,
         \A v \in Workloads : TagOf(v) # Unasked => TagOf(v)' = TagOf(v),
         \A e \in Exports : exports'[e] = Cut => cancelled
  PROVE  IInv'
<1> DEFINE new == PointOf(w, t)
<1> USE DEF runVars
<1>1. /\ at = "tags" /\ at' = "tags" /\ w \in todo /\ todo' = todo \ {w}
      /\ points' = points \cup ({new} \ Refused)
      /\ UNCHANGED <<run, plugin, lookups, cancelled, batch, tries, sent, db, sample>>
  BY DEF AddPoint, Tagged
<1>2. batch \in Samples
  BY <1>1, InfluxAssumption DEF IInv, TypeOK, Phase, Samples
<1>3. new \in Points
  BY <1>2 DEF IInv, TypeOK, Points, PointOf
<1>4. TypeOK'
  BY <1>1, <1>3 DEF IInv, TypeOK
<1>5. Everywhere' \subseteq Everywhere \cup {new} /\ Applied' = Applied
  BY <1>1 DEF Everywhere, Applied
<1>6. Everywhere \subseteq Points
  BY DEF Everywhere, Applied, IInv, TypeOK
<1>7. Unasked \notin PathTags
  BY PathsAssumption DEF PathTags, Lost, Unasked, NoTag, Failed, Cut
<1>8. /\ new.run = run /\ new.time = batch /\ new.of = w
       /\ new.plugin = plugin /\ new.path = t
  BY DEF PointOf
<1>9. \A p \in Everywhere : p.run = run => p.path = TagOf(p.of)'
  <2> SUFFICES ASSUME NEW p \in Everywhere, p.run = run PROVE p.path = TagOf(p.of)'
    OBVIOUS
  <2>1. p.path \in PathTags /\ p.of \in Workloads
    BY <1>6 DEF Points
  <2>2. p.path = TagOf(p.of)
    BY DEF IInv, Stamped
  <2> QED
    BY <2>1, <2>2, <1>7
<1>10. run <= run
  BY DEF IInv, TypeOK, Runs
<1>11. Stamped'
  BY <1>1, <1>5, <1>9, <1>10, <1>8 DEF IInv, Stamped
<1>12. One'
  <2>1. \A p \in Everywhere :
          p.run = run /\ p.time = batch /\ p.of = w => p = new
    <3> SUFFICES ASSUME NEW p \in Everywhere, p.run = run, p.time = batch, p.of = w
                 PROVE  p = new
      OBVIOUS
    <3>1. p.path = t /\ p.plugin = plugin
      BY <1>9 DEF IInv, Stamped
    <3> QED
      BY <3>1, <1>6 DEF Points, PointOf
  <2> QED
    BY <1>5, <2>1, <1>8 DEF IInv, One
<1>13. Current'
  <2>1. \A v \in Workloads \ todo' : PointOf(v, TagOf(v))' \in points' \cup Refused
    <3> SUFFICES ASSUME NEW v \in Workloads \ todo'
                 PROVE  PointOf(v, TagOf(v)') \in points' \cup Refused
      BY <1>1 DEF PointOf
    <3>1. CASE v = w
      BY <1>1, <3>1
    <3>2. CASE v # w
      <4>1. PointOf(v, TagOf(v)) \in points \cup Refused
        BY <1>1, <3>2 DEF IInv, Current
      <4>2. PointOf(v, TagOf(v)) \in Points
        BY <4>1, RefusedAssumption DEF IInv, TypeOK
      <4>3. TagOf(v) # Unasked
        BY <4>2, <1>7 DEF PointOf, Points
      <4> QED
        BY <1>1, <4>1, <4>3
    <3> QED
      BY <3>1, <3>2
  <2>2. \A p \in points' : p.run = run /\ p.time = batch
    BY <1>1, <1>8 DEF IInv, Current
  <2> QED
    BY <1>1, <2>1, <2>2 DEF Current
<1>14. Phase' /\ Gapless'
  BY <1>1 DEF IInv, Phase, Gapless
<1>15. Cuts'
  BY <1>1, <1>5 DEF IInv, Cuts
<1> QED
  BY <1>4, <1>11, <1>12, <1>13, <1>14, <1>15 DEF IInv
-----------------------------------------------------------------------------
(* The steps.                                                              *)

LEMMA QuietSteps ==
  IInv /\ (OpenSink \/ OpenFails \/ ReadEnds \/ Interrupted \/ WriteDone \/ WriteFails
           \/ GiveUp \/ NextCycle \/ StopWaiting) => IInv'
<1> SUFFICES ASSUME IInv,
                    OpenSink \/ OpenFails \/ ReadEnds \/ Interrupted \/ WriteDone
                      \/ WriteFails \/ GiveUp \/ NextCycle \/ StopWaiting
             PROVE  IInv'
  OBVIOUS
<1>1. CASE OpenSink
  BY <1>1, QuietIInv DEF OpenSink, IInv, TypeOK, Ats, Phase
<1>2. CASE WriteDone
  <2>1. Stored
    BY <1>2 DEF WriteDone, IInv, Current, Applied, Stored
  <2> QED
    BY <1>2, <2>1, QuietIInv DEF WriteDone, IInv, TypeOK, Ats, Waits
<1>3. CASE WriteFails
  BY <1>3, QuietIInv DEF WriteFails, IInv, TypeOK, Ats, Waits
<1>4. CASE NextCycle
  BY <1>4, QuietIInv DEF NextCycle, IInv, TypeOK, Ats, Gapless
<1>5. CASE OpenFails \/ ReadEnds \/ Interrupted \/ GiveUp \/ StopWaiting
  <2>1. Return /\ UNCHANGED <<runVars, sent, db, sample>>
    BY <1>5 DEF OpenFails, ReadEnds, Interrupted, GiveUp, Surrender, StopWaiting
  <2> QED
    BY <2>1, QuietIInv DEF Return, IInv, TypeOK, Ats
<1> QED
  BY <1>1, <1>2, <1>3, <1>4, <1>5

LEMMA TrySteps == IInv /\ (Read \/ Retry) => IInv'
<1> SUFFICES ASSUME IInv, Read \/ Retry PROVE IInv'
  OBVIOUS
<1>1. CASE Read
  <2>1. 1 \in 1..MaxWrites
    BY InfluxAssumption
  <2> QED
    BY <1>1, <2>1, TryIInv DEF Read, IInv, TypeOK
<1>2. CASE Retry
  <2>1. tries + 1 \in 1..MaxWrites /\ batch \in Samples
    BY <1>2, InfluxAssumption DEF Retry, More, IInv, TypeOK, Phase, Samples
  <2> QED
    BY <1>2, <2>1, TryIInv DEF Retry
<1> QED
  BY <1>1, <1>2

LEMMA PointSteps ==
  ASSUME IInv, NEW w \in Workloads,
         PlainPoint(w) \/ KnownPath(w) \/ Lookup(w) \/ LookupCut(w)
  PROVE  IInv'
<1> DEFINE e == ExportOf[w]
<1>1. exports \in [Exports -> Paths \cup Lost \cup {Unasked}]
  BY DEF IInv, TypeOK
<1>2. Asks(w) => e \in Exports
  BY InfluxAssumption DEF Asks
<1>3. AddPoint(w, NoTag) \/ AddPoint(w, exports[e]) \/ AddPoint(w, Cut)
        \/ (\E p \in Paths \cup {Failed} : AddPoint(w, p))
  BY DEF PlainPoint, KnownPath, Lookup, LookupCut
<1>4. UNCHANGED lookups /\ \A v : Asks(v)' = Asks(v)
  BY <1>3 DEF AddPoint, runVars, Asks
<1>5. \A d \in Exports : exports[d] = Cut => cancelled
  BY DEF IInv, Cuts
<1>6. CASE PlainPoint(w)
  <2>1. \A v \in Workloads : TagOf(v)' = TagOf(v)
    BY <1>4, <1>6 DEF PlainPoint, TagOf
  <2>2. TagOf(w) = NoTag /\ NoTag \in PathTags
    BY <1>6 DEF PlainPoint, TagOf, PathTags
  <2> QED
    BY <1>1, <1>5, <1>6, <2>1, <2>2, PointIInv DEF PlainPoint
<1>7. CASE KnownPath(w)
  <2>1. \A v \in Workloads : TagOf(v)' = TagOf(v)
    BY <1>4, <1>7 DEF KnownPath, TagOf
  <2>2. TagOf(w) = exports[e] /\ exports[e] \in PathTags
    BY <1>1, <1>2, <1>7 DEF KnownPath, TagOf, PathTags
  <2> QED
    BY <1>1, <1>5, <1>7, <2>1, <2>2, PointIInv DEF KnownPath
<1>8. ASSUME NEW p \in Paths \cup Lost, Asks(w), exports[e] = Unasked,
             AddPoint(w, p), Keep(e, p), p = Cut => cancelled
      PROVE  IInv'
  <2>1. p \in PathTags
    BY DEF PathTags
  <2>2. exports' = [exports EXCEPT ![e] = p]
    BY <1>8 DEF Keep
  <2>3. exports' \in [Exports -> Paths \cup Lost \cup {Unasked}]
    BY <1>1, <2>2
  <2>4. TagOf(w)' = p
    BY <1>1, <1>2, <1>4, <1>8, <2>2 DEF TagOf
  <2>5. \A v \in Workloads : TagOf(v) # Unasked => TagOf(v)' = TagOf(v)
    BY <1>1, <1>4, <1>8, <2>2 DEF TagOf
  <2>6. \A d \in Exports : exports'[d] = Cut => cancelled
    BY <1>1, <1>5, <1>8, <2>2
  <2> QED
    BY <1>8, <2>1, <2>3, <2>4, <2>5, <2>6, PointIInv
<1>9. CASE Lookup(w)
  <2>1. PICK p \in Paths \cup {Failed} : AddPoint(w, p) /\ Keep(e, p)
    BY <1>9 DEF Lookup
  <2>2. p \in Paths \cup Lost
    BY DEF Lost
  <2>3. p # Cut
    BY PathsAssumption DEF Failed, Cut
  <2> QED
    BY <1>8, <1>9, <2>1, <2>2, <2>3 DEF Lookup
<1>10. CASE LookupCut(w)
  <2>1. Cut \in Paths \cup Lost
    BY DEF Lost
  <2> QED
    BY <1>8, <1>10, <2>1 DEF LookupCut
<1> QED
  BY <1>6, <1>7, <1>9, <1>10

LEMMA SendIInv == IInv /\ Send => IInv'
<1> SUFFICES ASSUME IInv, Send PROVE IInv'
  OBVIOUS
<1> USE DEF Send, runVars
<1>1. TypeOK'
  BY DEF IInv, TypeOK, Ats
<1>2. Everywhere' = Everywhere /\ Applied' = Applied \cup points
      /\ \A w : TagOf(w)' = TagOf(w)
  BY DEF Everywhere, Applied, TagOf, Asks
<1>3. Stamped' /\ One'
  BY <1>2 DEF IInv, Stamped, One
<1>4. Current' /\ Phase' /\ Gapless'
  BY <1>2 DEF IInv, Current, Phase, Gapless, PointOf
<1>5. \A p \in points : p.path = Cut => p.plugin = "influxdb"
  <2> SUFFICES ASSUME NEW p \in points, p.path = Cut PROVE p.plugin = "influxdb"
    OBVIOUS
  <2>1. p.plugin = plugin /\ Cut = TagOf(p.of)
    BY DEF IInv, Stamped, Everywhere, Current
  <2>2. Asks(p.of) /\ exports[ExportOf[p.of]] = Cut
    BY <2>1 DEF TagOf, NoTag, Cut
  <2>3. p.of \in Workloads
    BY DEF IInv, TypeOK, Points
  <2>4. cancelled
    BY <2>2, <2>3, InfluxAssumption DEF Asks, IInv, Cuts
  <2>5. plugin \in Plugins /\ plugin # "discard" /\ plugin # "influxdbv2"
    BY <2>4 DEF IInv, TypeOK, Phase, Cuttable
  <2> QED
    BY <2>1, <2>5 DEF Plugins
<1>6. Cuts'
  BY <1>2, <1>5 DEF IInv, Cuts
<1> QED
  BY <1>1, <1>3, <1>4, <1>6 DEF IInv
-----------------------------------------------------------------------------
LEMMA NextRunIInv == IInv /\ NextRun => IInv'
<1> SUFFICES ASSUME IInv, NextRun PROVE IInv'
  OBVIOUS
<1> USE InfluxAssumption DEF NextRun
<1>1. lookups' \in BOOLEAN /\ cancelled' \in BOOLEAN
  BY Zenon
<1>2. exports' \in [Exports -> Paths \cup Lost \cup {Unasked}]
  BY DEF NoPaths
<1>3. TypeOK'
  BY <1>1, <1>2 DEF IInv, TypeOK, Ats, Runs
<1>4. Everywhere' \subseteq Everywhere /\ Applied' = Applied /\ points' = {}
  BY DEF Everywhere, Applied
<1>5. \A p \in Everywhere : p.run <= run' /\ p.run # run'
  <2> SUFFICES ASSUME NEW p \in Everywhere PROVE p.run <= run' /\ p.run # run'
    OBVIOUS
  <2>1. p.run \in Nat /\ p.run <= run /\ run \in Nat
    BY DEF Everywhere, Applied, IInv, TypeOK, Points, Runs, Stamped
  <2> QED
    BY <2>1
<1>6. Stamped' /\ One'
  BY <1>4, <1>5 DEF IInv, Stamped, One
<1>7. Current' /\ Phase' /\ Gapless'
  BY <1>4 DEF Current, Phase, Gapless
<1>8. \A e \in Exports : exports'[e] # Cut
  BY DEF NoPaths, Unasked, Cut
<1>9. Cuts'
  BY <1>4, <1>8 DEF IInv, Cuts
<1> QED
  BY <1>3, <1>6, <1>7, <1>9 DEF IInv

LEMMA ApplyIInv == IInv /\ Apply => IInv'
<1> SUFFICES ASSUME IInv, NEW q \in sent, sent' = sent \ {q}, db' = db \cup {q},
                    UNCHANGED <<sinkVars, runVars, sample>>
             PROVE  IInv'
  BY DEF Apply
<1> USE DEF sinkVars, runVars
<1>1. TypeOK'
  BY DEF IInv, TypeOK
<1>2. Everywhere' = Everywhere /\ Applied' = Applied /\ \A w : TagOf(w)' = TagOf(w)
  BY DEF Everywhere, Applied, TagOf, Asks
<1>3. Stamped' /\ One'
  BY <1>2 DEF IInv, Stamped, One
<1>4. Current' /\ Phase'
  BY <1>2 DEF IInv, Current, Phase, PointOf
<1>5. Cuts'
  BY <1>2 DEF IInv, Cuts
<1>6. Gapless'
  BY <1>2 DEF IInv, Gapless, Stored, PointOf
<1> QED
  BY <1>1, <1>3, <1>4, <1>5, <1>6 DEF IInv

\* Steps that concern neither the databases nor the sink.
LEMMA AsideIInv ==
  ASSUME IInv, UNCHANGED <<sinkVars, run, plugin, lookups, sent, db>>, TypeOK',
         cancelled => cancelled'
  PROVE  IInv'
<1> USE DEF sinkVars
<1>1. Everywhere' = Everywhere /\ Applied' = Applied /\ \A w : TagOf(w)' = TagOf(w)
  BY DEF Everywhere, Applied, TagOf, Asks
<1>2. Stamped' /\ One'
  BY <1>1 DEF IInv, Stamped, One
<1>3. Current' /\ Phase' /\ Cuts'
  BY <1>1 DEF IInv, Current, Phase, Cuts, PointOf
<1>4. Gapless'
  BY <1>1 DEF IInv, Gapless, Stored, PointOf
<1> QED
  BY <1>2, <1>3, <1>4 DEF IInv

LEMMA OtherSteps ==
  IInv /\ (Cancel \/ TakeSample \/ UNCHANGED influxVars) => IInv'
<1> SUFFICES ASSUME IInv, Cancel \/ TakeSample \/ UNCHANGED influxVars
             PROVE  IInv'
  OBVIOUS
<1> USE DEF sinkVars, runVars
<1>1. CASE Cancel
  <2>1. cancelled'
    BY <1>1, Zenon DEF Cancel
  <2>2. cancelled' \in BOOLEAN
    BY <2>1
  <2>3. TypeOK'
    BY <1>1, <2>2 DEF Cancel, IInv, TypeOK
  <2> QED
    BY <1>1, <2>1, <2>3, AsideIInv DEF Cancel
<1>2. CASE TakeSample
  <2>1. TypeOK'
    BY <1>2, InfluxAssumption DEF TakeSample, IInv, TypeOK, Samples
  <2> QED
    BY <1>2, <2>1, AsideIInv DEF TakeSample
<1>3. CASE UNCHANGED influxVars
  <2>1. TypeOK'
    BY <1>3 DEF influxVars, IInv, TypeOK
  <2> QED
    BY <1>3, <2>1, AsideIInv DEF influxVars
<1> QED
  BY <1>1, <1>2, <1>3

LEMMA NextIInv == IInv /\ [Next]_influxVars => IInv'
BY QuietSteps, TrySteps, PointSteps, SendIInv, NextRunIInv, ApplyIInv, OtherSteps
   DEF Next, CollectorStep, OwnStep
-----------------------------------------------------------------------------
\* The inductive invariant of the sinks and their write loop (influxdb.go,
\* influxdbv2.go, main.go:323-348) holds of every behavior.
THEOREM Invariance == Spec => []IInv
BY InitIInv, NextIInv, PTL DEF Spec

\* Every variable keeps its type, for any workloads, exports and limits.
THEOREM TypeCorrect == Spec => []TypeOK
BY Invariance, PTL DEF IInv

\* Retries and late requests leave one point per run, workload and sample, with
\* whatever lookups of export ids fail (backend.go:106-117).
THEOREM PointsUnique == Spec => []OnePoint
<1>1. IInv => OnePoint
  BY DEF IInv, One, OnePoint, Everywhere, Applied
<1> QED
  BY <1>1, Invariance, PTL

\* No lookup cut off by a cancellation gets into an InfluxDB v2 database
\* (influxdbv2.go:82-87).
THEOREM CutsStayOut == Spec => []CutStaysOut
<1>1. IInv => CutStaysOut
  BY DEF IInv, Cuts, CutStaysOut, Applied
<1> QED
  BY <1>1, Invariance, PTL

\* A collector that goes on to another sample has all of the last one stored that
\* the client does not refuse (main.go:323-348; influxdb.go:93-105).
THEOREM NoGaps == Spec => LeavesNoGap
<1>1. IInv /\ [Next]_influxVars =>
        (run' = run /\ batch' # batch /\ batch # 0 /\ plugin # "discard" => Stored)
  <2> SUFFICES ASSUME IInv, [Next]_influxVars, run' = run, batch' # batch, batch # 0,
                      plugin # "discard"
               PROVE  Stored
    OBVIOUS
  <2>1. Read \/ NextRun
    BY DEF Next, CollectorStep, OwnStep, OpenSink, OpenFails, ReadEnds, Interrupted,
           WriteDone, WriteFails, GiveUp, Surrender, NextCycle, StopWaiting, Return,
           Retry, PlainPoint, KnownPath, Lookup, LookupCut, AddPoint, Send, Cancel,
           Apply, TakeSample, influxVars, sinkVars
  <2>2. ~NextRun
    BY DEF NextRun, IInv, TypeOK, Runs
  <2> QED
    BY <2>1, <2>2 DEF Read, IInv, Gapless
<1> QED
  BY <1>1, Invariance, PTL DEF Spec, LeavesNoGap
-----------------------------------------------------------------------------
(* The refinement of SampleStore.                                          *)

\* The series of a run last, in all that a database may yet get, and none of it is
\* ahead of the collector.
Written ==
  /\ batch <= sample
  /\ \A p \in Everywhere : p.plugin # "discard" /\ (p.run = run => p.time <= batch)
  /\ Store!OneSeries(Everywhere)

\* Only points of the batch are new.
New(p) ==
  /\ p.run = run /\ p.time = batch /\ p.plugin = plugin /\ plugin # "discard"
  /\ UNCHANGED <<run, batch>>

LEMMA Growth ==
  IInv /\ [Next]_influxVars
    => \A p \in Everywhere' : p \in Everywhere \/ New(p)
<1> SUFFICES ASSUME IInv, [Next]_influxVars, NEW p \in Everywhere'
             PROVE  p \in Everywhere \/ New(p)
  OBVIOUS
<1> USE DEF Everywhere, Applied, runVars
<1>1. CASE OpenSink \/ OpenFails \/ ReadEnds \/ Interrupted \/ WriteDone \/ WriteFails
             \/ GiveUp \/ NextCycle \/ StopWaiting
  BY <1>1 DEF OpenSink, OpenFails, ReadEnds, Interrupted, WriteDone, WriteFails, GiveUp,
              Surrender, NextCycle, StopWaiting, Return
<1>2. CASE Read \/ Retry
  BY <1>2 DEF Read, Retry, BeginTry
<1>3. ASSUME NEW w \in Workloads, NEW t, AddPoint(w, t)
      PROVE  p \in Everywhere \/ New(p)
  BY <1>3 DEF AddPoint, Tagged, PointOf, New, IInv, Phase
<1>4. ASSUME NEW w \in Workloads,
             PlainPoint(w) \/ KnownPath(w) \/ Lookup(w) \/ LookupCut(w)
      PROVE  p \in Everywhere \/ New(p)
  BY <1>3, <1>4 DEF PlainPoint, KnownPath, Lookup, LookupCut
<1>5. CASE Send
  BY <1>5 DEF Send
<1>6. CASE NextRun \/ Apply
  BY <1>6 DEF NextRun, Apply, sinkVars
<1>7. CASE Cancel \/ TakeSample \/ UNCHANGED influxVars
  BY <1>7 DEF Cancel, TakeSample, influxVars, sinkVars
<1> QED
  BY <1>1, <1>2, <1>4, <1>5, <1>6, <1>7 DEF Next, CollectorStep, OwnStep

LEMMA SameTags ==
  ASSUME NEW p \in Points, NEW q \in Points,
         p.run = q.run, p.plugin = q.plugin, p.of = q.of, p.path = q.path
  PROVE  p = [q EXCEPT !.time = p.time]
BY DEF Points

LEMMA NextSeries ==
  ASSUME IInv, IInv', [Next]_influxVars, Store!OneSeries(Everywhere)
  PROVE  Store!OneSeries(Everywhere')
<1> SUFFICES ASSUME NEW p \in Everywhere', NEW q \in Everywhere', p.run = q.run, p.of = q.of
             PROVE  p = [q EXCEPT !.time = p.time]
  BY DEF Store!OneSeries
<1>1. CASE New(p) \/ New(q)
  <2>1. p \in Points /\ q \in Points
    BY DEF IInv, TypeOK, Everywhere, Applied
  <2>2. p.plugin = q.plugin /\ p.path = q.path
    BY <1>1 DEF New, IInv, Stamped
  <2> QED
    BY <2>1, <2>2, SameTags
<1>2. CASE ~(New(p) \/ New(q))
  BY <1>2, Growth DEF Store!OneSeries
<1> QED
  BY <1>1, <1>2

LEMMA NextWritten == IInv /\ IInv' /\ Written /\ [Next]_influxVars => Written'
<1> SUFFICES ASSUME IInv, IInv', Written, [Next]_influxVars PROVE Written'
  OBVIOUS
<1>1. Store!OneSeries(Everywhere)'
  BY NextSeries DEF Written, Store!OneSeries
<1>2. batch \in Nat /\ sample \in Nat
  BY DEF IInv, TypeOK, Samples
<1>3. \A p \in Everywhere' : p \in Everywhere \/ New(p)
  BY Growth
<1>4. /\ batch' <= sample'
      /\ (batch <= batch' /\ UNCHANGED run) \/ NextRun
  <2> USE DEF runVars
  <2>1. CASE OpenSink \/ OpenFails \/ ReadEnds \/ Interrupted \/ WriteDone \/ WriteFails
               \/ GiveUp \/ NextCycle \/ StopWaiting
    BY <1>2, <2>1
       DEF OpenSink, OpenFails, ReadEnds, Interrupted, WriteDone, WriteFails,
           GiveUp, Surrender, NextCycle, StopWaiting, Return, Written
  <2>2. CASE Read \/ Retry
    BY <1>2, <2>2 DEF Read, Retry, BeginTry, Written
  <2>3. ASSUME NEW w \in Workloads,
               PlainPoint(w) \/ KnownPath(w) \/ Lookup(w) \/ LookupCut(w)
        PROVE  UNCHANGED <<batch, sample, run>>
    BY <2>3 DEF PlainPoint, KnownPath, Lookup, LookupCut, AddPoint
  <2>4. CASE Send
    BY <1>2, <2>4 DEF Send, Written
  <2>5. CASE NextRun \/ Apply
    BY <1>2, <2>5 DEF NextRun, Apply, sinkVars, Written
  <2>6. CASE Cancel \/ TakeSample \/ UNCHANGED influxVars
    BY <1>2, <2>6 DEF Cancel, TakeSample, influxVars, sinkVars, Written
  <2> QED
    BY <1>2, <2>1, <2>2, <2>3, <2>4, <2>5, <2>6
       DEF Next, CollectorStep, OwnStep, Written
<1>5. ASSUME NEW p \in Everywhere'
      PROVE  p.plugin # "discard" /\ (p.run = run' => p.time <= batch')
  <2>1. p \in Points /\ p.time \in Nat /\ batch' \in Nat
    BY DEF IInv, TypeOK, Everywhere, Applied, Points, Samples
  <2>2. CASE New(p)
    BY <2>1, <2>2 DEF New
  <2>3. CASE p \in Everywhere /\ NextRun
    <3>1. p.run \in Nat /\ run \in Nat /\ p.run <= run /\ run' = run + 1
      BY <2>1, <2>3 DEF NextRun, IInv, TypeOK, Stamped, Points, Runs
    <3> QED
      BY <2>3, <3>1 DEF Written
  <2>4. CASE p \in Everywhere /\ ~NextRun
    BY <1>2, <1>4, <2>1, <2>4 DEF Written
  <2> QED
    BY <1>3, <2>2, <2>3, <2>4
<1> QED
  BY <1>1, <1>4, <1>5 DEF Written

LEMMA WrittenInvariance == Spec => []Written
<1>1. Init => Written
  <2>1. Init => Everywhere = {}
    BY DEF Init, Everywhere, Applied
  <2> QED
    BY <2>1 DEF Init, Written, Store!OneSeries
<1> QED
  BY <1>1, NextWritten, NextIInv, Invariance, PTL DEF Spec

\* A stored batch is done, as SampleStore has it.
LEMMA StoredIsDone ==
  ASSUME IInv, Written, Stored, plugin # "discard"
  PROVE  Store!Done
<1> DEFINE skip == {p \in Refused : p \in {PointOf(w, TagOf(w)) : w \in Workloads}}
<1>1. \A w : /\ PointOf(w, TagOf(w)).run = run /\ PointOf(w, TagOf(w)).time = batch
             /\ PointOf(w, TagOf(w)).of = w /\ PointOf(w, TagOf(w)).plugin = plugin
             /\ PointOf(w, TagOf(w)).path = TagOf(w)
  BY DEF PointOf
<1>2. skip \in SUBSET {p \in Refused : p.run = run /\ p.time = batch}
  BY <1>1
<1>3. Store!Complete(db \cup skip, run, batch)
  <2> SUFFICES ASSUME NEW w \in Workloads
               PROVE  \E p \in db \cup skip : p.run = run /\ p.time = batch /\ p.of = w
    BY DEF Store!Complete
  <2>1. PointOf(w, TagOf(w)) \in db \cup skip
    BY DEF Stored
  <2> QED
    BY <1>1, <2>1
<1>4. Store!OneSeries(db \cup skip)
  <2> SUFFICES ASSUME NEW p \in db \cup skip, NEW q \in db \cup skip,
                      p.run = q.run, p.of = q.of
               PROVE  p = [q EXCEPT !.time = p.time]
    BY DEF Store!OneSeries
  <2>1. p \in Points /\ q \in Points
    BY RefusedAssumption DEF IInv, TypeOK
  <2>2. \A r \in db \cup skip : r.run = run => r.plugin = plugin /\ r.path = TagOf(r.of)
    BY <1>1 DEF IInv, Stamped, Everywhere, Applied
  <2>3. CASE p.run = run
    <3>1. p.plugin = q.plugin /\ p.path = q.path
      BY <2>2, <2>3
    <3> HIDE DEF skip
    <3> QED
      BY <2>1, <3>1, SameTags
  <2>4. CASE p.run # run
    BY <1>2, <2>4 DEF Written, Store!OneSeries, Everywhere, Applied
  <2> QED
    BY <2>3, <2>4
<1> QED
  BY <1>2, <1>3, <1>4 DEF Store!Done

\* A batch that is read anew comes after one that is stored.
LEMMA ReadMovesOn ==
  ASSUME IInv, Written, Read
  PROVE  [Store!MoveOn]_(Store!storeVars)
<1>1. batch' = sample /\ UNCHANGED <<run, plugin, db>>
  BY DEF Read, runVars
<1>2. batch \in Nat /\ sample \in Samples /\ batch <= sample
  BY DEF IInv, TypeOK, Written, Samples
<1>3. CASE plugin = "discard"
  BY <1>1, <1>3 DEF Store!storeVars
<1>4. CASE plugin # "discard" /\ batch = sample
  BY <1>1, <1>4 DEF Store!storeVars
<1>5. CASE plugin # "discard" /\ batch # sample
  <2>1. batch # 0 => Store!Done
    BY <1>5, StoredIsDone DEF Read, IInv, Gapless
  <2>2. sample > batch
    BY <1>2, <1>5 DEF Samples
  <2> QED
    BY <1>1, <1>2, <1>5, <2>1, <2>2 DEF Store!MoveOn
<1> QED
  BY <1>3, <1>4, <1>5

\* A point that is applied is of a series as it was, and not ahead of the collector.
LEMMA ApplyStores ==
  ASSUME IInv, IInv', Written', Apply
  PROVE  Store!Store
<1>1. UNCHANGED <<run, plugin, batch>> /\ db \subseteq db'
  BY DEF Apply, sinkVars, runVars
<1>2. Store!OneSeries(db')
  BY DEF Written, Store!OneSeries, Everywhere, Applied
<1>3. ASSUME NEW p \in db'
      PROVE  \/ p.run < run
             \/ p.run = run /\ p.time <= (IF plugin = "discard" THEN 0 ELSE batch)
  <2>1. p \in Everywhere' /\ p.run \in Nat /\ run \in Nat
    BY DEF Everywhere, Applied, IInv, TypeOK, Points, Runs
  <2>2. p.run <= run /\ (p.run = run => p.plugin = plugin)
    BY <1>1, <2>1 DEF IInv, Stamped
  <2>3. p.plugin # "discard" /\ (p.run = run => p.time <= batch)
    BY <1>1, <2>1 DEF Written
  <2> QED
    BY <2>1, <2>2, <2>3
<1> QED
  BY <1>1, <1>2, <1>3 DEF Store!Store

LEMMA StepRefines ==
  IInv /\ IInv' /\ Written /\ Written' /\ [Next]_influxVars
    => [Store!Next]_(Store!storeVars)
<1> SUFFICES ASSUME IInv, IInv', Written, Written', [Next]_influxVars
             PROVE  [Store!Next]_(Store!storeVars)
  OBVIOUS
<1>1. CASE Read
  BY <1>1, ReadMovesOn DEF Store!Next
<1>2. CASE Apply
  BY <1>2, ApplyStores DEF Store!Next
<1>3. CASE NextRun
  BY <1>3 DEF NextRun, Store!Next, Store!NewRun
<1>4. CASE ~(Read \/ Apply \/ NextRun)
  <2>1. UNCHANGED <<run, plugin, batch, db>>
    BY <1>4
       DEF Next, CollectorStep, OwnStep, OpenSink, OpenFails, ReadEnds, Interrupted,
           WriteDone, WriteFails, GiveUp, Surrender, NextCycle, StopWaiting, Return,
           Retry, PlainPoint, KnownPath, Lookup, LookupCut, AddPoint, Send, Cancel,
           TakeSample, influxVars, sinkVars, runVars
  <2> QED
    BY <2>1 DEF Store!storeVars
<1> QED
  BY <1>1, <1>2, <1>3, <1>4

\* The write loop and the sinks keep what SampleStore promises of the databases
\* (influxdb.go:77-107; influxdbv2.go:70-89; main.go:323-348).
THEOREM Implementation == Spec => ImplementsStore
<1>1. Init => Store!Init
  BY DEF Init, Store!Init
<1> QED
  BY <1>1, StepRefines, Invariance, WrittenInvariance, PTL
     DEF Spec, ImplementsStore, Store!Spec
-----------------------------------------------------------------------------
(* How a cancelled run ends: every step of its collector leaves it fewer.  *)

\* The steps that a collector whose run is cancelled may still make.
StepsFrom(a) ==
  CASE a = "returned"                -> 0
    [] a \in {"wait", "nap", "read"} -> 1
    [] a \in {"sent", "init"}        -> 2
    [] OTHER                         -> 3

StepsLeft(a, rest) == StepsFrom(a) + Cardinality(rest)

\* A cancelled run stays cancelled, and each step of its collector leaves it fewer
\* to make.
WindsDown ==
  [][cancelled /\ run' = run
       => /\ cancelled'
          /\ CollectorStep => StepsLeft(at', todo') < StepsLeft(at, todo)]_influxVars

LEMMA StepsFromAt ==
  /\ StepsFrom("returned") = 0
  /\ StepsFrom("wait") = 1 /\ StepsFrom("nap") = 1 /\ StepsFrom("read") = 1
  /\ StepsFrom("sent") = 2 /\ StepsFrom("init") = 2
  /\ StepsFrom("tags") = 3
BY DEF StepsFrom

LEMMA Finite ==
  ASSUME IsFiniteSet(Workloads), IInv
  PROVE  /\ Cardinality(todo) \in Nat /\ StepsLeft(at, todo) \in Nat
         /\ \A w \in todo : Cardinality(todo \ {w}) = Cardinality(todo) - 1
<1>1. IsFiniteSet(todo)
  BY FS_Subset DEF IInv, TypeOK
<1>2. Cardinality(todo) \in Nat
  BY <1>1, FS_CardinalityType
<1>3. StepsFrom(at) \in Nat
  BY DEF StepsFrom
<1> QED
  BY <1>1, <1>2, <1>3, FS_RemoveElement DEF StepsLeft

\* A collector whose run is cancelled makes no more than StepsLeft further steps, so
\* that what CancelEnds asks of fairness is each of these steps alone; the retries
\* and the cycles of the write loop end with the cancellation (main.go:318-348).
THEOREM CancelWindsDown ==
  ASSUME IsFiniteSet(Workloads)
  PROVE  Spec => [](StepsLeft(at, todo) \in Nat) /\ WindsDown
<1>1. IInv => StepsLeft(at, todo) \in Nat
  BY Finite
<1>2. ASSUME IInv, cancelled, run' = run, CollectorStep
      PROVE  StepsLeft(at', todo') < StepsLeft(at, todo)
  <2>1. /\ Cardinality(todo) \in Nat
        /\ \A w \in todo : Cardinality(todo \ {w}) = Cardinality(todo) - 1
    BY <1>2, Finite
  <2>2. ASSUME todo' = todo, StepsFrom(at') \in Nat, StepsFrom(at) \in Nat,
               StepsFrom(at') < StepsFrom(at)
        PROVE  StepsLeft(at', todo') < StepsLeft(at, todo)
    BY <2>1, <2>2 DEF StepsLeft
  <2> USE StepsFromAt DEF runVars
  <2>3. CASE OpenSink \/ WriteDone \/ WriteFails \/ Send
    <3>1. /\ \/ at = "init" /\ at' = "read"
             \/ at = "sent" /\ at' \in {"nap", "wait"}
             \/ at = "tags" /\ at' = "sent"
          /\ todo' = todo
      BY <2>3 DEF OpenSink, WriteDone, WriteFails, Send
    <3> QED
      BY <2>2, <3>1
  <2>4. CASE OpenFails \/ ReadEnds \/ Interrupted \/ GiveUp \/ StopWaiting
    <3>1. at \in {"init", "read", "tags", "sent", "wait", "nap"}
      BY <2>4 DEF OpenFails, ReadEnds, Interrupted, GiveUp, StopWaiting, Waits
    <3>2. at' = "returned" /\ todo' = todo
      BY <2>4
         DEF OpenFails, ReadEnds, Interrupted, GiveUp, Surrender, StopWaiting, Return
    <3> QED
      BY <2>2, <3>1, <3>2
  <2>5. ASSUME NEW w \in Workloads,
               PlainPoint(w) \/ KnownPath(w) \/ Lookup(w) \/ LookupCut(w)
        PROVE  StepsLeft(at', todo') < StepsLeft(at, todo)
    <3>1. w \in todo /\ todo' = todo \ {w} /\ at' = at /\ at = "tags"
      BY <2>5 DEF PlainPoint, KnownPath, Lookup, LookupCut, AddPoint
    <3>2. Cardinality(todo') = Cardinality(todo) - 1
      BY <2>1, <3>1
    <3> QED
      BY <2>1, <3>1, <3>2 DEF StepsLeft
  <2>6. ~(Read \/ Retry \/ NextCycle)
    BY <1>2 DEF Read, Retry, NextCycle
  <2> QED
    BY <1>2, <2>3, <2>4, <2>5, <2>6 DEF CollectorStep, OwnStep
<1>3. ASSUME IInv, NextRun
      PROVE  run' # run
  BY <1>3 DEF NextRun, IInv, TypeOK, Runs
<1>4. ASSUME IInv, [Next]_influxVars, cancelled, run' = run
      PROVE  cancelled'
  <2>1. UNCHANGED cancelled \/ Cancel \/ NextRun
    BY <1>4, Zenon
       DEF Next, CollectorStep, OwnStep, OpenSink, OpenFails, ReadEnds, Interrupted,
           WriteDone, WriteFails, GiveUp, NextCycle, StopWaiting, Retry, Read,
           PlainPoint, KnownPath, Lookup, LookupCut, AddPoint, Send, Apply, TakeSample,
           influxVars, runVars
  <2>2. ~Cancel
    BY <1>4, Zenon DEF Cancel
  <2> QED
    BY <1>3, <1>4, <2>1, <2>2, Zenon
<1>5. IInv /\ [Next]_influxVars =>
        [cancelled /\ run' = run
           => /\ cancelled'
              /\ CollectorStep => StepsLeft(at', todo') < StepsLeft(at, todo)]_influxVars
  BY <1>2, <1>4
<1> QED
  BY <1>1, <1>5, Invariance, PTL DEF Spec, WindsDown
=============================================================================
