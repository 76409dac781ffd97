--------------------------- MODULE CollectorProofs ---------------------------
(***************************************************************************)
(* Proofs about Collector for every set of dataset names, every number of  *)
(* tries, every interval and every bound on the administrator's changes.   *)
(*                                                                         *)
(* RowsAsTold is inductive only with the fact that stamps grow: a dataset  *)
(* redefined after the listing never returns to the stamp it was listed    *)
(* with, which TypeOK bounds by latest.  Cycle says which datasets of the  *)
(* listing are still due.  How a cycle ends is a rank: of the datasets due *)
(* first, then of the steps left to the one in hand.                       *)
(***************************************************************************)
EXTENDS Collector, TLAPS

Processing == at \in {"read", "readWait", "write", "writeWait"}

\* The dataset in hand was listed, and is not due again in the cycle.
Cycle ==
  /\ Processing => cur \in Defined(told)
  /\ cur \notin todo

IInv == TypeOK /\ Cycle /\ RowsAsTold /\ RetriesBounded
-----------------------------------------------------------------------------
LEMMA InitIInv == Init => IInv
<1> SUFFICES ASSUME Init PROVE IInv
  OBVIOUS
<1> USE CollectorAssumption
    DEF Init, Undefined, Defined, FirstDelay, MaxDelay, Ats, Startup, Waits
<1>1. cancelled \in BOOLEAN
  BY Zenon
<1>2. remote \in [Names -> 0..latest] /\ told \in [Names -> 0..latest]
  OBVIOUS
<1>3. TypeOK
  BY <1>1, <1>2 DEF TypeOK
<1> QED
  BY <1>3 DEF IInv, Cycle, Processing, RowsAsTold, RetriesBounded

\* The next delay is below twice the limit, or is the delay there was.
LEMMA LongerBounded ==
  ASSUME NEW d \in Nat
  PROVE  /\ Longer(d) \in Nat
         /\ Longer(d) < 2 * MaxDelay \/ Longer(d) = d
BY DEF Longer, MaxDelay

LEMMA LoopIInv == IInv /\ LoopStep => IInv'
<1> SUFFICES ASSUME IInv, LoopStep PROVE IInv'
  OBVIOUS
<1> USE CollectorAssumption
    DEF IInv, TypeOK, Cycle, Processing, RowsAsTold, RetriesBounded, Defined, Ats,
        Startup, Waits, environment
<1>1. CASE StartupStep
  BY <1>1 DEF StartupStep, After, Return
<1>2. CASE List
  BY <1>2 DEF List, Proceed, FirstDelay, MaxDelay
<1>3. CASE ListFails \/ Interrupted \/ StopWaiting
  BY <1>3 DEF ListFails, Interrupted, StopWaiting, Return
<1>4. CASE Read
  BY <1>4 DEF Read
<1>5. CASE ReadFails \/ WriteFails
  BY <1>5 DEF ReadFails, WriteFails
<1>6. CASE Write
  BY <1>6 DEF Write, Proceed
<1>7. CASE RetryRead
  BY <1>7, LongerBounded DEF RetryRead
<1>8. CASE RetryWrite
  <2>1. delay' \in Nat /\ (delay' < 2 * MaxDelay \/ delay' = Interval)
    BY <1>8, LongerBounded DEF RetryWrite
  <2>2. tries' \in 0..(MaxWrites + 1) /\ (at' = "write" => tries' <= MaxWrites)
    <3>1. tries \in Nat /\ tries <= MaxWrites + 1 /\ tries' = tries + 1
      BY <1>8 DEF RetryWrite
    <3>2. CASE tries < MaxWrites
      BY <3>1, <3>2
    <3>3. CASE ~(tries < MaxWrites)
      BY <1>8, <3>1, <3>3 DEF RetryWrite
    <3> QED
      BY <3>2, <3>3
  <2>3. at' \in {"write", "returned"} /\ at = "writeWait"
    BY <1>8 DEF RetryWrite
  <2> QED
    BY <1>8, <2>1, <2>2, <2>3 DEF RetryWrite
<1>9. CASE NextCycle
  BY <1>9 DEF NextCycle
<1> QED
  BY <1>1, <1>2, <1>3, <1>4, <1>5, <1>6, <1>7, <1>8, <1>9 DEF LoopStep

LEMMA AroundIInv == IInv /\ (Cancel \/ Administer) => IInv'
<1> SUFFICES ASSUME IInv, Cancel \/ Administer PROVE IInv'
  OBVIOUS
<1> USE DEF IInv, TypeOK, Cycle, Processing, RowsAsTold, RetriesBounded, Defined,
            loopVars
<1>1. CASE Cancel
  BY <1>1 DEF Cancel
<1>2. CASE Administer
  BY <1>2, CollectorAssumption DEF Administer
<1> QED
  BY <1>1, <1>2

LEMMA NextIInv == IInv /\ [Next]_collectorVars => IInv'
<1>1. IInv /\ UNCHANGED collectorVars => IInv'
  BY DEF IInv, TypeOK, Cycle, Processing, RowsAsTold, RetriesBounded, Defined,
         collectorVars, loopVars
<1> QED
  BY <1>1, LoopIInv, AroundIInv DEF Next, Returned

\* The inductive invariant holds in every reachable state of a collector.
THEOREM Invariance == Spec => []IInv
BY InitIInv, NextIInv, PTL DEF Spec
-----------------------------------------------------------------------------
\* Every variable keeps to its range.
THEOREM TypeCorrect == Spec => []TypeOK
BY Invariance, PTL DEF IInv

\* Rows disagree with the announced definition only if the cluster changed it.
THEOREM RowsMatch == Spec => []RowsAsTold
BY Invariance, PTL DEF IInv

\* The doubling delay stays below twice its limit, and the writes of a dataset
\* within their budget.
THEOREM RetriesAreBounded == Spec => []RetriesBounded
BY Invariance, PTL DEF IInv
-----------------------------------------------------------------------------
(* The refinement of Sampler.                                              *)

LEMMA InitRefines == Init => Samples!Init
BY DEF Init, Samples!Init, Undefined, Startup

\* What Write and List do with the rest of the cycle.
LEMMA ProceedKeepsDue ==
  ASSUME NoName \notin Names, NEW rest \in SUBSET Names, Proceed(rest)
  PROVE  /\ at' \in {"nap", "read"}
         /\ (IF cur' = NoName THEN todo' ELSE todo' \cup {cur'}) = rest
BY DEF Proceed

LEMMA StepRefines ==
  ASSUME IInv, [Next]_collectorVars
  PROVE  [Samples!Next]_Samples!samplerVars
<1> USE CollectorAssumption DEF IInv, Samples!Next, Samples!samplerVars, environment
<1>1. CASE List
  <2>1. at = "list" /\ cur = NoName /\ todo = {}
    BY <1>1 DEF List, TypeOK
  <2>2. Defined(remote) \in SUBSET Names
    BY DEF Defined
  <2>3. Samples!Announce
    BY <1>1, <2>1, <2>2, ProceedKeepsDue
    DEF List, Samples!Announce, Samples!Defined, Defined
  <2> QED
    BY <2>3
<1>2. CASE Write
  <2>1. at = "write" /\ cur \in Names /\ cur \notin todo /\ todo \in SUBSET Names
    BY <1>2 DEF Write, TypeOK, Cycle, Processing, Defined
  <2>2. /\ at' \in {"nap", "read"}
        /\ (IF cur' = NoName THEN todo' ELSE todo' \cup {cur'}) = todo
    BY <1>2, <2>1, ProceedKeepsDue DEF Write
  <2>3. Samples!Deliver(cur)
    BY <1>2, <2>1, <2>2 DEF Write, Samples!Deliver
  <2> QED
    BY <2>1, <2>3
<1>3. CASE StartupStep
  BY <1>3 DEF StartupStep, Startup, After, Return, Samples!Return
<1>4. CASE ListFails \/ Interrupted \/ StopWaiting
  BY <1>4 DEF ListFails, Interrupted, StopWaiting, Return, Samples!Return
<1>5. CASE Read \/ ReadFails \/ RetryRead \/ WriteFails \/ NextCycle
  BY <1>5 DEF Read, ReadFails, RetryRead, WriteFails, NextCycle
<1>6. CASE RetryWrite
  BY <1>6 DEF RetryWrite, Samples!Return
<1>7. CASE Cancel
  BY <1>7 DEF Cancel, loopVars
<1>8. CASE Administer
  <2>1. remote' \in [Names -> Nat]
    BY <1>8 DEF Administer, TypeOK
  <2>2. Samples!Redefine
    BY <1>8, <2>1 DEF Administer, loopVars, Samples!Redefine
  <2> QED
    BY <2>2
<1>9. CASE UNCHANGED collectorVars
  BY <1>9 DEF collectorVars, loopVars
<1> QED
  BY <1>1, <1>2, <1>3, <1>4, <1>5, <1>6, <1>7, <1>8, <1>9
  DEF Next, LoopStep, Returned

\* Every behaviour of a collector is one of Sampler: each dataset of a listing
\* is delivered at most once, and a new listing follows only when all are.
THEOREM Implementation == Spec => ImplementsSampler
BY InitRefines, StepRefines, Invariance, PTL DEF Spec, ImplementsSampler, Samples!Spec
-----------------------------------------------------------------------------
(* How a cycle comes to its end.                                           *)

\* The steps that startup, or the dataset in hand, still has at the most; a read
\* may fail any number of times on the way.
StepsLeft(a, t) ==
  CASE a = "config"               -> 5
    [] a = "connect"              -> 4
    [] a = "backend"              -> 3
    [] a \in {"init", "nap"}      -> 2
    [] a = "list"                 -> 1
    [] a \in {"read", "readWait"} -> 2 * MaxWrites + 3
    [] a = "write"                -> 2 * (MaxWrites - t) + 3
    [] a = "writeWait"            -> 2 * (MaxWrites - t) + 2
    [] OTHER                      -> 0

RunsDown ==
  LoopStep /\ at # "list"
    => \/ todo' \subseteq todo /\ todo' # todo
       \/ todo' = todo /\ StepsLeft(at', tries') < StepsLeft(at, tries)
       \/ {at, at'} = {"read", "readWait"} /\ UNCHANGED <<todo, cur, tries>>

\* Between two listings every step of the collector leaves fewer datasets, or
\* fewer steps for the one in hand, unless it is the failure of a read or its
\* retry: whatever the back end does, only reads hold up a cycle, and only a
\* listing makes work (main.go:250-358).
CyclesRunDown == [][RunsDown]_collectorVars

LEMMA StepsLeftAt ==
  ASSUME NEW t
  PROVE  /\ StepsLeft("config", t) = 5 /\ StepsLeft("connect", t) = 4
         /\ StepsLeft("backend", t) = 3 /\ StepsLeft("init", t) = 2
         /\ StepsLeft("nap", t) = 2 /\ StepsLeft("list", t) = 1
         /\ StepsLeft("read", t) = 2 * MaxWrites + 3
         /\ StepsLeft("write", t) = 2 * (MaxWrites - t) + 3
         /\ StepsLeft("writeWait", t) = 2 * (MaxWrites - t) + 2
         /\ StepsLeft("returned", t) = 0
BY DEF StepsLeft

LEMMA StepRunsDown ==
  ASSUME IInv, LoopStep, at # "list"
  PROVE  \/ todo' \subseteq todo /\ todo' # todo
         \/ todo' = todo /\ StepsLeft(at', tries') < StepsLeft(at, tries)
         \/ {at, at'} = {"read", "readWait"} /\ UNCHANGED <<todo, cur, tries>>
<1> USE CollectorAssumption
<1>1. tries \in Nat /\ (at \in {"write", "writeWait"} => tries <= MaxWrites)
  BY DEF IInv, TypeOK, RetriesBounded
<1>2. CASE StartupStep
  BY <1>2, StepsLeftAt DEF StartupStep, Startup, After, Return
<1>3. CASE Read
  BY <1>3, StepsLeftAt DEF Read
<1>4. CASE ReadFails
  BY <1>4 DEF ReadFails
<1>5. CASE RetryRead
  BY <1>5 DEF RetryRead
<1>6. CASE Write
  <2>1. ASSUME todo = {}, at' = "nap", todo' = {}, tries' = tries
        PROVE  StepsLeft(at', tries') < StepsLeft(at, tries)
    BY <1>1, <1>6, <2>1, StepsLeftAt DEF Write
  <2> QED
    BY <1>6, <2>1 DEF Write, Proceed
<1>7. CASE WriteFails
  BY <1>1, <1>7, StepsLeftAt DEF WriteFails
<1>8. CASE RetryWrite
  <2>1. at = "writeWait" /\ tries' = tries + 1 /\ todo' = todo
    BY <1>8 DEF RetryWrite
  <2>2. CASE tries < MaxWrites
    BY <1>1, <1>8, <2>1, <2>2, StepsLeftAt DEF RetryWrite
  <2>3. CASE ~(tries < MaxWrites)
    BY <1>1, <1>8, <2>1, <2>3, StepsLeftAt DEF RetryWrite
  <2> QED
    BY <2>2, <2>3
<1>9. CASE NextCycle
  BY <1>9, StepsLeftAt DEF NextCycle
<1>10. CASE Interrupted
  BY <1>1, <1>10, StepsLeftAt DEF Interrupted, Return
<1>11. CASE StopWaiting
  <2>1. todo' = todo /\ at' = "returned"
    BY <1>11 DEF StopWaiting, Return
  <2>2. CASE at = "readWait"
    BY <2>1, <2>2, StepsLeftAt DEF StepsLeft
  <2>3. CASE at # "readWait"
    BY <1>1, <1>11, <2>1, <2>3, StepsLeftAt DEF StopWaiting, Waits
  <2> QED
    BY <2>1, <2>2, <2>3
<1> QED
  BY <1>2, <1>3, <1>4, <1>5, <1>6, <1>7, <1>8, <1>9, <1>10, <1>11
  DEF LoopStep, List, ListFails

\* KeepsSampling and CancelEnds but for the fairness: once the reads of its
\* datasets succeed a cycle can only end.
THEOREM OnlyReadsHoldUp == Spec => CyclesRunDown
<1>1. IInv /\ [Next]_collectorVars => [RunsDown]_collectorVars
  BY StepRunsDown DEF RunsDown
<1> QED
  BY <1>1, Invariance, PTL DEF Spec, CyclesRunDown
=============================================================================
