------------------------------ MODULE Collector ------------------------------
(***************************************************************************)
(* statsloop (main.go:181-360): the goroutine that samples one cluster.    *)
(* It connects, opens its back end, and then in cycles lists the cluster's *)
(* partitioned performance datasets, tells the back end, and for each      *)
(* dataset reads the statistics, retrying without limit, and writes them,  *)
(* retrying a bounded number of times, with a doubling delay between       *)
(* tries.  Every wait also ends when the run's context is cancelled.       *)
(*                                                                         *)
(* A dataset definition is a stamp, its creation time, 0 for a name that   *)
(* is not defined.  A request to the cluster is atomic: it has no effect   *)
(* there, so an answer that comes in after the cancellation is the same as *)
(* one that came in before it, and a request after it fails.               *)
(***************************************************************************)
EXTENDS Naturals

CONSTANTS
  Names,        \* dataset names
  NoName,       \* no dataset is being processed
  MaxWrites,    \* stats_processor_max_retries
  Interval,     \* stats_processor_retry_interval, in seconds
  MaxStamp      \* bound on the creation times of datasets

VARIABLES
  at,           \* where statsloop is
  cancelled,    \* its run context is cancelled
  remote,       \* the datasets defined on the cluster
  latest,       \* the cluster's latest change
  told,         \* the datasets last given to the back end's UpdateDatasets
  todo,         \* datasets of the cycle not yet begun
  cur,          \* the dataset being read or written
  rows,         \* the definition the rows in sr were sampled under
  delay,        \* retryTime, in seconds
  tries         \* writes of cur tried or being tried

loopVars      == <<at, told, todo, cur, rows, delay, tries>>
collectorVars == <<loopVars, cancelled, remote, latest>>

ASSUME CollectorAssumption ==
  /\ NoName \notin Names
  /\ MaxWrites \in Nat \ {0}
  /\ Interval \in Nat
  /\ MaxStamp \in Nat \ {0}

FirstDelay == 10
MaxDelay   == 1280

Startup == {"config", "connect", "backend", "init"}
Waits_NotRead == {"writeWait", "nap"}
Waits   == {"readWait", "writeWait", "nap"}
Ats     == Startup \cup Waits \cup {"list", "read", "write", "returned"}

Undefined     == [n \in Names |-> 0]
Defined(defs) == {n \in Names : defs[n] # 0}

Return == at' = "returned" /\ UNCHANGED <<told, todo, cur, rows, delay, tries>>

environment == <<cancelled, remote, latest>>
-----------------------------------------------------------------------------
(* Startup: credentials, Connect, getDBWriter and the back end's Init, each *)
(* of which ends the collector when it fails.                              *)

After(step) ==
  CASE step = "config"  -> "connect"
    [] step = "connect" -> "backend"
    [] step = "backend" -> "init"
    [] step = "init"    -> "list"

StartupStep ==
  /\ at \in Startup
  /\ \/ at' = After(at) /\ UNCHANGED <<told, todo, cur, rows, delay, tries>>
     \/ Return
  /\ UNCHANGED environment
-----------------------------------------------------------------------------
(* The cycle.                                                              *)

\* Mutant: the current dataset is not reset at the end of the cycle.
Proceed_NoReset(rest) ==
  \/ rest = {} /\ at' = "nap" /\ UNCHANGED <<todo, cur>>
  \/ \E n \in rest : at' = "read" /\ todo' = rest \ {n} /\ cur' = n

\* On to the next dataset of the cycle, in the order of the listing, which the
\* cluster chooses, or to the wait for the next cycle.
Proceed(rest) ==
  \/ /\ rest = {}
     /\ at' = "nap"
     /\ todo' = {}
     /\ cur' = NoName
  \/ \E n \in rest :
       /\ at' = "read"
       /\ todo' = rest \ {n}
       /\ cur' = n

List ==
  /\ at = "list"
  /\ ~cancelled
  /\ told' = remote
  /\ delay' = FirstDelay
  /\ Proceed(Defined(remote))
  /\ UNCHANGED <<rows, tries>>
  /\ UNCHANGED environment

\* GetDataSetInfo fails: on its own, or because of the cancellation.
ListFails ==
  /\ at = "list"
  /\ Return
  /\ UNCHANGED environment

\* A read of a dataset that is no longer defined is an error.
Read ==
  /\ at = "read"
  /\ ~cancelled
  /\ remote[cur] # 0
  /\ rows' = remote[cur]
  /\ delay' = Interval
  /\ tries' = 1
  /\ at' = "write"
  /\ UNCHANGED <<told, todo, cur>>
  /\ UNCHANGED environment

\* Mutant: a failed read falls through to the write, with the rows in hand.
ReadFails_FallsThrough ==
  /\ at = "read"
  /\ at' = "write"
  /\ tries' = 1
  /\ UNCHANGED <<told, todo, cur, rows, delay>>
  /\ UNCHANGED environment

ReadFails ==
  /\ at = "read"
  /\ at' = "readWait"
  /\ UNCHANGED <<told, todo, cur, rows, delay, tries>>
  /\ UNCHANGED environment

\* The back end takes the rows.
Write ==
  /\ at = "write"
  /\ Proceed(todo)
  /\ UNCHANGED <<told, rows, delay, tries>>
  /\ UNCHANGED environment

WriteFails ==
  /\ at = "write"
  /\ at' = "writeWait"
  /\ UNCHANGED <<told, todo, cur, rows, delay, tries>>
  /\ UNCHANGED environment

\* A read or a write fails with context.Canceled.
Interrupted ==
  /\ at \in {"read", "write"}
  /\ cancelled
  /\ Return
  /\ UNCHANGED environment
-----------------------------------------------------------------------------
(* The waits: each ends by its timer or by the cancellation.               *)

Longer_NoLimit(d) == 2 * d
Longer(d) == IF d < MaxDelay THEN 2 * d ELSE d

RetryRead ==
  /\ at = "readWait"
  /\ at' = "read"
  /\ delay' = Longer(delay)
  /\ UNCHANGED <<told, todo, cur, rows, tries>>
  /\ UNCHANGED environment

\* Mutant: the retries of a write have no limit.
RetryWrite_NoLimit ==
  /\ at = "writeWait"
  /\ delay' = Longer(delay)
  /\ at' = "write"
  /\ UNCHANGED <<told, todo, cur, rows, tries>>
  /\ UNCHANGED environment

\* Mutant: when the writes of a dataset are used up, the cycle is given up.
RetryWrite_SkipsRest ==
  /\ at = "writeWait"
  /\ delay' = Longer(delay)
  /\ tries' = tries + 1
  /\ IF tries < MaxWrites
     THEN at' = "write" /\ UNCHANGED <<todo, cur>>
     ELSE at' = "nap" /\ todo' = {} /\ cur' = NoName
  /\ UNCHANGED <<told, rows>>
  /\ UNCHANGED environment

\* The delay is waited and doubled after the last try as well.
RetryWrite ==
  /\ at = "writeWait"
  /\ delay' = Longer(delay)
  /\ tries' = tries + 1
  /\ at' = IF tries < MaxWrites THEN "write" ELSE "returned"
  /\ UNCHANGED <<told, todo, cur, rows>>
  /\ UNCHANGED environment

\* Also taken at once, when the cycle took longer than the sample rate.
NextCycle ==
  /\ at = "nap"
  /\ at' = "list"
  /\ UNCHANGED <<told, todo, cur, rows, delay, tries>>
  /\ UNCHANGED environment

StopWaiting ==
  /\ at \in Waits
  /\ cancelled
  /\ Return
  /\ UNCHANGED environment

LoopStep ==
  \/ StartupStep
  \/ List \/ ListFails
  \/ Read \/ ReadFails \/ RetryRead
  \/ Write \/ WriteFails \/ RetryWrite
  \/ NextCycle
  \/ Interrupted \/ StopWaiting
-----------------------------------------------------------------------------
(* Around the collector.                                                   *)

\* main cancels the run (main.go:152, 170, 173) or the top-level context.
Cancel ==
  /\ cancelled' = TRUE
  /\ UNCHANGED <<loopVars, remote, latest>>

\* The administrator defines, redefines or removes a dataset.
Administer ==
  /\ latest < MaxStamp
  /\ latest' = latest + 1
  /\ \E n \in Names, s \in {0, latest'} : remote' = [remote EXCEPT ![n] = s]
  /\ UNCHANGED <<loopVars, cancelled>>

Init ==
  /\ at = "config"
  /\ cancelled = FALSE
  /\ latest = 1
  /\ remote \in [Names -> {0, 1}]
  /\ told = Undefined
  /\ todo = {}
  /\ cur = NoName
  /\ rows = 0
  /\ delay = FirstDelay
  /\ tries = 0

\* The collector has returned, and nothing more happens to it.
Returned == at = "returned" /\ UNCHANGED collectorVars

Next == LoopStep \/ Cancel \/ Administer \/ Returned

Spec == Init /\ [][Next]_collectorVars

(* The goroutine is scheduled.  A select picks every branch that is ready  *)
(* again and again, so a wait that is entered for ever with the context    *)
(* cancelled ends by the cancellation once (SF on StopWaiting).  SF on     *)
(* Read is an assumption on the cluster: a query that is retried for ever, *)
(* of a dataset that exists, succeeds in the end.  Nothing is assumed of   *)
(* the back end.                                                           *)
FairSpec ==
  /\ Spec
  /\ WF_collectorVars(LoopStep)
  /\ SF_collectorVars(StopWaiting)
  /\ SF_collectorVars(Read)
-----------------------------------------------------------------------------
(* Correctness.                                                            *)

\* Every variable keeps to its range; a dataset is being processed exactly
\* while main.go:287-347 is.
TypeOK ==
  /\ at \in Ats
  /\ cancelled \in BOOLEAN
  /\ latest \in 1..MaxStamp
  /\ remote \in [Names -> 0..latest]
  /\ told \in [Names -> 0..latest]
  /\ todo \subseteq Defined(told)
  /\ cur \in Names \cup {NoName}
  /\ rows \in 0..latest
  /\ delay \in Nat
  /\ tries \in 0..(MaxWrites + 1)
  /\ at \in {"read", "readWait", "write", "writeWait"} => cur # NoName
  /\ at \in Startup \cup {"list", "nap"} => cur = NoName /\ todo = {}

\* The rows offered to the back end were sampled under the definition it was
\* told of, unless that definition has changed on the cluster since the listing
\* (main.go:263-279, 291-323: the names are listed first and queried later).
RowsAsTold ==
  at \in {"write", "writeWait"} =>
    rows = told[cur] \/ remote[cur] # told[cur]

\* No wait between tries reaches twice maxRetryTime, unless the configured
\* interval is itself that long, and the back end gets no more than the
\* configured number of tries for a dataset (main.go:285, 314, 324, 344: the
\* delay doubles from any start, carried from a write to the next read).
RetriesBounded ==
  /\ delay < 2 * MaxDelay \/ delay = Interval
  /\ at \in {"write", "writeWait"} => tries <= MaxWrites

\* The collector implements the promise of Sampler: no dataset of a listing is
\* skipped or delivered twice, whatever fails in between, and definitions are
\* announced only between cycles (main.go:250-358).
Samples == INSTANCE Sampler
             WITH alive <- at # "returned",
                  due   <- IF cur = NoName THEN todo ELSE todo \cup {cur}
ImplementsSampler == Samples!Spec

\* The cancellation of its run ends the collector, from any of its waits,
\* requests and retries (main.go:307-312, 337-342, 353-356).
CancelEnds == cancelled ~> at = "returned"

\* As long as the datasets it was told of exist on the cluster, the collector
\* keeps coming back to list them again, or returns: no error it retries, and no
\* back end that keeps failing, holds it up for ever (main.go:250-358).
KeepsSampling ==
  <>[](Defined(told) \subseteq Defined(remote)) => []<>(at \in {"list", "returned"})
-----------------------------------------------------------------------------
(* What the repository says and the code does not do.                      *)

\* "the collector checks the dataset definition each collection period and
\* handles additions, removals and definition changes without manual
\* intervention" (example_goppstats.toml:126).
RemovalsHandled ==
  \A n \in Names :
    told[n] # 0 /\ remote[n] = 0
      ~> told[n] = 0 \/ remote[n] # 0 \/ at = "returned"
=============================================================================
