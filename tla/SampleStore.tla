------------------------------ MODULE SampleStore ------------------------------
(***************************************************************************)
(* What a reader of the database may rely on, whatever requests the        *)
(* collector's runs lose, repeat, send late or see applied in part: points *)
(* are never taken back nor stored ahead of the collector, a workload is   *)
(* one series for all of a run, and a run moves from sample to sample      *)
(* forward, leaving none without a point that could be made.               *)
(***************************************************************************)
EXTENDS Naturals

CONSTANTS
  Workloads,
  Refused,      \* points that cannot be made
  Times         \* of samples

VARIABLES
  run,          \* the runs so far
  current,      \* the sample this run is to store; 0 for none
  stored        \* the points in the database

storeVars == <<run, current, stored>>

\* Points of the same run and workload differ in time alone.
OneSeries(ps) ==
  \A p, q \in ps : p.run = q.run /\ p.of = q.of => p = [q EXCEPT !.time = p.time]

\* A point of sample t in run r, for every workload.
Complete(ps, r, t) ==
  \A w \in Workloads : \E p \in ps : p.run = r /\ p.time = t /\ p.of = w

\* The current sample is stored, but for points that cannot be made; those would
\* be of the same series as the ones stored.
Done ==
  \E skip \in SUBSET {p \in Refused : p.run = run /\ p.time = current} :
    Complete(stored \cup skip, run, current) /\ OneSeries(stored \cup skip)

Init == run = 1 /\ current = 0 /\ stored = {}

\* Points come in, of this run or, late, of an earlier one.
Store ==
  /\ stored \subseteq stored'
  /\ \A p \in stored' : p.run < run \/ (p.run = run /\ p.time <= current)
  /\ OneSeries(stored')
  /\ UNCHANGED <<run, current>>

MoveOn ==
  /\ current # 0 => Done
  /\ current' \in Times
  /\ current' > current
  /\ UNCHANGED <<run, stored>>

NewRun ==
  /\ run' = run + 1
  /\ current' = 0
  /\ UNCHANGED stored

Next == Store \/ MoveOn \/ NewRun

Spec == Init /\ [][Next]_storeVars
=============================================================================
