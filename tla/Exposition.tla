------------------------------ MODULE Exposition ------------------------------
(***************************************************************************)
(* What the Prometheus back end promises a scraper: for every series, by   *)
(* metric name and label values, of every workload, by its tags, the       *)
(* latest sample written to it, until that sample expires; nothing it      *)
(* shows is lost or replaced by a sample of another series or workload,    *)
(* and nothing unexpired is withdrawn.                                     *)
(*                                                                         *)
(* Workloads may share a series, when they differ in tags that are no      *)
(* labels.  A scrape then shows the series more than once.                 *)
(***************************************************************************)
EXTENDS Naturals

VARIABLES
  clock,
  shown         \* samples on show: [series, of, exp]

expositionVars == <<clock, shown>>

Init == clock = 0 /\ shown = {}

Put(new) ==
  /\ shown' = {s \in shown : ~(s.series = new.series /\ s.of = new.of)} \cup {new}
  /\ UNCHANGED clock

PutAny == \E new \in shown' : Put(new)

DropExpired ==
  /\ shown' = {s \in shown : clock <= s.exp}
  /\ UNCHANGED clock

Tick == clock' = clock + 1 /\ UNCHANGED shown

Next == PutAny \/ DropExpired \/ Tick

Spec == Init /\ [][Next]_expositionVars
=============================================================================
