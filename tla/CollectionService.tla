-------------------------- MODULE CollectionService --------------------------
(***************************************************************************)
(* What the daemon promises its operator, whatever it does with signals,   *)
(* file events, goroutines and contexts: it collects in runs; every        *)
(* collector of a run works for the whole of the run with one version of   *)
(* the config, the latest the daemon has adopted; a new config is adopted, *)
(* and a new run begun, only between runs, when no collector is active;    *)
(* configs are never adopted backwards.                                    *)
(***************************************************************************)
EXTENDS Naturals

CONSTANT Clusters

VARIABLES
  up,           \* the daemon is running
  version,      \* the config version adopted, 0 before the first
  run,          \* number of runs begun
  active        \* collectors at work: [gen, cl, uses], the versions it used

serviceVars == <<up, version, run, active>>

Idle == up /\ active = {}

Init ==
  /\ up = TRUE
  /\ version = 0
  /\ run = 0
  /\ active = {}

\* Adopt a config, or refuse it and go down.
Adopt ==
  /\ Idle
  /\ version' \in Nat
  /\ version' >= version
  /\ up' \in BOOLEAN
  /\ UNCHANGED <<run, active>>

Begin(on) ==
  /\ Idle
  /\ run' = run + 1
  /\ active' = [gen : {run'}, cl : on, uses : {{}}]
  /\ UNCHANGED <<up, version>>

UseConfig(a) ==
  /\ up
  /\ active' = (active \ {a}) \cup {[a EXCEPT !.uses = {version}]}
  /\ UNCHANGED <<up, version, run>>

Finish(a) ==
  /\ up
  /\ active' = active \ {a}
  /\ UNCHANGED <<up, version, run>>

\* The daemon leaves no collector behind.
GoDown ==
  /\ Idle
  /\ up' = FALSE
  /\ UNCHANGED <<version, run, active>>

Next ==
  \/ Adopt
  \/ \E on \in SUBSET Clusters : Begin(on)
  \/ \E a \in active : UseConfig(a) \/ Finish(a)
  \/ GoDown

Spec == Init /\ [][Next]_serviceVars
=============================================================================
