------------------------------- MODULE Sampler -------------------------------
(***************************************************************************)
(* What a collector promises about one cluster, its retries and waits      *)
(* hidden: it works in cycles; a cycle announces the dataset definitions   *)
(* the cluster has at that moment to the back end, then delivers each of   *)
(* those datasets once; a new cycle begins only when all are delivered.    *)
(***************************************************************************)
EXTENDS Naturals

CONSTANT Names

VARIABLES
  alive,        \* the collector has not returned
  remote,       \* the cluster's dataset definitions, 0 for none
  told,         \* the definitions last announced
  due           \* datasets of the cycle not yet delivered

samplerVars == <<alive, remote, told, due>>

Defined(defs) == {n \in Names : defs[n] # 0}

Init ==
  /\ alive = TRUE
  /\ remote \in [Names -> Nat]
  /\ told = [n \in Names |-> 0]
  /\ due = {}

Announce ==
  /\ alive
  /\ due = {}
  /\ told' = remote
  /\ due' = Defined(remote)
  /\ UNCHANGED <<alive, remote>>

Deliver(n) ==
  /\ alive
  /\ n \in due
  /\ due' = due \ {n}
  /\ UNCHANGED <<alive, remote, told>>

Return ==
  /\ alive' = FALSE
  /\ UNCHANGED <<remote, told, due>>

\* The administrator changes the definitions on the cluster.
Redefine ==
  /\ remote' \in [Names -> Nat]
  /\ UNCHANGED <<alive, told, due>>

Next == Announce \/ (\E n \in Names : Deliver(n)) \/ Return \/ Redefine

Spec == Init /\ [][Next]_samplerVars
=============================================================================
