----------------------------- MODULE MCInfluxSinks -----------------------------
(* A small instance of InfluxSinks: a workload on an NFS export, another not.  The
   v1 client refuses a workload's points under one of its paths, and the other's
   points of one sample in one run. *)
EXTENDS InfluxSinks, TLC

CONSTANTS w1, w2, e1, p1, p2

MCWorkloads == {w1, w2}
MCExports   == {e1}
MCPaths     == {p1, p2}
MCExportOf  == (w1 :> e1) @@ (w2 :> NoExport)

MCRefused ==
  {p \in Points : /\ p.plugin = "influxdb"
                  /\ \/ p.of = w1 /\ p.path = p2
                     \/ p.of = w2 /\ p.time = 2 /\ p.run = 1}
=============================================================================
