------------------------------ MODULE MCCollector ------------------------------
(* Small instances of Collector: two datasets.                              *)
EXTENDS Collector

CONSTANTS d1, d2

MCNames == {d1, d2}
=============================================================================
