------------------------------ MODULE MCPromSink ------------------------------
(* Instances of PromSink for TLC. *)
EXTENDS PromSink

Dataset(id, created, metrics) == [id |-> id, created |-> created, metrics |-> metrics]

Users    == Dataset(1, 2, {"username"})
Exports  == Dataset(1, 3, {"export_id"})    \* dataset 1, redefined
UsersToo == Dataset(2, 4, {"username"})     \* shares its families with Users

MCListings == {{Users}, {Exports, UsersToo}}

Row(node, tags, kind) == [node |-> node, tags |-> tags, kind |-> kind]
NoTags == [t \in {} |-> ""]

\* A workload of its own, the same pinned, unpinned and pinned again; an export; an
\* overflow bucket, and one that the code does not know.
OneNode ==
  {Row("1", [username |-> "u"], "none"),
   Row("1", [username |-> "u", workload_id |-> "1"], "Pinned"),
   Row("1", [username |-> "u", workload_id |-> "2"], "Pinned"),
   Row("1", [export_id |-> "7"], "none"),
   Row("1", NoTags, "System"),
   Row("1", NoTags, "Bogus")}

TwoNodes == OneNode \cup {Row("2", [username |-> "u"], "none")}
=============================================================================
