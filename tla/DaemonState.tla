----------------------------- MODULE DaemonState -----------------------------
(***************************************************************************)
(* What main() and the config watcher share: the config file on disk, the  *)
(* top-level context and the one-slot reload channel (main.go:66, 88).     *)
(*                                                                         *)
(* The content of a config file is kept as the verdicts main depends on:   *)
(* "valid", "badlog" (readConfig accepts it, setupLogging rejects it),     *)
(* "invalid" (readConfig rejects it) or "absent"; and its enabled          *)
(* clusters.                                                               *)
(***************************************************************************)
EXTENDS Naturals, Sequences

CONSTANTS
  Clusters,     \* the clusters a config may list
  Contents      \* what a save may leave in the config file

VARIABLES
  file,         \* [ver, content]: what is on disk, the version from 1
  ctxDone,      \* the top-level context is cancelled
  reload        \* the reload channel holds a token

Kinds  == {"valid", "badlog", "invalid", "absent"}
Absent == [kind |-> "absent", on |-> {}]

ASSUME ContentsAssumption ==
  Contents \subseteq [kind : Kinds \ {"absent"}, on : SUBSET Clusters]

\* readConfig's verdict.
Loads(c) == c.kind \in {"valid", "badlog"}

\* The non-blocking send: a full channel means a reload is pending already,
\* and the send is skipped.
OfferReload == reload' = TRUE
=============================================================================
