----------------------------- MODULE ConfigFile -----------------------------
(***************************************************************************)
(* What main makes of a config file: readConfig (config.go), setupLogging  *)
(* and ParseLevel (logging.go), from the settings to the verdicts and the  *)
(* enabled clusters that DaemonState keeps.                                *)
(*                                                                         *)
(* A file is a record                                                      *)
(*   [parses, version, logging : [level, file, format, stdout], stanzas]   *)
(* with Nil for a setting it leaves out, the version with leading v's      *)
(* trimmed, level and format in the one case they are compared in, and a   *)
(* set of [cluster, disabled].                                             *)
(***************************************************************************)
CONSTANTS
  Nil,          \* a setting that is not there
  LevelArg,     \* the -loglevel argument, "" when it is not given
  FileArg,      \* the -logfile argument, likewise
  Writable      \* the log files that can be opened for appending

\* A missing version is the empty string, which is none of them.
Supported == {"0.29", "0.30", "0.31", "0.32"}
Levels    == {"TRACE", "DEBUG", "INFO", "NOTICE", "WARN", "WARNING", "ERROR", "CRITICAL"}
Formats   == {"text", "json"}

ASSUME FilesAssumption == Nil \notin Levels \cup Formats \cup {""} /\ "" \notin Writable

\* readConfig returns a config.
Readable(f) == f.parses /\ f.version \in Supported

\* The command line comes before the file, the file before the default.
LevelOf(lc)  == IF LevelArg # "" THEN LevelArg
                ELSE IF lc.level = Nil THEN "NOTICE" ELSE lc.level
LogFile(lc)  == IF FileArg # "" THEN FileArg
                ELSE IF lc.file = Nil THEN "" ELSE lc.file
FormatOf(lc) == IF lc.format = Nil THEN "text" ELSE lc.format

\* The code setupLogging exits with, 0 when it returns.  The format is looked at
\* only when there is a log file.
LoggingExit(lc) ==
  CASE LevelOf(lc) \notin Levels -> 2
    [] LevelOf(lc) \in Levels /\ LogFile(lc) # "" ->
         IF LogFile(lc) \in Writable /\ FormatOf(lc) \in Formats THEN 0 ELSE 2
    [] LevelOf(lc) \in Levels /\ LogFile(lc) = "" -> IF lc.stdout THEN 0 ELSE 3

Enabled(f) == {st.cluster : st \in {s \in f.stanzas : ~s.disabled}}

\* The file as DaemonState keeps it.
ContentOf(f) ==
  IF ~Readable(f) THEN [kind |-> "invalid", on |-> {}]
  ELSE [kind |-> IF LoggingExit(f.logging) = 0 THEN "valid" ELSE "badlog",
        on   |-> Enabled(f)]
=============================================================================
