---------------------------- MODULE ConfigWatcher ----------------------------
(***************************************************************************)
(* The user's saves of the config file, the fsnotify watch on it and the   *)
(* goroutine startConfigWatcher spawns (config_watcher.go), which turns    *)
(* file events into a debounced, non-blocking send on the reload channel.  *)
(*                                                                         *)
(* The watch is an inotify watch on the inode the path named when it was   *)
(* added: a save in place reports a Write; a save that takes the inode     *)
(* away from the path (rename over it, rename it away, remove it) reports  *)
(* a Remove or Rename, written "Gone" here, and ends the watch; a file     *)
(* created where none was is reported to nobody.                           *)
(***************************************************************************)
EXTENDS DaemonState

CONSTANTS
  SaveStyles,   \* how the user's editor saves, a subset of AllStyles
  MaxEdits      \* bound on the number of saves in a behaviour

VARIABLES
  wpc,          \* "init" before startConfigWatcher, then "run" or "off"
  watched,      \* the inode the path names now carries the watch
  events,       \* fsnotify events not yet received by the goroutine
  timer         \* the debounce timer is armed

AllStyles == {"write", "replace", "remove", "create"}

watcherVars == <<wpc, watched, events, timer>>

Present == file.content # Absent
-----------------------------------------------------------------------------
(* The user saves the file.                                                *)

Save(style, c) ==
  /\ style \in SaveStyles
  /\ file.ver <= MaxEdits
  /\ file' = [ver |-> file.ver + 1, content |-> c]
  /\ UNCHANGED <<ctxDone, reload, wpc, timer>>

Notify(e) == events' = IF watched THEN Append(events, e) ELSE events

\* Write into the existing inode: also the truncation that precedes a write.
WriteFile(c) ==
  /\ Present
  /\ Save("write", c)
  /\ Notify("Write")
  /\ UNCHANGED watched

\* Write a temporary file and rename it over the path.
ReplaceFile(c) ==
  /\ Present
  /\ Save("replace", c)
  /\ Notify("Gone")
  /\ watched' = FALSE

\* Remove the file or rename it to a backup.
RemoveFile ==
  /\ Present
  /\ Save("remove", Absent)
  /\ Notify("Gone")
  /\ watched' = FALSE

CreateFile(c) ==
  /\ ~Present
  /\ Save("create", c)
  /\ UNCHANGED <<watched, events>>

Edit ==
  \/ \E c \in Contents : WriteFile(c) \/ ReplaceFile(c) \/ CreateFile(c)
  \/ RemoveFile
-----------------------------------------------------------------------------
(* startConfigWatcher and its goroutine.                                   *)

\* NewWatcher can fail; watcher.Add fails when the path names no file.
StartWatcher ==
  /\ wpc = "init"
  /\ \/ Present /\ wpc' = "run" /\ watched' = TRUE
     \/ wpc' = "off" /\ watched' = FALSE
  /\ UNCHANGED <<file, ctxDone, reload, events, timer>>

\* The watch after an event: Rename and Remove re-add it, and the error of an
\* Add on a missing file is dropped.
Rewatch_Forgets(e) == IF e = "Gone" THEN FALSE ELSE watched
Rewatch(e) == IF e = "Gone" THEN Present ELSE watched

\* The debounce timer after an event: every kind of event arms it.
Debounced_Writes(e) == timer \/ e = "Write"
Debounced(e) == timer \/ e \in {"Write", "Gone"}

HandleEvent ==
  /\ wpc = "run"
  /\ events # <<>>
  /\ watched' = Rewatch(Head(events))
  /\ timer' = Debounced(Head(events))
  /\ events' = Tail(events)
  /\ UNCHANGED <<file, ctxDone, reload, wpc>>

TimerFires ==
  /\ wpc = "run"
  /\ timer
  /\ timer' = FALSE
  /\ OfferReload
  /\ UNCHANGED <<file, ctxDone, wpc, watched, events>>

StopWatcher ==
  /\ wpc = "run"
  /\ ctxDone
  /\ wpc' = "off"
  /\ watched' = FALSE
  /\ events' = <<>>
  /\ timer' = FALSE
  /\ UNCHANGED <<file, ctxDone, reload>>

\* What the goroutine does on its own; the daemon schedules it fairly.
WatcherStep == HandleEvent \/ TimerFires \/ StopWatcher

WatcherInit ==
  /\ wpc = "init"
  /\ watched = FALSE
  /\ events = <<>>
  /\ timer = FALSE

WatcherTypeOK ==
  /\ wpc \in {"init", "run", "off"}
  /\ watched \in BOOLEAN
  /\ events \in Seq({"Write", "Gone"})
  /\ timer \in BOOLEAN
=============================================================================
