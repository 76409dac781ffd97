------------------------------- MODULE MCDaemon -------------------------------
(* Small instances of Daemon, for config files that list one cluster or two, *)
(* have a logging section that is rejected, or cannot be read.               *)
EXTENDS Daemon, ConfigFile

CONSTANTS c1, c2

MCClusters == {c1, c2}

Logging == [level |-> Nil, file |-> "goppstats.log", format |-> Nil, stdout |-> FALSE]
Stanzas == {[cluster |-> c1, disabled |-> FALSE], [cluster |-> c2, disabled |-> TRUE]}

Good == [parses |-> TRUE, version |-> "0.32", logging |-> Logging, stanzas |-> Stanzas]

\* Files with other settings, and the first one with each of its mistakes.
Working  == {Good, [Good EXCEPT !.logging.format = "json", !.logging.level = "TRACE",
                                !.stanzas = {[cluster |-> c, disabled |-> FALSE] :
                                             c \in MCClusters}],
             [Good EXCEPT !.logging.file = Nil, !.logging.format = "xml",
                          !.logging.stdout = TRUE]}
Unlogged == {[Good EXCEPT !.logging.level = "LOUD"], [Good EXCEPT !.logging.level = ""],
             [Good EXCEPT !.logging.file = "/none/goppstats.log"],
             [Good EXCEPT !.logging.format = "xml"], [Good EXCEPT !.logging.file = Nil]}
Unread   == {[Good EXCEPT !.parses = FALSE], [Good EXCEPT !.version = "0.28"],
             [Good EXCEPT !.version = ""]}

SomeContents == {ContentOf(f) : f \in Working \cup Unlogged \cup Unread}
GoodContents == {ContentOf(f) : f \in {Good} \cup Unread}
LogFiles     == {"goppstats.log"}
InPlace      == {"write", "replace"}
=============================================================================
