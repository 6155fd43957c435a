----------------------------- MODULE MCWatchdog ------------------------------
(* Constants for the model-checking runs of Watchdog.                      *)
EXTENDS Watchdog

CONSTANTS PkgGG, PkgOld

(* GameGuardian may get two pids; the process with the lowest pid is the   *)
(* target.                                                                 *)
MCPids == {1, 2, 3}
MCGGPids == {2, 3}

(* Two GameGuardian packages are installed; the one that is started comes  *)
(* first in the directory.                                                 *)
MCFirst == <<PkgGG, PkgOld>>

(* Bridges report in, and run code in GameGuardian itself.                 *)
MCRequests ==
  {Diagnostic, [op |-> "run", id |-> 1, pid |-> 2, blank |-> FALSE, keep |-> FALSE]}

(* Bridges only report in.                                                 *)
MCQuiet == {Diagnostic}

(* A script kills the session number 1.                                    *)
MCKill == {Diagnostic, [op |-> "kill", id |-> 1, sid |-> 1]}
==============================================================================
