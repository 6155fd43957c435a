------------------------------ MODULE MCEngine -------------------------------
(* Constants for the model-checking run of Engine in an open environment.  *)
EXTENDS Engine

(* Process 1 is GameGuardian's and process 3 the target's, by their        *)
(* requests; the engine does not tell them apart.                          *)
MCPids == {1, 3}

Run(id, pid, keep) == [op |-> "run", id |-> id, pid |-> pid, blank |-> FALSE, keep |-> keep]

(* Runs in the target, one of them by a pid that does not fit in the       *)
(* engine's width.                                                         *)
MCWideRequests == {Run(1, 3, FALSE), Run(1, PidModulus + 3, TRUE), Diagnostic}
==============================================================================
