------------------------------ MODULE MCBridge -------------------------------
(* Constants for the model-checking runs of Bridge.                        *)
EXTENDS Bridge, TLC

(* GameGuardian may run in process 1; process 3 is the target.             *)
MCPids == {1, 3}
MCGGPids == {1}

Run(id, keep)   == [op |-> "run", id |-> id, pid |-> 3, blank |-> FALSE, keep |-> keep]
BlankRun(id)    == [op |-> "run", id |-> id, pid |-> 3, blank |-> TRUE, keep |-> TRUE]
PullOf(id, s)   == [op |-> "pull", id |-> id, sid |-> s]
KillOf(id, s)   == [op |-> "kill", id |-> id, sid |-> s]
Malformed(id)   == [op |-> "malformed", id |-> id]

(* Every operation, in three calls, and two pulls of a kept run.           *)
MCMixed ==
  {Diagnostic, Run(1, TRUE), Run(1, FALSE), BlankRun(2)}
    \cup {PullOf(2, 2), PullOf(3, 2), KillOf(2, 2), KillOf(3, 1), Malformed(3)}

(* The threads are alike.                                                  *)
MCThreadSymmetry == Permutations(Threads)

(* Few calls, for the liveness runs.                                       *)
MCShort == {Diagnostic, Run(1, FALSE), PullOf(2, 2), KillOf(2, 1)}

==============================================================================
