--------------------------- MODULE SessionService ----------------------------
(***************************************************************************)
(* What the engine promises about sessions, without channels, replies,     *)
(* messages or processes: ids are issued once and in order, one session    *)
(* is opened at a time, an agent is loaded only for a session that is open *)
(* or being opened, closing a session detaches its agent, and stopping     *)
(* closes them all for good.  Engine is shown to implement it.             *)
(***************************************************************************)
EXTENDS Integers

CONSTANT Limit        \* bound: ids that can be issued

VARIABLES
  issued,     \* the last id issued
  opening,    \* the id of the session being opened, or 0
  open,       \* the ids of the open sessions
  agents,     \* the sessions whose agent is loaded
  stopped     \* has the service ended?

vars == <<issued, opening, open, agents, stopped>>

Init ==
  /\ issued = 0
  /\ opening = 0
  /\ open = {}
  /\ agents = {}
  /\ stopped = FALSE

Idle == ~stopped /\ opening = 0

(* An id is issued and an agent is on its way.                             *)
Begin ==
  /\ Idle /\ issued < Limit
  /\ issued' = issued + 1
  /\ opening' = issued + 1
  /\ agents' = agents \cup {issued + 1}
  /\ UNCHANGED <<open, stopped>>

(* An id is issued and the session fails before its agent loads.           *)
Burn ==
  /\ Idle /\ issued < Limit
  /\ issued' = issued + 1
  /\ UNCHANGED <<opening, open, agents, stopped>>

Commit ==
  /\ opening \in agents
  /\ open' = open \cup {opening}
  /\ opening' = 0
  /\ UNCHANGED <<issued, agents, stopped>>

Abort ==
  /\ opening # 0
  /\ agents' = agents \ {opening}
  /\ opening' = 0
  /\ UNCHANGED <<issued, open, stopped>>

Close(s) ==
  /\ Idle /\ s \in open
  /\ open' = open \ {s}
  /\ agents' = agents \ {s}
  /\ UNCHANGED <<issued, opening, stopped>>

(* Agents are lost with their processes; their sessions stay open.         *)
Lose ==
  /\ agents' \in SUBSET agents
  /\ UNCHANGED <<issued, opening, open, stopped>>

Stop ==
  /\ Idle
  /\ stopped' = TRUE
  /\ open' = {}
  /\ agents' = {}
  /\ UNCHANGED <<issued, opening>>

Next == Begin \/ Burn \/ Commit \/ Abort \/ (\E s \in open : Close(s)) \/ Lose \/ Stop

Spec == Init /\ [][Next]_vars
==============================================================================
