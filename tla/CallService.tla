----------------------------- MODULE CallService ------------------------------
(***************************************************************************)
(* What the frida table promises its callers, without requests, channels   *)
(* or sessions.  A call waits for the bridge it was made to.  It is        *)
(* answered at most once, the answer stays as it is until the caller       *)
(* receives it, and only the loss of its bridge takes the answer away or   *)
(* ends the call without one.  Bridge is shown to implement it.            *)
(***************************************************************************)
EXTENDS Integers

CONSTANT Callers

VARIABLES
  at,         \* the bridge that a caller waits for, or 0
  loaded,     \* the bridges that are loaded
  answer      \* the answers that a caller has and has not received

vars == <<at, loaded, answer>>

Init ==
  /\ at = [t \in Callers |-> 0]
  /\ loaded = {}
  /\ answer = [t \in Callers |-> {}]

Ask(t) ==
  /\ at[t] = 0 /\ answer[t] = {}
  /\ \E b \in loaded : at' = [at EXCEPT ![t] = b]
  /\ UNCHANGED <<loaded, answer>>

Receive(t) ==
  /\ answer[t] # {}
  /\ at' = [at EXCEPT ![t] = 0]
  /\ answer' = [answer EXCEPT ![t] = {}]
  /\ UNCHANGED loaded

(* Answers are kept as long as their bridge is loaded, and no longer.      *)
Kept(t) == answer'[t] = IF at'[t] \in loaded' THEN answer[t] ELSE {}

(* Bridges are loaded and lost; a call fails when its bridge is lost.  A   *)
(* bridge that was lost does not come back.                                *)
Change ==
  /\ \A t \in Callers :
       /\ at'[t] = at[t] \/ (at'[t] = 0 /\ at[t] \notin loaded')
       /\ at[t] \in loaded' => at[t] \in loaded
       /\ Kept(t)

(* One answer, to one caller; the same step may lose bridges.              *)
Answer(t) ==
  /\ at[t] \in loaded'
  /\ answer[t] = {}
  /\ \E m \in answer'[t] : answer'[t] = {m}
  /\ \A u \in Callers \ {t} : Kept(u)
  /\ loaded' \subseteq loaded
  /\ UNCHANGED at

Next == Change \/ (\E t \in Callers : Ask(t) \/ Receive(t) \/ Answer(t))

Spec == Init /\ [][Next]_vars
==============================================================================
