------------------------------- MODULE Bridge --------------------------------
(***************************************************************************)
(* The engine with the scripts that use it.  GameGuardian's Lua threads    *)
(* call the frida table that the bridge agent (src/src/agent/bridge.js)    *)
(* installs; a call numbers a request, sends it and blocks the thread in   *)
(* recv().wait() until the engine's reply with that number arrives.  The   *)
(* agent's messages reach ForwardHandler on frida-core's dispatcher        *)
(* thread.  Which processes are GameGuardian's and when main() injects     *)
(* into one of them is left open.                                          *)
(***************************************************************************)
EXTENDS Engine

CONSTANTS
  Threads,          \* GameGuardian's Lua threads
  GGPids,           \* the pids main() injects the bridge into
  MaxDiagnostics    \* bound: diagnostics the agents send

ASSUME BridgeAssumption ==
  /\ IsFiniteSet(Threads)
  /\ GGPids \subseteq Pids
  /\ MaxDiagnostics \in Nat
  /\ MaxDiagnostics > 0 => Diagnostic \in Requests

VARIABLES
  thread,     \* what each Lua thread's last call of the frida table is doing
  counter,    \* the agent's request counter, by bridge session
  flight,     \* Frida: requests sent and not yet at the ForwardHandler
  got,        \* history: the messages of a session that scripts have received
  diagnosed   \* how many diagnostics the agents have sent

bridgeVars == <<thread, counter, flight, got, diagnosed>>
sysVars == <<vars, bridgeVars>>

(* "waiting" in recv().wait(), "returned" with a reply, "failed" with an   *)
(* exception the agent turns into a "frida-err" string.                    *)
NoCall == [st |-> "idle", bridge |-> 0, req |-> Diagnostic, ok |-> FALSE, sid |-> 0]

SysInit ==
  /\ Init
  /\ thread = [t \in Threads |-> NoCall]
  /\ counter = [b \in Sids |-> 0]
  /\ flight = {}
  /\ got = [s \in Sids |-> {}]
  /\ diagnosed = 0

-----------------------------------------------------------------------------
(* The agent.                                                              *)

(* Mutation of NextNumber: a request takes the number of calls in          *)
(* progress, so a number is used again when an earlier call returns.       *)
NextNumberInUse(b) ==
  Cardinality({t \in Threads : thread[t].st = "waiting" /\ thread[t].bridge = b}) + 1

(* ++counter.                                                              *)
NextNumber(b) == counter[b] + 1

(* A function of the frida table: number the request, send it, wait.  A    *)
(* call is possible as soon as the agent runs, load() returned or not.     *)
Call(t, b, r) ==
  /\ thread[t].st # "waiting"
  /\ b \in attached
  /\ forward[b]
  /\ r.op # ""
  /\ r.id = NextNumber(b)
  /\ counter' = [counter EXCEPT ![b] = r.id]
  /\ flight' = flight \cup {<<b, r>>}
  /\ thread' = [thread EXCEPT ![t] =
                  [st |-> "waiting", bridge |-> b, req |-> r, ok |-> FALSE, sid |-> 0]]
  /\ UNCHANGED <<vars, got, diagnosed>>

(* The dispatcher hands a script's messages to its handler in the order    *)
(* they were sent, or to nobody once the script has been dropped.          *)
Deliver(b, r) ==
  /\ <<b, r>> \in flight
  /\ \A f \in flight : f[1] = b => r.id <= f[2].id
  /\ flight' = flight \ {<<b, r>>}
  /\ IF HandlerInstalled(b) THEN Forward(b, r) ELSE UNCHANGED vars
  /\ UNCHANGED <<thread, counter, got, diagnosed>>

(* A send() without an op: bridge-ready, installed_existing, ...           *)
Diagnose(b) ==
  /\ diagnosed < MaxDiagnostics
  /\ b \in attached
  /\ Forward(b, Diagnostic)
  /\ diagnosed' = diagnosed + 1
  /\ UNCHANGED <<thread, counter, flight, got>>

(* The session whose messages a reply to r carries.                        *)
SessionAsked(r, m) == IF r.op = "pull" THEN r.sid ELSE m.sid

MessagesOf(m) == {m.messages[i] : i \in 1 .. Len(m.messages)}

(* recv("fggb-reply-" + id): is m the reply that thread t waits for?       *)
Expects(t, m) ==
  /\ thread[t].st = "waiting"
  /\ m.bridge = thread[t].bridge
  /\ m.id = thread[t].req.id

(* wait() returns: the call returns the reply to the Lua script.           *)
Return(t) ==
  \E m \in inbox :
    /\ Expects(t, m)
    /\ ReceiveReply(m)
    /\ thread' = [thread EXCEPT ![t].st = "returned", ![t].ok = m.ok, ![t].sid = m.sid]
    /\ LET s == SessionAsked(thread[t].req, m)
       IN got' = IF s \in Sids THEN [got EXCEPT ![s] = @ \cup MessagesOf(m)] ELSE got
    /\ UNCHANGED <<counter, flight, diagnosed>>

(* wait() throws in a script that is being unloaded.                       *)
Unloaded(t) ==
  /\ thread[t].st = "waiting"
  /\ thread[t].bridge \notin attached
  /\ thread' = [thread EXCEPT ![t].st = "failed"]
  /\ UNCHANGED <<vars, counter, flight, got, diagnosed>>

-----------------------------------------------------------------------------

(* A process dies with its threads.                                        *)
Exit(p) ==
  /\ ProcessExit(p)
  /\ thread' = [t \in Threads |->
                  IF thread[t].bridge \in SessionsIn(p) THEN NoCall ELSE thread[t]]
  /\ UNCHANGED <<counter, flight, got, diagnosed>>

EngineSide ==
  /\ \/ ActorStep
     \/ HandlerStep
     \/ \E p \in Pids : ProcessStart(p)
     \/ \E p \in GGPids : SendInjectBridge(p)
     \/ MainResumes \/ CtrlC \/ SendShutdown
  /\ UNCHANGED bridgeVars

AgentSide ==
  \/ \E t \in Threads : Return(t) \/ Unloaded(t)
  \/ \E t \in Threads, b \in 1 .. nextId, r \in Requests : Call(t, b, r)
  \/ \E f \in flight : Deliver(f[1], f[2])
  \/ \E b \in 1 .. nextId : Diagnose(b)

SysNext == EngineSide \/ AgentSide \/ (\E p \in Pids : Exit(p))

SysSpec == SysInit /\ [][SysNext]_sysVars

(* The actor thread and main() keep running and Frida's calls return;      *)
(* main gets its room in the channel in its turn; messages reach their     *)
(* handler, and a thread whose wait() can end goes on.                     *)
FairSysSpec ==
  /\ SysSpec
  /\ WF_sysVars(ActorStep /\ UNCHANGED bridgeVars)
  /\ WF_sysVars(MainResumes /\ UNCHANGED bridgeVars)
  /\ SF_sysVars(SendShutdown /\ UNCHANGED bridgeVars)
  /\ \A b \in Sids : WF_sysVars(\E f \in flight : f[1] = b /\ Deliver(b, f[2]))
  /\ \A t \in Threads : WF_sysVars(Return(t) \/ Unloaded(t))

-----------------------------------------------------------------------------
(* Properties.                                                             *)

CallState ==
  [st : {"idle", "waiting", "returned", "failed"}, bridge : Sids \cup {0}, req : Requests,
   ok : BOOLEAN, sid : Sids \cup {0}]

(* The type invariant of the scripts' side.                                *)
SysTypeOK ==
  /\ TypeOK
  /\ thread \in [Threads -> CallState \cup {NoCall}]
  /\ counter \in [Sids -> Nat]
  /\ flight \subseteq Sids \X Requests
  /\ got \in [Sids -> SUBSET Nat]
  /\ diagnosed \in 0 .. MaxDiagnostics

(* Scripts that share one agent never get each other's replies: a reply    *)
(* posted to a bridge is awaited by exactly one thread, which asked for    *)
(* what it answers, and a thread has at most one reply.                    *)
RepliesAwaited ==
  /\ \A m \in inbox :
       \E t \in Threads :
         /\ Expects(t, m)
         /\ m.sid # 0 => thread[t].req.op = "run"
         /\ \A u \in Threads \ {t} : ~Expects(u, m)
  /\ \A t \in Threads : Cardinality({m \in inbox : Expects(t, m)}) <= 1

(* "Every call is synchronous": a thread blocked in recv().wait() is       *)
(* always owed something.  Its request is on its way, in the channel or    *)
(* being served, or its reply is posted, or its bridge is unloaded and     *)
(* wait() will throw; and never two of the first four at once.             *)
WaitingAccounted ==
  \A t \in Threads :
    LET b == thread[t].bridge
        r == thread[t].req
        Places == {p \in {"flight", "queue", "service", "inbox"} :
                     \/ p = "flight" /\ <<b, r>> \in flight
                     \/ p = "queue" /\ Queued(b, r.id)
                     \/ p = "service" /\ InService(b, r.id)
                     \/ p = "inbox" /\ Answered(b, r.id)}
    IN thread[t].st = "waiting" =>
         /\ Cardinality(Places) <= 1
         /\ b \in attached => Places # {}

(* "One-shot calls attach, run, and detach immediately; nothing persists": *)
(* when a one-shot run's reply is there for its caller to read, or has     *)
(* been read, its session is neither loaded nor registered, and no later   *)
(* step brings it back.                                                    *)
OneShotGone ==
  \A t \in Threads :
    thread[t].req.op = "run" /\ ~thread[t].req.keep =>
      /\ thread[t].sid \notin registry \cup attached
      /\ \A m \in inbox : Expects(t, m) => m.sid \notin registry \cup attached

(* The messages of session s that a posted reply carries to the thread     *)
(* that waits for it.                                                      *)
Carries(m, s) == \E t \in Threads : Expects(t, m) /\ SessionAsked(thread[t].req, m) = s

OnTheWay(s) ==
  {p \in inbox \X (1 .. MaxMessages) : p[2] \in MessagesOf(p[1]) /\ Carries(p[1], s)}

Buffered(s) == {buffer[s][i] : i \in 1 .. Len(buffer[s])}

(* What the actor has drained for a run and not posted yet.                *)
InHand(s) ==
  IF actor.pc = "drained" /\ actor.sid = s THEN MessagesOf(actor) ELSE {}

(* No message of a target script is given out twice: a number is in at     *)
(* most one of the buffer, the actor's hands, the posted replies and what  *)
(* scripts have received, with several threads and bridges pulling the     *)
(* same session.                                                           *)
HeardOnce ==
  \A s \in Sids :
    /\ {p[2] : p \in OnTheWay(s)} \cap got[s] = {}
    /\ \A p, q \in OnTheWay(s) : p[2] = q[2] => p = q
    /\ InHand(s) \cap (got[s] \cup {p[2] : p \in OnTheWay(s)}) = {}
    /\ Buffered(s) \cap (InHand(s) \cup got[s] \cup {p[2] : p \in OnTheWay(s)}) = {}

BridgesAttached == \A b \in 1 .. nextId : forward[b] => b \in attached

(* As long as every bridge is still loaded and a session has not overrun   *)
(* its buffer, all its messages are received, in a reply, with the actor   *)
(* or buffered: what arrives around the drain of a kept run, and what the  *)
(* drain takes, is told to somebody.                                       *)
NothingLost ==
  BridgesAttached =>
    \A s \in registry \cup Opening :
      ~forward[s] /\ handled[s] <= MaxBuffered =>
        1 .. handled[s] \subseteq
          Buffered(s) \cup InHand(s) \cup got[s] \cup {p[2] : p \in OnTheWay(s)}

Calls == INSTANCE CallService WITH
  Callers <- Threads,
  at <- [t \in Threads |-> IF thread[t].st = "waiting" THEN thread[t].bridge ELSE 0],
  loaded <- attached,
  answer <- [t \in Threads |-> {m \in inbox : Expects(t, m)}]

(* The engine with its agents implements the calls of CallService: however *)
(* threads, bridges and sessions come and go, a call is answered at most   *)
(* once, its answer stays for it, and only with its bridge does it fail.   *)
ImplementsCalls == Calls!Spec

-----------------------------------------------------------------------------
(* What the invariants above rest on.                                      *)

(* A request, as opposed to a diagnostic or a command of main().           *)
Script(c) == c.kind = "BridgeMessage" /\ c.req.op # ""

InFlight(b, n) == \E f \in flight : f[1] = b /\ f[2].id = n

(* n is a number that bridge b has given to a request.                     *)
Known(b, n) == b \in 1 .. nextId /\ forward[b] /\ n \in 1 .. counter[b]

Awaits(t, b, r) == thread[t].st = "waiting" /\ thread[t].bridge = b /\ thread[t].req = r
Awaited(b, r) == \E t \in Threads : Awaits(t, b, r)

(* Wherever a request is, it is a bridge's and has been numbered, its      *)
(* number is nowhere else, and as long as the bridge is loaded a thread    *)
(* waits for it: on its way to the handler, ...                            *)
FlightInv ==
  /\ \A f \in flight :
       /\ f[2].op # "" /\ Known(f[1], f[2].id)
       /\ ~Queued(f[1], f[2].id) /\ ~InService(f[1], f[2].id) /\ ~Answered(f[1], f[2].id)
       /\ f[1] \in attached => Awaited(f[1], f[2])
  /\ \A f, g \in flight : f[1] = g[1] /\ f[2].id = g[2].id => f = g

(* ... in the channel, ...                                                 *)
QueueInv ==
  /\ \A i \in 1 .. Len(queue) : Script(queue[i]) =>
       /\ Known(queue[i].bridge, queue[i].req.id)
       /\ ~InService(queue[i].bridge, queue[i].req.id)
       /\ ~Answered(queue[i].bridge, queue[i].req.id)
       /\ queue[i].bridge \in attached => Awaited(queue[i].bridge, queue[i].req)
  /\ \A i, j \in 1 .. Len(queue) :
       /\ Script(queue[i]) /\ Script(queue[j])
       /\ queue[i].bridge = queue[j].bridge /\ queue[i].req.id = queue[j].req.id
       => i = j

(* ... with the actor, ...                                                 *)
ServiceInv ==
  actor.cmd.kind = "BridgeMessage" =>
    /\ Known(actor.cmd.bridge, actor.cmd.req.id)
    /\ ~Answered(actor.cmd.bridge, actor.cmd.req.id)
    /\ actor.cmd.bridge \in attached => Awaited(actor.cmd.bridge, actor.cmd.req)

(* ... or answered; replies are posted to loaded bridges only, and only    *)
(* those to a run name a session.                                          *)
InboxInv ==
  /\ \A m \in inbox :
       /\ m.bridge \in attached /\ Known(m.bridge, m.id)
       /\ \E t \in Threads : Expects(t, m) /\ (m.sid # 0 => thread[t].req.op = "run")
       /\ m.sid <= nextId
  /\ \A m, k \in inbox : m.bridge = k.bridge /\ m.id = k.id => m = k

(* No two threads wait for the same number.                                *)
ThreadInv ==
  /\ \A t \in Threads : thread[t].st = "waiting" =>
       thread[t].req.op # "" /\ Known(thread[t].bridge, thread[t].req.id)
  /\ \A t, u \in Threads :
       /\ thread[t].st = "waiting" /\ thread[u].st = "waiting"
       /\ thread[t].bridge = thread[u].bridge /\ thread[t].req.id = thread[u].req.id
       => t = u

CallInv == FlightInv /\ QueueInv /\ ServiceInv /\ InboxInv /\ ThreadInv

(* The session of a one-shot run was issued and is closed for good.        *)
OneShotInv ==
  \A t \in Threads :
    thread[t].req.op = "run" /\ ~thread[t].req.keep =>
      /\ thread[t].sid <= nextId
      /\ thread[t].sid \notin registry \cup attached
      /\ \A m \in inbox : Expects(t, m) => m.sid \notin registry \cup attached

(* What has been given out or is on its way was drained, and once.         *)
HeardInv ==
  \A s \in Sids :
    /\ got[s] \cup InHand(s) \subseteq 1 .. drained[s]
    /\ got[s] \cap InHand(s) = {}
    /\ \A m \in inbox : Carries(m, s) =>
         /\ MessagesOf(m) \subseteq 1 .. drained[s]
         /\ MessagesOf(m) \cap (got[s] \cup InHand(s)) = {}
    /\ \A m, k \in inbox : Carries(m, s) /\ Carries(k, s) /\ m # k =>
         MessagesOf(m) \cap MessagesOf(k) = {}

(* Ids that are not issued yet have no past.                               *)
FreshInv == \A s \in Sids : s > nextId => drained[s] = 0

(* What was drained of a session that is open has been told to somebody.   *)
ToldInv ==
  BridgesAttached =>
    \A s \in registry \cup Opening :
      ~forward[s] /\ handled[s] <= MaxBuffered =>
        \A k \in 1 .. drained[s] :
          k \in got[s] \cup InHand(s) \/ \E m \in inbox : k \in MessagesOf(m) /\ Carries(m, s)

(* A bridge has no more requests under way than there are threads: each    *)
(* was sent by another one.                                                *)
Outstanding(b) ==
  {n \in 1 .. counter[b] : InFlight(b, n) \/ Queued(b, n) \/ InService(b, n)}

OwnersInv == \A b \in Sids : Cardinality(Outstanding(b)) <= Cardinality(Threads)

SysInv == CallInv /\ OneShotInv /\ HeardInv /\ FreshInv /\ ToldInv /\ OwnersInv

(* "Every call is synchronous: it blocks the GG script until FGGB replies, *)
(* then returns": no call of the frida table blocks its script forever.    *)
CallReturns == \A t \in Threads : thread[t].st = "waiting" ~> thread[t].st # "waiting"
==============================================================================
