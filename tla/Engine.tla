------------------------------- MODULE Engine --------------------------------
(***************************************************************************)
(* The engine actor of FGGB (src/src/engine/mod.rs, session.rs,            *)
(* command.rs, live.rs): one thread owns every Frida object and the        *)
(* session registry and serves a bounded channel of commands; frida-core's *)
(* dispatcher threads run the two message handlers beside it.              *)
(*                                                                         *)
(* The engine's environment is open: main() sends InjectBridge and         *)
(* Shutdown, bridge scripts send requests, target scripts emit messages,   *)
(* processes start and exit, all at any time.  The modules that close the  *)
(* system (Bridge) EXTEND this one.                                        *)
(*                                                                         *)
(* Command variants that no code of the crate sends (Inject, Rpc,          *)
(* DrainMessages, ListExports, Kill, ListSessions) are not commands here.  *)
(***************************************************************************)
EXTENDS MessageBuffer, FiniteSets

CONSTANTS
  Pids,             \* pids of the processes Frida may be asked to attach to
  PidModulus,       \* 2^32: route_bridge_op narrows a request's u64 pid to u32
  Capacity,         \* COMMAND_BUFFER, the size of the command channel
  Requests,         \* payloads a bridge script may send
  MaxSessions,      \* bound: session ids the engine hands out
  MaxMessages       \* bound: messages a session's handler sees

Sids == 1 .. MaxSessions

(* A bridge message, by what route_bridge_op makes of it.  "malformed" is  *)
(* every request answered with an error before anything is done: an        *)
(* unknown op, or a run, pull or kill whose arguments are missing or are   *)
(* not unsigned integers.  "" is a message without an op: a diagnostic.    *)
RunRequest       == [op : {"run"}, id : Nat, pid : Nat, blank : BOOLEAN, keep : BOOLEAN]
SessionRequest   == [op : {"pull", "kill"}, id : Nat, sid : Nat]
MalformedRequest == [op : {"malformed"}, id : Nat]
Diagnostic       == [op |-> ""]

ASSUME EngineAssumption ==
  /\ PidModulus \in Nat \ {0}
  /\ Pids \subseteq 0 .. PidModulus - 1
  /\ Capacity \in Nat \ {0}
  /\ MaxSessions \in Nat
  /\ MaxMessages \in Nat
  /\ Requests \subseteq RunRequest \cup SessionRequest \cup MalformedRequest \cup {Diagnostic}

InjectBridgeCommand  == [kind : {"InjectBridge"}, pid : Pids]
BridgeMessageCommand == [kind : {"BridgeMessage"}, bridge : Sids, req : Requests]
Shutdown             == [kind |-> "Shutdown"]
Command == InjectBridgeCommand \cup BridgeMessageCommand \cup {Shutdown}

NoCommand == [kind |-> "none"]

VARIABLES
  queue,      \* the mpsc channel between the senders and the actor thread
  actor,      \* where the actor thread is, the session it is opening and for which command
  registry,   \* the keys of Engine.registry
  nextId,     \* Engine.next_id
  pidOf,      \* LiveSession.pid, by session id
  forward,    \* does the session's script have a ForwardHandler (a bridge)?
  handled,    \* BufferHandler.seq
  buffer,     \* LiveSession.messages
  drained,    \* history: handled at the session's last drain
  attached,   \* Frida: sessions whose agent is loaded in a running process
  alive,      \* the pids of running processes
  inbox,      \* Frida: replies posted to bridge scripts and not yet received
  main        \* main()'s side of its oneshot channels

sessionVars == <<pidOf, forward>>
bufferVars  == <<handled, buffer, drained>>
vars == <<queue, actor, registry, nextId, sessionVars, bufferVars,
          attached, alive, inbox, main>>

-----------------------------------------------------------------------------

Receiving == [pc |-> "recv", sid |-> 0, cmd |-> NoCommand]
Stopped   == [pc |-> "stopped", sid |-> 0, cmd |-> NoCommand]

(* Where main() is: "boot" waits for ready_rx, "free" waits for a tick or  *)
(* ctrl-c, "quitting" waits for room to send Shutdown, "inject" and        *)
(* "shutdown" wait for the engine's reply, "ok" (with the session id) and  *)
(* "err" are replies not yet read, and "down" has nothing left to wait for.*)
Main(st, sid) == [st |-> st, sid |-> sid]

Init ==
  /\ queue = <<>>
  /\ actor = [pc |-> "boot", sid |-> 0, cmd |-> NoCommand]
  /\ registry = {}
  /\ nextId = 0
  /\ pidOf = [s \in Sids |-> 0]
  /\ forward = [s \in Sids |-> FALSE]
  /\ handled = [s \in Sids |-> 0]
  /\ buffer = [s \in Sids |-> <<>>]
  /\ drained = [s \in Sids |-> 0]
  /\ attached = {}
  /\ alive \in SUBSET Pids
  /\ inbox = {}
  /\ main = Main("boot", 0)

-----------------------------------------------------------------------------
(* Replies.                                                                *)

Reply(b, id, ok, sid, messages) ==
  [bridge |-> b, id |-> id, ok |-> ok, sid |-> sid, messages |-> messages]

Failure(b, id) == Reply(b, id, FALSE, 0, <<>>)

(* Unloading a script takes its undelivered replies with it.               *)
StillAddressed == {m \in inbox : m.bridge \in attached'}

(* Mutation of Post: a new reply takes the place of those not yet received.*)
PostReplaces(m) ==
  inbox' = IF m.bridge \in registry' \cap attached' THEN {m} ELSE StillAddressed

(* post_to_session: the reply is dropped when the bridge is no longer      *)
(* registered, and lost when its process is gone.                          *)
Post(m) ==
  inbox' = StillAddressed \cup (IF m.bridge \in registry' \cap attached' THEN {m} ELSE {})

PostNothing == inbox' = StillAddressed

-----------------------------------------------------------------------------
(* The actor thread.                                                       *)

(* get_local_device: ready_tx answers main, and the loop starts or the     *)
(* thread ends.                                                            *)
OpenDevice ==
  /\ actor.pc = "boot"
  /\ \/ /\ actor' = Receiving
        /\ main' = Main("free", 0)
     \/ /\ actor' = Stopped
        /\ main' = Main("down", 0)
  /\ UNCHANGED <<queue, registry, nextId, sessionVars, bufferVars, attached, alive, inbox>>

(* blocking_recv: the command at the head of the channel.                  *)
Receive(kind) ==
  /\ actor.pc = "recv"
  /\ queue # <<>>
  /\ Head(queue).kind = kind
  /\ queue' = Tail(queue)

ReceiveOp(op) ==
  /\ Receive("BridgeMessage")
  /\ Head(queue).req.op = op

(* attach returned a session that is not detached.                         *)
Attachable(pid) == pid \in alive /\ nextId < MaxSessions

(* Mutation of FreshId: ids come from the size of the registry.            *)
FreshIdFromRegistry == Cardinality(registry) + 1

(* self.next_id += 1.                                                      *)
FreshId == nextId + 1

(* Mutation of BeginInject: the session is registered before load().       *)
BeginInjectRegistered(pid, fwd) ==
  /\ Attachable(pid)
  /\ nextId' = FreshId
  /\ registry' = registry \cup {FreshId}
  /\ pidOf' = [pidOf EXCEPT ![FreshId] = pid]
  /\ forward' = [forward EXCEPT ![FreshId] = fwd]
  /\ attached' = attached \cup {FreshId}
  /\ actor' = [pc |-> "load", sid |-> FreshId, cmd |-> Head(queue)]
  /\ UNCHANGED <<bufferVars, alive, inbox, main>>

(* inject_with up to script.load(): attach, take the next id, create the   *)
(* script and install its handler.                                         *)
BeginInject(pid, fwd) ==
  /\ Attachable(pid)
  /\ nextId' = FreshId
  /\ pidOf' = [pidOf EXCEPT ![FreshId] = pid]
  /\ forward' = [forward EXCEPT ![FreshId] = fwd]
  /\ attached' = attached \cup {FreshId}
  /\ actor' = [pc |-> "load", sid |-> FreshId, cmd |-> Head(queue)]
  /\ UNCHANGED <<registry, bufferVars, alive, inbox, main>>

(* inject_with returning an error before script.load(): attach may always  *)
(* fail; when it does not, create_script or handle_message may, and then   *)
(* the id is spent and the dropped session detaches.                       *)
InjectFails(pid) ==
  /\ \/ UNCHANGED nextId
     \/ Attachable(pid) /\ nextId' = FreshId
  /\ UNCHANGED <<registry, sessionVars, bufferVars, attached, alive, actor>>

HandleInjectBridge ==
  /\ Receive("InjectBridge")
  /\ \/ BeginInject(Head(queue).pid, TRUE)
     \/ /\ InjectFails(Head(queue).pid)
        /\ main' = Main("err", 0)
        /\ UNCHANGED inbox

(* Mutation of AsU32: a type one bit narrower.                             *)
AsU31(pid) == pid % (PidModulus \div 2)

(* `pid as u32` in route_bridge_op.                                        *)
AsU32(pid) == pid % PidModulus

HandleRun ==
  /\ ReceiveOp("run")
  /\ LET b == Head(queue).bridge
         r == Head(queue).req
     IN \/ /\ ~r.blank
           /\ BeginInject(AsU32(r.pid), FALSE)
        \/ /\ IF r.blank THEN UNCHANGED <<nextId, registry, sessionVars, bufferVars,
                                          attached, alive, actor>>
                         ELSE InjectFails(AsU32(r.pid))
           /\ Post(Failure(b, r.id))
           /\ UNCHANGED main

(* Which handler runs while load() runs and after it: the session's own.   *)
Loading(s) == actor.pc = "load" /\ actor.sid = s

(* Mutation of LoadFails: load() does not return when the process it loads *)
(* the script into dies.                                                   *)
LoadFailsIfAlive ==
  /\ actor.pc = "load"
  /\ actor.sid \in attached
  /\ attached' = attached \ {actor.sid}
  /\ actor' = Receiving
  /\ UNCHANGED <<queue, registry, nextId, sessionVars, bufferVars, alive>>
  /\ IF forward[actor.sid]
       THEN main' = Main("err", 0) /\ PostNothing
       ELSE Post(Failure(actor.cmd.bridge, actor.cmd.req.id)) /\ UNCHANGED main

(* script.load() returned an error: `live` is dropped, script first and    *)
(* then session, which detaches.                                           *)
LoadFails ==
  /\ actor.pc = "load"
  /\ attached' = attached \ {actor.sid}
  /\ actor' = Receiving
  /\ UNCHANGED <<queue, registry, nextId, sessionVars, bufferVars, alive>>
  /\ IF forward[actor.sid]
       THEN main' = Main("err", 0) /\ PostNothing
       ELSE Post(Failure(actor.cmd.bridge, actor.cmd.req.id)) /\ UNCHANGED main

(* Mutation of LoadSucceeds: a bridge settles as a run does.               *)
LoadThenSettle ==
  /\ actor.pc = "load"
  /\ actor.sid \in attached
  /\ registry' = registry \cup {actor.sid}
  /\ actor' = [actor EXCEPT !.pc = "settle"]
  /\ UNCHANGED <<main, queue, nextId, sessionVars, bufferVars, attached, alive, inbox>>

(* load() returned Ok: the session is registered.  A bridge is reported to *)
(* main; a run sleeps RUN_SETTLE before its reply is assembled.            *)
LoadSucceeds ==
  /\ actor.pc = "load"
  /\ actor.sid \in attached
  /\ registry' = registry \cup {actor.sid}
  /\ IF forward[actor.sid]
       THEN main' = Main("ok", actor.sid) /\ actor' = Receiving
       ELSE actor' = [actor EXCEPT !.pc = "settle"] /\ UNCHANGED main
  /\ UNCHANGED <<queue, nextId, sessionVars, bufferVars, attached, alive, inbox>>

(* Mutation of Drain: the messages are copied out and stay.                *)
DrainCopies(s) ==
  /\ drained' = [drained EXCEPT ![s] = handled[s]]
  /\ UNCHANGED <<buffer, handled>>

(* drain_values on a registered session.                                   *)
Drain(s) ==
  /\ buffer' = [buffer EXCEPT ![s] = <<>>]
  /\ drained' = [drained EXCEPT ![s] = handled[s]]
  /\ UNCHANGED handled

(* Mutations of Kill: the session leaves the registry and its agent stays; *)
(* the agent goes and the session stays in the registry.                   *)
KillLeaksAgent(s) ==
  /\ registry' = registry \ {s}
  /\ UNCHANGED attached
KillKeepsEntry(s) ==
  /\ attached' = attached \ {s}
  /\ UNCHANGED registry

(* kill: remove the session from the registry, unload and detach it.       *)
Kill(s) ==
  /\ registry' = registry \ {s}
  /\ attached' = attached \ {s}

(* RUN_SETTLE has passed: the messages are drained, under the lock.        *)
DrainRun ==
  /\ actor.pc = "settle"
  /\ Drain(actor.sid)
  /\ actor' = [pc |-> "drained", sid |-> actor.sid, cmd |-> actor.cmd,
               messages |-> buffer[actor.sid]]
  /\ UNCHANGED <<queue, registry, nextId, sessionVars, attached, alive, inbox, main>>

(* The lock is released, so that the handler may push again: the rest of   *)
(* the "run" arm.                                                          *)
FinishRun ==
  /\ actor.pc = "drained"
  /\ IF actor.cmd.req.keep THEN UNCHANGED <<registry, attached>> ELSE Kill(actor.sid)
  /\ Post(Reply(actor.cmd.bridge, actor.cmd.req.id, TRUE, actor.sid, actor.messages))
  /\ actor' = Receiving
  /\ UNCHANGED <<queue, nextId, sessionVars, bufferVars, alive, main>>

(* Mutation of HandlePull: an unknown session ends the handler early.      *)
HandlePullSilent ==
  /\ ReceiveOp("pull")
  /\ UNCHANGED <<registry, attached, actor, nextId, sessionVars, alive, main>>
  /\ LET b == Head(queue).bridge
         r == Head(queue).req
     IN IF r.sid \in registry
          THEN Drain(r.sid) /\ Post(Reply(b, r.id, TRUE, 0, buffer[r.sid]))
          ELSE UNCHANGED bufferVars /\ PostNothing

(* "pull": an unknown session yields no messages, not an error.            *)
HandlePull ==
  /\ ReceiveOp("pull")
  /\ UNCHANGED <<registry, attached, actor, nextId, sessionVars, alive, main>>
  /\ LET b == Head(queue).bridge
         r == Head(queue).req
     IN IF r.sid \in registry
          THEN Drain(r.sid) /\ Post(Reply(b, r.id, TRUE, 0, buffer[r.sid]))
          ELSE UNCHANGED bufferVars /\ Post(Reply(b, r.id, TRUE, 0, <<>>))

(* "kill": nothing asks whether the session is a target's or a bridge's.   *)
HandleKill ==
  /\ ReceiveOp("kill")
  /\ LET b == Head(queue).bridge
         r == Head(queue).req
     IN /\ IF r.sid \in registry THEN Kill(r.sid) ELSE UNCHANGED <<registry, attached>>
        /\ Post(Reply(b, r.id, r.sid \in registry, 0, <<>>))
  /\ UNCHANGED <<actor, nextId, sessionVars, bufferVars, alive, main>>

(* Mutation of HandleMalformed: a request nothing is done for is dropped.  *)
HandleMalformedSilent ==
  /\ ReceiveOp("malformed")
  /\ UNCHANGED <<inbox, registry, attached, actor, nextId, sessionVars, bufferVars, alive, main>>

HandleMalformed ==
  /\ ReceiveOp("malformed")
  /\ UNCHANGED <<registry, attached, actor, nextId, sessionVars, bufferVars, alive, main>>
  /\ Post(Failure(Head(queue).bridge, Head(queue).req.id))

(* A message without an op is logged and nothing else.                     *)
HandleDiagnostic ==
  /\ ReceiveOp("")
  /\ UNCHANGED <<inbox, registry, attached, actor, nextId, sessionVars, bufferVars, alive, main>>

(* shutdown_all: every registered session is unloaded and detached.        *)
ShutdownAll ==
  /\ registry' = {}
  /\ attached' = attached \ registry

(* Shutdown: the loop breaks, and the receiver is dropped with whatever    *)
(* the channel holds.                                                      *)
HandleShutdown ==
  /\ actor.pc = "recv"
  /\ queue # <<>>
  /\ Head(queue) = Shutdown
  /\ queue' = <<>>
  /\ ShutdownAll
  /\ PostNothing
  /\ actor' = Stopped
  /\ main' = Main("down", 0)
  /\ UNCHANGED <<nextId, sessionVars, bufferVars, alive>>

ActorStep ==
  \/ OpenDevice
  \/ HandleInjectBridge \/ HandleRun \/ LoadFails \/ LoadSucceeds
  \/ DrainRun \/ FinishRun \/ HandlePull \/ HandleKill \/ HandleMalformed \/ HandleDiagnostic
  \/ HandleShutdown
-----------------------------------------------------------------------------
(* Frida's dispatcher threads.                                             *)

(* handle_message has run and the LiveScript has not been dropped.         *)
HandlerInstalled(s) == s \in registry \/ Loading(s)

(* BufferHandler::on_message.  A message that was under way when the       *)
(* script's process died is still handled.                                 *)
BufferMessage(s) ==
  /\ HandlerInstalled(s)
  /\ ~forward[s]
  /\ handled[s] < MaxMessages
  /\ handled' = [handled EXCEPT ![s] = @ + 1]
  /\ buffer' = [buffer EXCEPT ![s] = Push(@, handled[s] + 1)]
  /\ UNCHANGED <<queue, actor, registry, nextId, sessionVars, drained,
                 attached, alive, inbox, main>>

BridgeMessage(b, r) == [kind |-> "BridgeMessage", bridge |-> b, req |-> r]

(* Mutation of TrySend: an unbounded channel.                              *)
TrySendUnbounded(c) ==
  queue' = IF actor.pc # "stopped" THEN Append(queue, c) ELSE queue

(* mpsc::Sender::try_send with the error ignored: a full or closed channel *)
(* drops the command.                                                      *)
TrySend(c) ==
  queue' = IF actor.pc # "stopped" /\ Len(queue) < Capacity THEN Append(queue, c) ELSE queue

(* ForwardHandler::on_message.  A message that was under way when the      *)
(* bridge's process died is still forwarded.                               *)
Forward(b, r) ==
  /\ HandlerInstalled(b)
  /\ forward[b]
  /\ TrySend(BridgeMessage(b, r))
  /\ UNCHANGED <<actor, registry, nextId, sessionVars, bufferVars,
                 attached, alive, inbox, main>>

(* The bridge's requests that are not yet taken from the channel, and the  *)
(* one the actor is working on.                                            *)
Queued(b, id) ==
  \E i \in 1 .. Len(queue) :
    /\ queue[i].kind = "BridgeMessage"
    /\ queue[i].bridge = b
    /\ queue[i].req.op # ""
    /\ queue[i].req.id = id

InService(b, id) ==
  /\ actor.cmd.kind = "BridgeMessage"
  /\ actor.cmd.bridge = b
  /\ actor.cmd.req.id = id

Answered(b, id) == \E m \in inbox : m.bridge = b /\ m.id = id

(* A bridge script does not number two outstanding requests alike.         *)
ForwardMessage(b, r) ==
  /\ r.op # "" => ~(Queued(b, r.id) \/ InService(b, r.id) \/ Answered(b, r.id))
  /\ Forward(b, r)

(* recv().wait() in a bridge script takes the reply it waits for.          *)
ReceiveReply(m) ==
  /\ inbox' = inbox \ {m}
  /\ UNCHANGED <<queue, actor, registry, nextId, sessionVars, bufferVars,
                 attached, alive, main>>

-----------------------------------------------------------------------------
(* Processes.                                                              *)

SessionsIn(p) == {s \in 1 .. nextId : pidOf[s] = p}

(* The agents in a process, and what was posted to them, die with it.      *)
(* Nothing in the engine watches for that.                                 *)
ProcessExit(p) ==
  /\ p \in alive
  /\ alive' = alive \ {p}
  /\ attached' = attached \ SessionsIn(p)
  /\ PostNothing
  /\ UNCHANGED <<queue, actor, registry, nextId, sessionVars, bufferVars, main>>

(* A process starts, with a pid an earlier one may have had.               *)
ProcessStart(p) ==
  /\ p \notin alive
  /\ alive' = alive \cup {p}
  /\ UNCHANGED <<queue, actor, registry, nextId, sessionVars, bufferVars,
                 attached, inbox, main>>

-----------------------------------------------------------------------------
(* main().                                                                 *)

mainKeeps == <<actor, registry, nextId, sessionVars, bufferVars, attached, alive, inbox>>

(* Mutation of SendInjectBridge: main does not wait for the reply.         *)
SendAndForget(p) ==
  /\ main.st = "free"
  /\ Len(queue) < Capacity
  /\ queue' = Append(queue, [kind |-> "InjectBridge", pid |-> p])
  /\ UNCHANGED <<main, mainKeeps>>

(* inject_bridge: Sender::send waits for room in the channel.              *)
SendInjectBridge(p) ==
  /\ main.st = "free"
  /\ Len(queue) < Capacity
  /\ queue' = Append(queue, [kind |-> "InjectBridge", pid |-> p])
  /\ main' = Main("inject", 0)
  /\ UNCHANGED mainKeeps

MainResumes ==
  /\ main.st \in {"ok", "err"}
  /\ main' = Main("free", 0)
  /\ UNCHANGED <<queue, mainKeeps>>

(* ctrl_c resolves: the watchdog loop ends.                                *)
CtrlC ==
  /\ main.st = "free"
  /\ main' = Main("quitting", 0)
  /\ UNCHANGED <<queue, mainKeeps>>

(* Mutation of SendShutdown: a try_send that may find the channel full.    *)
SendShutdownTry ==
  /\ main.st = "quitting"
  /\ queue' = IF Len(queue) < Capacity THEN Append(queue, Shutdown) ELSE queue
  /\ main' = Main("shutdown", 0)
  /\ UNCHANGED mainKeeps

(* Sender::send(Shutdown) waits for room too, and main then for the reply. *)
SendShutdown ==
  /\ main.st = "quitting"
  /\ Len(queue) < Capacity
  /\ queue' = Append(queue, Shutdown)
  /\ main' = Main("shutdown", 0)
  /\ UNCHANGED mainKeeps

MainStep ==
  \/ \E p \in Pids : SendInjectBridge(p)
  \/ MainResumes \/ CtrlC \/ SendShutdown

-----------------------------------------------------------------------------

HandlerStep == \E s \in 1 .. nextId : BufferMessage(s)
BridgeStep ==
  \/ \E b \in 1 .. nextId, r \in Requests : ForwardMessage(b, r)
  \/ \E m \in inbox : ReceiveReply(m)
ProcessStep == \E p \in Pids : ProcessExit(p) \/ ProcessStart(p)

Next == ActorStep \/ HandlerStep \/ BridgeStep \/ ProcessStep \/ MainStep

Spec == Init /\ [][Next]_vars

-----------------------------------------------------------------------------
(* Properties.                                                             *)

ActorState ==
  {Receiving, Stopped, [pc |-> "boot", sid |-> 0, cmd |-> NoCommand]}
  \cup [pc : {"load"}, sid : Sids, cmd : InjectBridgeCommand \cup BridgeMessageCommand]
  \cup [pc : {"settle"}, sid : Sids, cmd : BridgeMessageCommand]
  \cup [pc : {"drained"}, sid : Sids, cmd : BridgeMessageCommand, messages : Seq(Nat)]

MainState == [st : {"boot", "free", "inject", "ok", "err", "quitting", "shutdown", "down"},
              sid : Sids \cup {0}]

ReplyRecord == [bridge : Sids, id : Nat, ok : BOOLEAN, sid : Sids \cup {0}, messages : Seq(Nat)]

(* The type invariant.  That the channel is never over its capacity is     *)
(* part of it.                                                             *)
TypeOK ==
  /\ queue \in Seq(Command) /\ Len(queue) <= Capacity
  /\ actor \in ActorState
  /\ registry \subseteq Sids
  /\ nextId \in 0 .. MaxSessions
  /\ pidOf \in [Sids -> Nat]
  /\ forward \in [Sids -> BOOLEAN]
  /\ handled \in [Sids -> 0 .. MaxMessages]
  /\ buffer \in [Sids -> Seq(Nat)]
  /\ drained \in [Sids -> 0 .. MaxMessages]
  /\ attached \subseteq Sids
  /\ alive \subseteq Pids
  /\ inbox \subseteq ReplyRecord
  /\ main \in MainState

(* The session the actor has begun to open and not yet registered.         *)
Opening == IF actor.pc = "load" THEN {actor.sid} ELSE {}

(* No agent runs in a process without the engine being able to detach it:  *)
(* whatever inject_with, kill, a failed load, a dying process and Shutdown *)
(* do in any order, every loaded agent is in the registry or is the one    *)
(* being loaded, and none is left once the actor has stopped.              *)
AgentsRegistered ==
  /\ attached \subseteq registry \cup Opening
  /\ actor.pc = "stopped" => attached = {}

(* A pull finds exactly the messages handled since the last one, in order  *)
(* and none twice, and only when they were more than MAX_BUFFERED_MESSAGES *)
(* just the newest of them: pushes and drains of two threads never lose,   *)
(* repeat or reorder a message, not even one emitted during load().        *)
BufferExact == \A s \in Sids : buffer[s] = Newest(handled[s], drained[s])

(* What keeps the invariants above inductive.  A session being opened has  *)
(* the last id issued, is not registered yet, has the handler its command  *)
(* calls for and, for a run, the process its narrowed pid names; one whose *)
(* run is settling or has been drained is registered.                      *)
ActorInv ==
  /\ actor.pc = "boot" => registry = {} /\ attached = {}
  /\ actor.pc = "stopped" => registry = {}
  /\ actor.pc = "load" =>
       /\ actor.sid = nextId
       /\ actor.sid \notin registry
       /\ forward[actor.sid] <=> actor.cmd.kind = "InjectBridge"
  /\ actor.pc \in {"settle", "drained"} => actor.sid \in registry
  /\ actor.cmd.kind = "BridgeMessage" =>
       actor.cmd.req.op = "run" /\ pidOf[actor.sid] = AsU32(actor.cmd.req.pid)

(* Registered ids have been issued, and a drain never runs ahead of the    *)
(* handler.                                                                *)
IssuedInv ==
  /\ registry \subseteq 1 .. nextId
  /\ \A s \in Sids : drained[s] <= handled[s]

IInv == TypeOK /\ AgentsRegistered /\ BufferExact /\ ActorInv /\ IssuedInv

(* main() sends one command at a time and waits for its answer: at most    *)
(* one is in the channel, and none while the actor is loading a bridge.    *)
OneMainCommand ==
  /\ \A i, j \in 1 .. Len(queue) :
       queue[i].kind # "BridgeMessage" /\ queue[j].kind # "BridgeMessage" => i = j
  /\ \A i \in 1 .. Len(queue) :
       /\ queue[i].kind = "InjectBridge" =>
            main.st = "inject" /\ actor.cmd.kind # "InjectBridge"
       /\ queue[i].kind = "Shutdown" => main.st = "shutdown"
  /\ actor.cmd.kind = "InjectBridge" => main.st = "inject"
  /\ actor.pc = "boot" <=> main.st = "boot"

(* A session id is never given to a second session: the one that is opened *)
(* was not in use before, and one that is neither registered nor being     *)
(* opened stays out of the registry, so a sid kept by a script never comes *)
(* to mean another session ("opaque, monotonically-increasing").           *)
IdsNeverReused ==
  [][/\ Opening' # Opening => Opening' \cap (1 .. nextId) = {}
     /\ \A s \in 1 .. nextId :
          s \notin registry \cup Opening => s \notin registry']_vars

(* A run request's code is loaded into the process with the pid that the   *)
(* request names ("runpid: in an explicit pid").                           *)
RunsWhereAsked ==
  actor.pc \in {"load", "settle", "drained"} /\ actor.cmd.kind = "BridgeMessage"
    => pidOf[actor.sid] = actor.cmd.req.pid

(* The engine's sessions, whatever happens on its channel and in the       *)
(* processes, are those of SessionService.                                 *)
Service ==
  INSTANCE SessionService WITH
    Limit <- MaxSessions, issued <- nextId, open <- registry, agents <- attached,
    opening <- IF actor.pc = "load" THEN actor.sid ELSE 0,
    stopped <- actor.pc = "stopped"

ImplementsService == Service!Spec
==============================================================================
