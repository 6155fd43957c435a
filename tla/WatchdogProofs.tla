---------------------------- MODULE WatchdogProofs ----------------------------
(* The watchdog's invariants, for every set of packages and pids, every    *)
(* order of starts, exits, looks and injections, and every bound.          *)
EXTENDS Watchdog, EngineProofs

-----------------------------------------------------------------------------
(* The watchdog's steps are steps of the engine and its environment.       *)

LEMMA WatchStep ==
  ASSUME WatchTypeOK, [WatchNext]_allVars
  PROVE  [Next]_vars
<1>1. CASE EngineStep
  BY <1>1 DEF EngineStep, Next, ProcessStep
<1>2. CASE TickStep
  <2>1. CASE \E k \in 0 .. MarkersRead : LookBegins(k) \/ NoPackageFound(k)
    BY <2>1 DEF LookBegins, NoPackageFound
  <2>2. CASE ReadEntry \/ LookEnds
    BY <2>2 DEF ReadEntry, LookEnds
  <2>3. CASE Inject
    <3>1. target \in Pids
      BY <2>3, WatchdogAssumption DEF Inject, WatchTypeOK
    <3> QED
      BY <2>3, <3>1 DEF Inject, Next, MainStep
  <2>4. CASE InjectReturns
    BY <2>4 DEF InjectReturns, Next, MainStep
  <2> QED
    BY <1>2, <2>1, <2>2, <2>3, <2>4 DEF TickStep
<1>3. CASE Quit
  BY <1>3 DEF Quit, Next, MainStep
<1>4. CASE GGExits
  <2>1. gg \in Pids
    BY <1>4, WatchdogAssumption DEF GGExits, WatchTypeOK
  <2> QED
    BY <1>4, <2>1 DEF GGExits, Next, ProcessStep
<1>5. ASSUME NEW p \in Pids, GGStarts(p) \/ OtherStarts(p)
      PROVE  [Next]_vars
  BY <1>5 DEF GGStarts, OtherStarts, Next, ProcessStep
<1>6. GGPids \subseteq Pids
  BY WatchdogAssumption
<1> QED
  BY <1>1, <1>2, <1>3, <1>4, <1>5, <1>6 DEF WatchNext, allVars

(* Sessions that were issued keep their handler and their process.         *)
LEMMA IssuedKept ==
  ASSUME IInv, [Next]_vars
  PROVE  /\ nextId' \in Nat /\ nextId <= nextId'
         /\ \A s \in 1 .. nextId :
              /\ s \in 1 .. nextId' /\ s \in Sids
              /\ forward'[s] = forward[s] /\ pidOf'[s] = pidOf[s]
<1>1. \/ UNCHANGED <<nextId, forward, pidOf>>
      \/ /\ nextId' = nextId + 1 /\ UNCHANGED <<forward, pidOf>>
      \/ \E pid, fwd : /\ nextId' = nextId + 1
                       /\ pidOf' = [pidOf EXCEPT ![nextId + 1] = pid]
                       /\ forward' = [forward EXCEPT ![nextId + 1] = fwd]
  BY DEF Next, vars, sessionVars, bufferVars, ActorStep, OpenDevice, HandleInjectBridge,
         HandleRun, BeginInject, InjectFails, LoadFails, LoadSucceeds, DrainRun, FinishRun, HandlePull,
         HandleKill, HandleMalformed, HandleDiagnostic, HandleShutdown, HandlerStep,
         BufferMessage, BridgeStep, ForwardMessage, Forward, ReceiveReply, ProcessStep,
         ProcessExit, ProcessStart, MainStep, SendInjectBridge, MainResumes, CtrlC,
         SendShutdown, mainKeeps, FreshId
<1>2. /\ nextId \in Nat /\ pidOf \in [Sids -> Nat] /\ forward \in [Sids -> BOOLEAN]
      /\ \A s \in 1 .. nextId : s \in Sids
  BY EngineAssumption DEF IInv, TypeOK, Sids
<1> QED
  BY <1>1, <1>2

-----------------------------------------------------------------------------
(* What the actor does for main().                                         *)

(* main() is told of the loss or the success of what it waits for.         *)
Told ==
  \/ main' = main
  \/ main.st = "boot" /\ main'.st \in {"free", "down"}
  \/ main.st = "inject" /\ main' = Main("err", 0)
  \/ /\ main.st = "inject" /\ main' = Main("ok", actor.sid)
     /\ actor.pc = "load" /\ actor.cmd.kind = "InjectBridge"
     /\ forward[actor.sid] /\ actor.sid \in registry'
  \/ main.st = "shutdown" /\ main' = Main("down", 0)

LEMMA ActorTold ==
  ASSUME IInv, OneMainCommand, ActorStep
  PROVE  Told /\ UNCHANGED alive /\ (actor'.pc = "stopped" => actor = actor' \/ main'.st = "down")
<1>1. CASE OpenDevice
  BY <1>1 DEF OpenDevice, OneMainCommand, Told, Main, Receiving, Stopped
<1>2. CASE HandleInjectBridge
  <2>1. /\ queue # << >> /\ queue' = Tail(queue) /\ Head(queue).kind = "InjectBridge"
        /\ actor = Receiving
    BY <1>2, ReceiveFacts DEF HandleInjectBridge, Receive
  <2>2. main.st = "inject"
    BY <2>1, QueueTail DEF OneMainCommand
  <2> QED
    BY <1>2, <2>1, <2>2 DEF HandleInjectBridge, BeginInject, InjectFails, Told, Receiving
<1>3. CASE HandleRun
  BY <1>3, ReceiveOpFacts DEF HandleRun, BeginInject, InjectFails, Told, Receiving
<1>4. CASE LoadFails
  <2>1. forward[actor.sid] => main.st = "inject"
    BY <1>4 DEF LoadFails, IInv, ActorInv, OneMainCommand
  <2> QED
    BY <1>4, <2>1 DEF LoadFails, Told, Receiving
<1>5. CASE LoadSucceeds
  <2>1. forward[actor.sid] => main.st = "inject" /\ actor.cmd.kind = "InjectBridge"
    BY <1>5 DEF LoadSucceeds, IInv, ActorInv, OneMainCommand
  <2>2. actor'.pc # "stopped"
    BY <1>5 DEF LoadSucceeds, IInv, TypeOK, ActorState, Receiving, Stopped
  <2> QED
    BY <1>5, <2>1, <2>2 DEF LoadSucceeds, Told
<1>6. CASE FinishRun
  BY <1>6 DEF FinishRun, Told, Receiving
<1>7. CASE HandlePull \/ HandleKill \/ HandleMalformed \/ HandleDiagnostic
  BY <1>7 DEF HandlePull, HandleKill, HandleMalformed, HandleDiagnostic, Told
<1>8. CASE HandleShutdown
  <2>1. 1 \in 1 .. Len(queue) /\ queue[1].kind = "Shutdown"
    <3>1. queue # << >> /\ Head(queue) = Shutdown
      BY <1>8 DEF HandleShutdown
    <3>2. queue \in Seq(Command) /\ Len(queue) \in Nat /\ Len(queue) # 0
      BY <3>1, EmptySeq, LenProperties DEF IInv, TypeOK
    <3>3. Head(queue) = queue[1]
      BY <3>1, <3>2, HeadTailProperties
    <3> QED
      BY <3>1, <3>2, <3>3 DEF Shutdown
  <2> QED
    BY <1>8, <2>1 DEF HandleShutdown, OneMainCommand, Told, Stopped, Main
<1>9. CASE DrainRun
  <2>1. actor'.pc = "drained"
    BY <1>9 DEF DrainRun
  <2> QED
    BY <1>9, <2>1 DEF DrainRun, Told
<1> QED
  BY <1>1, <1>2, <1>3, <1>4, <1>5, <1>6, <1>7, <1>8, <1>9 DEF ActorStep

(* What the actor loads for main() is the command main() sent.             *)
LEMMA ActorLoads ==
  ASSUME IInv, OneMainCommand, ActorStep
  PROVE  /\ \A i \in 1 .. Len(queue') : queue'[i].kind = "InjectBridge" =>
              \E j \in 1 .. Len(queue) : queue'[i] = queue[j]
         /\ actor'.cmd.kind = "InjectBridge" =>
              \/ actor'.sid = actor.sid /\ actor.cmd.kind = "InjectBridge" /\ actor.sid \in 1 .. nextId
              \/ \E j \in 1 .. Len(queue) :
                   queue[j].kind = "InjectBridge" /\ pidOf'[actor'.sid] = queue[j].pid
         /\ actor'.pc \in {"settle", "drained"} =>
              /\ actor'.sid = actor.sid /\ UNCHANGED forward
              /\ (actor.pc = "load" /\ ~forward[actor.sid]) \/ actor.pc = "settle"
<1>0. /\ actor.cmd.kind = "InjectBridge" => actor.sid \in 1 .. nextId
      /\ pidOf \in [Sids -> Nat] /\ nextId \in Nat
  <2>1. actor.cmd.kind = "InjectBridge" => actor.pc = "load" /\ actor.sid \in Sids
    BY DEF IInv, TypeOK, ActorState, Receiving, Stopped, NoCommand, BridgeMessageCommand
  <2>2. nextId \in 0 .. MaxSessions /\ pidOf \in [Sids -> Nat]
    BY DEF IInv, TypeOK
  <2>3. actor.pc = "load" => actor.sid = nextId
    BY DEF IInv, ActorInv
  <2> QED
    BY <2>1, <2>2, <2>3, EngineAssumption DEF Sids
<1>1. CASE OpenDevice
  BY <1>1 DEF OpenDevice, Receiving, Stopped, NoCommand
<1>2. CASE HandleInjectBridge
  <2>1. /\ queue # << >> /\ queue' = Tail(queue) /\ Head(queue).kind = "InjectBridge"
        /\ actor = Receiving
    BY <1>2, ReceiveFacts DEF HandleInjectBridge, Receive
  <2>2. /\ 1 \in 1 .. Len(queue) /\ queue[1] = Head(queue)
        /\ \A i \in 1 .. Len(queue') : \E j \in 1 .. Len(queue) : queue'[i] = queue[j]
    BY <2>1, QueueTail
  <2>3. CASE BeginInject(Head(queue).pid, TRUE)
    <3>1. actor' = [pc |-> "load", sid |-> nextId + 1, cmd |-> Head(queue)]
      BY <2>3 DEF BeginInject, FreshId
    <3>2. pidOf' = [pidOf EXCEPT ![nextId + 1] = Head(queue).pid]
      BY <2>3 DEF BeginInject, FreshId
    <3>3. nextId + 1 \in Sids
      BY <2>3, <1>0, EngineAssumption DEF BeginInject, Attachable, Sids
    <3>4. actor'.sid = nextId + 1 /\ actor'.pc = "load"
      BY <3>1
    <3>5. pidOf'[actor'.sid] = queue[1].pid /\ queue[1].kind = "InjectBridge"
      BY <1>0, <2>1, <2>2, <3>2, <3>3, <3>4
    <3> QED
      BY <2>2, <3>4, <3>5
  <2>4. CASE InjectFails(Head(queue).pid)
    BY <2>1, <2>2, <2>4 DEF InjectFails, Receiving, NoCommand
  <2> QED
    BY <1>2, <2>3, <2>4 DEF HandleInjectBridge
<1>3. CASE HandleRun
  <2>1. /\ actor = Receiving /\ queue # << >> /\ queue' = Tail(queue)
        /\ Head(queue).kind = "BridgeMessage"
    BY <1>3, ReceiveOpFacts DEF HandleRun
  <2>2. \A i \in 1 .. Len(queue') : \E j \in 1 .. Len(queue) : queue'[i] = queue[j]
    BY <2>1, QueueTail
  <2>3. \/ actor' = actor
        \/ actor'.pc = "load" /\ actor'.cmd = Head(queue)
    BY <1>3 DEF HandleRun, BeginInject, InjectFails
  <2>4. actor'.cmd.kind # "InjectBridge" /\ actor'.pc \notin {"settle", "drained"}
    BY <2>1, <2>3 DEF Receiving, NoCommand
  <2> QED
    BY <2>2, <2>4
<1>4. CASE LoadFails \/ FinishRun
  <2>1. queue' = queue /\ actor' = Receiving
    BY <1>4 DEF LoadFails, FinishRun
  <2>2. actor'.cmd.kind # "InjectBridge" /\ actor'.pc \notin {"settle", "drained"}
    BY <2>1 DEF Receiving, NoCommand
  <2> QED
    BY <2>1, <2>2
<1>5. CASE LoadSucceeds
  <2>1. UNCHANGED <<queue, forward>> /\ actor.pc = "load"
    BY <1>5 DEF LoadSucceeds, sessionVars
  <2>2. \/ forward[actor.sid] /\ actor' = Receiving
        \/ ~forward[actor.sid] /\ actor' = [actor EXCEPT !.pc = "settle"]
    BY <1>5 DEF LoadSucceeds
  <2>3. CASE actor' = Receiving
    BY <2>1, <2>3 DEF Receiving, NoCommand
  <2>4. CASE ~forward[actor.sid] /\ actor' = [actor EXCEPT !.pc = "settle"]
    <3>1. actor'.pc = "settle" /\ actor'.cmd = actor.cmd /\ actor'.sid = actor.sid
      BY <2>1, <2>4 DEF IInv, TypeOK, ActorState, Receiving, Stopped
    <3> QED
      BY <1>0, <2>1, <2>4, <3>1
  <2> QED
    BY <2>2, <2>3, <2>4
<1>6. CASE HandlePull \/ HandleKill \/ HandleMalformed \/ HandleDiagnostic
  <2>1. /\ actor = Receiving /\ actor' = actor /\ queue # << >> /\ queue' = Tail(queue)
    BY <1>6, ReceiveOpFacts DEF HandlePull, HandleKill, HandleMalformed, HandleDiagnostic
  <2>2. \A i \in 1 .. Len(queue') : \E j \in 1 .. Len(queue) : queue'[i] = queue[j]
    BY <2>1, QueueTail
  <2> QED
    BY <2>1, <2>2 DEF Receiving, NoCommand
<1>7. CASE HandleShutdown
  <2>1. queue' = << >> /\ actor' = Stopped
    BY <1>7 DEF HandleShutdown
  <2> QED
    BY <2>1 DEF Stopped, NoCommand
<1>8. CASE DrainRun
  <2>1. /\ actor.pc = "settle" /\ UNCHANGED <<queue, forward>>
        /\ actor' = [pc |-> "drained", sid |-> actor.sid, cmd |-> actor.cmd,
                     messages |-> buffer[actor.sid]]
    BY <1>8 DEF DrainRun, sessionVars
  <2>2. actor'.pc = "drained" /\ actor'.sid = actor.sid /\ actor'.cmd = actor.cmd
    BY <2>1
  <2>3. actor'.cmd.kind # "InjectBridge"
    BY <2>1, <2>2, RunFacts
  <2> QED
    BY <2>1, <2>2, <2>3
<1> QED
  BY <1>1, <1>2, <1>3, <1>4, <1>5, <1>6, <1>7, <1>8 DEF ActorStep

-----------------------------------------------------------------------------
(* What main() has under way.                                              *)

WatchBase == IInv /\ OneMainCommand /\ WatchTypeOK /\ TickInv

LEMMA BridgeStays ==
  ASSUME IInv, [Next]_vars, NEW s, NEW p, BridgeOf(s, p)
  PROVE  s \in 1 .. nextId' /\ forward'[s] /\ pidOf'[s] = p
BY IssuedKept DEF BridgeOf

(* A step that is not main()'s and does not answer it.                     *)
LEMMA TickOther ==
  ASSUME WatchBase, [Next]_vars, UNCHANGED <<actor, main, target, injected>>,
         \/ UNCHANGED queue
         \/ \E c \in Command : c.kind = "BridgeMessage" /\ queue' = Append(queue, c)
  PROVE  TickInv'
<1>1. \A i \in 1 .. Len(queue') : queue'[i].kind = "InjectBridge" => queue'[i].pid = target
  <2>1. CASE UNCHANGED queue
    BY <2>1 DEF WatchBase, TickInv
  <2>2. ASSUME NEW c \in Command, c.kind = "BridgeMessage", queue' = Append(queue, c)
        PROVE  \A i \in 1 .. Len(queue') : queue'[i].kind = "InjectBridge" => queue'[i].pid = target
    BY <2>2, QueueAppend DEF WatchBase, TickInv
  <2> QED
    BY <2>1, <2>2
<1>2. /\ actor.cmd.kind = "InjectBridge" => pidOf'[actor.sid] = target
      /\ actor.pc \in {"settle", "drained"} => ~forward'[actor.sid]
  <2>1. actor.cmd.kind = "InjectBridge" \/ actor.pc \in {"settle", "drained"}
          => actor.sid \in 1 .. nextId
    <3>1. actor.cmd.kind = "InjectBridge" => actor.pc = "load"
      BY DEF WatchBase, IInv, TypeOK, ActorState, Receiving, Stopped, NoCommand, BridgeMessageCommand
    <3>2. actor.pc \in {"load", "settle", "drained"} => actor.sid \in Sids
      BY DEF WatchBase, IInv, TypeOK, ActorState, Receiving, Stopped
    <3>3. nextId \in Nat
      BY EngineAssumption DEF WatchBase, IInv, TypeOK
    <3> QED
      BY <3>1, <3>2, <3>3, EngineAssumption DEF WatchBase, IInv, ActorInv, IssuedInv, Sids
  <2> QED
    BY <2>1, IssuedKept DEF WatchBase, TickInv
<1>3. /\ main.st = "ok" => BridgeOf(main.sid, target)'
      /\ injected # Nowhere => BridgeOf(injected.sid, injected.pid)'
  BY BridgeStays DEF WatchBase, TickInv, BridgeOf
<1> QED
  BY <1>1, <1>2, <1>3 DEF WatchBase, TickInv

LEMMA TickActor ==
  ASSUME WatchBase, ActorStep, UNCHANGED <<target, injected>>
  PROVE  TickInv'
<1>0. [Next]_vars
  BY DEF Next
<1>1. \A i \in 1 .. Len(queue') : queue'[i].kind = "InjectBridge" => queue'[i].pid = target
  BY ActorLoads DEF WatchBase, TickInv
<1>2. actor'.cmd.kind = "InjectBridge" => pidOf'[actor'.sid] = target
  BY <1>0, ActorLoads, IssuedKept DEF WatchBase, TickInv
<1>3. actor'.pc \in {"settle", "drained"} => ~forward'[actor'.sid]
  BY ActorLoads DEF WatchBase, TickInv
<1>4. /\ actor'.pc = "stopped" => main'.st = "down"
      /\ main'.st \in {"inject", "ok", "err"} => target # 0
      /\ target # 0 => main'.st \in {"free", "inject", "ok", "err"}
  <2>1. Told /\ (actor'.pc = "stopped" => actor = actor' \/ main'.st = "down")
    BY ActorTold DEF WatchBase
  <2>2. actor.pc = "stopped" => FALSE
    BY DEF ActorStep, OpenDevice, HandleInjectBridge, HandleRun, LoadFails, LoadSucceeds, DrainRun,
           FinishRun, HandlePull, HandleKill, HandleMalformed, HandleDiagnostic, HandleShutdown, ReceiveOp,
           Receive
  <2> QED
    BY <2>1, <2>2 DEF Told, Main, WatchBase, TickInv
<1>5. main'.st = "ok" => BridgeOf(main.sid, target)' 
  <2>1. Told
    BY ActorTold DEF WatchBase
  <2>2. CASE main' = main
    BY <1>0, <2>2, BridgeStays DEF WatchBase, TickInv, BridgeOf
  <2>3. CASE main' = Main("ok", actor.sid) /\ actor.pc = "load" /\ actor.cmd.kind = "InjectBridge"
             /\ forward[actor.sid]
    <3>1. actor.sid \in 1 .. nextId
      <4>1. actor.sid \in Sids /\ nextId \in Nat
        BY <2>3, EngineAssumption DEF WatchBase, IInv, TypeOK, ActorState, Receiving, Stopped
      <4> QED
        BY <2>3, <4>1 DEF WatchBase, IInv, ActorInv, Sids
    <3>2. BridgeOf(actor.sid, target)
      BY <2>3, <3>1 DEF BridgeOf, WatchBase, TickInv
    <3>3. main'.sid = actor.sid
      BY <2>3 DEF Main
    <3> QED
      BY <1>0, <3>2, <3>3, BridgeStays DEF WatchBase, BridgeOf
  <2> QED
    BY <2>1, <2>2, <2>3 DEF Told, Main
<1>6. injected # Nowhere => BridgeOf(injected.sid, injected.pid)'
  BY <1>0, BridgeStays DEF WatchBase, TickInv, BridgeOf
<1> QED
  BY <1>1, <1>2, <1>3, <1>4, <1>5, <1>6 DEF TickInv

LEMMA TickNext ==
  ASSUME WatchBase, [WatchNext]_allVars
  PROVE  TickInv'
<1>0. [Next]_vars
  BY WatchStep DEF WatchBase
<1>1. CASE EngineStep /\ ActorStep
  BY <1>1, TickActor DEF EngineStep, watchVars
<1>2. ASSUME \/ HandlerStep
             \/ BridgeStep
             \/ \E p : ProcessExit(p) \/ ProcessStart(p)
             \/ UNCHANGED vars,
             UNCHANGED <<target, injected>>
      PROVE  TickInv'
  <2>1. UNCHANGED <<actor, main>>
    BY <1>2 DEF HandlerStep, BufferMessage, BridgeStep, ForwardMessage, Forward, ReceiveReply,
                ProcessExit, ProcessStart, vars
  <2>2. \/ UNCHANGED queue
        \/ \E b \in 1 .. nextId, r \in Requests : queue' = Append(queue, BridgeMessage(b, r))
    BY <1>2 DEF HandlerStep, BufferMessage, BridgeStep, ForwardMessage, Forward, TrySend,
                ReceiveReply, ProcessExit, ProcessStart, vars
  <2>3. ASSUME NEW b \in 1 .. nextId, NEW r \in Requests
        PROVE  BridgeMessage(b, r) \in Command /\ BridgeMessage(b, r).kind = "BridgeMessage"
    <3>1. b \in Sids
      BY EngineAssumption DEF WatchBase, IInv, TypeOK, Sids
    <3> QED
      BY <3>1 DEF BridgeMessage, Command, BridgeMessageCommand
  <2> QED
    BY <1>0, <1>2, <2>1, <2>2, <2>3, TickOther
<1>3. CASE UNCHANGED vars /\ main.st = "free" /\ target = 0 /\ injected' \in {injected, Nowhere}
  <2>1. UNCHANGED <<queue, actor, main, nextId, pidOf, forward>>
    BY <1>3 DEF vars, sessionVars
  <2>2. \A i \in 1 .. Len(queue) : queue[i].kind # "InjectBridge"
    BY <1>3 DEF WatchBase, OneMainCommand
  <2>3. actor.cmd.kind # "InjectBridge"
    BY <1>3 DEF WatchBase, OneMainCommand
  <2>4. injected' # Nowhere => BridgeOf(injected.sid, injected.pid)'
    BY <1>3, <2>1 DEF WatchBase, TickInv, BridgeOf
  <2>5. main'.st = "free"
    BY <1>3, <2>1
  <2> QED
    BY <2>1, <2>2, <2>3, <2>4, <2>5 DEF WatchBase, TickInv
<1>4. CASE Inject
  <2>1. PICK c : c = [kind |-> "InjectBridge", pid |-> target]
    OBVIOUS
  <2>2. c \in Command /\ c.kind = "InjectBridge" /\ c.pid = target
    BY <1>4, <2>1, WatchdogAssumption DEF Inject, WatchBase, WatchTypeOK, Command, InjectBridgeCommand
  <2>3. /\ target # 0 /\ main.st = "free" /\ queue' = Append(queue, c) /\ main' = Main("inject", 0)
        /\ UNCHANGED <<actor, nextId, pidOf, forward, target, injected>>
    BY <1>4, <2>1 DEF Inject, SendInjectBridge, mainKeeps, sessionVars, watchVars
  <2>4. \A i \in 1 .. Len(queue') : queue'[i].kind = "InjectBridge" => queue'[i].pid = target
    BY <2>2, <2>3, QueueAppend DEF WatchBase, TickInv
  <2>5. main'.st = "inject" /\ actor.pc # "stopped"
    BY <2>3 DEF Main, WatchBase, TickInv
  <2>6. injected # Nowhere => BridgeOf(injected.sid, injected.pid)'
    BY <2>3 DEF WatchBase, TickInv, BridgeOf
  <2> QED
    BY <2>3, <2>4, <2>5, <2>6 DEF WatchBase, TickInv
<1>5. CASE InjectReturns
  <2>1. /\ main.st \in {"ok", "err"} /\ main' = Main("free", 0) /\ target' = 0 /\ target # 0
        /\ UNCHANGED <<queue, actor, nextId, pidOf, forward>>
        /\ injected' = IF main.st = "ok" THEN [pid |-> target, sid |-> main.sid] ELSE injected
    BY <1>5 DEF InjectReturns, MainResumes, mainKeeps, sessionVars, Outcome
  <2>2. \A i \in 1 .. Len(queue) : queue[i].kind # "InjectBridge"
    BY <2>1 DEF WatchBase, OneMainCommand
  <2>3. actor.cmd.kind # "InjectBridge" /\ actor.pc # "stopped"
    BY <2>1 DEF WatchBase, OneMainCommand, TickInv
  <2>4. injected' # Nowhere => BridgeOf(injected.sid, injected.pid)'
    <3>1. CASE main.st = "ok"
      <4>1. injected'.pid = target /\ injected'.sid = main.sid
        BY <2>1, <3>1
      <4> QED
        BY <2>1, <3>1, <4>1 DEF WatchBase, TickInv, BridgeOf
    <3>2. CASE main.st # "ok"
      BY <2>1, <3>2 DEF WatchBase, TickInv, BridgeOf
    <3> QED
      BY <3>1, <3>2
  <2>5. main'.st = "free"
    BY <2>1 DEF Main
  <2> QED
    BY <2>1, <2>2, <2>3, <2>4, <2>5 DEF WatchBase, TickInv
<1>6. CASE Quit
  <2>1. /\ target = 0 /\ UNCHANGED <<actor, nextId, pidOf, forward, target, injected>>
        /\ main.st \in {"free", "quitting"} /\ main'.st \in {"quitting", "shutdown"}
        /\ UNCHANGED queue \/ queue' = Append(queue, Shutdown)
    BY <1>6 DEF Quit, CtrlC, SendShutdown, mainKeeps, sessionVars, watchVars, Main
  <2>2. Shutdown \in Command /\ Shutdown.kind = "Shutdown"
    BY DEF Command, Shutdown
  <2>3. \A i \in 1 .. Len(queue) : queue[i].kind # "InjectBridge"
    BY <2>1 DEF WatchBase, OneMainCommand
  <2>4. \A i \in 1 .. Len(queue') : queue'[i].kind # "InjectBridge"
    BY <2>1, <2>2, <2>3, QueueAppend DEF WatchBase
  <2>5. actor.cmd.kind # "InjectBridge" /\ actor.pc # "stopped"
    BY <2>1 DEF WatchBase, OneMainCommand, TickInv
  <2>6. injected # Nowhere => BridgeOf(injected.sid, injected.pid)'
    BY <2>1 DEF WatchBase, TickInv, BridgeOf
  <2> QED
    BY <2>1, <2>4, <2>5, <2>6 DEF WatchBase, TickInv
<1>7. CASE TickStep
  <2>1. ASSUME (\E k \in 0 .. MarkersRead : LookBegins(k) \/ NoPackageFound(k)) \/ LookEnds
        PROVE  TickInv'
    <3>1. UNCHANGED <<vars, target>> /\ main.st = "free" /\ target = 0 /\ injected' \in {injected, Nowhere}
      BY <2>1 DEF LookBegins, NoPackageFound, LookEnds, BetweenTicks, WatchBase, WatchTypeOK
    <3> QED
      BY <1>3, <3>1
  <2>2. CASE ReadEntry
    <3>1. UNCHANGED vars /\ main.st = "free" /\ target = 0 /\ injected' = injected
      BY <2>2 DEF ReadEntry, SeesPid, SkipsPid, WatchBase, WatchTypeOK, NoLook
    <3> QED
      BY <1>3, <3>1
  <2> QED
    BY <1>4, <1>5, <1>7, <2>1, <2>2 DEF TickStep
<1>8. CASE GGExits \/ (\E p \in Pids : GGStarts(p) \/ OtherStarts(p)) \/ UNCHANGED allVars
  BY <1>2, <1>8 DEF GGExits, GGStarts, OtherStarts, allVars, watchVars
<1> QED
  BY <1>1, <1>2, <1>6, <1>7, <1>8, WatchdogAssumption DEF WatchNext, EngineStep, watchVars

-----------------------------------------------------------------------------
(* The type invariant.                                                     *)

(* While main() waits for a tick, only a tick or ctrl-c moves it.          *)
LEMMA FreeStays ==
  ASSUME WatchBase, EngineStep \/ GGExits \/ (\E p : GGStarts(p) \/ OtherStarts(p)),
         main.st = "free"
  PROVE  main' = main
<1>1. CASE ActorStep
  BY <1>1, ActorTold DEF WatchBase, Told
<1>2. CASE ~ActorStep
  BY <1>2 DEF EngineStep, GGExits, GGStarts, OtherStarts, HandlerStep, BufferMessage, BridgeStep,
              ForwardMessage, Forward, ReceiveReply, ProcessExit, ProcessStart
<1> QED
  BY <1>1, <1>2

(* Which steps start and end processes.                                    *)
LEMMA AliveChanges ==
  ASSUME WatchBase, [WatchNext]_allVars
  PROVE  \/ alive' = alive /\ gg' = gg
         \/ \E p \in Pids \ GGPids : alive' \in {alive \ {p}, alive \cup {p}} /\ gg' = gg
         \/ gg # 0 /\ alive' = alive \ {gg} /\ gg' = 0
         \/ \E p \in GGPids : gg = 0 /\ alive' = alive \cup {p} /\ gg' = p
<1>1. CASE EngineStep
  <2>1. ActorStep => alive' = alive
    BY ActorTold DEF WatchBase
  <2> QED
    BY <1>1, <2>1 DEF EngineStep, HandlerStep, BufferMessage, BridgeStep, ForwardMessage, Forward,
                      ReceiveReply, ProcessExit, ProcessStart, watchVars
<1>2. CASE TickStep \/ Quit
  BY <1>2 DEF TickStep, LookBegins, NoPackageFound, ReadEntry, LookEnds, Inject, InjectReturns, Quit,
              CtrlC, SendShutdown, SendInjectBridge, MainResumes, mainKeeps, watchVars, vars
<1>3. CASE \/ GGExits \/ UNCHANGED allVars
           \/ \E p \in GGPids : GGStarts(p)
           \/ \E p \in Pids \ GGPids : OtherStarts(p)
  BY <1>3 DEF GGExits, GGStarts, OtherStarts, ProcessExit, ProcessStart, allVars, vars, watchVars
<1> QED
  BY <1>1, <1>2, <1>3 DEF WatchNext

LEMMA PackageKnown ==
  ASSUME NEW k \in Nat
  PROVE  FindPackage(k) \in Range(Marked) \cup {Override, NoPackage}
<1>1. Len(Marked) \in Nat /\ DOMAIN Marked = 1 .. Len(Marked)
  BY WatchdogAssumption, LenProperties
<1> QED
  BY <1>1 DEF FindPackage, Range

LEMMA WatchTypeNext ==
  ASSUME WatchBase, IInv', TickInv', [WatchNext]_allVars
  PROVE  WatchTypeOK'
<1>0. TypeOK' /\ WatchTypeOK
  BY DEF IInv, WatchBase
<1>1. gg' \in (GGPids \cap alive') \cup {0}
  BY <1>0, AliveChanges DEF WatchTypeOK
<1>2. starts' \in Seq(GGPids) /\ Len(starts') <= MaxStarts
  <2>1. CASE starts' = starts
    BY <1>0, <2>1 DEF WatchTypeOK
  <2>2. ASSUME NEW p \in GGPids, Len(starts) < MaxStarts, starts' = Append(starts, p)
        PROVE  starts' \in Seq(GGPids) /\ Len(starts') <= MaxStarts
    <3>1. starts \in Seq(GGPids) /\ Len(starts) \in Nat
      BY <1>0, LenProperties DEF WatchTypeOK
    <3> QED
      BY <2>2, <3>1, AppendProperties, WatchdogAssumption
  <2>3. starts' = starts \/ \E p \in GGPids : Len(starts) < MaxStarts /\ starts' = Append(starts, p)
    BY DEF WatchNext, EngineStep, TickStep, LookBegins, NoPackageFound, ReadEntry, LookEnds, Inject,
           InjectReturns, Quit, GGExits, GGStarts, OtherStarts, allVars, watchVars
  <2> QED
    BY <2>1, <2>2, <2>3
<1>3. misses' \in 0 .. MaxMisses
  <2>1. \/ misses' = misses
        \/ \E k \in 0 .. MarkersRead : Unreadable(k)
        \/ Unreadable(1)
    BY DEF WatchNext, EngineStep, TickStep, LookBegins, NoPackageFound, ReadEntry, SeesPid, SkipsPid,
           LookEnds, Inject, InjectReturns, Quit, GGExits, GGStarts, OtherStarts, allVars, watchVars
  <2> QED
    BY <1>0, <2>1, WatchdogAssumption DEF WatchTypeOK, Unreadable
<1>4. look' \in [pkg : Range(Marked) \cup {Override, NoPackage}, left : SUBSET Pids,
                at : Pids \cup {0}]
  <2> DEFINE Looks == [pkg : Range(Marked) \cup {Override, NoPackage}, left : SUBSET Pids,
                       at : Pids \cup {0}]
  <2>1. CASE look' \in {look, NoLook}
    BY <1>0, <2>1 DEF WatchTypeOK, NoLook
  <2>2. ASSUME NEW k \in 0 .. MarkersRead, look' = [pkg |-> FindPackage(k), left |-> alive, at |-> 0]
        PROVE  look' \in Looks
    <3>1. alive \in SUBSET Pids
      BY DEF WatchBase, IInv, TypeOK
    <3> QED
      BY <2>2, <3>1, PackageKnown
  <2>3. ASSUME NEW p \in look.left, look' = [look EXCEPT !.left = @ \ {p}, !.at = p]
        PROVE  look' \in Looks
    BY <1>0, <2>3 DEF WatchTypeOK
  <2>4. ASSUME NEW p \in Pids, MayBeListed(p)
        PROVE  look' \in Looks
    BY <1>0, <2>4 DEF MayBeListed, WatchTypeOK
  <2>5. \/ look' \in {look, NoLook}
        \/ \E k \in 0 .. MarkersRead : look' = [pkg |-> FindPackage(k), left |-> alive, at |-> 0]
        \/ \E p \in look.left : look' = [look EXCEPT !.left = @ \ {p}, !.at = p]
        \/ \E p \in Pids : MayBeListed(p)
    BY WatchdogAssumption
       DEF WatchNext, EngineStep, TickStep, LookBegins, NoPackageFound, ReadEntry, SeesPid, SkipsPid,
           LookEnds, Inject, InjectReturns, Quit, GGExits, GGStarts, OtherStarts, allVars, watchVars
  <2> QED
    BY <2>1, <2>2, <2>3, <2>4, <2>5
<1>5. look' # NoLook => main'.st = "free" /\ target' = 0
  <2>1. CASE EngineStep \/ GGExits \/ (\E p : GGStarts(p) \/ OtherStarts(p))
    <3>1. UNCHANGED target /\ (look = NoLook => look' = NoLook)
      BY <2>1 DEF EngineStep, GGExits, GGStarts, OtherStarts, MayBeListed, watchVars
    <3> QED
      BY <1>0, <2>1, <3>1, FreeStays DEF WatchTypeOK
  <2>2. CASE \/ \E k \in 0 .. MarkersRead : LookBegins(k) \/ NoPackageFound(k)
             \/ LookEnds \/ UNCHANGED allVars
    BY <1>0, <2>2 DEF WatchTypeOK, LookBegins, NoPackageFound, LookEnds, BetweenTicks, allVars,
                      watchVars, vars
  <2>3. CASE ReadEntry
    <3>1. UNCHANGED vars /\ (look' = NoLook \/ target' = target)
      BY <2>3 DEF ReadEntry, SeesPid, SkipsPid
    <3>2. look # NoLook
      BY <2>3 DEF ReadEntry, NoLook
    <3> QED
      BY <1>0, <3>1, <3>2 DEF WatchTypeOK, vars
  <2>4. CASE Inject \/ InjectReturns \/ Quit
    <3>1. look = NoLook /\ look' = look
      BY <1>0, <2>4 DEF WatchTypeOK, Inject, InjectReturns, Quit, watchVars
    <3> QED
      BY <3>1
  <2> QED
    BY <2>1, <2>2, <2>3, <2>4 DEF WatchNext, TickStep
<1>6. injected' \in [pid : GGPids, sid : Sids] \cup {Nowhere}
  <2>1. CASE injected' \in {injected, Nowhere}
    BY <1>0, <2>1 DEF WatchTypeOK
  <2>2. CASE InjectReturns /\ main.st = "ok"
    <3>1. injected' = [pid |-> target, sid |-> main.sid] /\ target # 0
      BY <2>2 DEF InjectReturns, Outcome
    <3>2. target \in GGPids
      BY <1>0, <3>1 DEF WatchTypeOK
    <3>3. main.sid \in Sids
      <4>1. main.sid \in 1 .. nextId
        BY <2>2 DEF WatchBase, TickInv, BridgeOf
      <4> QED
        BY <4>1, EngineAssumption DEF WatchBase, IInv, TypeOK, Sids
    <3> QED
      BY <3>1, <3>2, <3>3
  <2>3. \/ injected' \in {injected, Nowhere}
        \/ InjectReturns /\ main.st = "ok"
    BY DEF WatchNext, EngineStep, TickStep, LookBegins, NoPackageFound, ReadEntry, SeesPid, SkipsPid,
           LookEnds, Inject, InjectReturns, Outcome, Quit, GGExits, GGStarts, OtherStarts, allVars, watchVars
  <2> QED
    BY <2>1, <2>2, <2>3
<1>7. target' \in GGPids \cup {0}
  <2>1. \/ target' \in {target, 0}
        \/ target' = gg
    BY DEF WatchNext, EngineStep, TickStep, LookBegins, NoPackageFound, ReadEntry, SeesPid, SkipsPid,
           LookEnds, Inject, InjectReturns, Quit, GGExits, GGStarts, OtherStarts, allVars, watchVars
  <2> QED
    BY <1>0, <2>1 DEF WatchTypeOK
<1> QED
  BY <1>0, <1>1, <1>2, <1>3, <1>4, <1>5, <1>6, <1>7 DEF WatchTypeOK

LEMMA WatchBaseInit == WatchInit => WatchBase
<1> SUFFICES ASSUME WatchInit
             PROVE  WatchBase
  OBVIOUS
<1>1. IInv /\ OneMainCommand
  BY InitInv, OneMainInit DEF WatchInit
<1>2. WatchTypeOK
  BY <1>1, WatchdogAssumption DEF WatchInit, WatchTypeOK, IInv, NoLook, Nowhere
<1>3. TickInv
  BY DEF WatchInit, Init, TickInv, NoCommand, Main
<1> QED
  BY <1>1, <1>2, <1>3 DEF WatchBase

LEMMA WatchBaseNext == WatchBase /\ [WatchNext]_allVars => WatchBase'
<1> SUFFICES ASSUME WatchBase, [WatchNext]_allVars
             PROVE  WatchBase'
  OBVIOUS
<1>1. IInv' /\ OneMainCommand'
  BY WatchStep, NextInv, OneMainNext DEF WatchBase
<1>2. TickInv'
  BY TickNext
<1>3. WatchTypeOK'
  BY <1>1, <1>2, WatchTypeNext
<1> QED
  BY <1>1, <1>2, <1>3 DEF WatchBase

LEMMA WatchBaseAlways == WatchSpec => []WatchBase
BY WatchBaseInit, WatchBaseNext, PTL DEF WatchSpec

(* The watchdog's variables keep their types, and a look is only under way *)
(* between two injections.                                                 *)
THEOREM WatchTypeCorrect == WatchSpec => []WatchTypeOK
<1>1. WatchBase => WatchTypeOK
  BY DEF WatchBase
<1> QED
  BY <1>1, WatchBaseAlways, PTL

(* The watchdog over the engine is an engine: every theorem about Spec is  *)
(* one about FGGB with its watchdog.                                       *)
THEOREM WatchdogImplementsEngine == WatchSpec => Spec
<1>1. WatchInit => Init
  BY DEF WatchInit
<1>2. WatchBase /\ [WatchNext]_allVars => [Next]_vars
  BY WatchStep DEF WatchBase
<1> QED
  BY <1>1, <1>2, WatchBaseAlways, PTL DEF WatchSpec, Spec

-----------------------------------------------------------------------------
(* Agents and the processes they are in.                                   *)

(* A session is opened, in a running process, ...                          *)
Opens(pid, fwd) ==
  /\ nextId + 1 \in Sids /\ nextId' = nextId + 1
  /\ pid \in alive /\ alive' = alive /\ attached' = attached \cup {nextId + 1}
  /\ pidOf' = [pidOf EXCEPT ![nextId + 1] = pid]
  /\ forward' = [forward EXCEPT ![nextId + 1] = fwd]
  /\ actor = Receiving /\ actor'.pc = "load" /\ actor'.sid = nextId + 1
  /\ UNCHANGED <<main, registry>>
  /\ fwd => \E j \in 1 .. Len(queue) : queue[j].kind = "InjectBridge" /\ queue[j].pid = pid

(* ... or no agent is added, and those of a process that exits go with it. *)
Shrinks ==
  /\ UNCHANGED <<pidOf, forward>> /\ attached' \subseteq attached
  /\ \/ alive \subseteq alive'
     \/ \E p : alive' = alive \ {p} /\ attached' = attached \ SessionsIn(p)

LEMMA OpensOrShrinks ==
  ASSUME IInv, [Next]_vars
  PROVE  Shrinks \/ \E pid, fwd : Opens(pid, fwd)
<1>0. nextId \in Nat
  BY EngineAssumption DEF IInv, TypeOK
<1>1. ASSUME NEW pid, NEW fwd, BeginInject(pid, fwd), actor = Receiving,
             fwd => \E j \in 1 .. Len(queue) : queue[j].kind = "InjectBridge" /\ queue[j].pid = pid
      PROVE  Opens(pid, fwd)
  <2>1. nextId + 1 \in Sids
    BY <1>0, <1>1, EngineAssumption DEF BeginInject, Attachable, Sids
  <2>2. actor' = [pc |-> "load", sid |-> nextId + 1, cmd |-> Head(queue)]
    BY <1>1 DEF BeginInject, FreshId
  <2>3. actor'.pc = "load" /\ actor'.sid = nextId + 1
    BY <2>2
  <2> QED
    BY <1>1, <2>1, <2>3 DEF Opens, BeginInject, Attachable, FreshId
<1>2. CASE HandleInjectBridge
  <2>1. /\ actor = Receiving /\ queue # << >> /\ queue' = Tail(queue)
        /\ Head(queue).kind = "InjectBridge"
    BY <1>2, ReceiveFacts DEF HandleInjectBridge, Receive
  <2>2. 1 \in 1 .. Len(queue) /\ queue[1].kind = "InjectBridge" /\ queue[1].pid = Head(queue).pid
    BY <2>1, QueueTail
  <2>3. CASE BeginInject(Head(queue).pid, TRUE)
    BY <1>1, <2>1, <2>2, <2>3
  <2>4. CASE InjectFails(Head(queue).pid)
    BY <2>4 DEF InjectFails, Shrinks, sessionVars
  <2> QED
    BY <1>2, <2>3, <2>4 DEF HandleInjectBridge
<1>3. CASE HandleRun
  <2>1. actor = Receiving
    BY <1>3, ReceiveOpFacts DEF HandleRun
  <2>2. \/ \E pid : BeginInject(pid, FALSE)
        \/ UNCHANGED <<pidOf, forward, attached, alive>>
    BY <1>3 DEF HandleRun, InjectFails, sessionVars
  <2> QED
    BY <1>1, <2>1, <2>2 DEF Shrinks
<1>4. CASE OpenDevice \/ LoadFails \/ LoadSucceeds \/ DrainRun \/ FinishRun
  BY <1>4 DEF OpenDevice, LoadFails, LoadSucceeds, DrainRun, FinishRun, Kill, Shrinks, sessionVars
<1>5. CASE HandlePull \/ HandleKill \/ HandleMalformed \/ HandleDiagnostic \/ HandleShutdown
  BY <1>5 DEF HandlePull, HandleKill, HandleMalformed, HandleDiagnostic, HandleShutdown, Kill,
              ShutdownAll, Shrinks, sessionVars
<1>6. CASE HandlerStep \/ BridgeStep \/ MainStep \/ UNCHANGED vars
  BY <1>6 DEF HandlerStep, BufferMessage, BridgeStep, ForwardMessage, Forward, ReceiveReply, MainStep,
              SendInjectBridge, MainResumes, CtrlC, SendShutdown, mainKeeps, vars, Shrinks, sessionVars
<1>7. CASE ProcessStep
  BY <1>7 DEF ProcessStep, ProcessExit, ProcessStart, Shrinks, sessionVars
<1> QED
  BY <1>2, <1>3, <1>4, <1>5, <1>6, <1>7 DEF Next, ActorStep

(* Loaded agents are of sessions that were issued.                         *)
LEMMA LoadedIssued ==
  ASSUME IInv
  PROVE  attached \subseteq 1 .. nextId
<1>1. nextId \in Nat /\ attached \subseteq Sids
  BY EngineAssumption DEF IInv, TypeOK
<1> QED
  BY <1>1, EngineAssumption DEF IInv, AgentsRegistered, Opening, ActorInv, IssuedInv, Sids

LEMMA ProcessNext ==
  ASSUME WatchBase, ProcessInv, [WatchNext]_allVars
  PROVE  ProcessInv'
<1>0. /\ IInv /\ TickInv /\ WatchTypeOK /\ nextId \in Nat
      /\ pidOf \in [Sids -> Nat] /\ forward \in [Sids -> BOOLEAN] /\ attached \subseteq 1 .. nextId
  BY EngineAssumption, LoadedIssued DEF WatchBase, IInv, TypeOK
<1>1. alive' \cap GGPids \subseteq {gg'}
  <2>1. gg \in GGPids \cup {0} /\ 0 \notin GGPids
    BY <1>0, WatchdogAssumption DEF WatchTypeOK
  <2>2. alive \cap GGPids \subseteq {gg}
    BY DEF ProcessInv
  <2> QED
    BY <2>1, <2>2, AliveChanges
<1>2. Shrinks \/ \E pid, fwd : Opens(pid, fwd)
  BY <1>0, WatchStep, OpensOrShrinks
<1>3. CASE Shrinks
  <2>1. \A s \in Sids : forward'[s] => pidOf'[s] \in GGPids
    BY <1>3 DEF Shrinks, ProcessInv
  <2>2. ASSUME NEW s \in attached'
        PROVE  pidOf'[s] \in alive'
    <3>1. s \in attached /\ s \in 1 .. nextId /\ pidOf'[s] = pidOf[s] /\ pidOf[s] \in alive
      BY <1>0, <1>3, <2>2 DEF Shrinks, ProcessInv
    <3>2. CASE alive \subseteq alive'
      BY <3>1, <3>2
    <3>3. ASSUME NEW p, alive' = alive \ {p}, attached' = attached \ SessionsIn(p)
          PROVE  pidOf'[s] \in alive'
      BY <2>2, <3>1, <3>3 DEF SessionsIn
    <3> QED
      BY <1>3, <3>2, <3>3 DEF Shrinks
  <2> QED
    BY <1>1, <2>1, <2>2 DEF ProcessInv
<1>4. ASSUME NEW pid, NEW fwd, Opens(pid, fwd)
      PROVE  ProcessInv'
  <2>1. fwd => pid \in GGPids
    <3>1. ASSUME NEW j \in 1 .. Len(queue), queue[j].kind = "InjectBridge", queue[j].pid = pid
          PROVE  pid \in GGPids
      <4>1. pid = target /\ main.st = "inject"
        BY <1>0, <3>1 DEF TickInv, WatchBase, OneMainCommand
      <4> QED
        BY <1>0, <4>1 DEF TickInv, WatchTypeOK
    <3> QED
      BY <1>4, <3>1 DEF Opens
  <2>2. /\ pidOf'[nextId + 1] = pid /\ forward'[nextId + 1] = fwd
        /\ \A s \in Sids : s # nextId + 1 => pidOf'[s] = pidOf[s] /\ forward'[s] = forward[s]
    BY <1>0, <1>4 DEF Opens
  <2>3. \A s \in Sids : forward'[s] => pidOf'[s] \in GGPids
    BY <2>1, <2>2 DEF ProcessInv
  <2>4. ASSUME NEW s \in attached'
        PROVE  pidOf'[s] \in alive'
    <3>1. pid \in alive /\ alive' = alive /\ attached' = attached \cup {nextId + 1}
      BY <1>4 DEF Opens
    <3>2. CASE s = nextId + 1
      BY <2>2, <3>1, <3>2
    <3>3. CASE s \in attached /\ s # nextId + 1
      <4>1. s \in Sids
        BY <3>3 DEF WatchBase, IInv, TypeOK
      <4> QED
        BY <2>2, <3>1, <3>3, <4>1 DEF ProcessInv
    <3> QED
      BY <2>4, <3>1, <3>2, <3>3
  <2> QED
    BY <1>1, <2>3, <2>4 DEF ProcessInv
<1> QED
  BY <1>2, <1>3, <1>4

-----------------------------------------------------------------------------
(* What the watchdog does with its own variables.                          *)

LEMMA WatchKinds ==
  ASSUME [WatchNext]_allVars
  PROVE  \/ UNCHANGED <<gg, starts, target, injected, look, misses>>
         \/ \E k \in 0 .. MarkersRead :
              /\ UNCHANGED <<gg, starts, target, injected>> /\ Unreadable(k) /\ BetweenTicks
              /\ FindPackage(k) # NoPackage /\ look' = [pkg |-> FindPackage(k), left |-> alive, at |-> 0]
         \/ \E k \in 0 .. MarkersRead :
              /\ UNCHANGED <<gg, starts, target, look>> /\ Unreadable(k) /\ BetweenTicks
              /\ FindPackage(k) = NoPackage /\ injected' = Nowhere
         \/ /\ UNCHANGED <<gg, starts, injected, misses>> /\ look # NoLook
            /\ look.pkg = GGPackage /\ look' = NoLook
            /\ target' = IF IsNew(gg) THEN gg ELSE 0
         \/ \E p : /\ UNCHANGED <<gg, starts, target, injected>> /\ look # NoLook
                   /\ IF p = gg /\ look.pkg = GGPackage THEN Unreadable(1) ELSE UNCHANGED misses
                   /\ look' = [look EXCEPT !.left = @ \ {p}, !.at = p]
         \/ /\ UNCHANGED <<gg, starts, target, misses>> /\ look # NoLook /\ look.left = {}
            /\ look' = NoLook /\ injected' = Nowhere
         \/ /\ UNCHANGED <<gg, starts, misses, look>> /\ InjectReturns
         \/ /\ UNCHANGED <<starts, target, injected, misses, look>> /\ gg # 0 /\ gg' = 0
         \/ \E p : UNCHANGED <<gg, starts, target, injected, misses>> /\ MayBeListed(p)
         \/ \E p \in GGPids : /\ UNCHANGED <<target, injected, misses>> /\ MayBeListed(p)
                              /\ gg = 0 /\ gg' = p /\ starts' = Append(starts, p)
                              /\ PidReuse \/ \A i \in 1 .. Len(starts) : starts[i] # p
<1>1. CASE EngineStep \/ Quit \/ Inject \/ UNCHANGED allVars
  BY <1>1 DEF EngineStep, Quit, Inject, allVars, watchVars
<1>2. CASE \E k \in 0 .. MarkersRead : LookBegins(k) \/ NoPackageFound(k)
  BY <1>2 DEF LookBegins, NoPackageFound
<1>3. CASE ReadEntry
  <2>1. look # NoLook
    BY <1>3 DEF ReadEntry, NoLook
  <2> QED
    BY <1>3, <2>1 DEF ReadEntry, SeesPid, SkipsPid
<1>4. CASE LookEnds \/ GGExits
  BY <1>4 DEF LookEnds, GGExits
<1>5. CASE InjectReturns
  BY <1>5 DEF InjectReturns
<1>6. CASE \E p \in GGPids : GGStarts(p)
  BY <1>6 DEF GGStarts
<1>7. CASE \E p \in Pids \ GGPids : OtherStarts(p)
  BY <1>7 DEF OtherStarts
<1> QED
  BY <1>1, <1>2, <1>3, <1>4, <1>5, <1>6, <1>7 DEF WatchNext, TickStep

LEMMA StartsGrow ==
  ASSUME WatchTypeOK, NEW p \in GGPids, starts' = Append(starts, p)
  PROVE  /\ Range(starts') = Range(starts) \cup {p}
         /\ (\A i \in 1 .. Len(starts) : starts[i] # p) => p \notin Range(starts)
<1>1. starts \in Seq(GGPids) /\ Len(starts) \in Nat /\ DOMAIN starts = 1 .. Len(starts)
  BY LenProperties DEF WatchTypeOK
<1>2. /\ starts' \in Seq(GGPids) /\ Len(starts') = Len(starts) + 1
      /\ \A i \in 1 .. Len(starts) : starts'[i] = starts[i]
      /\ starts'[Len(starts) + 1] = p
  BY <1>1, AppendProperties
<1>3. DOMAIN starts' = 1 .. Len(starts) + 1
  BY <1>2, LenProperties
<1>4. Range(starts') \subseteq Range(starts) \cup {p}
  <2> SUFFICES ASSUME NEW i \in 1 .. Len(starts) + 1
               PROVE  starts'[i] \in Range(starts) \cup {p}
    BY <1>3 DEF Range
  <2> QED
    BY <1>1, <1>2 DEF Range
<1>5. Range(starts) \cup {p} \subseteq Range(starts')
  <2>1. \A i \in 1 .. Len(starts) : i \in 1 .. Len(starts) + 1 /\ starts[i] = starts'[i]
    BY <1>1, <1>2
  <2>2. Len(starts) + 1 \in 1 .. Len(starts) + 1
    BY <1>1
  <2> QED
    BY <1>1, <1>2, <1>3, <2>1, <2>2 DEF Range
<1>6. (\A i \in 1 .. Len(starts) : starts[i] # p) => p \notin Range(starts)
  BY <1>1 DEF Range
<1> QED
  BY <1>4, <1>5, <1>6

LEMMA HistoryNext ==
  ASSUME WatchBase, HistoryInv, [WatchNext]_allVars
  PROVE  HistoryInv'
<1>0. /\ WatchTypeOK /\ 0 \notin GGPids /\ Nowhere.pid = 0
      /\ gg \in GGPids \cup {0} /\ (injected # Nowhere => injected.pid \in GGPids)
  BY WatchdogAssumption DEF WatchBase, WatchTypeOK, Nowhere
<1>1. CASE /\ UNCHANGED <<gg, starts>> /\ target' = target
           /\ injected' = injected \/ (injected' = Nowhere /\ target = 0)
  BY <1>0, <1>1 DEF HistoryInv
<1>2. CASE UNCHANGED <<gg, starts, injected>> /\ target' = IF IsNew(gg) THEN gg ELSE 0
  BY <1>0, <1>2 DEF HistoryInv, IsNew
<1>3. CASE InjectReturns
  <2>1. /\ UNCHANGED <<gg, starts>> /\ target' = 0
        /\ injected' = injected \/ injected' = [pid |-> target, sid |-> main.sid]
    BY <1>3 DEF InjectReturns, Outcome
  <2>2. injected'.pid \in {injected.pid, target}
    BY <2>1
  <2> QED
    BY <2>1, <2>2 DEF HistoryInv
<1>4. CASE UNCHANGED <<starts, target, injected>> /\ gg' = 0
  BY <1>0, <1>4 DEF HistoryInv
<1>5. ASSUME NEW p \in GGPids, UNCHANGED <<target, injected>>, gg' = p, starts' = Append(starts, p),
             PidReuse \/ \A i \in 1 .. Len(starts) : starts[i] # p
      PROVE  HistoryInv'
  <2>1. Range(starts') = Range(starts) \cup {p}
    BY <1>0, <1>5, StartsGrow
  <2>2. ~PidReuse => p \notin Range(starts)
    BY <1>0, <1>5, StartsGrow
  <2> QED
    BY <1>0, <1>5, <2>1, <2>2 DEF HistoryInv
<1> QED
  <2>1. look # NoLook => target = 0
    BY <1>0 DEF WatchTypeOK
  <2> QED
    BY <1>1, <1>2, <1>3, <1>4, <1>5, <2>1, WatchKinds DEF BetweenTicks

(* An entry that cannot be read is counted.                                *)
LEMMA MissCounted ==
  ASSUME WatchTypeOK, NEW k \in Nat, Unreadable(k), misses' = 0
  PROVE  misses = 0 /\ k = 0
BY WatchdogAssumption DEF WatchTypeOK, Unreadable

LEMMA MarkersFinite == MarkersRead \in Nat
BY WatchdogAssumption, LenProperties DEF MarkersRead

(* What a look that has missed nothing forgets, it has looked for.         *)
LEMMA ForgetsGone ==
  ASSUME WatchBase, ProcessInv, HistoryInv, LookInv, ~PidReuse, [WatchNext]_allVars,
         injected # Nowhere, injected' = Nowhere, misses' = 0
  PROVE  injected.pid # gg
<1>0. WatchTypeOK /\ target # 0 => look = NoLook
  BY DEF WatchTypeOK
<1>1. ASSUME NEW k \in 0 .. MarkersRead, Unreadable(k), FindPackage(k) = NoPackage
      PROVE  FALSE
  <2>1. misses = 0 /\ k = 0
    BY <1>1, MissCounted, MarkersFinite DEF WatchBase
  <2> QED
    BY <1>1, <2>1, WatchdogAssumption DEF LookInv
<1>2. CASE UNCHANGED misses /\ look # NoLook /\ look.left = {}
  BY <1>2 DEF LookInv
<1>3. CASE InjectReturns
  <2>1. target # 0 /\ target \in GGPids
    BY <1>3 DEF InjectReturns, WatchBase, WatchTypeOK
  <2>2. injected' = injected \/ injected' = [pid |-> target, sid |-> main.sid]
    BY <1>3 DEF InjectReturns, Outcome
  <2>3. injected'.pid = 0
    BY DEF Nowhere
  <2>4. injected' = [pid |-> target, sid |-> main.sid] => injected'.pid = target
    OBVIOUS
  <2> QED
    BY <2>1, <2>2, <2>3, <2>4
<1> QED
  BY <1>1, <1>2, <1>3, WatchKinds

LEMMA LookNext ==
  ASSUME WatchBase, WatchBase', ProcessInv, HistoryInv, LookInv, [WatchNext]_allVars
  PROVE  LookInv'
<1> SUFFICES ASSUME misses' = 0
             PROVE  /\ look' # NoLook => look'.pkg = FindPackage(0)
                    /\ target' # 0 \/ injected' # Nowhere => FindPackage(0) = GGPackage
                    /\ ~PidReuse /\ look' # NoLook /\ injected' # Nowhere /\ injected'.pid = gg'
                         => gg' \in look'.left
  BY DEF LookInv
<1>0. /\ WatchTypeOK /\ 0 \notin GGPids /\ (injected # Nowhere => injected.pid \in GGPids)
      /\ (target # 0 => look = NoLook)
  BY WatchdogAssumption DEF WatchBase, WatchTypeOK
<1>1. CASE UNCHANGED <<gg, starts, target, injected, look, misses>>
  BY <1>1 DEF LookInv
<1>2. ASSUME NEW k \in 0 .. MarkersRead, UNCHANGED <<gg, starts, target, injected>>, Unreadable(k),
             look' = [pkg |-> FindPackage(k), left |-> alive, at |-> 0]
      PROVE  LookInv'
  <2>1. misses = 0 /\ k = 0
    BY <1>0, <1>2, MissCounted, MarkersFinite
  <2>2. look'.pkg = FindPackage(0) /\ look'.left = alive
    BY <1>2, <2>1
  <2>3. gg \in GGPids => gg \in alive
    BY <1>0 DEF WatchTypeOK
  <2> QED
    BY <1>0, <1>2, <2>1, <2>2, <2>3 DEF LookInv
<1>3. ASSUME NEW k \in 0 .. MarkersRead, UNCHANGED <<gg, starts, target, look>>, Unreadable(k),
             BetweenTicks, injected' = Nowhere
      PROVE  LookInv'
  BY <1>3 DEF LookInv, BetweenTicks
<1>4. CASE /\ UNCHANGED <<gg, starts, injected, misses>> /\ look # NoLook
           /\ look.pkg = GGPackage /\ look' = NoLook
  BY <1>4 DEF LookInv
<1>5. ASSUME NEW p, UNCHANGED <<gg, starts, target, injected>>, look # NoLook,
             IF p = gg /\ look.pkg = GGPackage THEN Unreadable(1) ELSE UNCHANGED misses,
             look' = [look EXCEPT !.left = @ \ {p}, !.at = p]
      PROVE  LookInv'
  <2>1. ~(p = gg /\ look.pkg = GGPackage) /\ misses = 0
    BY <1>0, <1>5, MissCounted
  <2>2. look'.pkg = look.pkg /\ look'.left = look.left \ {p}
    BY <1>0, <1>5 DEF WatchTypeOK
  <2>3. ASSUME ~PidReuse, injected # Nowhere, injected.pid = gg
        PROVE  gg \in look'.left
    <3>1. gg \in look.left /\ look.pkg = GGPackage
      BY <1>5, <2>1, <2>3 DEF LookInv
    <3> QED
      BY <2>1, <2>2, <3>1
  <2> QED
    BY <1>5, <2>1, <2>2, <2>3 DEF LookInv
<1>6. CASE UNCHANGED <<gg, starts, target, misses>> /\ look' = NoLook /\ injected' = Nowhere
  BY <1>6 DEF LookInv
<1>7. CASE UNCHANGED <<gg, misses, look>> /\ InjectReturns
  BY <1>0, <1>7 DEF InjectReturns, LookInv
<1>8. CASE UNCHANGED <<starts, target, injected, misses, look>> /\ gg' = 0
  BY <1>0, <1>8 DEF LookInv
<1>9. ASSUME NEW p, MayBeListed(p)
      PROVE  /\ look' # NoLook => look # NoLook
             /\ look'.pkg = look.pkg /\ look.left \subseteq look'.left
  <2>1. look' = [look EXCEPT !.left = @ \cup {p}]
          => look'.pkg = look.pkg /\ look'.left = look.left \cup {p}
    BY <1>0 DEF WatchTypeOK
  <2> QED
    BY <1>9, <2>1 DEF MayBeListed
<1>10. ASSUME NEW p \in GGPids, UNCHANGED <<target, injected, misses>>, MayBeListed(p), gg' = p,
              starts' = Append(starts, p), PidReuse \/ \A i \in 1 .. Len(starts) : starts[i] # p
       PROVE  LookInv'
  <2>1. ~PidReuse /\ injected # Nowhere => injected.pid # p
    BY <1>0, <1>10, StartsGrow DEF HistoryInv
  <2> QED
    BY <1>9, <1>10, <2>1 DEF LookInv
<1>11. ASSUME NEW p, UNCHANGED <<gg, starts, target, injected, misses>>, MayBeListed(p)
       PROVE  LookInv'
  BY <1>9, <1>11 DEF LookInv
<1> QED
  BY <1>1, <1>2, <1>3, <1>4, <1>5, <1>6, <1>7, <1>8, <1>10, <1>11, WatchKinds DEF LookInv

-----------------------------------------------------------------------------
(* The bridges that are loaded.                                            *)

LEMMA BridgeProcess ==
  ASSUME WatchBase, ProcessInv, NEW s \in Bridges
  PROVE  s \in attached /\ forward[s] /\ pidOf[s] = gg
<1>1. s \in attached /\ s \in Sids /\ forward[s]
  BY DEF Bridges, WatchBase, IInv, TypeOK
<1> QED
  BY <1>1 DEF ProcessInv

(* A bridge leaves the actor only for main().                              *)
LEMMA LoadEnds ==
  ASSUME ActorStep, actor.pc = "load", actor.sid \in attached', forward[actor.sid]
  PROVE  main' = Main("ok", actor.sid)
<1>1. LoadFails \/ LoadSucceeds
  BY DEF ActorStep, OpenDevice, HandleInjectBridge, HandleRun, DrainRun, FinishRun,
         HandlePull, HandleKill, HandleMalformed, HandleDiagnostic, HandleShutdown, ReceiveOp, Receive
<1>2. ~LoadFails
  BY DEF LoadFails
<1> QED
  BY <1>1, <1>2 DEF LoadSucceeds

LEMMA BridgesNext ==
  ASSUME WatchBase, ProcessInv, HistoryInv, LookInv, BridgesInv, [WatchNext]_allVars
  PROVE  BridgesInv'
<1> SUFFICES ASSUME ~PidReuse, misses' = 0, NEW s \in Bridges'
             PROVE  \/ injected' # Nowhere /\ s = injected'.sid
                    \/ main'.st = "ok" /\ s = main'.sid
                    \/ actor'.pc = "load" /\ s = actor'.sid
  BY DEF BridgesInv
<1>0. /\ IInv /\ nextId \in Nat /\ WatchTypeOK /\ TickInv /\ misses = 0 /\ [Next]_vars
      /\ forward \in [Sids -> BOOLEAN]
  <2>1. misses \in Nat /\ misses' \in Nat /\ misses <= misses'
    <3>1. misses \in Nat
      BY WatchdogAssumption DEF WatchBase, WatchTypeOK
    <3>2. misses' \in {misses, misses + 1}
      BY WatchKinds DEF Unreadable, InjectReturns
    <3> QED
      BY <3>1, <3>2
  <2> QED
    BY <2>1, WatchStep, EngineAssumption DEF WatchBase, IInv, TypeOK
<1>1. s \in attached' /\ forward'[s]
  BY DEF Bridges
(* A bridge that is new is being loaded.                                   *)
<1>2. CASE s \notin Bridges
  <2>1. CASE Shrinks
    BY <1>1, <1>2, <2>1 DEF Shrinks, Bridges
  <2>2. ASSUME NEW pid, NEW fwd, Opens(pid, fwd)
        PROVE  actor'.pc = "load" /\ s = actor'.sid
    <3>1. CASE s = nextId + 1
      BY <2>2, <3>1 DEF Opens
    <3>2. CASE s # nextId + 1
      BY <1>0, <1>1, <1>2, <2>2, <3>2 DEF Opens, Bridges
    <3> QED
      BY <3>1, <3>2
  <2> QED
    BY <1>0, <2>1, <2>2, OpensOrShrinks
(* The others stay where they were, ...                                    *)
<1>3. CASE s \in Bridges
  <2>1. \/ injected # Nowhere /\ s = injected.sid
        \/ main.st = "ok" /\ s = main.sid
        \/ actor.pc = "load" /\ s = actor.sid
    BY <1>0, <1>3 DEF BridgesInv
  <2>2. injected # Nowhere /\ s = injected.sid => injected.pid = gg
    BY <1>0, <1>3, BridgeProcess DEF TickInv, BridgeOf
  <2>3. CASE UNCHANGED <<actor, main, injected>>
    BY <2>1, <2>3
(* ... or go from the actor to main(), ...                                 *)
  <2>4. CASE ActorStep /\ injected' = injected
    <3>1. main.st = "ok" => main' = main
      BY <1>0, <2>4, ActorTold DEF WatchBase, Told
    <3>2. actor.pc = "load" /\ s = actor.sid => main'.st = "ok" /\ s = main'.sid
      BY <1>1, <1>3, <2>4, LoadEnds DEF Main, Bridges
    <3> QED
      BY <2>1, <2>4, <3>1, <3>2
(* ... from there into what it remembers, ...                              *)
  <2>5. CASE InjectReturns
    <3>1. /\ target # 0 /\ UNCHANGED actor
          /\ injected' = IF main.st = "ok" THEN [pid |-> target, sid |-> main.sid] ELSE injected
      BY <2>5 DEF InjectReturns, MainResumes, mainKeeps, Outcome
    <3>2. ~(injected # Nowhere /\ s = injected.sid)
      BY <1>0, <2>2, <3>1 DEF HistoryInv
    <3>3. main.st = "ok" => injected' # Nowhere /\ injected'.sid = main.sid
      <4>1. main.st = "ok" => injected'.pid = target /\ injected'.sid = main.sid
        BY <3>1
      <4> QED
        BY <3>1, <4>1 DEF Nowhere
    <3> QED
      BY <2>1, <3>1, <3>2, <3>3
(* ... and are forgotten only with their process.                          *)
  <2>6. CASE injected' = Nowhere /\ UNCHANGED <<actor, main>>
    <3>1. ~(injected # Nowhere /\ s = injected.sid)
      BY <2>2, <2>6, ForgetsGone
    <3> QED
      BY <2>1, <2>6, <3>1
  <2>7. CASE UNCHANGED <<actor, injected>> /\ main.st # "ok"
    BY <2>1, <2>7
  <2>8. CASE EngineStep
    <3>1. injected' = injected
      BY <2>8 DEF EngineStep, watchVars
    <3>2. ActorStep \/ UNCHANGED <<actor, main>>
      BY <2>8 DEF EngineStep, HandlerStep, BufferMessage, BridgeStep, ForwardMessage, Forward,
                  ReceiveReply, ProcessExit, ProcessStart
    <3> QED
      BY <2>3, <2>4, <3>1, <3>2
  <2>9. CASE TickStep /\ ~InjectReturns /\ ~Inject
    <3>1. UNCHANGED vars /\ injected' \in {injected, Nowhere}
      BY <2>9 DEF TickStep, LookBegins, NoPackageFound, ReadEntry, SeesPid, SkipsPid, LookEnds
    <3> QED
      BY <2>3, <2>6, <3>1 DEF vars
  <2>10. CASE Inject \/ Quit
    <3>1. UNCHANGED <<actor, injected>> /\ main.st # "ok"
      BY <2>10 DEF Inject, SendInjectBridge, Quit, CtrlC, SendShutdown, mainKeeps, watchVars
    <3> QED
      BY <2>7, <3>1
  <2>11. CASE GGExits \/ (\E p : GGStarts(p) \/ OtherStarts(p)) \/ UNCHANGED allVars
    <3>1. UNCHANGED <<actor, main, injected>>
      BY <2>11 DEF GGExits, GGStarts, OtherStarts, ProcessExit, ProcessStart, allVars, vars, watchVars
    <3> QED
      BY <2>3, <3>1
  <2> QED
    BY <2>5, <2>8, <2>9, <2>10, <2>11 DEF WatchNext
<1> QED
  BY <1>2, <1>3

-----------------------------------------------------------------------------
(* The watchdog's theorems.                                                *)

WatchAll == WatchBase /\ ProcessInv /\ HistoryInv /\ LookInv /\ BridgesInv

LEMMA WatchAllInit == WatchInit => WatchAll
<1> SUFFICES ASSUME WatchInit
             PROVE  WatchAll
  OBVIOUS
<1>1. WatchBase
  BY WatchBaseInit
<1>2. Range(<< >>) = {}
  BY DEF Range
<1>3. ProcessInv /\ HistoryInv
  BY <1>2 DEF WatchInit, Init, ProcessInv, HistoryInv, Nowhere
<1>4. LookInv /\ BridgesInv
  BY DEF WatchInit, Init, LookInv, BridgesInv, Bridges
<1> QED
  BY <1>1, <1>3, <1>4 DEF WatchAll

LEMMA WatchAllNext == WatchAll /\ [WatchNext]_allVars => WatchAll'
<1> SUFFICES ASSUME WatchAll, [WatchNext]_allVars
             PROVE  WatchAll'
  OBVIOUS
<1>1. WatchBase'
  BY WatchBaseNext DEF WatchAll
<1>2. ProcessInv' /\ HistoryInv' /\ LookInv' /\ BridgesInv'
  BY <1>1, ProcessNext, HistoryNext, LookNext, BridgesNext DEF WatchAll
<1> QED
  BY <1>1, <1>2 DEF WatchAll

LEMMA WatchAlways == WatchSpec => []WatchAll
BY WatchAllInit, WatchAllNext, PTL DEF WatchSpec

(* WatchInv: the watchdog's inductive invariant holds in every state.      *)
THEOREM WatchInvariance == WatchSpec => []WatchInv
<1>1. WatchAll => WatchInv
  BY DEF WatchAll, WatchBase, WatchInv
<1> QED
  BY <1>1, WatchAlways, PTL

(* OneBridgeIfSeen: where pids are not used again and every entry          *)
(* could be read, a GameGuardian process never has two bridges.  A loaded  *)
(* bridge is the one remembered, the one main() is told of or the one      *)
(* being loaded (BridgesInv); the last two are never there at once, and    *)
(* neither is for the process that is remembered (HistoryInv).             *)
THEOREM OneBridgeIfNoneMissed == ~PidReuse => (WatchSpec => []OneBridgeIfSeen)
<1> SUFFICES ASSUME ~PidReuse
             PROVE  WatchSpec => []OneBridgeIfSeen
  OBVIOUS
<1>1. ASSUME WatchAll, misses = 0, NEW s \in Bridges, NEW u \in Bridges
      PROVE  s = u
  <2> DEFINE Remembered(b) == injected # Nowhere /\ b = injected.sid
             Reported(b) == main.st = "ok" /\ b = main.sid
             Loaded(b) == actor.pc = "load" /\ b = actor.sid
  <2>1. ASSUME NEW b \in Bridges
        PROVE  Remembered(b) \/ Reported(b) \/ Loaded(b)
    BY <1>1 DEF WatchAll, BridgesInv
  <2>2. ASSUME NEW b \in Bridges
        PROVE  /\ Remembered(b) => injected.pid = gg
               /\ Reported(b) \/ Loaded(b) => target # 0 /\ target = gg
               /\ Loaded(b) => main.st = "inject"
    <3>1. forward[b] /\ pidOf[b] = gg
      BY <1>1, BridgeProcess DEF WatchAll
    <3>2. Loaded(b) => actor.cmd.kind = "InjectBridge" /\ pidOf[b] = target /\ main.st = "inject"
      BY <1>1, <3>1 DEF WatchAll, WatchBase, IInv, ActorInv, TickInv, OneMainCommand
    <3>3. Remembered(b) => injected.pid = gg
      BY <1>1, <3>1 DEF WatchAll, WatchBase, TickInv, BridgeOf
    <3>4. Reported(b) => pidOf[b] = target
      BY <1>1 DEF WatchAll, WatchBase, TickInv, BridgeOf
    <3>5. main.st \in {"inject", "ok"} => target # 0
      BY <1>1 DEF WatchAll, WatchBase, TickInv
    <3> QED
      BY <3>1, <3>2, <3>3, <3>4, <3>5
  <2>3. target # 0 => injected.pid # target
    BY <1>1 DEF WatchAll, HistoryInv
  <2>4. CASE Remembered(s)
    BY <2>1, <2>2, <2>3, <2>4
  <2>5. CASE Reported(s)
    BY <2>1, <2>2, <2>3, <2>5
  <2>6. CASE Loaded(s)
    BY <2>1, <2>2, <2>3, <2>6
  <2> QED
    BY <2>1, <2>4, <2>5, <2>6
<1>2. WatchAll => OneBridgeIfSeen
  BY <1>1 DEF OneBridgeIfSeen, OneBridgePerProcess
<1> QED
  BY <1>2, WatchAlways, PTL

(* ForgetsOnlyTheGone: where pids are not used again, the watchdog forgets *)
(* a bridge only when its process has gone or an entry could not be read.  *)
THEOREM ForgetsTheGone == ~PidReuse => (WatchSpec => ForgetsOnlyTheGone)
<1> SUFFICES ASSUME ~PidReuse
             PROVE  WatchSpec => ForgetsOnlyTheGone
  OBVIOUS
<1>1. ASSUME WatchAll, WatchAll', [WatchNext]_allVars
      PROVE  [injected # Nowhere /\ injected' = Nowhere => injected.pid # gg \/ misses' > 0]_allVars
  <2>1. ASSUME injected # Nowhere, injected' = Nowhere, ~(misses' > 0)
        PROVE  injected.pid # gg
    <3>1. misses' = 0
      BY <1>1, <2>1, WatchdogAssumption DEF WatchAll, WatchBase, WatchTypeOK
    <3> QED
      BY <1>1, <2>1, <3>1, ForgetsGone DEF WatchAll
  <2> QED
    BY <2>1
<1> QED
  BY <1>1, WatchAlways, PTL DEF WatchSpec, ForgetsOnlyTheGone

(* No script kills a bridge: kill is told the number of any session, and   *)
(* nothing keeps a script from passing a bridge's.                         *)
BridgesSpared ==
  queue # << >> /\ Head(queue).kind = "BridgeMessage" /\ Head(queue).req.op = "kill" =>
    ~(Head(queue).req.sid \in registry /\ forward[Head(queue).req.sid])

(* What main() remembers or is told of is registered until the end.        *)
SparedInv ==
  actor.pc # "stopped" =>
    /\ injected # Nowhere => injected.sid \in registry
    /\ main.st = "ok" => main.sid \in registry

LEMMA RegistryKept ==
  ASSUME WatchBase, BridgesSpared, [Next]_vars, NEW s \in registry, forward[s],
         actor'.pc # "stopped"
  PROVE  s \in registry'
<1>1. CASE FinishRun
  <2>1. s # actor.sid
    BY <1>1 DEF FinishRun, WatchBase, TickInv
  <2> QED
    BY <1>1, <2>1 DEF FinishRun, Kill
<1>2. CASE HandleKill
  <2>1. queue # << >> /\ Head(queue).kind = "BridgeMessage" /\ Head(queue).req.op = "kill"
    BY <1>2, ReceiveOpFacts DEF HandleKill, WatchBase
  <2>2. s # Head(queue).req.sid
    BY <2>1 DEF BridgesSpared
  <2> QED
    BY <1>2, <2>2 DEF HandleKill, Kill
<1>3. CASE HandleShutdown
  BY <1>3 DEF HandleShutdown, Stopped
<1>4. CASE ~(FinishRun \/ HandleKill \/ HandleShutdown)
  BY <1>4 DEF Next, vars, sessionVars, bufferVars, ActorStep, OpenDevice, HandleInjectBridge,
         HandleRun, BeginInject, InjectFails, LoadFails, LoadSucceeds, DrainRun,
         HandlePull, HandleMalformed, HandleDiagnostic, HandlerStep,
         BufferMessage, BridgeStep, ForwardMessage, Forward, ReceiveReply, ProcessStep,
         ProcessExit, ProcessStart, MainStep, SendInjectBridge, MainResumes, CtrlC,
         SendShutdown, mainKeeps
<1> QED
  BY <1>1, <1>2, <1>3, <1>4

LEMMA SparedNext ==
  ASSUME WatchBase, WatchBase', BridgesSpared, SparedInv, [WatchNext]_allVars
  PROVE  SparedInv'
<1> SUFFICES ASSUME actor'.pc # "stopped"
             PROVE  /\ injected' # Nowhere => injected'.sid \in registry'
                    /\ main'.st = "ok" => main'.sid \in registry'
  BY DEF SparedInv
<1>0. [Next]_vars
  BY WatchStep DEF WatchBase
<1>1. actor.pc # "stopped"
  <2>1. CASE actor' = actor
    BY <2>1
  <2>2. CASE ActorStep
    BY <2>2 DEF ActorStep, OpenDevice, HandleInjectBridge, HandleRun, LoadFails, LoadSucceeds,
           DrainRun, FinishRun, HandlePull, HandleKill, HandleMalformed, HandleDiagnostic, HandleShutdown,
           ReceiveOp, Receive
  <2>3. ActorStep \/ actor' = actor
    BY <1>0 DEF Next, vars, HandlerStep, BufferMessage, BridgeStep, ForwardMessage, Forward,
           ReceiveReply, ProcessStep, ProcessExit, ProcessStart, MainStep, SendInjectBridge,
           MainResumes, CtrlC, SendShutdown, mainKeeps
  <2> QED
    BY <2>1, <2>2, <2>3
<1>2. injected # Nowhere => injected.sid \in registry'
  BY <1>0, <1>1, RegistryKept DEF SparedInv, WatchBase, TickInv, BridgeOf
<1>3. main.st = "ok" => main.sid \in registry'
  BY <1>0, <1>1, RegistryKept DEF SparedInv, WatchBase, TickInv, BridgeOf
<1>4. injected' # Nowhere => injected'.sid \in registry'
  <2>1. \/ injected' \in {injected, Nowhere}
        \/ main.st = "ok" /\ injected' = [pid |-> target, sid |-> main.sid]
    BY WatchKinds DEF InjectReturns, Outcome
  <2>2. injected' = [pid |-> target, sid |-> main.sid] => injected'.sid = main.sid
    OBVIOUS
  <2> QED
    BY <1>2, <1>3, <2>1, <2>2
<1>5. main'.st = "ok" => main'.sid \in registry'
  <2>1. CASE main' = main
    BY <1>3, <2>1
  <2>2. CASE ActorStep
    <3>1. Told
      BY <2>2, ActorTold DEF WatchBase
    <3> QED
      BY <2>1, <3>1 DEF Told, Main
  <2>3. CASE MainStep
    <3>1. \E st \in {"inject", "free", "quitting", "shutdown"} : main' = Main(st, 0)
      BY <2>3 DEF MainStep, SendInjectBridge, MainResumes, CtrlC, SendShutdown
    <3> QED
      BY <3>1 DEF Main
  <2>4. ActorStep \/ main' = main \/ MainStep
    BY <1>0 DEF Next, vars, HandlerStep, BufferMessage, BridgeStep, ForwardMessage, Forward,
           ReceiveReply, ProcessStep, ProcessExit, ProcessStart
  <2> QED
    BY <2>1, <2>2, <2>3, <2>4
<1> QED
  BY <1>4, <1>5

(* RemembersBridge: as long as no script kills a bridge, what the watchdog *)
(* remembers between ticks is a registered bridge session of that process, *)
(* even when the process has gone.                                         *)
THEOREM RemembersUnlessKilled == WatchSpec /\ []BridgesSpared => []RemembersBridge
<1>1. WatchInit => SparedInv
  BY DEF WatchInit, Init, SparedInv, Main
<1>2. WatchBase /\ WatchBase' /\ BridgesSpared /\ SparedInv /\ [WatchNext]_allVars => SparedInv'
  BY SparedNext
<1>3. WatchBase /\ SparedInv => RemembersBridge
  BY DEF WatchBase, TickInv, BridgeOf, SparedInv, RemembersBridge
<1> QED
  BY <1>1, <1>2, <1>3, WatchBaseAlways, PTL DEF WatchSpec
==============================================================================
