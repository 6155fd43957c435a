---------------------------- MODULE ChannelProofs -----------------------------
(* No call of the frida table is forgotten, as long as the channel has     *)
(* room for what can be under way at once.                                 *)
EXTENDS ReplyProofs

-----------------------------------------------------------------------------
(* What a step does with the requests in the channel and with the actor.   *)

Serves(b, n) == Queued(b, n) \/ InService(b, n)

LEMMA TailServes ==
  ASSUME IInv, queue # << >>, queue' = Tail(queue), NEW b, NEW n, Queued(b, n)
  PROVE  \/ Queued(b, n)'
         \/ Script(Head(queue)) /\ b = Head(queue).bridge /\ n = Head(queue).req.id
<1>1. PICK i \in 1 .. Len(queue) :
        Script(queue[i]) /\ queue[i].bridge = b /\ queue[i].req.id = n
  BY DEF Queued, Script
<1>2. queue \in Seq(Command) /\ Len(queue) \in Nat
  BY LenProperties DEF IInv, TypeOK
<1>3. /\ Head(queue) = queue[1]
      /\ Len(Tail(queue)) = Len(queue) - 1
      /\ \A j \in 1 .. Len(Tail(queue)) : Tail(queue)[j] = queue[j + 1]
  BY <1>2, HeadTailProperties
<1>4. CASE i = 1
  BY <1>1, <1>3, <1>4
<1>5. CASE i # 1
  <2>1. PICK j \in 1 .. Len(Tail(queue)) : j + 1 = i
    BY <1>2, <1>3, <1>5
  <2> QED
    BY <1>1, <1>3, <2>1 DEF Queued, Script
<1> QED
  BY <1>4, <1>5

LEMMA AppendServes ==
  ASSUME IInv, \E c \in Command : queue' = Append(queue, c), NEW b, NEW n, Queued(b, n)
  PROVE  Queued(b, n)'
<1>1. \A i \in 1 .. Len(queue) : i \in 1 .. Len(queue') /\ queue'[i] = queue[i]
  BY QueueAppend
<1> QED
  BY <1>1 DEF Queued

(* The actor lets go of a request of a loaded bridge only with an answer.  *)
LEMMA ActorServes ==
  ASSUME IInv, IInv', CallInv, ActorStep, NEW b \in attached', NEW n, Serves(b, n)
  PROVE  \/ Serves(b, n)'
         \/ \E r, m : Tells(b, r, m) /\ r.id = n
<1>1. CASE OpenDevice \/ LoadSucceeds
  <2>1. /\ queue' = queue
        /\ actor.cmd.kind = "BridgeMessage" => actor'.cmd = actor.cmd
    BY <1>1 DEF OpenDevice, LoadSucceeds, IInv, TypeOK, ActorInv, ActorState, Receiving,
                Stopped, NoCommand, InjectBridgeCommand, BridgeMessageCommand
  <2> QED
    BY <2>1 DEF Serves, Queued, InService
<1>2. CASE HandleInjectBridge \/ HandleDiagnostic
  <2>1. /\ actor = Receiving /\ queue # << >> /\ queue' = Tail(queue)
        /\ ~Script(Head(queue))
    <3>1. CASE HandleInjectBridge
      BY <3>1, ReceiveFacts DEF HandleInjectBridge, Receive, Script
    <3>2. CASE HandleDiagnostic
      BY <3>2, ReceiveOpFacts DEF HandleDiagnostic, Script
    <3> QED
      BY <1>2, <3>1, <3>2
  <2>2. Queued(b, n)
    BY <2>1 DEF Serves, InService, Receiving, NoCommand
  <2> QED
    BY <2>1, <2>2, TailServes DEF Serves
<1>3. CASE HandleRun \/ HandlePull \/ HandleKill \/ HandleMalformed
  <2>1. /\ actor = Receiving /\ queue # << >> /\ queue' = Tail(queue)
        /\ Head(queue).kind = "BridgeMessage"
    BY <1>3, ReceiveOpFacts DEF HandleRun, HandlePull, HandleKill, HandleMalformed
  <2>2. PICK c, r : c = Head(queue).bridge /\ r = Head(queue).req
    OBVIOUS
  <2>3. Queued(b, n)
    BY <2>1 DEF Serves, InService, Receiving, NoCommand
  <2>4. CASE Queued(b, n)'
    BY <2>4 DEF Serves
  <2>5. CASE b = c /\ n = r.id
    <3>1. (HandleRun /\ BeginInject(AsU32(r.pid), FALSE)) \/ \E m : Tells(c, r, m)
      BY <1>3, <2>2, HandleRunTells, HandlePullTells, HandleKillTells, HandleMalformedTells
    <3>2. BeginInject(AsU32(r.pid), FALSE) => InService(c, r.id)'
      BY <2>1, <2>2 DEF BeginInject, InService
    <3> QED
      BY <2>5, <3>1, <3>2 DEF Serves
  <2> QED
    BY <2>1, <2>2, <2>3, <2>4, <2>5, TailServes
<1>4. CASE LoadFails \/ FinishRun
  <2>1. PICK c, r : c = actor.cmd.bridge /\ r = actor.cmd.req
    OBVIOUS
  <2>2. queue' = queue
    BY <1>4 DEF LoadFails, FinishRun
  <2>3. CASE Queued(b, n)
    BY <2>2, <2>3 DEF Serves, Queued
  <2>4. CASE InService(b, n)
    <3>1. LoadFails => ~forward[actor.sid]
      BY <2>4 DEF LoadFails, InService, IInv, ActorInv
    <3>2. \E m : Tells(c, r, m)
      BY <1>4, <2>1, <3>1, LoadFailsTells, FinishRunTells
    <3> QED
      BY <2>1, <2>4, <3>2 DEF InService
  <2> QED
    BY <2>3, <2>4 DEF Serves
<1>5. CASE HandleShutdown
  <2>1. actor'.pc = "stopped"
    BY <1>5 DEF HandleShutdown, Stopped
  <2> QED
    BY <2>1 DEF IInv, AgentsRegistered
<1>6. CASE DrainRun
  <2>1. queue' = queue /\ actor'.cmd = actor.cmd
    BY <1>6 DEF DrainRun
  <2> QED
    BY <2>1 DEF Serves, Queued, InService
<1> QED
  BY <1>1, <1>2, <1>3, <1>4, <1>5, <1>6 DEF ActorStep

(* The handlers, the processes, main and diagnostics take nothing from the *)
(* channel.                                                                *)
LEMMA OtherServes ==
  ASSUME IInv, IInv',
         \/ HandlerStep \/ ProcessStep \/ MainStep \/ UNCHANGED vars
         \/ \E b, r : Forward(b, r),
         NEW b, NEW n, Serves(b, n)
  PROVE  Serves(b, n)'
<1>1. UNCHANGED actor
  BY DEF HandlerStep, BufferMessage, ProcessStep, ProcessExit, ProcessStart, MainStep,
         SendInjectBridge, MainResumes, CtrlC, SendShutdown, mainKeeps, vars, Forward
<1>2. queue' = queue \/ \E c : queue' = Append(queue, c)
  BY DEF HandlerStep, BufferMessage, ProcessStep, ProcessExit, ProcessStart, MainStep,
         SendInjectBridge, MainResumes, CtrlC, SendShutdown, mainKeeps, vars, Forward, TrySend
<1>3. CASE queue' = queue
  BY <1>1, <1>3 DEF Serves, Queued, InService
<1>4. ASSUME NEW c, queue' = Append(queue, c)
      PROVE  Serves(b, n)'
  <2>1. c \in Command
    <3>1. queue \in Seq(Command) /\ queue' \in Seq(Command)
      BY DEF IInv, TypeOK
    <3>2. Len(queue) + 1 \in 1 .. Len(queue') /\ queue'[Len(queue) + 1] = c
      BY <1>4, <3>1
    <3> QED
      BY <3>1, <3>2
  <2> QED
    BY <1>1, <1>4, <2>1, AppendServes DEF Serves, InService
<1> QED
  BY <1>2, <1>3, <1>4

-----------------------------------------------------------------------------
(* A thread that waits is owed something.                                  *)

(* Where the request r of bridge b is, or its reply.                       *)
Placed(b, r) == <<b, r>> \in flight \/ Serves(b, r.id) \/ Answered(b, r.id)

OwedInv ==
  \A t \in Threads :
    thread[t].st = "waiting" /\ thread[t].bridge \in attached
      => Placed(thread[t].bridge, thread[t].req)

(* ForwardHandler's try_send finds room.                                   *)
Room == flight # {} => Len(queue) < Capacity

LEMMA TellsAnswered ==
  ASSUME CallInv, IInv', NEW b, NEW r, NEW m, Tells(b, r, m), b \in attached'
  PROVE  Answered(b, r.id)'
<1>1. b \in registry'
  BY DEF Tells, IInv, AgentsRegistered, Opening
<1> QED
  BY <1>1 DEF Tells, Answered

LEMMA AnsweredStays ==
  ASSUME RepliesLeft \subseteq inbox', NEW b \in attached', NEW n, Answered(b, n)
  PROVE  Answered(b, n)'
BY DEF RepliesLeft, Answered

LEMMA EnginePlaced ==
  ASSUME Base, Base', EngineSide, NEW b \in attached', NEW r, Placed(b, r)
  PROVE  Placed(b, r)'
<1>1. \/ ActorStep
      \/ (HandlerStep \/ ProcessStep \/ MainStep \/ UNCHANGED vars)
  BY BridgeAssumption DEF EngineSide, ProcessStep, MainStep
<1>2. flight' = flight
  BY DEF EngineSide, bridgeVars
<1>3. CASE Serves(b, r.id)
  <2>1. \/ Serves(b, r.id)'
        \/ \E q, m : Tells(b, q, m) /\ q.id = r.id
    BY <1>1, <1>3, ActorServes, OtherServes DEF Base
  <2> QED
    BY <2>1, TellsAnswered DEF Placed, Base
<1>4. CASE Answered(b, r.id)
  <2>1. RepliesLeft \subseteq inbox'
    BY <1>1, ActorTells, OtherSilent DEF Base, Silent, Tells, Collects, RepliesLeft
  <2> QED
    BY <1>4, <2>1, AnsweredStays DEF Placed
<1> QED
  BY <1>2, <1>3, <1>4 DEF Placed

LEMMA DeliverPlaced ==
  ASSUME Base, Base', Room, NEW c, NEW q, Deliver(c, q),
         NEW b \in attached', NEW r, Placed(b, r)
  PROVE  Placed(b, r)'
<1>1. /\ <<c, q>> \in flight /\ flight' = flight \ {<<c, q>>}
      /\ UNCHANGED vars \/ \E d, p : Forward(d, p)
  BY DEF Deliver
<1>2. /\ c \in Sids /\ q \in Requests /\ q.op # "" /\ Known(c, q.id)
      /\ UNCHANGED <<inbox, actor, attached>>
  BY DeliverFacts DEF Base
<1>3. CASE Serves(b, r.id)
  BY <1>1, <1>3, OtherServes DEF Base, Placed
<1>4. CASE Answered(b, r.id)
  BY <1>2, <1>4 DEF Answered, Placed
<1>5. CASE <<b, r>> \in flight /\ <<b, r>> # <<c, q>>
  BY <1>1, <1>5 DEF Placed
<1>6. CASE <<b, r>> = <<c, q>>
  <2>1. b = c /\ r = q /\ b \in attached
    BY <1>2, <1>6
  <2>2. HandlerInstalled(b) /\ actor.pc # "stopped"
    BY <2>1 DEF Base, IInv, AgentsRegistered, Opening, HandlerInstalled, Loading
  <2>3. Len(queue) < Capacity
    BY <1>1 DEF Room
  <2>4. queue' = Append(queue, BridgeMessage(b, r))
    BY <2>1, <2>2, <2>3 DEF Deliver, Forward, TrySend
  <2>5. PICK x : x = BridgeMessage(b, r)
    OBVIOUS
  <2>6. x \in Command /\ x.kind = "BridgeMessage" /\ x.bridge = b /\ x.req = r
    BY <1>2, <2>1, <2>5 DEF BridgeMessage, Command, BridgeMessageCommand
  <2>7. /\ Len(queue) + 1 \in 1 .. Len(queue') /\ queue'[Len(queue) + 1] = x
    BY <2>4, <2>5, <2>6, QueueAppend DEF Base
  <2>8. Queued(b, r.id)'
    BY <1>2, <2>1, <2>6, <2>7 DEF Queued
  <2> QED
    BY <2>8 DEF Placed, Serves
<1> QED
  BY <1>3, <1>4, <1>5, <1>6 DEF Placed

LEMMA OwedNext ==
  ASSUME Base, Base', OwedInv, Room, [SysNext]_sysVars
  PROVE  OwedInv'
<1>0. Grows /\ CallInv /\ CallInv'
  BY SysStep, SessionsGrow DEF Base
<1> SUFFICES ASSUME NEW t \in Threads, thread'[t].st = "waiting",
                    NEW b \in attached', b = thread'[t].bridge, NEW r, r = thread'[t].req
             PROVE  Placed(b, r)'
  BY Zenon DEF OwedInv
<1>1. ASSUME NEW u \in Threads, NEW c \in 1 .. nextId, NEW q \in Requests, Call(u, c, q)
      PROVE  Placed(b, r)'
  <2>1. /\ flight' = flight \cup {<<c, q>>}
        /\ UNCHANGED <<queue, actor, inbox, attached>>
    BY <1>1 DEF Call, vars
  <2>2. CASE t = u
    <3>1. b = c /\ r = q
      <4>1. thread'[u] = [st |-> "waiting", bridge |-> c, req |-> q, ok |-> FALSE, sid |-> 0]
        BY <1>1, CallFacts DEF Base
      <4>2. thread'[u].bridge = c /\ thread'[u].req = q
        BY <4>1
      <4> QED
        BY <2>2, <4>2
    <3> QED
      BY <2>1, <3>1 DEF Placed
  <2>3. CASE t # u
    <3>1. thread'[t] = thread[t]
      BY <1>1, <2>3, CallFacts DEF Base
    <3>2. Placed(b, r)
      BY <2>1, <3>1 DEF OwedInv
    <3> QED
      BY <2>1, <3>2 DEF Placed, Serves, Queued, InService, Answered
  <2> QED
    BY <2>2, <2>3
<1>2. ASSUME NEW u \in Threads, Return(u)
      PROVE  Placed(b, r)'
  <2>1. PICK m \in inbox :
          /\ Expects(u, m) /\ inbox' = inbox \ {m}
          /\ thread'[u].st = "returned"
          /\ \A v \in Threads \ {u} : thread'[v] = thread[v]
          /\ ReceiveReply(m)
    BY <1>2, ReturnFacts DEF Base
  <2>2. UNCHANGED <<queue, actor, attached, flight>>
    BY <1>2, <2>1 DEF Return, ReceiveReply
  <2>3. t # u /\ thread'[t] = thread[t]
    BY <2>1
  <2>4. Placed(b, r)
    BY <2>2, <2>3 DEF OwedInv
  <2>5. ~(m.bridge = b /\ m.id = r.id)
    BY <1>0, <2>1, <2>3 DEF CallInv, ThreadInv, Expects
  <2> QED
    BY <2>1, <2>2, <2>4, <2>5 DEF Placed, Serves, Queued, InService, Answered
<1>3. CASE ~(\E u \in Threads, c \in 1 .. nextId, q \in Requests : Call(u, c, q))
           /\ ~(\E u \in Threads : Return(u))
  <2>1. thread'[t] = thread[t]
    BY <1>3, SysKinds DEF Drops, Answers, Drains
  <2>2. b \in attached
    BY <1>0, <2>1 DEF CallInv, ThreadInv, Known, Grows
  <2>3. Placed(b, r)
    BY <2>1, <2>2 DEF OwedInv
  <2>4. CASE EngineSide
    BY <2>3, <2>4, EnginePlaced
  <2>5. CASE \E f \in flight : Deliver(f[1], f[2])
    <3>1. PICK c, q : Deliver(c, q)
      BY <2>5
    <3> QED
      BY <2>3, <3>1, DeliverPlaced
  <2>6. ASSUME NEW c, Diagnose(c)
        PROVE  Placed(b, r)'
    <3>1. /\ \E d, p : Forward(d, p)
          /\ UNCHANGED <<flight, inbox>>
      BY <2>6 DEF Diagnose, Forward
    <3>2. Serves(b, r.id) => Serves(b, r.id)'
      BY <3>1, OtherServes DEF Base
    <3> QED
      BY <2>3, <3>1, <3>2 DEF Placed, Answered
  <2>7. ASSUME NEW u \in Threads, Unloaded(u)
        PROVE  Placed(b, r)'
    BY <2>3, <2>7 DEF Unloaded, vars, Placed, Serves, Queued, InService, Answered
  <2>8. ASSUME NEW p \in Pids, Exit(p)
        PROVE  Placed(b, r)'
    <3>1. RepliesLeft \subseteq inbox' /\ UNCHANGED <<queue, actor, flight>>
      BY <2>8 DEF Exit, ProcessExit, PostNothing, StillAddressed, RepliesLeft
    <3>2. Answered(b, r.id) => Answered(b, r.id)'
      BY <3>1, AnsweredStays
    <3> QED
      BY <2>3, <3>1, <3>2 DEF Placed, Serves, Queued, InService
  <2>9. CASE UNCHANGED sysVars
    BY <2>3, <2>9 DEF sysVars, vars, bridgeVars, Placed, Serves, Queued, InService, Answered
  <2> QED
    BY <1>3, <2>4, <2>5, <2>6, <2>7, <2>8, <2>9 DEF SysNext, AgentSide
<1> QED
  BY <1>1, <1>2, <1>3

LEMMA OwedAccounts ==
  ASSUME Base, OwedInv
  PROVE  WaitingAccounted
<1> SUFFICES ASSUME NEW t \in Threads, thread[t].st = "waiting",
                    NEW b, b = thread[t].bridge, NEW r, r = thread[t].req,
                    NEW P, P = {p \in {"flight", "queue", "service", "inbox"} :
                                  \/ p = "flight" /\ <<b, r>> \in flight
                                  \/ p = "queue" /\ Queued(b, r.id)
                                  \/ p = "service" /\ InService(b, r.id)
                                  \/ p = "inbox" /\ Answered(b, r.id)}
             PROVE  Cardinality(P) <= 1 /\ (b \in attached => P # {})
  BY DEF WaitingAccounted
<1>1. <<b, r>> \in flight => ~Queued(b, r.id) /\ ~InService(b, r.id) /\ ~Answered(b, r.id)
  BY DEF Base, CallInv, FlightInv
<1>2. Queued(b, r.id) => ~InService(b, r.id) /\ ~Answered(b, r.id)
  BY DEF Base, CallInv, QueueInv, Queued, Script
<1>3. InService(b, r.id) => ~Answered(b, r.id)
  BY DEF Base, CallInv, ServiceInv, InService
<1>4. \A p, q \in P : p = q
  BY <1>1, <1>2, <1>3
<1>5. Cardinality(P) <= 1
  BY <1>4, AtMostOne
<1>6. ASSUME b \in attached
      PROVE  P # {}
  <2>1. \/ <<b, r>> \in flight \/ Queued(b, r.id) \/ InService(b, r.id) \/ Answered(b, r.id)
    BY <1>6 DEF OwedInv, Placed, Serves
  <2> QED
    BY <2>1
<1> QED
  BY <1>5, <1>6

(* WaitingAccounted, as long as a request never finds the channel full:    *)
(* the one thing that can leave a thread in recv().wait() for good is      *)
(* try_send's full channel.                                                *)
THEOREM CallsAccounted == SysSpec /\ []Room => []WaitingAccounted
<1>1. SysInit => OwedInv
  BY DEF SysInit, OwedInv, NoCall
<1>2. Base /\ Base' /\ OwedInv /\ Room /\ [SysNext]_sysVars => OwedInv'
  BY OwedNext
<1>3. Base /\ OwedInv => WaitingAccounted
  BY OwedAccounts
<1> QED
  BY <1>1, <1>2, <1>3, BaseAlways, PTL DEF SysSpec

-----------------------------------------------------------------------------
(* How many requests can be under way.                                     *)

Out(b, n) == InFlight(b, n) \/ Serves(b, n)

LEMMA ActorTakes ==
  ASSUME IInv, ActorStep, NEW b, NEW n, Serves(b, n)'
  PROVE  Serves(b, n)
<1>1. CASE HandleRun \/ HandlePull \/ HandleKill \/ HandleMalformed
           \/ HandleDiagnostic \/ HandleInjectBridge
  <2>1. /\ actor = Receiving /\ queue # << >> /\ queue' = Tail(queue)
        /\ Head(queue).kind = "BridgeMessage" \/ HandleInjectBridge
    BY <1>1, ReceiveFacts, ReceiveOpFacts
    DEF HandleRun, HandlePull, HandleKill, HandleMalformed, HandleDiagnostic,
        HandleInjectBridge, Receive
  <2>2. /\ 1 \in 1 .. Len(queue) /\ queue[1] = Head(queue)
        /\ \A i \in 1 .. Len(queue') : i + 1 \in 1 .. Len(queue) /\ queue'[i] = queue[i + 1]
    BY <2>1, QueueTail
  <2>3. Queued(b, n)' => Queued(b, n)
    BY <2>2 DEF Queued
  <2>4. InService(b, n)' => Queued(b, n)
    <3>1. SUFFICES ASSUME InService(b, n)'
                   PROVE  Queued(b, n)
      OBVIOUS
    <3>2. actor' # actor
      BY <2>1, <3>1 DEF InService, Receiving, NoCommand
    <3>3. CASE HandleRun
      <4>1. /\ actor'.cmd = Head(queue) /\ Head(queue).req.op = "run"
        BY <3>2, <3>3 DEF HandleRun, BeginInject, InjectFails, ReceiveOp
      <4> QED
        BY <2>2, <3>1, <4>1 DEF InService, Queued
    <3>4. CASE HandleInjectBridge
      <4>1. actor'.cmd = Head(queue) /\ Head(queue).kind = "InjectBridge"
        BY <3>2, <3>4 DEF HandleInjectBridge, BeginInject, InjectFails, Receive
      <4> QED
        BY <3>1, <4>1 DEF InService
    <3> QED
      BY <1>1, <3>2, <3>3, <3>4 DEF HandlePull, HandleKill, HandleMalformed, HandleDiagnostic
  <2> QED
    BY <2>3, <2>4 DEF Serves
<1>2. CASE OpenDevice \/ LoadFails \/ LoadSucceeds \/ DrainRun \/ FinishRun
  <2>1. /\ queue' = queue
        /\ actor'.cmd.kind = "BridgeMessage" => actor'.cmd = actor.cmd
    <3>1. CASE LoadSucceeds /\ actor' = [actor EXCEPT !.pc = "settle"]
      BY <3>1 DEF LoadSucceeds, IInv, TypeOK, ActorState, Receiving, Stopped
    <3>2. CASE queue' = queue /\ actor' \in {Receiving, Stopped}
      BY <3>2 DEF Receiving, Stopped, NoCommand
    <3>3. CASE DrainRun
      BY <3>3 DEF DrainRun
    <3> QED
      BY <1>2, <3>1, <3>2, <3>3 DEF OpenDevice, LoadFails, LoadSucceeds, FinishRun
  <2> QED
    BY <2>1 DEF Serves, Queued, InService
<1>3. CASE HandleShutdown
  <2>1. Len(queue') = 0
    BY <1>3 DEF HandleShutdown
  <2>2. ~InService(b, n)'
    BY <1>3 DEF HandleShutdown, Stopped, NoCommand, InService
  <2>3. 1 .. Len(queue') = {}
    BY <2>1
  <2> QED
    BY <2>2, <2>3 DEF Serves, Queued
<1> QED
  BY <1>1, <1>2, <1>3 DEF ActorStep

LEMMA OtherTakes ==
  ASSUME IInv, IInv', NEW b, NEW n, Serves(b, n)', UNCHANGED actor,
         queue' = queue \/ \E c : ~(Script(c) /\ c.bridge = b /\ c.req.id = n)
                                   /\ queue' = Append(queue, c)
  PROVE  Serves(b, n)
<1>1. CASE queue' = queue
  BY <1>1 DEF Serves, Queued, InService
<1>2. ASSUME NEW c, ~(Script(c) /\ c.bridge = b /\ c.req.id = n), queue' = Append(queue, c)
      PROVE  Serves(b, n)
  <2>1. queue \in Seq(Command) /\ queue' \in Seq(Command)
    BY DEF IInv, TypeOK
  <2>2. c \in Command
    <3>1. Len(queue) + 1 \in 1 .. Len(queue') /\ queue'[Len(queue) + 1] = c
      BY <1>2, <2>1
    <3> QED
      BY <2>1, <3>1
  <2>3. \A i \in 1 .. Len(queue') :
          \/ i \in 1 .. Len(queue) /\ queue'[i] = queue[i]
          \/ queue'[i] = c
    BY <1>2, <2>2, QueueAppend
  <2> QED
    BY <1>2, <2>3 DEF Serves, Queued, InService, Script
<1> QED
  BY <1>1, <1>2

(* A bridge that is not loaded gets no requests under way.                 *)
LEMMA OutKept ==
  ASSUME Base, Base', [SysNext]_sysVars, NEW b \in Sids, b \notin attached', NEW n, Out(b, n)'
  PROVE  Out(b, n) /\ counter'[b] = counter[b]
<1>0. IInv /\ IInv'
  BY DEF Base
<1>1. CASE EngineSide
  <2>1. \/ ActorStep
        \/ (HandlerStep \/ ProcessStep \/ MainStep \/ UNCHANGED vars)
    BY <1>1, BridgeAssumption DEF EngineSide, ProcessStep, MainStep
  <2>2. UNCHANGED <<flight, counter>>
    BY <1>1 DEF EngineSide, bridgeVars
  <2>3. CASE ActorStep
    BY <1>0, <2>2, <2>3, ActorTakes DEF Out, InFlight
  <2>4. CASE HandlerStep \/ ProcessStep \/ MainStep \/ UNCHANGED vars
    <3>1. UNCHANGED actor
      BY <2>4 DEF HandlerStep, BufferMessage, ProcessStep, ProcessExit, ProcessStart, MainStep,
             SendInjectBridge, MainResumes, CtrlC, SendShutdown, mainKeeps, vars
    <3>2. queue' = queue \/ \E c : ~Script(c) /\ queue' = Append(queue, c)
      <4>1. ASSUME NEW p \in Pids, SendInjectBridge(p)
            PROVE  \E c : ~Script(c) /\ queue' = Append(queue, c)
        BY <4>1 DEF SendInjectBridge, Script
      <4>2. ASSUME SendShutdown
            PROVE  \E c : ~Script(c) /\ queue' = Append(queue, c)
        BY <4>2 DEF SendShutdown, Shutdown, Script
      <4> QED
        BY <2>4, <4>1, <4>2 DEF HandlerStep, BufferMessage, ProcessStep, ProcessExit,
           ProcessStart, MainStep, MainResumes, CtrlC, mainKeeps, vars
    <3> QED
      BY <1>0, <2>2, <3>1, <3>2, OtherTakes DEF Out, InFlight
  <2> QED
    BY <2>1, <2>3, <2>4
<1>2. ASSUME NEW c, NEW q, Deliver(c, q)
      PROVE  Out(b, n) /\ counter'[b] = counter[b]
  <2>1. /\ flight' \subseteq flight /\ <<c, q>> \in flight
        /\ UNCHANGED <<counter, actor>>
        /\ queue' = queue \/ queue' = Append(queue, BridgeMessage(c, q))
    BY <1>2, DeliverFacts DEF Deliver, Base, vars
  <2>2. InFlight(c, q.id)
    <3>1. PICK f \in flight : f = <<c, q>>
      BY <2>1
    <3> QED
      BY <3>1 DEF InFlight
  <2>3. CASE c = b /\ q.id = n
    BY <2>1, <2>2, <2>3 DEF Out
  <2>4. CASE ~(c = b /\ q.id = n)
    <3>1. Serves(b, n)' => Serves(b, n)
      BY <1>0, <2>1, <2>4, OtherTakes DEF BridgeMessage
    <3> QED
      BY <2>1, <3>1 DEF Out, InFlight
  <2> QED
    BY <2>3, <2>4
<1>3. ASSUME NEW c, Diagnose(c)
      PROVE  Out(b, n) /\ counter'[b] = counter[b]
  <2>1. /\ UNCHANGED <<counter, flight, actor>>
        /\ queue' = queue \/ queue' = Append(queue, BridgeMessage(c, Diagnostic))
    BY <1>3 DEF Diagnose, Forward, TrySend
  <2>2. ~Script(BridgeMessage(c, Diagnostic))
    BY DEF BridgeMessage, Diagnostic, Script
  <2>3. Serves(b, n)' => Serves(b, n)
    BY <1>0, <2>1, <2>2, OtherTakes
  <2> QED
    BY <2>1, <2>3 DEF Out, InFlight
<1>4. ASSUME NEW t \in Threads, NEW c \in 1 .. nextId, NEW q \in Requests, Call(t, c, q)
      PROVE  Out(b, n) /\ counter'[b] = counter[b]
  <2>1. /\ UNCHANGED <<queue, actor, attached>> /\ flight' = flight \cup {<<c, q>>}
        /\ c \in attached /\ counter' = [counter EXCEPT ![c] = q.id]
    BY <1>4 DEF Call, vars
  <2>2. b # c /\ counter'[b] = counter[b]
    BY <2>1 DEF Base, SysTypeOK
  <2>3. \A f \in flight' : f[1] = b => f \in flight
    BY <2>1, <2>2
  <2> QED
    BY <2>1, <2>2, <2>3 DEF Out, InFlight, Serves, Queued, InService
<1>5. CASE \/ UNCHANGED sysVars
           \/ \E t \in Threads : Return(t) \/ Unloaded(t)
           \/ \E p \in Pids : Exit(p)
  <2>1. UNCHANGED <<queue, actor, flight, counter>>
    BY <1>5 DEF sysVars, vars, bridgeVars, Return, ReceiveReply, Unloaded, Exit, ProcessExit
  <2> QED
    BY <2>1 DEF Out, InFlight, Serves, Queued, InService
<1>6. CASE \E f \in flight : Deliver(f[1], f[2])
  BY <1>2, <1>6
<1> QED
  BY <1>1, <1>3, <1>4, <1>5, <1>6 DEF SysNext, AgentSide

LEMMA OutstandingFinite ==
  ASSUME Base, NEW b \in Sids
  PROVE  /\ IsFiniteSet(Outstanding(b))
         /\ \A n : Out(b, n) => n \in Outstanding(b)
         /\ \A n \in Outstanding(b) : Out(b, n)
<1>1. counter[b] \in Nat
  BY DEF Base, SysTypeOK
<1>2. IsFiniteSet(1 .. counter[b])
  BY <1>1, FS_Interval
<1>3. IsFiniteSet(Outstanding(b))
  BY <1>2, FS_Subset DEF Outstanding
<1>4. ASSUME NEW n, Out(b, n)
      PROVE  n \in Outstanding(b)
  <2>1. Known(b, n)
    BY <1>4 DEF Out, Serves, InFlight, Queued, InService, Base, CallInv, FlightInv, QueueInv,
                ServiceInv, Script
  <2> QED
    BY <1>4, <2>1 DEF Known, Outstanding, Out, Serves
<1> QED
  BY <1>3, <1>4 DEF Outstanding, Out, Serves

LEMMA LoadedOwners ==
  ASSUME Base, NEW b \in attached, b \in Sids
  PROVE  Cardinality(Outstanding(b)) <= Cardinality(Threads)
<1> DEFINE Owns(t, n) == thread[t].st = "waiting" /\ thread[t].bridge = b /\ thread[t].req.id = n
           owner == [n \in Outstanding(b) |-> CHOOSE t \in Threads : Owns(t, n)]
<1>1. ASSUME NEW n \in Outstanding(b)
      PROVE  \E t \in Threads : Owns(t, n)
  <2>1. Out(b, n)
    BY <1>1, OutstandingFinite
  <2>2. \E r : Awaited(b, r) /\ r.id = n
    BY <2>1 DEF Out, Serves, InFlight, Queued, InService, Base, CallInv, FlightInv, QueueInv,
                ServiceInv, Script
  <2> QED
    BY <2>2 DEF Awaited, Awaits
<1>2. \A n \in Outstanding(b) : owner[n] \in Threads /\ Owns(owner[n], n)
  BY <1>1
<1>3. \A m, n \in Outstanding(b) : owner[m] = owner[n] => m = n
  BY <1>2
<1>4. owner \in [Outstanding(b) -> Threads]
  BY <1>2
<1>5. owner \in Injection(Outstanding(b), Threads)
  BY <1>3, <1>4 DEF Injection, IsInjective
<1> QED
  BY <1>5, FS_Injection, BridgeAssumption

LoadedOwned == \A b \in attached : Cardinality(Outstanding(b)) <= Cardinality(Threads)

LEMMA LoadedOwnersAlways == Base => LoadedOwned
<1> SUFFICES ASSUME Base
             PROVE  LoadedOwned
  OBVIOUS
<1>1. attached \subseteq Sids
  BY DEF Base, IInv, TypeOK
<1> QED
  BY <1>1, LoadedOwners DEF LoadedOwned

LEMMA LoadedOwnersAfter == Base' => LoadedOwned'
BY LoadedOwnersAlways, PTL

LEMMA OwnersNext ==
  ASSUME Base, Base', OwnersInv, [SysNext]_sysVars
  PROVE  OwnersInv'
<1> SUFFICES ASSUME NEW b \in Sids
             PROVE  Cardinality(Outstanding(b)') <= Cardinality(Threads)
  BY DEF OwnersInv
<1>1. CASE b \in attached'
  BY <1>1, LoadedOwnersAfter, Zenon DEF LoadedOwned
<1>2. CASE b \notin attached'
  <2>1. Outstanding(b)' \subseteq Outstanding(b)
    BY <1>2, OutKept, OutstandingFinite DEF Outstanding, Out, Serves
  <2>2. Cardinality(Outstanding(b)') <= Cardinality(Outstanding(b))
    BY <2>1, OutstandingFinite, FS_Subset
  <2>3. Cardinality(Outstanding(b)') \in Nat /\ Cardinality(Outstanding(b)) \in Nat
        /\ Cardinality(Threads) \in Nat
    BY <2>1, OutstandingFinite, FS_Subset, FS_CardinalityType, BridgeAssumption
  <2> QED
    BY <2>2, <2>3 DEF OwnersInv
<1> QED
  BY <1>1, <1>2

-----------------------------------------------------------------------------
(* The channel has room for everything that can be under way at once.      *)

Injective(f, S) == \A x, y \in S : f[x] = f[y] => x = y

LEMMA FitsInto ==
  ASSUME NEW S, NEW T, IsFiniteSet(S), IsFiniteSet(T), Cardinality(S) <= Cardinality(T)
  PROVE  \E f \in [S -> T] : Injective(f, S)
<1>1. PICK n \in Nat, k \in Nat : n = Cardinality(S) /\ k = Cardinality(T)
  BY FS_CardinalityType
<1>2. PICK g : g \in Bijection(1 .. k, T)
  BY <1>1, FS_CardinalityType DEF ExistsBijection
<1>3. PICK h : h \in Bijection(S, 1 .. n)
  <2>1. /\ IsFiniteSet(1 .. n)
        /\ Cardinality(1 .. n) = n
    BY <1>1, FS_Interval
  <2> QED
    BY <1>1, <2>1, FS_SameCardinalityBij DEF ExistsBijection
<1>4. /\ g \in [1 .. k -> T] /\ \A i, j \in 1 .. k : g[i] = g[j] => i = j
      /\ h \in [S -> 1 .. n] /\ \A x, y \in S : h[x] = h[y] => x = y
  BY <1>2, <1>3 DEF Bijection, Injection, IsInjective
<1>5. \A x \in S : h[x] \in 1 .. k
  BY <1>1, <1>4
<1> DEFINE f == [x \in S |-> g[h[x]]]
<1>6. f \in [S -> T] /\ Injective(f, S)
  BY <1>4, <1>5 DEF Injective
<1> QED
  BY <1>6

(* The requests, the diagnostics and the commands of main() in the channel.*)
Scripts == {i \in 1 .. Len(queue) : Script(queue[i])}
Diagnostics == {i \in 1 .. Len(queue) : queue[i].kind = "BridgeMessage" /\ queue[i].req.op = ""}
Mains == {i \in 1 .. Len(queue) : queue[i].kind # "BridgeMessage"}

LEMMA DiagnosticsFinite ==
  ASSUME Len(queue) \in Nat
  PROVE  IsFiniteSet(Diagnostics) /\ Cardinality(Diagnostics) \in Nat
<1>1. IsFiniteSet(1 .. Len(queue))
  BY FS_Interval
<1>2. IsFiniteSet(Diagnostics)
  BY <1>1, FS_Subset DEF Diagnostics
<1> QED
  BY <1>2, FS_CardinalityType

LEMMA QueueSplit ==
  ASSUME Base
  PROVE  /\ Len(queue) \in Nat
         /\ 1 .. Len(queue) = (Scripts \cup Diagnostics) \cup Mains
         /\ IsFiniteSet(1 .. Len(queue)) /\ Cardinality(1 .. Len(queue)) = Len(queue)
<1>1. Len(queue) \in Nat
  BY LenProperties DEF Base, IInv, TypeOK
<1>2. IsFiniteSet(1 .. Len(queue)) /\ Cardinality(1 .. Len(queue)) = Len(queue)
  BY <1>1, FS_Interval
<1>3. 1 .. Len(queue) = (Scripts \cup Diagnostics) \cup Mains
  BY DEF Scripts, Diagnostics, Mains, Script
<1> QED
  BY <1>1, <1>2, <1>3

(* The bridges with a request under way.                                   *)
Busy == {b \in Sids : Outstanding(b) # {}}

(* While a request is on its way, one of the pairs of a busy bridge and a  *)
(* thread is not taken by a request in the channel.                        *)
LEMMA FewScripts ==
  ASSUME Base, OwnersInv, flight # {}
  PROVE  /\ IsFiniteSet(Scripts) /\ Cardinality(Scripts) \in Nat
         /\ Cardinality(Busy) * Cardinality(Threads) \in Nat
         /\ Cardinality(Scripts) < Cardinality(Busy) * Cardinality(Threads)
<1>1. PICK b, r : <<b, r>> \in flight
  <2>1. PICK f \in flight : f \in Sids \X Requests
    BY DEF Base, SysTypeOK
  <2>2. f = <<f[1], f[2]>>
    BY <2>1
  <2> QED
    BY <2>1, <2>2
<1>2. /\ b \in Sids /\ r.op # "" /\ ~Queued(b, r.id) /\ Out(b, r.id)
  <2>1. /\ <<b, r>>[1] = b /\ <<b, r>>[2] = r
    OBVIOUS
  <2>2. b \in Sids
    BY <1>1 DEF Base, SysTypeOK
  <2>3. r.op # "" /\ ~Queued(b, r.id)
    BY <1>1, <2>1, Zenon DEF Base, CallInv, FlightInv
  <2>4. InFlight(b, r.id)
    BY <1>1, <2>1, Zenon DEF InFlight
  <2> QED
    BY <2>2, <2>3, <2>4 DEF Out
<1>3. PICK seat : \A c \in Sids : /\ seat[c] \in [Outstanding(c) -> Threads]
                                 /\ Injective(seat[c], Outstanding(c))
  <2> DEFINE Seat(c, f) == f \in [Outstanding(c) -> Threads] /\ Injective(f, Outstanding(c))
             seats == [c \in Sids |-> CHOOSE f : Seat(c, f)]
  <2>1. ASSUME NEW c \in Sids
        PROVE  Seat(c, seats[c])
    <3>1. IsFiniteSet(Outstanding(c)) /\ Cardinality(Outstanding(c)) <= Cardinality(Threads)
      BY OutstandingFinite DEF OwnersInv
    <3>2. \E f : Seat(c, f)
      BY <3>1, FitsInto, BridgeAssumption
    <3> QED
      BY <3>2
  <2> QED
    BY <2>1
<1>4. r.id \in Outstanding(b)
  BY <1>2, OutstandingFinite
<1>5. ASSUME NEW i \in Scripts
      PROVE  /\ queue[i].bridge \in Sids
             /\ queue[i].req.id \in Outstanding(queue[i].bridge)
  <2>1. i \in 1 .. Len(queue) /\ Script(queue[i])
    BY <1>5 DEF Scripts
  <2>2. Known(queue[i].bridge, queue[i].req.id)
    BY <2>1 DEF Base, CallInv, QueueInv
  <2>3. queue[i].bridge \in Sids
    BY <2>2, EngineAssumption DEF Known, Base, IInv, TypeOK, Sids
  <2>4. Out(queue[i].bridge, queue[i].req.id)
    BY <2>1 DEF Out, Serves, Queued, Script
  <2> QED
    BY <2>3, <2>4, OutstandingFinite
<1> DEFINE All == Busy \X Threads
           taken == <<b, seat[b][r.id]>>
           at == [i \in Scripts |-> <<queue[i].bridge, seat[queue[i].bridge][queue[i].req.id]>>]
<1>6. taken \in All
  BY <1>2, <1>3, <1>4 DEF Busy
<1>7. ASSUME NEW i \in Scripts
      PROVE  at[i] \in All \ {taken}
  <2>1. PICK c, n : c = queue[i].bridge /\ n = queue[i].req.id
    OBVIOUS
  <2>2. c \in Sids /\ n \in Outstanding(c) /\ at[i] = <<c, seat[c][n]>>
    BY <1>5, <2>1
  <2>3. at[i] \in All
    BY <1>3, <2>2 DEF Busy
  <2>4. ~(c = b /\ n = r.id)
    BY <1>2, <2>1 DEF Scripts, Script, Queued
  <2>5. ~(c = b /\ seat[c][n] = seat[b][r.id])
    BY <1>3, <1>4, <2>2, <2>4 DEF Injective
  <2>6. at[i] # taken
    BY <2>2, <2>5
  <2> QED
    BY <2>3, <2>6
<1>8. ASSUME NEW i \in Scripts, NEW j \in Scripts, at[i] = at[j]
      PROVE  i = j
  <2>1. PICK c, n, d, k : /\ c = queue[i].bridge /\ n = queue[i].req.id
                          /\ d = queue[j].bridge /\ k = queue[j].req.id
    OBVIOUS
  <2>2. /\ c \in Sids /\ n \in Outstanding(c) /\ at[i] = <<c, seat[c][n]>>
        /\ d \in Sids /\ k \in Outstanding(d) /\ at[j] = <<d, seat[d][k]>>
    BY <1>5, <2>1
  <2>3. c = d /\ seat[c][n] = seat[d][k]
    BY <1>8, <2>2
  <2>4. n = k
    BY <1>3, <2>2, <2>3 DEF Injective
  <2> QED
    BY <2>1, <2>3, <2>4 DEF Scripts, Base, CallInv, QueueInv
<1>9. at \in Injection(Scripts, All \ {taken})
  <2>1. at \in [Scripts -> All \ {taken}]
    BY <1>7
  <2> QED
    BY <1>8, <2>1 DEF Injection, IsInjective
<1>10. /\ IsFiniteSet(All) /\ Cardinality(All) = Cardinality(Busy) * Cardinality(Threads)
       /\ Cardinality(All) \in Nat
  <2>1. IsFiniteSet(Busy)
    <3>1. IsFiniteSet(Sids) /\ Busy \subseteq Sids
      BY FS_Interval, EngineAssumption DEF Sids, Busy
    <3> QED
      BY <3>1, FS_Subset
  <2>2. IsFiniteSet(All) /\ Cardinality(All) = Cardinality(Busy) * Cardinality(Threads)
    BY <2>1, FS_Product, BridgeAssumption
  <2>3. Cardinality(All) \in Nat
    BY <2>2, FS_CardinalityType
  <2> QED
    BY <2>1, <2>2, <2>3
<1>11. IsFiniteSet(All \ {taken}) /\ Cardinality(All \ {taken}) = Cardinality(All) - 1
  BY <1>6, <1>10, FS_RemoveElement
<1>12. IsFiniteSet(Scripts) /\ Cardinality(Scripts) <= Cardinality(All \ {taken})
  BY <1>9, <1>11, FS_Injection
<1>13. Cardinality(Scripts) \in Nat
  BY <1>12, FS_CardinalityType
<1> QED
  BY <1>10, <1>11, <1>12, <1>13

(* The load under which the channel has room: every thread may have its    *)
(* call under way at each bridge that still has one, a bridge that has     *)
(* gone included, beside the diagnostics that are in the channel.          *)
FewUnderWay ==
  Cardinality(Busy) * Cardinality(Threads) + Cardinality(Diagnostics) < Capacity

ChannelInv == Base /\ OneMainCommand /\ OwnersInv

LEMMA ChannelHasRoom ==
  ASSUME FewUnderWay, ChannelInv
  PROVE  Room
<1> SUFFICES ASSUME flight # {}
             PROVE  Len(queue) < Capacity
  BY DEF Room
<1>1. PICK s \in Nat : /\ s = Cardinality(Scripts) /\ IsFiniteSet(Scripts)
                       /\ s < Cardinality(Busy) * Cardinality(Threads)
  BY FewScripts DEF ChannelInv
<1>2. PICK d \in Nat : d = Cardinality(Diagnostics) /\ IsFiniteSet(Diagnostics)
  BY QueueSplit, DiagnosticsFinite DEF ChannelInv
<1>3. PICK m \in Nat : m = Cardinality(Mains) /\ IsFiniteSet(Mains) /\ m <= 1
  <2>1. \A i, j \in Mains : i = j
    BY DEF Mains, ChannelInv, OneMainCommand
  <2>2. IsFiniteSet(Mains) /\ Cardinality(Mains) <= 1
    BY <2>1, AtMostOne
  <2> QED
    BY <2>2, FS_CardinalityType
<1>4. PICK o \in Nat : o = Cardinality(Scripts \cup Diagnostics) /\ o <= s + d
                       /\ IsFiniteSet(Scripts \cup Diagnostics)
  <2>1. /\ IsFiniteSet(Scripts \cup Diagnostics)
        /\ Cardinality(Scripts \cup Diagnostics) = s + d - Cardinality(Scripts \cap Diagnostics)
    BY <1>1, <1>2, FS_Union
  <2>2. Cardinality(Scripts \cap Diagnostics) \in Nat
    BY <1>1, FS_Subset, FS_CardinalityType
  <2>3. Cardinality(Scripts \cup Diagnostics) \in Nat
    BY <2>1, FS_CardinalityType
  <2> QED
    BY <2>1, <2>2, <2>3
<1>5. Len(queue) \in Nat /\ Len(queue) <= o + m
  <2>1. Len(queue) \in Nat /\ Len(queue) = Cardinality((Scripts \cup Diagnostics) \cup Mains)
    BY QueueSplit DEF ChannelInv
  <2>2. Len(queue) = o + m - Cardinality((Scripts \cup Diagnostics) \cap Mains)
    BY <1>3, <1>4, <2>1, FS_Union
  <2>3. Cardinality((Scripts \cup Diagnostics) \cap Mains) \in Nat
    BY <1>3, FS_Subset, FS_CardinalityType
  <2> QED
    BY <2>1, <2>2, <2>3
<1>6. PICK p \in Nat : p = Cardinality(Busy) * Cardinality(Threads)
  BY FewScripts DEF ChannelInv
<1>7. p + d < Capacity /\ s < p
  BY <1>1, <1>2, <1>6 DEF FewUnderWay
<1> QED
  BY <1>1, <1>2, <1>3, <1>4, <1>5, <1>6, <1>7, EngineAssumption

LEMMA ChannelInit == SysInit => OneMainCommand /\ OwnersInv
<1> SUFFICES ASSUME SysInit
             PROVE  OneMainCommand /\ OwnersInv
  OBVIOUS
<1>1. OneMainCommand
  BY OneMainInit DEF SysInit
<1>2. OwnersInv
  <2> SUFFICES ASSUME NEW b \in Sids
               PROVE  Cardinality(Outstanding(b)) <= Cardinality(Threads)
    BY DEF OwnersInv
  <2>1. counter[b] = 0
    BY DEF SysInit
  <2>2. Outstanding(b) = {}
    BY <2>1 DEF Outstanding
  <2>3. Cardinality({}) = 0 /\ Cardinality(Threads) \in Nat
    BY FS_EmptySet, FS_CardinalityType, BridgeAssumption
  <2> QED
    BY <2>2, <2>3
<1> QED
  BY <1>1, <1>2

LEMMA ChannelNext ==
  ASSUME ChannelInv, Base', [SysNext]_sysVars
  PROVE  ChannelInv'
<1>1. OneMainCommand'
  BY SysStep, OneMainNext DEF ChannelInv, Base
<1>2. OwnersInv'
  BY OwnersNext DEF ChannelInv
<1> QED
  BY <1>1, <1>2 DEF ChannelInv

LEMMA ChannelAlways == SysSpec => []ChannelInv
<1>1. Base /\ OneMainCommand /\ OwnersInv => ChannelInv
  BY DEF ChannelInv
<1>2. ChannelInv /\ Base' /\ [SysNext]_sysVars => ChannelInv'
  BY ChannelNext
<1> QED
  BY <1>1, <1>2, ChannelInit, BaseAlways, PTL DEF SysSpec

(* SysInv: what is known of every request, reply and message, wherever it  *)
(* is, holds in every state, whatever the channel's capacity.              *)
THEOREM SysInvariance == SysSpec => []SysInv
<1>1. ChannelInv /\ TellInv => SysInv
  BY DEF ChannelInv, TellInv, Base, SysInv
<1> QED
  BY <1>1, ChannelAlways, TellAlways, PTL

(* ForwardHandler's try_send finds room for a request whenever the load is *)
(* as FewUnderWay says: a thread has one request under way, its number is  *)
(* not in the channel twice, what the scripts of a closed bridge asked     *)
(* takes no more than that, and main() has one command there at most.      *)
THEOREM RequestsFindRoom == SysSpec => [](FewUnderWay => Room)
<1>1. ChannelInv => (FewUnderWay => Room)
  BY ChannelHasRoom
<1> QED
  BY <1>1, ChannelAlways, PTL

(* WaitingAccounted: in a run whose load is always as FewUnderWay says no  *)
(* call of the frida table is ever forgotten.                              *)
THEOREM NoCallForgotten == SysSpec /\ []FewUnderWay => []WaitingAccounted
<1>1. SysSpec /\ []Room => []WaitingAccounted
  BY CallsAccounted
<1>2. SysSpec => [](FewUnderWay => Room)
  BY RequestsFindRoom
<1> QED
  BY <1>1, <1>2, PTL
==============================================================================
