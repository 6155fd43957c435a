---------------------------- MODULE BridgeProofs -----------------------------
(* The request/reply protocol of the frida table, for every number of      *)
(* threads, bridges, requests and processes.                               *)
EXTENDS Bridge, EngineProofs, FiniteSetTheorems

-----------------------------------------------------------------------------
(* Lemmas.                                                                 *)

(* Every request has a number.                                             *)
LEMMA RequestId ==
  ASSUME NEW r \in Requests, r.op # ""
  PROVE  r.id \in Nat /\ r.op \in {"run", "pull", "kill", "malformed"}
<1>1. CASE r \in RunRequest
  BY <1>1 DEF RunRequest
<1>2. CASE r \in SessionRequest
  BY <1>2 DEF SessionRequest
<1>3. CASE r \in MalformedRequest
  BY <1>3 DEF MalformedRequest
<1>4. CASE r = Diagnostic
  BY <1>4 DEF Diagnostic
<1> QED
  BY <1>1, <1>2, <1>3, <1>4, EngineAssumption

(* Sessions are issued in order, keep their handlers, and once closed stay *)
(* closed.                                                                 *)
Grows ==
  /\ nextId \in Nat /\ nextId' \in Nat /\ nextId <= nextId'
  /\ \A s \in 1 .. nextId : s \in 1 .. nextId' /\ forward'[s] = forward[s]
  /\ \A s \in attached' : s \in 1 .. nextId => s \in attached
  /\ \A s \in registry' : s \in registry \/ (s \in attached /\ s \in Opening)

LEMMA SessionsGrow ==
  ASSUME IInv, [Next]_vars
  PROVE  Grows
<1> DEFINE o == IF actor.pc = "load" THEN actor.sid ELSE 0
<1>1. [Service!Next]_Service!vars
  BY StepService
<1>2. nextId \in Nat /\ nextId' \in {nextId, nextId + 1}
  BY <1>1 DEF Service!Next, Service!vars, Service!Begin, Service!Burn, Service!Commit,
              Service!Abort, Service!Close, Service!Lose, Service!Stop, IInv, TypeOK
<1>3. \A s \in attached' : s \in attached \/ s = nextId + 1
  BY <1>1 DEF Service!Next, Service!vars, Service!Begin, Service!Burn, Service!Commit,
              Service!Abort, Service!Close, Service!Lose, Service!Stop
<1>4. \A s \in registry' : s \in registry \/ (s \in attached /\ s = o)
  BY <1>1 DEF Service!Next, Service!vars, Service!Begin, Service!Burn, Service!Commit,
              Service!Abort, Service!Close, Service!Lose, Service!Stop
<1>5. \A s \in attached : s # 0
  BY DEF IInv, TypeOK, Sids
<1>6. \A s \in registry' : s \in registry \/ (s \in attached /\ s \in Opening)
  BY <1>4, <1>5 DEF Opening
<1>7. \A s \in 1 .. nextId : forward'[s] = forward[s]
  <2>1. \/ forward' = forward
        \/ \E fwd : forward' = [forward EXCEPT ![nextId + 1] = fwd]
    BY DEF Next, vars, sessionVars, bufferVars, ActorStep, OpenDevice, HandleInjectBridge,
           HandleRun, BeginInject, InjectFails, LoadFails, LoadSucceeds, DrainRun, FinishRun,
           HandlePull, HandleKill, HandleMalformed, HandleDiagnostic, HandleShutdown, HandlerStep,
           BufferMessage, BridgeStep, ForwardMessage, Forward, ReceiveReply, ProcessStep,
           ProcessExit, ProcessStart, MainStep, SendInjectBridge, MainResumes, CtrlC,
           SendShutdown, mainKeeps, FreshId
  <2> QED
    BY <1>2, <2>1, EngineAssumption DEF IInv, TypeOK, Sids
<1> QED
  BY <1>2, <1>3, <1>6, <1>7 DEF Grows
-----------------------------------------------------------------------------
(* Requests on their way.                                                  *)

(* Requests in the channel after a step were there before it.              *)
QueueKept(d) ==
  \A i \in 1 .. Len(queue') :
    Script(queue'[i]) => i + d \in 1 .. Len(queue) /\ queue'[i] = queue[i + d]

(* A thread stops waiting only without its bridge.                         *)
ThreadsKept ==
  \A t \in Threads :
    thread'[t] = thread[t] \/ (thread'[t].st # "waiting" /\ thread[t].bridge \notin attached')

(* No request is added.                                                    *)
Quiet ==
  /\ \E d \in {0, 1} : QueueKept(d)
  /\ ThreadsKept
  /\ flight' \subseteq flight
  /\ counter' = counter

LEMMA QueuedKept ==
  ASSUME Quiet
  PROVE  \A b, n : Queued(b, n)' => Queued(b, n)
BY DEF Quiet, QueueKept, Queued, Script

LEMMA InFlightKept ==
  ASSUME Quiet
  PROVE  \A b, n : InFlight(b, n)' => InFlight(b, n)
BY DEF Quiet, InFlight

LEMMA KnownKept ==
  ASSUME Grows, counter' = counter
  PROVE  \A b, n : Known(b, n) => Known(b, n)'
BY DEF Grows, Known

LEMMA AwaitedKept ==
  ASSUME Grows, ThreadsKept
  PROVE  \A b, r : b \in 1 .. nextId /\ b \in attached' /\ (b \in attached => Awaited(b, r))
                     => Awaited(b, r)'
BY DEF Grows, ThreadsKept, Awaited, Awaits

(* A step that adds no request, and moves at most one, with the number n   *)
(* of bridge b, out of the channel or the actor's hands, keeps the others  *)
(* as they were.                                                           *)
Moves(b, n) ==
  /\ Quiet
  /\ ~InFlight(b, n)
  /\ ~Queued(b, n)'
  /\ \A c, k : InService(c, k)' => InService(c, k) \/ (c = b /\ k = n)
  /\ \A c, k : Answered(c, k)' => Answered(c, k) \/ (c = b /\ k = n)

LEMMA FlightKept ==
  ASSUME CallInv, Grows, NEW b, NEW n, Moves(b, n)
  PROVE  FlightInv'
<1>0. \A c, k : ~InService(c, k) /\ ~Answered(c, k) /\ ~(c = b /\ k = n)
                => ~InService(c, k)' /\ ~Answered(c, k)'
  BY DEF Moves
<1>1. /\ flight' \subseteq flight
      /\ \A c, k : Known(c, k) => Known(c, k)'
      /\ \A c, k : Queued(c, k)' => Queued(c, k)
  BY QueuedKept, KnownKept DEF Moves, Quiet
<1>2. ASSUME NEW f \in flight'
      PROVE  /\ f[2].op # "" /\ Known(f[1], f[2].id)'
             /\ ~Queued(f[1], f[2].id)' /\ ~InService(f[1], f[2].id)'
             /\ ~Answered(f[1], f[2].id)'
             /\ f[1] \in attached' => Awaited(f[1], f[2])'
  <2>1. /\ f[2].op # "" /\ Known(f[1], f[2].id)
        /\ ~Queued(f[1], f[2].id) /\ ~InService(f[1], f[2].id) /\ ~Answered(f[1], f[2].id)
        /\ f[1] \in attached => Awaited(f[1], f[2])
    BY <1>1 DEF CallInv, FlightInv
  <2>2. ~(f[1] = b /\ f[2].id = n)
    BY <1>1 DEF Moves, InFlight
  <2>3. ~InService(f[1], f[2].id)' /\ ~Answered(f[1], f[2].id)'
    BY <2>1, <2>2, <1>0
  <2>4. f[1] \in attached' => Awaited(f[1], f[2])'
    BY <2>1, AwaitedKept DEF Moves, Quiet, Known
  <2> QED
    BY <1>1, <2>1, <2>3, <2>4
<1>3. \A f, g \in flight' : f[1] = g[1] /\ f[2].id = g[2].id => f = g
  BY <1>1 DEF CallInv, FlightInv
<1> QED
  BY <1>2, <1>3 DEF FlightInv

LEMMA QueueInvKept ==
  ASSUME CallInv, Grows, NEW b, NEW n, Moves(b, n)
  PROVE  QueueInv'
<1>1. PICK d \in {0, 1} : QueueKept(d)
  BY DEF Moves, Quiet
<1>2. ASSUME NEW i \in 1 .. Len(queue'), NEW c, c = queue'[i], Script(c)
      PROVE  /\ Known(c.bridge, c.req.id)'
             /\ ~InService(c.bridge, c.req.id)'
             /\ ~Answered(c.bridge, c.req.id)'
             /\ c.bridge \in attached' => Awaited(c.bridge, c.req)'
  <2>1. i + d \in 1 .. Len(queue) /\ c = queue[i + d]
    BY <1>1, <1>2 DEF QueueKept
  <2>2. /\ Known(c.bridge, c.req.id)
        /\ ~InService(c.bridge, c.req.id) /\ ~Answered(c.bridge, c.req.id)
        /\ c.bridge \in attached => Awaited(c.bridge, c.req)
    BY <1>2, <2>1 DEF CallInv, QueueInv
  <2>3. Queued(c.bridge, c.req.id)'
    BY <1>2 DEF Queued, Script
  <2>4. ~(c.bridge = b /\ c.req.id = n)
    BY <2>3 DEF Moves
  <2>5. ~InService(c.bridge, c.req.id)' /\ ~Answered(c.bridge, c.req.id)'
    BY <2>2, <2>4 DEF Moves
  <2>6. c.bridge \in attached' => Awaited(c.bridge, c.req)'
    BY <2>2, AwaitedKept DEF Moves, Quiet, Known
  <2> QED
    BY <2>2, <2>5, <2>6, KnownKept DEF Moves, Quiet
<1>3. ASSUME NEW i \in 1 .. Len(queue'), NEW j \in 1 .. Len(queue'),
             Script(queue'[i]), Script(queue'[j]),
             queue'[i].bridge = queue'[j].bridge, queue'[i].req.id = queue'[j].req.id
      PROVE  i = j
  <2>1. i + d = j + d
    BY <1>1, <1>3 DEF QueueKept, CallInv, QueueInv
  <2> QED
    BY <2>1
<1> QED
  BY <1>2, <1>3, Zenon DEF QueueInv, Script

LEMMA ThreadInvKept ==
  ASSUME CallInv, Grows, Quiet
  PROVE  ThreadInv'
<1>1. \A t \in Threads : thread'[t].st = "waiting" => thread'[t] = thread[t]
  BY DEF Quiet, ThreadsKept
<1>2. ASSUME NEW t \in Threads, NEW c, c = thread'[t], c.st = "waiting"
      PROVE  c.req.op # "" /\ Known(c.bridge, c.req.id)'
  <2>1. c = thread[t]
    BY <1>1, <1>2
  <2> QED
    BY <1>2, <2>1, KnownKept DEF Quiet, CallInv, ThreadInv
<1>3. \A t, u \in Threads :
        /\ thread'[t].st = "waiting" /\ thread'[u].st = "waiting"
        /\ thread'[t].bridge = thread'[u].bridge /\ thread'[t].req.id = thread'[u].req.id
        => t = u
  BY <1>1 DEF CallInv, ThreadInv
<1> QED
  BY <1>2, <1>3, Zenon DEF ThreadInv

(* A reply that stays is still awaited.                                    *)
LEMMA RepliesKept ==
  ASSUME CallInv, Grows, Quiet, NEW m \in inbox, m.bridge \in attached', m \in ReplyRecord
  PROVE  /\ Known(m.bridge, m.id)'
         /\ \E t \in Threads : Expects(t, m)' /\ (m.sid # 0 => thread'[t].req.op = "run")
         /\ m.sid <= nextId'
<1>1. Known(m.bridge, m.id)'
  BY KnownKept DEF Quiet, CallInv, InboxInv
<1>2. PICK t \in Threads : Expects(t, m) /\ (m.sid # 0 => thread[t].req.op = "run")
  BY DEF CallInv, InboxInv
<1>3. thread'[t] = thread[t]
  BY <1>2 DEF Quiet, ThreadsKept, Expects
<1>4. m.sid <= nextId'
  <2>1. m.sid \in Int /\ m.sid <= nextId
    BY DEF CallInv, InboxInv, ReplyRecord, Sids
  <2> QED
    BY <2>1 DEF Grows
<1> QED
  BY <1>1, <1>2, <1>3, <1>4 DEF Expects

(* Replies are only taken away, with their bridges.                        *)
RepliesLeft == {m \in inbox : m.bridge \in attached'}

LEMMA AnsweredKept ==
  ASSUME inbox' \subseteq RepliesLeft
  PROVE  \A c, k : Answered(c, k)' => Answered(c, k)
BY DEF Answered, RepliesLeft

LEMMA InboxKept ==
  ASSUME IInv, CallInv, Grows, Quiet, inbox' \subseteq RepliesLeft
  PROVE  InboxInv'
<1>1. ASSUME NEW m \in inbox'
      PROVE  /\ m.bridge \in attached' /\ Known(m.bridge, m.id)'
             /\ \E t \in Threads : Expects(t, m)' /\ (m.sid # 0 => thread'[t].req.op = "run")
             /\ m.sid <= nextId'
  <2>1. m \in inbox /\ m.bridge \in attached' /\ m \in ReplyRecord
    BY DEF RepliesLeft, IInv, TypeOK
  <2> QED
    BY <2>1, RepliesKept
<1>2. \A m, k \in inbox' : m.bridge = k.bridge /\ m.id = k.id => m = k
  BY DEF RepliesLeft, CallInv, InboxInv
<1> QED
  BY <1>1, <1>2 DEF InboxInv

(* Nothing moves.                                                          *)
LEMMA CallsQuiet ==
  ASSUME IInv, CallInv, Grows, Quiet, inbox' \subseteq RepliesLeft,
         actor'.cmd.kind = "BridgeMessage" => actor'.cmd = actor.cmd
  PROVE  CallInv'
<1>1. Moves(0, 0)
  <2>1. \A n : ~Known(0, n)
    BY DEF Known, Grows
  <2>2. ~InFlight(0, 0)
    BY <2>1 DEF InFlight, CallInv, FlightInv
  <2>3. ~Queued(0, 0)
    BY <2>1 DEF Queued, Script, CallInv, QueueInv
  <2>4. \A c, k : InService(c, k)' => InService(c, k)
    BY DEF InService
  <2> QED
    BY <2>2, <2>3, <2>4, QueuedKept, AnsweredKept DEF Moves
<1>2. ServiceInv'
  <2> SUFFICES ASSUME NEW c, c = actor'.cmd, c.kind = "BridgeMessage"
               PROVE  /\ Known(c.bridge, c.req.id)'
                      /\ ~Answered(c.bridge, c.req.id)'
                      /\ c.bridge \in attached' => Awaited(c.bridge, c.req)'
    BY Zenon DEF ServiceInv
  <2>1. /\ Known(c.bridge, c.req.id) /\ ~Answered(c.bridge, c.req.id)
        /\ c.bridge \in attached => Awaited(c.bridge, c.req)
    BY DEF CallInv, ServiceInv
  <2> QED
    BY <2>1, KnownKept, AnsweredKept, AwaitedKept DEF Quiet, Known
<1> QED
  BY <1>1, <1>2, FlightKept, QueueInvKept, ThreadInvKept, InboxKept DEF CallInv

(* A request that is out of the channel, or is the actor's.                *)
Held(b, r) ==
  /\ Known(b, r.id)
  /\ ~InFlight(b, r.id) /\ ~Queued(b, r.id)' /\ ~Answered(b, r.id)
  /\ b \in attached => Awaited(b, r)

(* The actor keeps it, ...                                                 *)
LEMMA CallsTaken ==
  ASSUME IInv, CallInv, Grows, Quiet, inbox' \subseteq RepliesLeft,
         NEW b, NEW r, Held(b, r),
         actor'.cmd.bridge = b, actor'.cmd.req = r
  PROVE  CallInv'
<1>1. Moves(b, r.id)
  <2>1. \A c, k : InService(c, k)' => c = b /\ k = r.id
    BY DEF InService
  <2> QED
    BY <2>1, AnsweredKept DEF Held, Moves
<1>2. ServiceInv'
  <2>1. /\ Known(b, r.id)' /\ ~Answered(b, r.id)'
        /\ b \in attached' => Awaited(b, r)'
    BY KnownKept, AnsweredKept, AwaitedKept DEF Held, Quiet, Known
  <2> QED
    BY <2>1, Zenon DEF ServiceInv
<1> QED
  BY <1>1, <1>2, FlightKept, QueueInvKept, ThreadInvKept, InboxKept DEF CallInv

(* ... or answers it.                                                      *)
LEMMA CallsPosted ==
  ASSUME IInv, CallInv, Grows, Quiet,
         NEW b, NEW r, Held(b, r),
         actor'.cmd.kind # "BridgeMessage",
         NEW m, m.bridge = b, m.id = r.id, m.sid # 0 => r.op = "run", m.sid <= nextId',
         inbox' \subseteq RepliesLeft \cup (IF b \in attached' THEN {m} ELSE {})
  PROVE  CallInv'
<1>1. \A k \in inbox' :
        \/ k \in inbox /\ k.bridge \in attached'
        \/ k = m /\ b \in attached'
  BY DEF RepliesLeft
<1>2. Moves(b, r.id)
  <2>1. \A c, k : Answered(c, k)' => Answered(c, k) \/ (c = b /\ k = r.id)
    BY <1>1 DEF Answered
  <2>2. \A c, k : ~InService(c, k)'
    BY DEF InService
  <2> QED
    BY <2>1, <2>2 DEF Held, Moves
<1>3. ServiceInv'
  BY DEF ServiceInv
<1>4. Known(b, r.id)'
  BY KnownKept DEF Held, Quiet
<1>5. ASSUME b \in attached'
      PROVE  \E t \in Threads : Expects(t, m)' /\ (m.sid # 0 => thread'[t].req.op = "run")
  <2>1. PICK t \in Threads : Awaits(t, b, r)'
    BY <1>5, AwaitedKept DEF Held, Quiet, Known, Awaited
  <2> QED
    BY <2>1 DEF Awaits, Expects
<1>6. InboxInv'
  <2>1. ASSUME NEW k \in inbox'
        PROVE  /\ k.bridge \in attached' /\ Known(k.bridge, k.id)'
               /\ \E t \in Threads : Expects(t, k)' /\ (k.sid # 0 => thread'[t].req.op = "run")
               /\ k.sid <= nextId'
    <3>1. CASE k \in inbox /\ k.bridge \in attached'
      <4>1. k \in ReplyRecord
        BY <3>1 DEF IInv, TypeOK
      <4> QED
        BY <3>1, <4>1, RepliesKept
    <3>2. CASE k = m /\ b \in attached'
      BY <1>4, <1>5, <3>2
    <3> QED
      BY <1>1, <3>1, <3>2
  <2>2. \A k, l \in inbox' : k.bridge = l.bridge /\ k.id = l.id => k = l
    BY <1>1 DEF CallInv, InboxInv, Held, Answered
  <2> QED
    BY <2>1, <2>2 DEF InboxInv
<1> QED
  BY <1>2, <1>3, <1>6, FlightKept, QueueInvKept, ThreadInvKept DEF CallInv

-----------------------------------------------------------------------------
(* The engine's steps.                                                     *)

LEMMA QuietSame ==
  ASSUME IInv, UNCHANGED <<queue, bridgeVars>>
  PROVE  Quiet
<1>1. QueueKept(0) /\ 0 \in {0, 1}
  BY DEF QueueKept
<1> QED
  BY <1>1 DEF Quiet, ThreadsKept, bridgeVars

LEMMA QuietTail ==
  ASSUME IInv, queue # << >>, queue' = Tail(queue), UNCHANGED bridgeVars
  PROVE  Quiet
<1>1. QueueKept(1) /\ 1 \in {0, 1}
  BY QueueTail DEF QueueKept
<1> QED
  BY <1>1 DEF Quiet, ThreadsKept, bridgeVars

(* A command of another kind that is sent moves no request.                *)
LEMMA QuietAppend ==
  ASSUME IInv, NEW c \in Command, ~Script(c), queue' = Append(queue, c),
         ThreadsKept, flight' \subseteq flight, counter' = counter
  PROVE  Quiet
<1>1. QueueKept(0) /\ 0 \in {0, 1}
  BY QueueAppend DEF QueueKept
<1> QED
  BY <1>1 DEF Quiet

(* What the actor holds when it has taken a request from the channel, or   *)
(* works on one.                                                           *)
LEMMA HeadHeld ==
  ASSUME IInv, CallInv, queue # << >>, queue' = Tail(queue), Script(Head(queue)),
         NEW b, NEW r, b = Head(queue).bridge, r = Head(queue).req
  PROVE  Held(b, r)
<1>1. /\ 1 \in 1 .. Len(queue) /\ queue[1] = Head(queue)
      /\ \A i \in 1 .. Len(queue') :
           i \in Nat /\ i + 1 \in 1 .. Len(queue) /\ queue'[i] = queue[i + 1]
  BY QueueTail
<1>2. /\ Known(b, r.id) /\ ~Answered(b, r.id)
      /\ b \in attached => Awaited(b, r)
      /\ Queued(b, r.id)
  BY <1>1 DEF CallInv, QueueInv, Queued, Script
<1>3. ~InFlight(b, r.id)
  BY <1>2 DEF InFlight, CallInv, FlightInv
<1>4. ASSUME NEW i \in 1 .. Len(queue'), Script(queue'[i]),
             queue'[i].bridge = b, queue'[i].req.id = r.id
      PROVE  FALSE
  <2>1. i + 1 = 1
    BY <1>1, <1>4 DEF CallInv, QueueInv
  <2> QED
    BY <1>1, <2>1
<1>5. ~Queued(b, r.id)'
  BY <1>4 DEF Queued, Script
<1> QED
  BY <1>2, <1>3, <1>5 DEF Held

LEMMA ActorHeld ==
  ASSUME IInv, CallInv, actor.cmd.kind = "BridgeMessage", UNCHANGED queue,
         NEW b, NEW r, b = actor.cmd.bridge, r = actor.cmd.req
  PROVE  Held(b, r)
<1>1. /\ Known(b, r.id) /\ ~Answered(b, r.id)
      /\ b \in attached => Awaited(b, r)
      /\ InService(b, r.id)
  BY DEF CallInv, ServiceInv, InService
<1>2. ~InFlight(b, r.id)
  BY <1>1 DEF InFlight, CallInv, FlightInv
<1>3. ~Queued(b, r.id)'
  BY <1>1 DEF Queued, Script, CallInv, QueueInv
<1> QED
  BY <1>1, <1>2, <1>3 DEF Held

LEMMA PostLeft ==
  ASSUME NEW m, Post(m)
  PROVE  inbox' \subseteq RepliesLeft \cup (IF m.bridge \in attached' THEN {m} ELSE {})
BY DEF Post, StillAddressed, RepliesLeft

LEMMA InboxLeft ==
  ASSUME CallInv, UNCHANGED inbox, attached \subseteq attached'
  PROVE  inbox' \subseteq RepliesLeft
BY DEF CallInv, InboxInv, RepliesLeft

LEMMA PostNothingLeft ==
  ASSUME PostNothing
  PROVE  inbox' \subseteq RepliesLeft
BY DEF PostNothing, StillAddressed, RepliesLeft

LEMMA HandleInjectBridgeCalls ==
  ASSUME IInv, CallInv, Grows, HandleInjectBridge, UNCHANGED bridgeVars
  PROVE  CallInv'
<1>1. /\ actor = Receiving /\ queue # << >> /\ queue' = Tail(queue)
      /\ Head(queue).kind = "InjectBridge"
  BY ReceiveFacts DEF HandleInjectBridge, Receive
<1>2. Quiet
  BY <1>1, QuietTail
<1>3. UNCHANGED inbox /\ attached \subseteq attached'
  BY DEF HandleInjectBridge, BeginInject, InjectFails
<1>4. actor'.cmd.kind = "BridgeMessage" => actor'.cmd = actor.cmd
  BY <1>1 DEF HandleInjectBridge, BeginInject, InjectFails
<1> QED
  BY <1>2, <1>3, <1>4, InboxLeft, CallsQuiet

LEMMA HandleRunCalls ==
  ASSUME IInv, CallInv, Grows, HandleRun, UNCHANGED bridgeVars
  PROVE  CallInv'
<1>1. /\ actor = Receiving /\ queue # << >> /\ queue' = Tail(queue)
      /\ Head(queue).kind = "BridgeMessage" /\ Head(queue).req.op = "run"
  BY ReceiveOpFacts DEF HandleRun
<1>2. PICK b, r : b = Head(queue).bridge /\ r = Head(queue).req
  OBVIOUS
<1>3. Held(b, r) /\ Quiet
  BY <1>1, <1>2, HeadHeld, QuietTail DEF Script
<1>4. CASE BeginInject(AsU32(r.pid), FALSE)
  <2>1. actor'.cmd.bridge = b /\ actor'.cmd.req = r
    BY <1>2, <1>4 DEF BeginInject
  <2>2. UNCHANGED inbox /\ attached \subseteq attached'
    BY <1>4 DEF BeginInject
  <2> QED
    BY <1>3, <2>1, <2>2, InboxLeft, CallsTaken
<1>5. CASE Post(Failure(b, r.id)) /\ UNCHANGED actor
  <2>1. PICK m : m = Failure(b, r.id)
    OBVIOUS
  <2>2. /\ m.bridge = b /\ m.id = r.id /\ m.sid = 0
        /\ inbox' \subseteq RepliesLeft \cup (IF b \in attached' THEN {m} ELSE {})
    BY <1>5, <2>1, PostLeft DEF Failure, Reply
  <2>3. actor'.cmd.kind # "BridgeMessage" /\ m.sid <= nextId'
    BY <1>1, <1>5, <2>2 DEF Receiving, NoCommand, Grows
  <2> QED
    BY <1>3, <2>2, <2>3, CallsPosted
<1> QED
  BY <1>2, <1>4, <1>5 DEF HandleRun, InjectFails

LEMMA IssuedNumber ==
  ASSUME Grows
  PROVE  0 <= nextId'
BY DEF Grows

(* The handlers that answer at once.                                       *)
LEMMA AnswerCalls ==
  ASSUME IInv, CallInv, Grows, UNCHANGED <<bridgeVars, actor>>,
         NEW op, op # "", ReceiveOp(op),
         NEW m, m.bridge = Head(queue).bridge, m.id = Head(queue).req.id, m.sid = 0,
         inbox' \subseteq RepliesLeft \cup (IF m.bridge \in attached' THEN {m} ELSE {})
  PROVE  CallInv'
<1>1. /\ actor = Receiving /\ queue # << >> /\ queue' = Tail(queue)
      /\ Head(queue).kind = "BridgeMessage" /\ Head(queue).req.op # ""
  BY ReceiveOpFacts
<1>2. PICK b, r : b = Head(queue).bridge /\ r = Head(queue).req
  OBVIOUS
<1>3. Held(b, r) /\ Quiet
  BY <1>1, <1>2, HeadHeld, QuietTail DEF Script
<1>4. actor'.cmd.kind # "BridgeMessage"
  BY <1>1 DEF Receiving, NoCommand
<1>5. 0 <= nextId'
  BY IssuedNumber
<1>6. m.sid <= nextId' /\ (m.sid # 0 => r.op = "run")
  BY <1>5
<1> QED
  BY <1>2, <1>3, <1>4, <1>6, CallsPosted

LEMMA HandlePullCalls ==
  ASSUME IInv, CallInv, Grows, HandlePull, UNCHANGED bridgeVars
  PROVE  CallInv'
<1>1. PICK q : Post(Reply(Head(queue).bridge, Head(queue).req.id, TRUE, 0, q))
  BY DEF HandlePull
<1>2. PICK m : m = Reply(Head(queue).bridge, Head(queue).req.id, TRUE, 0, q)
  OBVIOUS
<1>3. /\ m.bridge = Head(queue).bridge /\ m.id = Head(queue).req.id /\ m.sid = 0
      /\ inbox' \subseteq RepliesLeft \cup (IF m.bridge \in attached' THEN {m} ELSE {})
  BY <1>1, <1>2 DEF Reply, Post, StillAddressed, RepliesLeft
<1> QED
  BY <1>3, AnswerCalls DEF HandlePull

LEMMA HandleKillCalls ==
  ASSUME IInv, CallInv, Grows, HandleKill, UNCHANGED bridgeVars
  PROVE  CallInv'
<1>1. PICK ok : Post(Reply(Head(queue).bridge, Head(queue).req.id, ok, 0, << >>))
  BY DEF HandleKill
<1>2. PICK m : m = Reply(Head(queue).bridge, Head(queue).req.id, ok, 0, << >>)
  OBVIOUS
<1>3. /\ m.bridge = Head(queue).bridge /\ m.id = Head(queue).req.id /\ m.sid = 0
      /\ inbox' \subseteq RepliesLeft \cup (IF m.bridge \in attached' THEN {m} ELSE {})
  BY <1>1, <1>2 DEF Reply, Post, StillAddressed, RepliesLeft
<1> QED
  BY <1>3, AnswerCalls DEF HandleKill

LEMMA HandleMalformedCalls ==
  ASSUME IInv, CallInv, Grows, HandleMalformed, UNCHANGED bridgeVars
  PROVE  CallInv'
<1>1. PICK m : m = Failure(Head(queue).bridge, Head(queue).req.id)
  OBVIOUS
<1>2. /\ m.bridge = Head(queue).bridge /\ m.id = Head(queue).req.id /\ m.sid = 0
      /\ inbox' \subseteq RepliesLeft \cup (IF m.bridge \in attached' THEN {m} ELSE {})
  BY <1>1 DEF HandleMalformed, Failure, Reply, Post, StillAddressed, RepliesLeft
<1> QED
  BY <1>2, AnswerCalls DEF HandleMalformed

LEMMA HandleDiagnosticCalls ==
  ASSUME IInv, CallInv, Grows, HandleDiagnostic, UNCHANGED bridgeVars
  PROVE  CallInv'
<1>1. queue # << >> /\ queue' = Tail(queue)
  BY ReceiveOpFacts DEF HandleDiagnostic
<1>2. UNCHANGED <<inbox, attached, actor>>
  BY DEF HandleDiagnostic
<1> QED
  BY <1>1, <1>2, QuietTail, InboxLeft, CallsQuiet

LEMMA LoadFailsCalls ==
  ASSUME IInv, CallInv, Grows, LoadFails, UNCHANGED bridgeVars
  PROVE  CallInv'
<1>1. UNCHANGED queue /\ actor' = Receiving /\ actor.pc = "load"
  BY DEF LoadFails
<1>2. Quiet /\ actor'.cmd.kind # "BridgeMessage"
  BY <1>1, QuietSame DEF Receiving, NoCommand
<1>3. CASE forward[actor.sid]
  BY <1>2, <1>3, PostNothingLeft, CallsQuiet DEF LoadFails
<1>4. CASE ~forward[actor.sid]
  <2>1. actor.cmd.kind = "BridgeMessage"
    <3>1. actor.cmd \in InjectBridgeCommand \cup BridgeMessageCommand
      BY <1>1 DEF IInv, TypeOK, ActorState, Receiving, Stopped
    <3> QED
      BY <1>1, <1>4, <3>1 DEF IInv, ActorInv, InjectBridgeCommand, BridgeMessageCommand
  <2>2. PICK b, r : b = actor.cmd.bridge /\ r = actor.cmd.req
    OBVIOUS
  <2>3. Held(b, r)
    BY <1>1, <2>1, <2>2, ActorHeld
  <2>4. PICK m : m = Failure(b, r.id)
    OBVIOUS
  <2>5. /\ m.bridge = b /\ m.id = r.id /\ m.sid = 0 /\ m.sid <= nextId'
        /\ inbox' \subseteq RepliesLeft \cup (IF b \in attached' THEN {m} ELSE {})
    BY <1>4, <2>2, <2>4, PostLeft DEF LoadFails, Failure, Reply, Grows
  <2> QED
    BY <1>2, <2>3, <2>5, CallsPosted
<1> QED
  BY <1>3, <1>4

LEMMA FinishRunCalls ==
  ASSUME IInv, CallInv, Grows, FinishRun, UNCHANGED bridgeVars
  PROVE  CallInv'
<1>1. UNCHANGED queue /\ actor' = Receiving /\ actor.pc = "drained"
  BY DEF FinishRun
<1>2. Quiet /\ actor'.cmd.kind # "BridgeMessage"
  BY <1>1, QuietSame DEF Receiving, NoCommand
<1>3. /\ actor.cmd.kind = "BridgeMessage" /\ actor.cmd.req.op = "run"
      /\ actor.sid \in 1 .. nextId
  <2>1. actor.cmd \in BridgeMessageCommand
    BY <1>1 DEF IInv, TypeOK, ActorState, Receiving, Stopped
  <2> QED
    BY <1>1, <2>1 DEF IInv, ActorInv, IssuedInv, BridgeMessageCommand
<1>4. PICK b, r : b = actor.cmd.bridge /\ r = actor.cmd.req
  OBVIOUS
<1>5. Held(b, r)
  BY <1>1, <1>3, <1>4, ActorHeld
<1>6. PICK m : m = Reply(b, r.id, TRUE, actor.sid, actor.messages)
  OBVIOUS
<1>7. /\ m.bridge = b /\ m.id = r.id /\ m.sid = actor.sid
      /\ inbox' \subseteq RepliesLeft \cup (IF b \in attached' THEN {m} ELSE {})
  BY <1>4, <1>6, PostLeft DEF FinishRun, Reply
<1>8. m.sid <= nextId' /\ r.op = "run"
  BY <1>3, <1>4, <1>7 DEF Grows
<1> QED
  BY <1>2, <1>5, <1>7, <1>8, CallsPosted

LEMMA DrainRunCalls ==
  ASSUME IInv, CallInv, Grows, DrainRun, UNCHANGED bridgeVars
  PROVE  CallInv'
<1>1. UNCHANGED <<queue, inbox, attached>> /\ actor'.cmd = actor.cmd
  BY DEF DrainRun
<1> QED
  BY <1>1, QuietSame, InboxLeft, CallsQuiet

LEMMA LoadSucceedsCalls ==
  ASSUME IInv, CallInv, Grows, LoadSucceeds, UNCHANGED bridgeVars
  PROVE  CallInv'
<1>1. UNCHANGED <<queue, inbox, attached>>
  BY DEF LoadSucceeds
<1>2. actor'.cmd.kind = "BridgeMessage" => actor'.cmd = actor.cmd
  <2>1. actor' = Receiving \/ actor' = [actor EXCEPT !.pc = "settle"]
    BY DEF LoadSucceeds
  <2> QED
    BY <2>1 DEF Receiving, NoCommand, LoadSucceeds, IInv, TypeOK, ActorState, Stopped
<1> QED
  BY <1>1, <1>2, QuietSame, InboxLeft, CallsQuiet

LEMMA HandleShutdownCalls ==
  ASSUME IInv, CallInv, Grows, HandleShutdown, UNCHANGED bridgeVars
  PROVE  CallInv'
<1>1. QueueKept(0) /\ 0 \in {0, 1}
  BY DEF HandleShutdown, QueueKept
<1>2. Quiet
  BY <1>1 DEF Quiet, ThreadsKept, bridgeVars
<1>3. actor'.cmd.kind # "BridgeMessage"
  BY DEF HandleShutdown, Stopped, NoCommand
<1> QED
  BY <1>2, <1>3, PostNothingLeft, CallsQuiet DEF HandleShutdown

LEMMA ActorCalls ==
  ASSUME IInv, CallInv, Grows, ActorStep, UNCHANGED bridgeVars
  PROVE  CallInv'
<1>1. CASE OpenDevice
  <2>1. UNCHANGED <<queue, inbox, attached>> /\ actor'.cmd.kind # "BridgeMessage"
    BY <1>1 DEF OpenDevice, Receiving, Stopped, NoCommand
  <2> QED
    BY <2>1, QuietSame, InboxLeft, CallsQuiet
<1> QED
  BY <1>1, HandleInjectBridgeCalls, HandleRunCalls, LoadFailsCalls, LoadSucceedsCalls,
     DrainRunCalls, FinishRunCalls, HandlePullCalls, HandleKillCalls, HandleMalformedCalls,
     HandleDiagnosticCalls, HandleShutdownCalls
  DEF ActorStep

(* The handlers of targets' scripts, the processes and main.               *)
LEMMA OtherCalls ==
  ASSUME IInv, CallInv, Grows,
         \/ HandlerStep \/ ProcessStep \/ MainStep \/ UNCHANGED vars,
         ThreadsKept, UNCHANGED <<flight, counter>>
  PROVE  CallInv'
<1>1. UNCHANGED actor
  BY DEF HandlerStep, BufferMessage, ProcessStep, ProcessExit, ProcessStart, MainStep,
         SendInjectBridge, MainResumes, CtrlC, SendShutdown, mainKeeps, vars
<1>2. inbox' \subseteq RepliesLeft
  <2>1. CASE \E p \in Pids : ProcessExit(p)
    BY <2>1, PostNothingLeft DEF ProcessExit
  <2>2. CASE UNCHANGED <<inbox, attached>>
    BY <2>2, InboxLeft
  <2> QED
    BY <2>1, <2>2 DEF HandlerStep, BufferMessage, ProcessStep, ProcessStart, MainStep,
       SendInjectBridge, MainResumes, CtrlC, SendShutdown, mainKeeps, vars
<1>3. Quiet
  <2>1. \/ UNCHANGED queue
        \/ \E c \in Command : ~Script(c) /\ queue' = Append(queue, c)
    <3>1. ASSUME NEW p \in Pids, SendInjectBridge(p)
          PROVE  \E c \in Command : ~Script(c) /\ queue' = Append(queue, c)
      BY <3>1 DEF SendInjectBridge, Command, InjectBridgeCommand, Script
    <3>2. ASSUME SendShutdown
          PROVE  \E c \in Command : ~Script(c) /\ queue' = Append(queue, c)
      BY <3>2 DEF SendShutdown, Command, Shutdown, Script
    <3> QED
      BY <3>1, <3>2 DEF HandlerStep, BufferMessage, ProcessStep, ProcessExit, ProcessStart,
         MainStep, MainResumes, CtrlC, mainKeeps, vars
  <2>2. CASE UNCHANGED queue
    <3>1. QueueKept(0) /\ 0 \in {0, 1}
      BY <2>2 DEF QueueKept
    <3> QED
      BY <3>1 DEF Quiet
  <2> QED
    BY <2>1, <2>2, QuietAppend
<1> QED
  BY <1>1, <1>2, <1>3, CallsQuiet

-----------------------------------------------------------------------------
(* The agent's steps.                                                      *)

(* A loaded agent's session has been issued.                               *)
LEMMA AttachedIssued ==
  ASSUME IInv
  PROVE  attached \subseteq 1 .. nextId
<1>1. actor.pc = "load" => actor.sid \in 1 .. nextId
  <2>1. actor.pc = "load" => actor.sid \in Sids
    BY DEF IInv, TypeOK, ActorState, Receiving, Stopped
  <2> QED
    BY <2>1 DEF IInv, ActorInv, TypeOK, Sids
<1> QED
  BY <1>1 DEF IInv, AgentsRegistered, IssuedInv, Opening

(* What a thread's call is, by its state.                                  *)
LEMMA ThreadType ==
  ASSUME SysTypeOK, NEW t \in Threads
  PROVE  /\ thread[t].sid \in Sids \cup {0}
         /\ thread[t].bridge \in Sids \cup {0}
         /\ thread[t].st = "waiting" => thread[t] \in CallState
         /\ thread[t].req \in Requests \cup {Diagnostic}
<1>1. thread[t] \in CallState \cup {NoCall}
  BY DEF SysTypeOK
<1>2. CASE thread[t] \in CallState
  BY <1>2 DEF CallState
<1>3. CASE thread[t] = NoCall
  BY <1>3 DEF NoCall
<1> QED
  BY <1>1, <1>2, <1>3

(* The request that bridge b's handler is given.                           *)
LEMMA DeliverFacts ==
  ASSUME SysTypeOK, CallInv, NEW b, NEW r, Deliver(b, r)
  PROVE  /\ b \in Sids /\ r \in Requests /\ r.op # ""
         /\ Known(b, r.id)
         /\ ~Queued(b, r.id) /\ ~InService(b, r.id) /\ ~Answered(b, r.id)
         /\ b \in attached => Awaited(b, r)
         /\ UNCHANGED <<thread, counter, got, diagnosed, inbox, actor, attached, nextId, forward>>
         /\ \/ UNCHANGED vars
            \/ ForwardMessage(b, r) /\ queue' = queue
            \/ ForwardMessage(b, r) /\ queue' = Append(queue, BridgeMessage(b, r))
<1>1. PICK f \in flight : f = <<b, r>>
  BY DEF Deliver
<1>2. b \in Sids /\ r \in Requests
  BY <1>1 DEF SysTypeOK
<1>3. /\ r.op # "" /\ Known(b, r.id)
      /\ ~Queued(b, r.id) /\ ~InService(b, r.id) /\ ~Answered(b, r.id)
      /\ b \in attached => Awaited(b, r)
  BY <1>1 DEF CallInv, FlightInv
<1>4. \/ UNCHANGED vars
      \/ ForwardMessage(b, r) /\ queue' = queue
      \/ ForwardMessage(b, r) /\ queue' = Append(queue, BridgeMessage(b, r))
  BY <1>3 DEF Deliver, ForwardMessage, Forward, TrySend
<1>5. UNCHANGED <<thread, counter, got, diagnosed, inbox, actor, attached, nextId, forward>>
  BY <1>4 DEF Deliver, ForwardMessage, Forward, vars, sessionVars
<1> QED
  BY <1>2, <1>3, <1>4, <1>5

LEMMA CallFacts ==
  ASSUME SysTypeOK, NEW t \in Threads, NEW b, NEW r \in Requests, Call(t, b, r)
  PROVE  /\ b \in Sids /\ r.id = counter[b] + 1 /\ r.id \in Nat
         /\ counter'[b] = r.id
         /\ \A c \in Sids : counter[c] \in Nat /\ counter'[c] \in Nat /\ counter[c] <= counter'[c]
         /\ thread'[t] = [st |-> "waiting", bridge |-> b, req |-> r, ok |-> FALSE, sid |-> 0]
         /\ thread[t].st # "waiting"
         /\ \A u \in Threads \ {t} : thread'[u] = thread[u]
         /\ UNCHANGED <<queue, inbox, actor, attached, nextId, forward, registry>>
<1>1. b \in Sids /\ counter \in [Sids -> Nat] /\ r.id = counter[b] + 1
  BY DEF Call, SysTypeOK, TypeOK, NextNumber
<1>2. thread \in [Threads -> CallState \cup {NoCall}]
  BY DEF SysTypeOK
<1>3. /\ thread'[t] = [st |-> "waiting", bridge |-> b, req |-> r, ok |-> FALSE, sid |-> 0]
      /\ \A u \in Threads \ {t} : thread'[u] = thread[u]
  BY <1>2 DEF Call
<1>4. /\ counter'[b] = r.id
      /\ \A c \in Sids : counter[c] \in Nat /\ counter'[c] \in Nat /\ counter[c] <= counter'[c]
  <2>1. counter' = [counter EXCEPT ![b] = r.id]
    BY DEF Call
  <2>2. PICK n \in Nat : n = counter[b] + 1 /\ r.id = n
    BY <1>1
  <2> QED
    BY <1>1, <2>1, <2>2
<1> QED
  BY <1>1, <1>3, <1>4 DEF Call, vars, sessionVars

LEMMA ReturnFacts ==
  ASSUME SysTypeOK, NEW t \in Threads, Return(t)
  PROVE  \E m \in inbox :
           /\ Expects(t, m) /\ inbox' = inbox \ {m}
           /\ thread'[t] = [thread[t] EXCEPT !.st = "returned", !.ok = m.ok, !.sid = m.sid]
           /\ thread'[t].st = "returned" /\ thread'[t].sid = m.sid
           /\ thread'[t].req = thread[t].req /\ thread'[t].bridge = thread[t].bridge
           /\ \A u \in Threads \ {t} : thread'[u] = thread[u]
           /\ LET s == SessionAsked(thread[t].req, m)
              IN got' = IF s \in Sids THEN [got EXCEPT ![s] = @ \cup MessagesOf(m)] ELSE got
           /\ ReceiveReply(m)
<1>1. PICK m \in inbox :
        /\ Expects(t, m)
        /\ ReceiveReply(m)
        /\ thread' = [thread EXCEPT ![t].st = "returned", ![t].ok = m.ok, ![t].sid = m.sid]
        /\ LET s == SessionAsked(thread[t].req, m)
           IN got' = IF s \in Sids THEN [got EXCEPT ![s] = @ \cup MessagesOf(m)] ELSE got
  BY DEF Return
<1>2. thread \in [Threads -> CallState \cup {NoCall}] /\ thread[t] \in CallState
  BY <1>1, ThreadType DEF SysTypeOK, Expects
<1>3. /\ thread'[t] = [thread[t] EXCEPT !.st = "returned", !.ok = m.ok, !.sid = m.sid]
      /\ \A u \in Threads \ {t} : thread'[u] = thread[u]
  BY <1>1, <1>2
<1>4. /\ thread'[t].st = "returned" /\ thread'[t].sid = m.sid
      /\ thread'[t].req = thread[t].req /\ thread'[t].bridge = thread[t].bridge
  BY <1>2, <1>3 DEF CallState
<1> QED
  BY <1>1, <1>3, <1>4 DEF ReceiveReply

LEMMA DeliverCalls ==
  ASSUME IInv, SysTypeOK, CallInv, Grows, NEW b, NEW r, Deliver(b, r)
  PROVE  CallInv'
<1>0. /\ r.op # "" /\ Known(b, r.id)
      /\ ~InService(b, r.id) /\ ~Answered(b, r.id)
      /\ b \in attached => Awaited(b, r)
      /\ UNCHANGED <<thread, counter, inbox, actor, attached, nextId, forward>>
      /\ queue' = queue \/ queue' = Append(queue, BridgeMessage(b, r))
  BY DeliverFacts DEF vars
<1>1. flight' = flight \ {<<b, r>>} /\ <<b, r>> \in flight
  BY DEF Deliver
<1>2. CASE queue' = queue
  <2>1. QueueKept(0) /\ 0 \in {0, 1}
    BY <1>2 DEF QueueKept
  <2>2. Quiet
    BY <1>0, <1>1, <2>1 DEF Quiet, ThreadsKept
  <2> QED
    BY <1>0, <2>2, InboxLeft, CallsQuiet
<1>3. CASE queue' = Append(queue, BridgeMessage(b, r))
  <2>1. PICK c : c = BridgeMessage(b, r)
    OBVIOUS
  <2>2. Script(c) /\ c.bridge = b /\ c.req = r
    BY <1>0, <2>1 DEF BridgeMessage, Script
  <2>3. /\ Len(queue) \in Nat /\ Len(queue') = Len(queue) + 1
        /\ \A i \in 1 .. Len(queue) : queue'[i] = queue[i]
        /\ \A i \in 1 .. Len(queue') : i \in 1 .. Len(queue) \/ (i = Len(queue) + 1 /\ queue'[i] = c)
    BY <1>3, <2>1 DEF IInv, TypeOK
  <2>4. \A d, n : Queued(d, n)' => Queued(d, n) \/ (d = b /\ n = r.id)
    BY <2>2, <2>3 DEF Queued
  <2>5. FlightInv'
    <3>1. ASSUME NEW f \in flight'
          PROVE  /\ f[2].op # "" /\ Known(f[1], f[2].id)'
                 /\ ~Queued(f[1], f[2].id)' /\ ~InService(f[1], f[2].id)'
                 /\ ~Answered(f[1], f[2].id)'
                 /\ f[1] \in attached' => Awaited(f[1], f[2])'
      <4>1. f \in flight /\ f # <<b, r>>
        BY <1>1
      <4>2. ~(f[1] = b /\ f[2].id = r.id)
        BY <4>1, <1>1 DEF CallInv, FlightInv
      <4>3. ~Queued(f[1], f[2].id)'
        BY <2>4, <4>1, <4>2 DEF CallInv, FlightInv
      <4>4. /\ f[2].op # "" /\ Known(f[1], f[2].id)
            /\ ~InService(f[1], f[2].id) /\ ~Answered(f[1], f[2].id)
            /\ f[1] \in attached => Awaited(f[1], f[2])
        BY <4>1 DEF CallInv, FlightInv
      <4> QED
        BY <1>0, <4>3, <4>4 DEF Known, InService, Answered, Awaited, Awaits
    <3>2. \A f, g \in flight' : f[1] = g[1] /\ f[2].id = g[2].id => f = g
      BY <1>1 DEF CallInv, FlightInv
    <3> QED
      BY <3>1, <3>2 DEF FlightInv
  <2>6. QueueInv'
    <3>1. ASSUME NEW i \in 1 .. Len(queue'), NEW e, e = queue'[i], Script(e)
          PROVE  /\ Known(e.bridge, e.req.id)'
                 /\ ~InService(e.bridge, e.req.id)'
                 /\ ~Answered(e.bridge, e.req.id)'
                 /\ e.bridge \in attached' => Awaited(e.bridge, e.req)'
      <4>1. /\ Known(e.bridge, e.req.id)
            /\ ~InService(e.bridge, e.req.id) /\ ~Answered(e.bridge, e.req.id)
            /\ e.bridge \in attached => Awaited(e.bridge, e.req)
        <5>1. CASE i \in 1 .. Len(queue)
          BY <2>3, <3>1, <5>1 DEF CallInv, QueueInv
        <5>2. CASE e = c
          BY <1>0, <2>2, <5>2
        <5> QED
          BY <2>3, <3>1, <5>1, <5>2
      <4> QED
        BY <1>0, <4>1 DEF Known, InService, Answered, Awaited, Awaits
    <3>2. ~Queued(b, r.id)
      BY <1>1 DEF CallInv, FlightInv
    <3>3. ASSUME NEW i \in 1 .. Len(queue'), NEW j \in 1 .. Len(queue'),
                 Script(queue'[i]), Script(queue'[j]),
                 queue'[i].bridge = queue'[j].bridge, queue'[i].req.id = queue'[j].req.id
          PROVE  i = j
      <4>1. CASE i \in 1 .. Len(queue) /\ j \in 1 .. Len(queue)
        BY <2>3, <3>3, <4>1 DEF CallInv, QueueInv
      <4>2. CASE i \in 1 .. Len(queue) /\ queue'[j] = c
        <5>1. Queued(b, r.id)
          BY <2>2, <2>3, <3>3, <4>2 DEF Queued, Script
        <5> QED
          BY <3>2, <5>1
      <4>3. CASE j \in 1 .. Len(queue) /\ queue'[i] = c
        <5>1. Queued(b, r.id)
          BY <2>2, <2>3, <3>3, <4>3 DEF Queued, Script
        <5> QED
          BY <3>2, <5>1
      <4> QED
        BY <2>3, <4>1, <4>2, <4>3
    <3> QED
      BY <3>1, <3>3, Zenon DEF QueueInv, Script
  <2>7. ServiceInv' /\ InboxInv' /\ ThreadInv'
    <3>1. ServiceInv /\ InboxInv /\ ThreadInv
      BY DEF CallInv
    <3>2. /\ \A b2, n : Known(b2, n)' <=> Known(b2, n)
          /\ \A b2, n : Answered(b2, n)' <=> Answered(b2, n)
          /\ \A b2, q : Awaited(b2, q)' <=> Awaited(b2, q)
      BY <1>0 DEF Known, Answered, Awaited, Awaits
    <3>3. ServiceInv'
      BY <1>0, <3>1, <3>2, Zenon DEF ServiceInv
    <3>4. InboxInv'
      BY <1>0, <3>1, <3>2 DEF InboxInv, Expects
    <3>5. ThreadInv'
      BY <1>0, <3>1 DEF ThreadInv, Known
    <3> QED
      BY <3>3, <3>4, <3>5
  <2> QED
    BY <2>5, <2>6, <2>7 DEF CallInv
<1> QED
  BY <1>0, <1>2, <1>3

LEMMA CallCalls ==
  ASSUME IInv, SysTypeOK, CallInv, NEW t \in Threads, NEW b, NEW r \in Requests, Call(t, b, r)
  PROVE  CallInv'
<1>0. /\ b \in Sids /\ r.id = counter[b] + 1 /\ r.id \in Nat /\ counter'[b] = r.id
      /\ \A c \in Sids : counter[c] \in Nat /\ counter'[c] \in Nat /\ counter[c] <= counter'[c]
      /\ thread'[t] = [st |-> "waiting", bridge |-> b, req |-> r, ok |-> FALSE, sid |-> 0]
      /\ thread[t].st # "waiting"
      /\ \A u \in Threads \ {t} : thread'[u] = thread[u]
      /\ UNCHANGED <<queue, inbox, actor, attached, nextId, forward>>
  BY CallFacts
<1>1. flight' = flight \cup {<<b, r>>} /\ r.op # "" /\ b \in attached
  BY DEF Call
<1>2. ~Known(b, r.id) /\ Known(b, r.id)'
  <2>1. counter[b] \in Nat
    BY <1>0
  <2>2. b \in 1 .. nextId /\ forward[b]
    BY AttachedIssued DEF Call
  <2>3. r.id \notin 1 .. counter[b] /\ r.id \in 1 .. counter'[b]
    BY <1>0, <2>1
  <2> QED
    BY <1>0, <2>2, <2>3 DEF Known
<1>3. \A c, n : Known(c, n) => Known(c, n)'
  <2>1. 1 .. nextId \subseteq Sids
    BY EngineAssumption DEF SysTypeOK, TypeOK, Sids
  <2> QED
    BY <1>0, <2>1 DEF Known
<1>4. \A c, q : Awaited(c, q) => Awaited(c, q)'
  BY <1>0 DEF Awaited, Awaits
<1>5. /\ Awaited(b, r)'
      /\ \A c, n : Queued(c, n)' <=> Queued(c, n)
      /\ \A c, n : InService(c, n)' <=> InService(c, n)
      /\ \A c, n : Answered(c, n)' <=> Answered(c, n)
  BY <1>0 DEF Awaited, Awaits, Queued, InService, Answered
<1>6. ~Queued(b, r.id) /\ ~InService(b, r.id) /\ ~Answered(b, r.id)
  BY <1>2 DEF Queued, InService, Answered, CallInv, QueueInv, ServiceInv, InboxInv, Script
<1>7. FlightInv'
  <2>1. ASSUME NEW f \in flight
        PROVE  /\ f[2].op # "" /\ Known(f[1], f[2].id)'
               /\ ~Queued(f[1], f[2].id)' /\ ~InService(f[1], f[2].id)'
               /\ ~Answered(f[1], f[2].id)'
               /\ f[1] \in attached' => Awaited(f[1], f[2])'
    BY <1>0, <1>3, <1>4, <1>5 DEF CallInv, FlightInv
  <2>2. \A f \in flight : ~(f[1] = b /\ f[2].id = r.id)
    BY <1>2 DEF CallInv, FlightInv
  <2>3. ASSUME NEW f \in flight'
        PROVE  f \in flight \/ (f = <<b, r>> /\ f[1] = b /\ f[2] = r)
    <3>1. f \in flight \/ f = <<b, r>>
      BY <1>1, <2>3
    <3>2. f = <<b, r>> => f[1] = b /\ f[2] = r
      OBVIOUS
    <3> QED
      BY <3>1, <3>2
  <2>4. \A f, g \in flight' : f[1] = g[1] /\ f[2].id = g[2].id => f = g
    BY <2>2, <2>3 DEF CallInv, FlightInv
  <2>5. ASSUME NEW f, f[1] = b, f[2] = r
        PROVE  /\ f[2].op # "" /\ Known(f[1], f[2].id)'
               /\ ~Queued(f[1], f[2].id)' /\ ~InService(f[1], f[2].id)'
               /\ ~Answered(f[1], f[2].id)'
               /\ f[1] \in attached' => Awaited(f[1], f[2])'
    BY <1>1, <1>2, <1>5, <1>6, <2>5
  <2>6. \A f \in flight' :
               /\ f[2].op # "" /\ Known(f[1], f[2].id)'
               /\ ~Queued(f[1], f[2].id)' /\ ~InService(f[1], f[2].id)'
               /\ ~Answered(f[1], f[2].id)'
               /\ f[1] \in attached' => Awaited(f[1], f[2])'
    BY <2>1, <2>3, <2>5
  <2> QED
    BY <2>4, <2>6 DEF FlightInv
<1>8. QueueInv'
  <2>1. ASSUME NEW i \in 1 .. Len(queue), NEW e, e = queue[i], Script(e)
        PROVE  /\ Known(e.bridge, e.req.id)'
               /\ ~InService(e.bridge, e.req.id)'
               /\ ~Answered(e.bridge, e.req.id)'
               /\ e.bridge \in attached' => Awaited(e.bridge, e.req)'
    BY <1>0, <1>3, <1>4, <1>5, <2>1 DEF CallInv, QueueInv
  <2>2. queue' = queue
    BY <1>0
  <2>3. \A i, j \in 1 .. Len(queue) :
          /\ Script(queue[i]) /\ Script(queue[j])
          /\ queue[i].bridge = queue[j].bridge /\ queue[i].req.id = queue[j].req.id
          => i = j
    BY DEF CallInv, QueueInv
  <2> QED
    BY <2>1, <2>2, <2>3, Zenon DEF QueueInv, Script
<1>9. ServiceInv'
  BY <1>0, <1>3, <1>4, <1>5, Zenon DEF CallInv, ServiceInv
<1>10. InboxInv'
  <2>1. \A u \in Threads, m \in inbox : Expects(u, m) => Expects(u, m)' /\ thread'[u] = thread[u]
    BY <1>0 DEF Expects
  <2> QED
    BY <1>0, <1>3, <2>1 DEF CallInv, InboxInv
<1>11. ThreadInv'
  <2>1. \A u \in Threads : u = t \/ thread'[u] = thread[u]
    BY <1>0
  <2>2. /\ thread'[t].req = r /\ thread'[t].bridge = b
    BY <1>0
  <2>3. \A u \in Threads : thread'[u].st = "waiting" => u = t \/
           /\ thread'[u] = thread[u]
           /\ thread'[u].req.op # "" /\ Known(thread'[u].bridge, thread'[u].req.id)
    BY <2>1 DEF CallInv, ThreadInv
  <2>4. \A u \in Threads : thread'[u].st = "waiting" /\ u # t =>
          ~(thread'[u].bridge = b /\ thread'[u].req.id = r.id)
    BY <1>2, <2>3
  <2>5. ASSUME NEW u \in Threads, NEW c, c = thread'[u], c.st = "waiting"
        PROVE  c.req.op # "" /\ Known(c.bridge, c.req.id)'
    BY <1>1, <1>2, <1>3, <2>2, <2>3, <2>5
  <2>6. ASSUME NEW u \in Threads, NEW v \in Threads,
               thread'[u].st = "waiting", thread'[v].st = "waiting",
               thread'[u].bridge = thread'[v].bridge, thread'[u].req.id = thread'[v].req.id
        PROVE  u = v
    <3>1. CASE u # t /\ v # t
      BY <2>1, <2>6, <3>1 DEF CallInv, ThreadInv
    <3> QED
      BY <2>2, <2>4, <2>6, <3>1
  <2> QED
    BY <2>5, <2>6, Zenon DEF ThreadInv
<1> QED
  BY <1>7, <1>8, <1>9, <1>10, <1>11 DEF CallInv

LEMMA ReturnCalls ==
  ASSUME SysTypeOK, CallInv, NEW t \in Threads, Return(t)
  PROVE  CallInv'
<1>1. PICK m \in inbox :
        /\ Expects(t, m) /\ inbox' = inbox \ {m}
        /\ thread'[t].st = "returned"
        /\ \A u \in Threads \ {t} : thread'[u] = thread[u]
        /\ ReceiveReply(m)
  BY ReturnFacts
<1>2. UNCHANGED <<queue, actor, attached, nextId, forward, flight, counter>>
  BY <1>1 DEF Return, ReceiveReply, sessionVars
<1>3. /\ \A c, n : Known(c, n)' <=> Known(c, n)
      /\ \A c, n : Queued(c, n)' <=> Queued(c, n)
      /\ \A c, n : InService(c, n)' <=> InService(c, n)
      /\ \A c, n : Answered(c, n)' => Answered(c, n)
  BY <1>1, <1>2 DEF Known, Queued, InService, Answered
<1>4. \A c, r : Awaited(c, r) /\ ~Answered(c, r.id) => Awaited(c, r)'
  BY <1>1 DEF Awaited, Awaits, Answered, Expects
<1>5. FlightInv'
  <2>1. \A f \in flight :
          /\ f[2].op # "" /\ Known(f[1], f[2].id)'
          /\ ~Queued(f[1], f[2].id)' /\ ~InService(f[1], f[2].id)'
          /\ ~Answered(f[1], f[2].id)'
          /\ f[1] \in attached => Awaited(f[1], f[2])'
    BY <1>3, <1>4 DEF CallInv, FlightInv
  <2> QED
    BY <1>2, <2>1 DEF CallInv, FlightInv
<1>6. QueueInv'
  <2>1. ASSUME NEW i \in 1 .. Len(queue), NEW e, e = queue[i], Script(e)
        PROVE  /\ Known(e.bridge, e.req.id)'
               /\ ~InService(e.bridge, e.req.id)'
               /\ ~Answered(e.bridge, e.req.id)'
               /\ e.bridge \in attached => Awaited(e.bridge, e.req)'
    BY <1>3, <1>4, <2>1 DEF CallInv, QueueInv
  <2>2. \A i, j \in 1 .. Len(queue) :
          /\ Script(queue[i]) /\ Script(queue[j])
          /\ queue[i].bridge = queue[j].bridge /\ queue[i].req.id = queue[j].req.id
          => i = j
    BY DEF CallInv, QueueInv
  <2> QED
    BY <1>2, <2>1, <2>2, Zenon DEF QueueInv, Script
<1>7. ServiceInv'
  BY <1>2, <1>3, <1>4, Zenon DEF CallInv, ServiceInv
<1>8. InboxInv'
  <2>1. ASSUME NEW k \in inbox'
        PROVE  /\ k.bridge \in attached' /\ Known(k.bridge, k.id)'
               /\ \E u \in Threads : Expects(u, k)' /\ (k.sid # 0 => thread'[u].req.op = "run")
               /\ k.sid <= nextId'
    <3>1. k \in inbox /\ k # m
      BY <1>1
    <3>2. PICK u \in Threads : Expects(u, k) /\ (k.sid # 0 => thread[u].req.op = "run")
      BY <3>1 DEF CallInv, InboxInv
    <3>3. u # t
      BY <1>1, <3>1, <3>2 DEF CallInv, InboxInv, Expects
    <3>4. Expects(u, k)' /\ (k.sid # 0 => thread'[u].req.op = "run")
      BY <1>1, <3>2, <3>3 DEF Expects
    <3> QED
      BY <1>2, <1>3, <3>1, <3>4 DEF CallInv, InboxInv
  <2> QED
    BY <1>1, <2>1 DEF CallInv, InboxInv
<1>9. ThreadInv'
  <2>1. \A u \in Threads : thread'[u].st = "waiting" => thread'[u] = thread[u]
    BY <1>1
  <2>2. ASSUME NEW u \in Threads, NEW c, c = thread'[u], c.st = "waiting"
        PROVE  c.req.op # "" /\ Known(c.bridge, c.req.id)'
    BY <1>3, <2>1, <2>2 DEF CallInv, ThreadInv
  <2>3. \A u, v \in Threads :
          /\ thread'[u].st = "waiting" /\ thread'[v].st = "waiting"
          /\ thread'[u].bridge = thread'[v].bridge /\ thread'[u].req.id = thread'[v].req.id
          => u = v
    BY <2>1 DEF CallInv, ThreadInv
  <2> QED
    BY <2>2, <2>3, Zenon DEF ThreadInv
<1> QED
  BY <1>5, <1>6, <1>7, <1>8, <1>9 DEF CallInv

LEMMA DiagnoseCalls ==
  ASSUME IInv, SysTypeOK, CallInv, Grows, NEW b, Diagnose(b)
  PROVE  CallInv'
<1>1. /\ Diagnostic \in Requests /\ b \in Sids
      /\ UNCHANGED <<thread, flight, counter, inbox, actor, attached>>
      /\ queue' = queue \/ queue' = Append(queue, BridgeMessage(b, Diagnostic))
  <2>1. MaxDiagnostics > 0
    BY BridgeAssumption DEF Diagnose, SysTypeOK
  <2>2. b \in Sids
    BY DEF Diagnose, IInv, TypeOK
  <2> QED
    BY <2>1, <2>2, BridgeAssumption DEF Diagnose, Forward, TrySend
<1>2. Quiet
  <2>1. CASE queue' = queue
    <3>1. QueueKept(0) /\ 0 \in {0, 1}
      BY <2>1 DEF QueueKept
    <3> QED
      BY <1>1, <3>1 DEF Quiet, ThreadsKept
  <2>2. CASE queue' = Append(queue, BridgeMessage(b, Diagnostic))
    <3>1. PICK c : c = BridgeMessage(b, Diagnostic)
      OBVIOUS
    <3>2. c \in Command /\ ~Script(c)
      BY <1>1, <3>1 DEF BridgeMessage, Command, BridgeMessageCommand, Script, Diagnostic
    <3>3. ThreadsKept
      BY <1>1 DEF ThreadsKept
    <3> QED
      BY <1>1, <2>2, <3>1, <3>2, <3>3, QuietAppend
  <2> QED
    BY <1>1, <2>1, <2>2
<1> QED
  BY <1>1, <1>2, InboxLeft, CallsQuiet

LEMMA UnloadedCalls ==
  ASSUME IInv, SysTypeOK, CallInv, Grows, NEW t \in Threads, Unloaded(t)
  PROVE  CallInv'
<1>1. ThreadsKept
  <2>1. \A u \in Threads : u # t => thread'[u] = thread[u]
    BY DEF Unloaded, SysTypeOK
  <2>2. thread'[t].st # "waiting"
    <3>1. thread[t] \in CallState
      BY ThreadType DEF Unloaded
    <3>2. thread'[t] = [thread[t] EXCEPT !.st = "failed"]
      BY DEF Unloaded, SysTypeOK
    <3> QED
      BY <3>1, <3>2 DEF CallState
  <2>3. thread[t].bridge \notin attached'
    BY DEF Unloaded, vars
  <2> QED
    BY <2>1, <2>2, <2>3 DEF ThreadsKept
<1> QED
  BY <1>1, OtherCalls DEF Unloaded

LEMMA ExitCalls ==
  ASSUME IInv, CallInv, Grows, NEW p \in Pids, Exit(p)
  PROVE  CallInv'
<1>1. ThreadsKept
  BY DEF Exit, ProcessExit, ThreadsKept, NoCall
<1> QED
  BY <1>1, OtherCalls DEF Exit, ProcessStep

-----------------------------------------------------------------------------
(* The closed system is the engine with one of its environments.           *)

LEMMA SysStep ==
  ASSUME IInv, SysTypeOK, CallInv, [SysNext]_sysVars
  PROVE  [Next]_vars
<1>1. CASE EngineSide
  BY <1>1, BridgeAssumption DEF EngineSide, Next, ProcessStep, MainStep
<1>2. ASSUME NEW t \in Threads, Return(t)
      PROVE  [Next]_vars
  BY <1>2, ReturnFacts DEF Next, BridgeStep
<1>3. ASSUME NEW t \in Threads, Unloaded(t)
      PROVE  [Next]_vars
  BY <1>3 DEF Unloaded
<1>4. ASSUME NEW t \in Threads, NEW b, NEW r, Call(t, b, r)
      PROVE  [Next]_vars
  BY <1>4 DEF Call
<1>5. ASSUME NEW b, NEW r, Deliver(b, r)
      PROVE  [Next]_vars
  <2>1. b \in 1 .. nextId /\ r \in Requests /\ (UNCHANGED vars \/ ForwardMessage(b, r))
    BY <1>5, DeliverFacts DEF Known
  <2> QED
    BY <2>1 DEF Next, BridgeStep
<1>6. ASSUME NEW b \in 1 .. nextId, Diagnose(b)
      PROVE  [Next]_vars
  <2>1. MaxDiagnostics > 0
    BY <1>6, BridgeAssumption DEF Diagnose, SysTypeOK
  <2>2. Diagnostic \in Requests /\ ForwardMessage(b, Diagnostic)
    BY <1>6, <2>1, BridgeAssumption DEF Diagnose, ForwardMessage, Diagnostic
  <2> QED
    BY <2>2 DEF Next, BridgeStep
<1>7. ASSUME NEW p \in Pids, Exit(p)
      PROVE  [Next]_vars
  BY <1>7 DEF Exit, Next, ProcessStep
<1>8. CASE UNCHANGED sysVars
  BY <1>8 DEF sysVars
<1> QED
  BY <1>1, <1>2, <1>3, <1>4, <1>5, <1>6, <1>7, <1>8 DEF SysNext, AgentSide

LEMMA SysCalls ==
  ASSUME IInv, SysTypeOK, CallInv, [SysNext]_sysVars
  PROVE  CallInv'
<1>0. Grows
  BY SysStep, SessionsGrow
<1>1. CASE EngineSide
  <2>1. \/ ActorStep
        \/ (HandlerStep \/ ProcessStep \/ MainStep \/ UNCHANGED vars)
    BY <1>1, BridgeAssumption DEF EngineSide, ProcessStep, MainStep
  <2>2. UNCHANGED bridgeVars /\ ThreadsKept /\ UNCHANGED <<flight, counter>>
    BY <1>1 DEF EngineSide, bridgeVars, ThreadsKept
  <2> QED
    BY <1>0, <2>1, <2>2, ActorCalls, OtherCalls
<1>2. ASSUME NEW f \in flight, Deliver(f[1], f[2])
      PROVE  CallInv'
  <2>1. PICK b, r : b = f[1] /\ r = f[2]
    OBVIOUS
  <2> QED
    BY <1>0, <1>2, <2>1, DeliverCalls
<1>3. CASE UNCHANGED sysVars
  <2>1. ThreadsKept /\ UNCHANGED <<vars, flight, counter>>
    BY <1>3 DEF sysVars, bridgeVars, ThreadsKept
  <2> QED
    BY <1>0, <2>1, OtherCalls
<1> QED
  BY <1>0, <1>1, <1>2, <1>3, CallCalls, ReturnCalls, DiagnoseCalls, UnloadedCalls, ExitCalls
  DEF SysNext, AgentSide

-----------------------------------------------------------------------------
(* Types, and the invariant all the others stand on.                       *)

LEMMA SysTypeNext ==
  ASSUME IInv, IInv', SysTypeOK, CallInv, [SysNext]_sysVars
  PROVE  SysTypeOK'
<1>0. TypeOK'
  BY DEF IInv
<1>1. CASE EngineSide \/ UNCHANGED sysVars
  BY <1>0, <1>1 DEF EngineSide, sysVars, bridgeVars, SysTypeOK
<1>2. ASSUME NEW t \in Threads, Return(t)
      PROVE  SysTypeOK'
  <2>1. PICK m \in inbox :
          /\ Expects(t, m)
          /\ thread'[t] = [thread[t] EXCEPT !.st = "returned", !.ok = m.ok, !.sid = m.sid]
          /\ \A u \in Threads \ {t} : thread'[u] = thread[u]
          /\ LET s == SessionAsked(thread[t].req, m)
             IN got' = IF s \in Sids THEN [got EXCEPT ![s] = @ \cup MessagesOf(m)] ELSE got
    BY <1>2, ReturnFacts
  <2>2. m \in ReplyRecord
    BY DEF IInv, TypeOK
  <2>3. thread' \in [Threads -> CallState \cup {NoCall}]
    <3>1. thread[t] \in CallState
      BY <2>1, ThreadType DEF Expects
    <3>2. thread'[t] \in CallState
      BY <2>1, <2>2, <3>1 DEF CallState, ReplyRecord
    <3>3. thread' = [thread EXCEPT ![t] = thread'[t]]
      BY <1>2 DEF Return, SysTypeOK
    <3> QED
      BY <3>2, <3>3 DEF SysTypeOK
  <2>4. got' \in [Sids -> SUBSET Nat]
    <3>1. MessagesOf(m) \subseteq Nat
      BY <2>2 DEF MessagesOf, ReplyRecord
    <3> QED
      BY <2>1, <3>1 DEF SysTypeOK
  <2> QED
    BY <1>0, <1>2, <2>3, <2>4 DEF Return, SysTypeOK
<1>3. ASSUME NEW t \in Threads, Unloaded(t)
      PROVE  SysTypeOK'
  <2>1. thread[t] \in CallState
    BY <1>3, ThreadType DEF Unloaded
  <2>2. [thread[t] EXCEPT !.st = "failed"] \in CallState
    BY <2>1 DEF CallState
  <2>3. thread' = [thread EXCEPT ![t] = [thread[t] EXCEPT !.st = "failed"]]
    BY <1>3 DEF Unloaded
  <2> QED
    BY <1>0, <1>3, <2>2, <2>3 DEF Unloaded, SysTypeOK
<1>4. ASSUME NEW t \in Threads, NEW b \in 1 .. nextId, NEW r \in Requests, Call(t, b, r)
      PROVE  SysTypeOK'
  <2>1. b \in Sids /\ r.id \in Nat
    BY <1>4, CallFacts
  <2>2. [st |-> "waiting", bridge |-> b, req |-> r, ok |-> FALSE, sid |-> 0] \in CallState
    BY <2>1 DEF CallState
  <2>3. thread' \in [Threads -> CallState \cup {NoCall}]
    BY <1>4, <2>2 DEF Call, SysTypeOK
  <2>4. counter' \in [Sids -> Nat]
    BY <1>4, <2>1 DEF Call, SysTypeOK
  <2>5. flight' \subseteq Sids \X Requests
    <3>1. <<b, r>> \in Sids \X Requests
      BY <2>1
    <3> QED
      BY <1>4, <3>1 DEF Call, SysTypeOK
  <2> QED
    BY <1>0, <1>4, <2>3, <2>4, <2>5 DEF Call, SysTypeOK
<1>5. ASSUME NEW b, NEW r, Deliver(b, r)
      PROVE  SysTypeOK'
  BY <1>0, <1>5 DEF Deliver, SysTypeOK
<1>6. ASSUME NEW b, Diagnose(b)
      PROVE  SysTypeOK'
  BY <1>0, <1>6, BridgeAssumption DEF Diagnose, SysTypeOK
<1>7. ASSUME NEW p \in Pids, Exit(p)
      PROVE  SysTypeOK'
  BY <1>0, <1>7 DEF Exit, SysTypeOK
<1> QED
  BY <1>1, <1>2, <1>3, <1>4, <1>5, <1>6, <1>7 DEF SysNext, AgentSide

Base == IInv /\ SysTypeOK /\ CallInv

LEMMA BaseInit ==
  ASSUME SysInit
  PROVE  Base
<1>1. IInv
  BY InitInv DEF SysInit
<1>2. SysTypeOK
  BY <1>1, BridgeAssumption DEF SysInit, SysTypeOK, IInv
<1>3. /\ flight = {} /\ queue = << >> /\ inbox = {} /\ actor.cmd.kind = "none"
      /\ \A t \in Threads : thread[t].st = "idle"
  BY DEF SysInit, Init, NoCommand, NoCall
<1>4. FlightInv /\ InboxInv
  BY <1>3 DEF FlightInv, InboxInv
<1>5. QueueInv
  BY <1>3 DEF QueueInv
<1>6. ServiceInv /\ ThreadInv
  BY <1>3 DEF ServiceInv, ThreadInv
<1> QED
  BY <1>1, <1>2, <1>4, <1>5, <1>6 DEF Base, CallInv

LEMMA BaseNext ==
  ASSUME Base, [SysNext]_sysVars
  PROVE  Base'
<1>1. IInv'
  BY SysStep, NextInv DEF Base
<1> QED
  BY <1>1, SysTypeNext, SysCalls DEF Base

LEMMA BaseAlways == SysSpec => []Base
<1>1. Base /\ [SysNext]_sysVars => Base'
  BY BaseNext
<1> QED
  BY <1>1, BaseInit, PTL DEF SysSpec

(* SysTypeOK, for all threads and bridges: in particular the numbers of    *)
(* requests are counted per bridge and every reply that a thread has read  *)
(* is well formed.                                                         *)
THEOREM SysTypeCorrect == SysSpec => []SysTypeOK
BY BaseAlways, PTL DEF Base

(* The closed system is a special case of the engine in an open            *)
(* environment: whatever the agents and their scripts do is among what     *)
(* Engine lets a bridge do, so all that is proved about Spec, the          *)
(* refinement of SessionService included, holds of SysSpec.                *)
THEOREM SysImplementsEngine == SysSpec => Spec
<1>1. SysInit => Init
  BY DEF SysInit
<1>2. Base /\ [SysNext]_sysVars => [Next]_vars
  BY SysStep DEF Base
<1> QED
  BY <1>1, <1>2, BaseAlways, PTL DEF SysSpec, Spec

LEMMA AtMostOne ==
  ASSUME NEW R, \A x, y \in R : x = y
  PROVE  IsFiniteSet(R) /\ Cardinality(R) <= 1
<1>1. CASE R = {}
  <2>1. IsFiniteSet(R) /\ Cardinality(R) = 0
    BY <1>1, FS_EmptySet
  <2> QED
    BY <2>1
<1>2. CASE R # {}
  <2>1. PICK x : R = {x}
    BY <1>2
  <2>2. IsFiniteSet(R) /\ Cardinality(R) = 1
    BY <2>1, FS_Singleton
  <2> QED
    BY <2>2
<1> QED
  BY <1>1, <1>2

(* RepliesAwaited: threads that share an agent never get each other's      *)
(* replies, however calls, answers and unloads interleave.  A number that  *)
(* is awaited is in one place only (CallInv), and no two threads wait for  *)
(* the same one.                                                           *)
THEOREM EveryReplyAwaited == SysSpec => []RepliesAwaited
<1>1. ASSUME Base
      PROVE  RepliesAwaited
  <2>1. ASSUME NEW m \in inbox
        PROVE  \E t \in Threads :
                 /\ Expects(t, m)
                 /\ m.sid # 0 => thread[t].req.op = "run"
                 /\ \A u \in Threads \ {t} : ~Expects(u, m)
    <3>1. PICK t \in Threads : Expects(t, m) /\ (m.sid # 0 => thread[t].req.op = "run")
      BY <1>1 DEF Base, CallInv, InboxInv
    <3>2. \A u \in Threads : Expects(u, m) => u = t
      BY <1>1, <3>1 DEF Base, CallInv, ThreadInv, Expects
    <3> QED
      BY <3>1, <3>2
  <2>2. ASSUME NEW t \in Threads
        PROVE  Cardinality({m \in inbox : Expects(t, m)}) <= 1
    <3> DEFINE R == {m \in inbox : Expects(t, m)}
    <3>1. \A m, k \in R : m = k
      BY <1>1 DEF Base, CallInv, InboxInv, Expects
    <3> QED
      BY <3>1, AtMostOne
  <2> QED
    BY <2>1, <2>2 DEF RepliesAwaited
<1> QED
  BY <1>1, BaseAlways, PTL
==============================================================================
