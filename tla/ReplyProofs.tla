----------------------------- MODULE ReplyProofs ------------------------------
(* What the replies of the frida table carry: the messages of target       *)
(* scripts, each to one caller, and the sids of runs that persist or not.  *)
EXTENDS BridgeProofs

-----------------------------------------------------------------------------
(* Lemmas.                                                                 *)

(* The numbers in a session's buffer.                                      *)
LEMMA BufferedRange ==
  ASSUME IInv, NEW s \in Sids
  PROVE  /\ handled[s] \in Nat /\ drained[s] \in Nat /\ drained[s] <= handled[s]
         /\ Buffered(s) \subseteq drained[s] + 1 .. handled[s]
         /\ handled[s] <= MaxBuffered => Buffered(s) = drained[s] + 1 .. handled[s]
<1>1. handled[s] \in Nat /\ drained[s] \in Nat /\ drained[s] <= handled[s]
  BY EngineAssumption DEF IInv, TypeOK, IssuedInv
<1>2. PICK h \in Nat, d \in Nat : h = handled[s] /\ d = drained[s] /\ d <= h
  BY <1>1
<1>3. PICK f \in Nat : f = Floor(h, d) /\ d <= f /\ f <= h
  BY <1>2, NewestType
<1>4. buffer[s] = Window(f, h)
  BY <1>2, <1>3 DEF IInv, BufferExact, Newest
<1>5. /\ Len(buffer[s]) = h - f
      /\ \A i \in 1 .. (h - f) : buffer[s][i] = f + i
  BY <1>3, <1>4, WindowType
<1>6. Buffered(s) = f + 1 .. h
  <2>1. \A n \in f + 1 .. h : n - f \in 1 .. (h - f) /\ n = f + (n - f)
    BY <1>3
  <2>2. f + 1 .. h \subseteq Buffered(s)
    BY <1>5, <2>1 DEF Buffered
  <2>3. \A i \in 1 .. (h - f) : f + i \in f + 1 .. h
    BY <1>3
  <2>4. Buffered(s) \subseteq f + 1 .. h
    BY <1>5, <2>3 DEF Buffered
  <2> QED
    BY <2>2, <2>4
<1>7. h <= MaxBuffered => f = d
  BY <1>2, <1>3, MaxBufferedAssumption DEF Floor
<1> QED
  BY <1>2, <1>3, <1>6, <1>7

-----------------------------------------------------------------------------
(* Which reply a step posts.                                               *)

(* Nothing is drained for a run, and what was is still with the actor.     *)
HandsStill == actor' = actor \/ (actor.pc # "drained" /\ actor'.pc # "drained")

(* None: no buffer is drained, and replies go only with their bridges.     *)
Silent == inbox' = RepliesLeft /\ drained' = drained /\ HandsStill

(* The session z of a run is drained; nobody is told of it yet.            *)
Collects(z) ==
  /\ z = actor.sid /\ z \in registry
  /\ actor.pc # "drained" /\ actor'.pc = "drained" /\ actor'.sid = z
  /\ actor'.messages = buffer[z]
  /\ drained' = [drained EXCEPT ![z] = handled[z]]
  /\ UNCHANGED <<inbox, attached>>

(* The messages of session s are drained into the reply m.                 *)
DrainsInto(s, m) ==
  /\ s \in registry
  /\ m.messages = buffer[s]
  /\ drained' = [drained EXCEPT ![s] = handled[s]]

(* The reply m to the request r of bridge b.                               *)
Tells(b, r, m) ==
  /\ Held(b, r)
  /\ m.bridge = b /\ m.id = r.id
  /\ inbox' = RepliesLeft \cup (IF b \in registry' \cap attached' THEN {m} ELSE {})
  /\ actor'.pc = "recv"
  /\ \/ actor.pc # "drained" /\ m.sid = 0 /\ m.messages = << >> /\ drained' = drained
     \/ actor.pc # "drained" /\ m.sid = 0 /\ r.op = "pull" /\ DrainsInto(r.sid, m)
     \/ /\ actor.pc = "drained" /\ m.sid = actor.sid /\ m.sid \in registry
        /\ m.messages = actor.messages /\ drained' = drained
        /\ r.op = "run"
        /\ ~r.keep => m.sid \notin registry' \cup attached'

LEMMA SilentKept ==
  ASSUME CallInv, UNCHANGED inbox, attached \subseteq attached', drained' = drained,
         HandsStill
  PROVE  Silent
BY DEF CallInv, InboxInv, RepliesLeft, Silent

LEMMA PostTells ==
  ASSUME NEW m, Post(m)
  PROVE  inbox' = RepliesLeft \cup (IF m.bridge \in registry' \cap attached' THEN {m} ELSE {})
BY DEF Post, StillAddressed, RepliesLeft

(* An error, or an answer without messages.                                *)
LEMMA PlainTells ==
  ASSUME NEW b, NEW r, Held(b, r), actor.pc # "drained", actor'.pc = "recv",
         drained' = drained, NEW m, m.bridge = b, m.id = r.id, m.sid = 0, m.messages = << >>, Post(m)
  PROVE  Tells(b, r, m)
BY PostTells DEF Tells

LEMMA ReceiveHeld ==
  ASSUME IInv, CallInv, NEW op, op # "", ReceiveOp(op)
  PROVE  /\ Held(Head(queue).bridge, Head(queue).req)
         /\ actor = Receiving
<1>1. /\ actor = Receiving /\ queue # << >> /\ queue' = Tail(queue)
      /\ Head(queue).kind = "BridgeMessage" /\ Head(queue).req.op # ""
  BY ReceiveOpFacts
<1>2. PICK b, r : b = Head(queue).bridge /\ r = Head(queue).req
  OBVIOUS
<1> QED
  BY <1>1, <1>2, HeadHeld DEF Script

LEMMA HandleRunTells ==
  ASSUME IInv, CallInv, HandleRun, NEW b, NEW r, b = Head(queue).bridge, r = Head(queue).req
  PROVE  (BeginInject(AsU32(r.pid), FALSE) /\ Silent) \/ \E m : Tells(b, r, m)
<1>1. b = Head(queue).bridge /\ r = Head(queue).req
  OBVIOUS
<1>2. Held(b, r) /\ actor = Receiving
  BY <1>1, ReceiveHeld DEF HandleRun
<1>3. CASE BeginInject(AsU32(r.pid), FALSE)
  BY <1>2, <1>3, SilentKept DEF BeginInject, bufferVars, HandsStill, Receiving
<1>4. CASE Post(Failure(b, r.id)) /\ UNCHANGED <<actor, bufferVars>>
  <2>1. PICK m : m = Failure(b, r.id)
    OBVIOUS
  <2>2. m.bridge = b /\ m.id = r.id /\ m.sid = 0 /\ m.messages = << >>
    BY <2>1 DEF Failure, Reply
  <2>3. actor.pc # "drained" /\ actor'.pc = "recv" /\ drained' = drained
    BY <1>2, <1>4 DEF Receiving, bufferVars
  <2> QED
    BY <1>2, <1>4, <2>1, <2>2, <2>3, PlainTells
<1> QED
  BY <1>1, <1>3, <1>4 DEF HandleRun, InjectFails

LEMMA HandlePullTells ==
  ASSUME IInv, CallInv, HandlePull, NEW b, NEW r, b = Head(queue).bridge, r = Head(queue).req
  PROVE  \E m : Tells(b, r, m)
<1>1. b = Head(queue).bridge /\ r = Head(queue).req
  OBVIOUS
<1>2. Held(b, r) /\ actor = Receiving
  BY <1>1, ReceiveHeld DEF HandlePull
<1>3. actor.pc # "drained" /\ actor'.pc = "recv" /\ r.op = "pull"
  BY <1>1, <1>2 DEF HandlePull, Receiving, ReceiveOp
<1>4. CASE r.sid \in registry
  <2>1. PICK m : m = Reply(b, r.id, TRUE, 0, buffer[r.sid])
    OBVIOUS
  <2>2. m.bridge = b /\ m.id = r.id /\ m.sid = 0 /\ m.messages = buffer[r.sid]
    BY <2>1 DEF Reply
  <2>3. Post(m) /\ drained' = [drained EXCEPT ![r.sid] = handled[r.sid]]
    BY <1>1, <1>4, <2>1 DEF HandlePull, Drain
  <2> QED
    BY <1>2, <1>3, <1>4, <2>2, <2>3, PostTells DEF Tells, DrainsInto
<1>5. CASE r.sid \notin registry
  <2>1. PICK m : m = Reply(b, r.id, TRUE, 0, << >>)
    OBVIOUS
  <2>2. m.bridge = b /\ m.id = r.id /\ m.sid = 0 /\ m.messages = << >>
    BY <2>1 DEF Reply
  <2>3. Post(m) /\ drained' = drained
    BY <1>1, <1>5, <2>1 DEF HandlePull, bufferVars
  <2> QED
    BY <1>2, <1>3, <2>2, <2>3, PlainTells
<1> QED
  BY <1>4, <1>5

LEMMA HandleKillTells ==
  ASSUME IInv, CallInv, HandleKill, NEW b, NEW r, b = Head(queue).bridge, r = Head(queue).req
  PROVE  \E m : Tells(b, r, m)
<1>1. b = Head(queue).bridge /\ r = Head(queue).req
  OBVIOUS
<1>2. Held(b, r) /\ actor.pc # "drained" /\ actor'.pc = "recv" /\ drained' = drained
  <2>1. Held(b, r) /\ actor = Receiving
    BY <1>1, ReceiveHeld DEF HandleKill
  <2> QED
    BY <2>1 DEF HandleKill, Receiving, bufferVars
<1>3. PICK m : m = Reply(b, r.id, r.sid \in registry, 0, << >>)
  OBVIOUS
<1>4. Post(m) /\ m.bridge = b /\ m.id = r.id /\ m.sid = 0 /\ m.messages = << >>
  BY <1>1, <1>3 DEF HandleKill, Reply
<1> QED
  BY <1>2, <1>4, PlainTells

LEMMA HandleMalformedTells ==
  ASSUME IInv, CallInv, HandleMalformed, NEW b, NEW r, b = Head(queue).bridge, r = Head(queue).req
  PROVE  \E m : Tells(b, r, m)
<1>1. b = Head(queue).bridge /\ r = Head(queue).req
  OBVIOUS
<1>2. Held(b, r) /\ actor.pc # "drained" /\ actor'.pc = "recv" /\ drained' = drained
  <2>1. Held(b, r) /\ actor = Receiving
    BY <1>1, ReceiveHeld DEF HandleMalformed
  <2> QED
    BY <2>1 DEF HandleMalformed, Receiving, bufferVars
<1>3. PICK m : m = Failure(b, r.id)
  OBVIOUS
<1>4. Post(m) /\ m.bridge = b /\ m.id = r.id /\ m.sid = 0 /\ m.messages = << >>
  BY <1>1, <1>3 DEF HandleMalformed, Failure, Reply
<1> QED
  BY <1>2, <1>4, PlainTells

LEMMA LoadFailsTells ==
  ASSUME IInv, CallInv, LoadFails, NEW b, NEW r, b = actor.cmd.bridge, r = actor.cmd.req
  PROVE  IF forward[actor.sid] THEN Silent ELSE \E m : Tells(b, r, m)
<1>1. CASE forward[actor.sid]
  BY <1>1 DEF LoadFails, Silent, HandsStill, Receiving, PostNothing, StillAddressed, RepliesLeft,
              bufferVars
<1>2. CASE ~forward[actor.sid]
  <2>1. actor.cmd.kind = "BridgeMessage"
    <3>1. actor.cmd \in InjectBridgeCommand \cup BridgeMessageCommand
      BY DEF LoadFails, IInv, TypeOK, ActorState, Receiving, Stopped
    <3> QED
      BY <1>2, <3>1 DEF LoadFails, IInv, ActorInv, InjectBridgeCommand, BridgeMessageCommand
  <2>2. b = actor.cmd.bridge /\ r = actor.cmd.req
    OBVIOUS
  <2>3. Held(b, r)
    BY <2>1, <2>2, ActorHeld DEF LoadFails
  <2>4. PICK m : m = Failure(b, r.id)
    OBVIOUS
  <2>5. Post(m) /\ m.bridge = b /\ m.id = r.id /\ m.sid = 0 /\ m.messages = << >>
    BY <1>2, <2>2, <2>4 DEF LoadFails, Failure, Reply
  <2>6. actor.pc # "drained" /\ actor'.pc = "recv" /\ drained' = drained
    BY DEF LoadFails, Receiving, bufferVars
  <2> QED
    BY <1>2, <2>3, <2>5, <2>6, PlainTells
<1> QED
  BY <1>1, <1>2

LEMMA DrainRunCollects ==
  ASSUME IInv, DrainRun
  PROVE  Collects(actor.sid)
BY RunFacts DEF DrainRun, Drain, Collects

LEMMA FinishRunTells ==
  ASSUME IInv, CallInv, FinishRun, NEW b, NEW r, b = actor.cmd.bridge, r = actor.cmd.req
  PROVE  \E m : Tells(b, r, m)
<1>1. /\ actor.pc = "drained" /\ actor.sid \in registry
      /\ actor.cmd.kind = "BridgeMessage" /\ actor.cmd.req.op = "run"
  BY RunFacts DEF FinishRun, IInv, ActorInv
<1>2. b = actor.cmd.bridge /\ r = actor.cmd.req
  OBVIOUS
<1>3. Held(b, r)
  BY <1>1, <1>2, ActorHeld DEF FinishRun
<1>4. PICK m : m = Reply(b, r.id, TRUE, actor.sid, actor.messages)
  OBVIOUS
<1>5. m.bridge = b /\ m.id = r.id /\ m.sid = actor.sid /\ m.messages = actor.messages
  BY <1>4 DEF Reply
<1>6. Post(m) /\ actor'.pc = "recv" /\ drained' = drained
  BY <1>2, <1>4 DEF FinishRun, Receiving, bufferVars
<1>7. ~r.keep => m.sid \notin registry' \cup attached'
  BY <1>2, <1>5 DEF FinishRun, Kill
<1>8. m.sid \in registry /\ r.op = "run"
  BY <1>1, <1>2, <1>5
<1>9. inbox' = RepliesLeft \cup (IF b \in registry' \cap attached' THEN {m} ELSE {})
  BY <1>5, <1>6, PostTells
<1> QED
  BY <1>1, <1>3, <1>5, <1>6, <1>7, <1>8, <1>9, Zenon DEF Tells

LEMMA ActorTells ==
  ASSUME IInv, CallInv, ActorStep
  PROVE  Silent \/ (\E z : Collects(z)) \/ (\E b, r, m : Tells(b, r, m))
<1>1. CASE OpenDevice
  BY <1>1, SilentKept DEF OpenDevice, bufferVars, HandsStill, Receiving, Stopped
<1>2. CASE HandleInjectBridge
  <2>1. actor = Receiving
    BY <1>2, ReceiveFacts DEF HandleInjectBridge
  <2> QED
    BY <1>2, <2>1, SilentKept DEF HandleInjectBridge, BeginInject, InjectFails, bufferVars,
                                  HandsStill, Receiving
<1>3. CASE LoadSucceeds
  <2>1. actor'.pc # "drained" /\ actor.pc = "load"
    BY <1>3 DEF LoadSucceeds, Receiving, IInv, TypeOK, ActorState, Stopped
  <2> QED
    BY <1>3, <2>1, SilentKept DEF LoadSucceeds, bufferVars, HandsStill
<1>4. CASE HandleDiagnostic
  BY <1>4, SilentKept DEF HandleDiagnostic, bufferVars, HandsStill
<1>5. CASE HandleShutdown
  BY <1>5 DEF HandleShutdown, Silent, HandsStill, Stopped, PostNothing, StillAddressed, RepliesLeft,
              bufferVars
<1>6. CASE HandleRun \/ HandlePull \/ HandleKill \/ HandleMalformed
  <2>1. PICK b, r : b = Head(queue).bridge /\ r = Head(queue).req
    OBVIOUS
  <2> QED
    BY <1>6, <2>1, HandleRunTells, HandlePullTells, HandleKillTells, HandleMalformedTells
<1>7. CASE LoadFails \/ FinishRun
  <2>1. PICK b, r : b = actor.cmd.bridge /\ r = actor.cmd.req
    OBVIOUS
  <2> QED
    BY <1>7, <2>1, LoadFailsTells, FinishRunTells
<1>8. CASE DrainRun
  BY <1>8, DrainRunCollects
<1> QED
  BY <1>1, <1>2, <1>3, <1>4, <1>5, <1>6, <1>7, <1>8 DEF ActorStep

LEMMA OtherSilent ==
  ASSUME CallInv,
         \/ HandlerStep \/ ProcessStep \/ MainStep \/ UNCHANGED vars
         \/ \E b, r : Forward(b, r)
  PROVE  Silent
<1>1. CASE \E p \in Pids : ProcessExit(p)
  BY <1>1 DEF ProcessExit, Silent, HandsStill, PostNothing, StillAddressed, RepliesLeft, bufferVars
<1>2. CASE UNCHANGED <<inbox, attached, drained, actor>>
  BY <1>2, SilentKept DEF HandsStill
<1> QED
  BY <1>1, <1>2 DEF HandlerStep, BufferMessage, ProcessStep, ProcessStart, MainStep,
     SendInjectBridge, MainResumes, CtrlC, SendShutdown, mainKeeps, vars, bufferVars, Forward

-----------------------------------------------------------------------------
(* The five ways in which a step concerns the threads and their replies.   *)

(* Threads stop waiting for want of a bridge, or nothing happens to them.  *)
Drops ==
  /\ Silent /\ got' = got
  /\ \A t \in Threads :
       \/ thread'[t] = thread[t]
       \/ /\ thread'[t].st # "waiting" /\ thread[t].bridge \notin attached'
          /\ \/ thread'[t] = NoCall
             \/ thread'[t].req = thread[t].req /\ thread'[t].sid = thread[t].sid

Answers(b, r, m) == Tells(b, r, m) /\ UNCHANGED <<thread, got>>

Drains(z) == Collects(z) /\ UNCHANGED <<thread, got>>

LEMMA SysKinds ==
  ASSUME Base, [SysNext]_sysVars
  PROVE  \/ Drops
         \/ \E b, r, m : Answers(b, r, m)
         \/ \E z : Drains(z)
         \/ \E t \in Threads, b \in 1 .. nextId, r \in Requests : Call(t, b, r)
         \/ \E t \in Threads : Return(t)
<1>1. CASE EngineSide
  <2>1. \/ ActorStep
        \/ (HandlerStep \/ ProcessStep \/ MainStep \/ UNCHANGED vars)
    BY <1>1, BridgeAssumption DEF EngineSide, ProcessStep, MainStep
  <2>2. Silent \/ (\E z : Collects(z)) \/ (\E b, r, m : Tells(b, r, m))
    BY <2>1, ActorTells, OtherSilent DEF Base
  <2>3. UNCHANGED <<thread, got>>
    BY <1>1 DEF EngineSide, bridgeVars
  <2>4. CASE Silent
    BY <2>3, <2>4 DEF Drops
  <2> QED
    BY <2>2, <2>3, <2>4 DEF Answers, Drains
<1>2. ASSUME NEW b, NEW r, Deliver(b, r) \/ Diagnose(b)
      PROVE  Drops
  <2>1. UNCHANGED vars \/ \E c, q : Forward(c, q)
    BY <1>2 DEF Deliver, Diagnose
  <2>2. Silent
    BY <2>1, OtherSilent DEF Base
  <2>3. UNCHANGED <<thread, got>>
    BY <1>2 DEF Deliver, Diagnose
  <2> QED
    BY <2>2, <2>3 DEF Drops
<1>3. ASSUME NEW t \in Threads, Unloaded(t)
      PROVE  Drops
  <2>1. Silent
    BY <1>3, OtherSilent DEF Unloaded, Base
  <2>2. \A u \in Threads : u # t => thread'[u] = thread[u]
    BY <1>3 DEF Unloaded, Base, SysTypeOK
  <2>3. /\ thread'[t].st # "waiting"
        /\ thread'[t].req = thread[t].req /\ thread'[t].sid = thread[t].sid
    <3>1. thread[t] \in CallState
      BY <1>3, ThreadType DEF Unloaded, Base
    <3>2. thread'[t] = [thread[t] EXCEPT !.st = "failed"]
      BY <1>3 DEF Unloaded, Base, SysTypeOK
    <3> QED
      BY <3>1, <3>2 DEF CallState
  <2>4. thread[t].bridge \notin attached' /\ got' = got
    BY <1>3 DEF Unloaded, vars
  <2> QED
    BY <2>1, <2>2, <2>3, <2>4 DEF Drops
<1>4. ASSUME NEW p \in Pids, Exit(p)
      PROVE  Drops
  <2>1. Silent
    BY <1>4, OtherSilent DEF Exit, ProcessStep, Base
  <2> QED
    BY <1>4, <2>1 DEF Exit, ProcessExit, Drops, NoCall
<1>5. CASE UNCHANGED sysVars
  <2>1. Silent
    BY <1>5, OtherSilent DEF sysVars, Base
  <2> QED
    BY <1>5, <2>1 DEF sysVars, bridgeVars, Drops
<1>6. CASE AgentSide
  <2>1. CASE \E f \in flight : Deliver(f[1], f[2])
    BY <1>2, <2>1
  <2>2. CASE \E b \in 1 .. nextId : Diagnose(b)
    BY <1>2, <2>2
  <2> QED
    BY <1>3, <1>6, <2>1, <2>2 DEF AgentSide
<1> QED
  BY <1>1, <1>4, <1>5, <1>6 DEF SysNext

(* The reply to a request that is asked of a loaded bridge goes to the     *)
(* thread that asked.                                                      *)
LEMMA TellsAsker ==
  ASSUME CallInv, Grows, NEW b, NEW r, NEW m, Tells(b, r, m)
  PROVE  /\ m \notin inbox
         /\ b \in attached' => \E t \in Threads :
              /\ Awaits(t, b, r) /\ Expects(t, m)
              /\ \A u \in Threads : Expects(u, m) => thread[u] = thread[t]
<1>1. ~Answered(b, r.id) /\ Known(b, r.id) /\ (b \in attached => Awaited(b, r))
  BY DEF Tells, Held
<1>2. m.bridge = b /\ m.id = r.id
  BY DEF Tells
<1>3. m \notin inbox
  BY <1>1, <1>2 DEF Answered
<1>4. ASSUME b \in attached'
      PROVE  \E t \in Threads :
               /\ Awaits(t, b, r) /\ Expects(t, m)
               /\ \A u \in Threads : Expects(u, m) => thread[u] = thread[t]
  <2>1. PICK t \in Threads : Awaits(t, b, r)
    BY <1>1, <1>4 DEF Grows, Known, Awaited
  <2>2. Expects(t, m)
    BY <1>2, <2>1 DEF Awaits, Expects
  <2>3. ASSUME NEW u \in Threads, Expects(u, m)
        PROVE  u = t
    BY <1>2, <2>1, <2>3 DEF CallInv, ThreadInv, Expects, Awaits
  <2> QED
    BY <2>1, <2>2, <2>3
<1> QED
  BY <1>3, <1>4

(* Nothing is expected of a call that has just been made.                  *)
LEMMA CallExpects ==
  ASSUME Base, NEW t \in Threads, NEW b, NEW r \in Requests, Call(t, b, r)
  PROVE  /\ \A m \in inbox : ~Expects(t, m)'
         /\ \A u \in Threads \ {t} : thread'[u] = thread[u]
         /\ thread'[t].sid = 0
<1>1. /\ b \in Sids /\ r.id = counter[b] + 1
      /\ \A c \in Sids : counter[c] \in Nat
      /\ thread'[t] = [st |-> "waiting", bridge |-> b, req |-> r, ok |-> FALSE, sid |-> 0]
      /\ \A u \in Threads \ {t} : thread'[u] = thread[u]
  BY CallFacts DEF Base
<1>2. r.id \notin 1 .. counter[b]
  <2>1. PICK n \in Nat : n = counter[b] /\ r.id = n + 1
    BY <1>1
  <2> QED
    BY <2>1
<1>3. \A m \in inbox : ~(m.bridge = b /\ m.id = r.id)
  BY <1>2 DEF Base, CallInv, InboxInv, Known
<1>4. thread'[t].bridge = b /\ thread'[t].req = r /\ thread'[t].sid = 0
  BY <1>1
<1> QED
  BY <1>1, <1>3, <1>4 DEF Expects

-----------------------------------------------------------------------------
(* One-shot runs.                                                          *)

(* The session s was issued, and is closed; no step opens it again.        *)
Gone(s) == s <= nextId /\ s \notin registry \cup attached

LEMMA StaysGone ==
  ASSUME Grows, IInv', NEW s \in Nat, Gone(s)
  PROVE  Gone(s)'
<1>1. s <= nextId'
  BY DEF Grows, Gone
<1>2. CASE s = 0
  BY <1>1, <1>2 DEF Gone, IInv, TypeOK, Sids
<1>3. CASE s # 0
  <2>1. s \in 1 .. nextId
    BY <1>3 DEF Gone, Grows
  <2> QED
    BY <1>1, <2>1 DEF Gone, Grows
<1> QED
  BY <1>2, <1>3

LEMMA OneShotNext ==
  ASSUME Base, Base', OneShotInv, [SysNext]_sysVars
  PROVE  OneShotInv'
<1> DEFINE OneShot(q) == q.op = "run" /\ ~q.keep
<1>0. Grows /\ IInv' /\ CallInv
  BY SysStep, SessionsGrow DEF Base
<1>1. \A t \in Threads : OneShot(thread[t].req) =>
        /\ Gone(thread[t].sid)
        /\ \A m \in inbox : Expects(t, m) => m.sid \notin registry \cup attached
  BY DEF OneShotInv, Gone
<1>2. \A m \in inbox : m.sid \in Nat /\ m.sid <= nextId
  BY DEF Base, CallInv, InboxInv, IInv, TypeOK, ReplyRecord, Sids
<1>3. \A t \in Threads, m \in inbox : OneShot(thread[t].req) /\ Expects(t, m) => Gone(m.sid)'
  BY <1>0, <1>1, <1>2, StaysGone DEF Gone
<1>4. ASSUME NEW t \in Threads, OneShot(thread[t].req), NEW s, s = thread[t].sid
      PROVE  Gone(s)'
  <2>1. s \in Nat
    BY <1>4, ThreadType DEF Base, Sids
  <2> QED
    BY <1>0, <1>1, <1>4, <2>1, StaysGone
<1> SUFFICES ASSUME NEW t \in Threads, OneShot(thread'[t].req)
             PROVE  /\ \E s : s = thread'[t].sid /\ Gone(s)'
                    /\ \A m \in inbox' : Expects(t, m)' => Gone(m.sid)'
  BY Zenon DEF OneShotInv, Gone
<1>5. Gone(0)'
  BY <1>0 DEF Gone, Grows, IInv, TypeOK, Sids
<1>6. CASE Drops
  <2>1. thread'[t] # NoCall
    <3>1. NoCall.req.op = ""
      BY DEF NoCall, Diagnostic
    <3>2. thread'[t].req.op = "run"
      OBVIOUS
    <3> QED
      BY <3>1, <3>2
  <2>2. /\ thread'[t].req = thread[t].req /\ thread'[t].sid = thread[t].sid
        /\ thread'[t].st = "waiting" => thread'[t] = thread[t]
    BY <1>6, <2>1 DEF Drops
  <2>3. \E s : s = thread'[t].sid /\ Gone(s)'
    BY <1>4, <2>2
  <2>4. \A m \in inbox' : Expects(t, m)' => m \in inbox /\ Expects(t, m)
    BY <1>6, <2>2 DEF Drops, Silent, RepliesLeft, Expects
  <2> QED
    BY <1>3, <2>2, <2>3, <2>4
<1>7. ASSUME NEW b, NEW r, NEW m, Answers(b, r, m)
      PROVE  /\ \E s : s = thread'[t].sid /\ Gone(s)'
             /\ \A k \in inbox' : Expects(t, k)' => Gone(k.sid)'
  <2>1. thread' = thread /\ Tells(b, r, m)
    BY <1>7 DEF Answers
  <2>2. \A k \in inbox' : k \in inbox \/ (k = m /\ b \in attached')
    BY <2>1 DEF Tells, RepliesLeft
  <2>3. ASSUME b \in attached', Expects(t, m)
        PROVE  Gone(m.sid)'
    <3>1. thread[t].req = r
      BY <1>0, <2>1, <2>3, TellsAsker DEF Awaits
    <3>2. r.op = "run" /\ ~r.keep
      BY <2>1, <3>1
    <3>3. \/ m.sid = 0
          \/ m.sid \in registry /\ m.sid \notin registry' \cup attached'
      BY <2>1, <3>2 DEF Tells
    <3>4. CASE m.sid \in registry /\ m.sid \notin registry' \cup attached'
      <4>1. m.sid \in 1 .. nextId
        BY <3>4 DEF Base, IInv, IssuedInv
      <4>2. m.sid <= nextId'
        BY <1>0, <4>1 DEF Grows
      <4> QED
        BY <3>4, <4>2 DEF Gone
    <3> QED
      BY <1>5, <3>3, <3>4
  <2>4. \E s : s = thread'[t].sid /\ Gone(s)'
    BY <1>4, <2>1
  <2>5. \A k : Expects(t, k)' <=> Expects(t, k)
    BY <2>1 DEF Expects
  <2>6. \A k \in inbox' : Expects(t, k)' => Gone(k.sid)'
    BY <1>3, <2>1, <2>2, <2>3, <2>5
  <2> QED
    BY <2>1, <2>4, <2>6
<1>8. ASSUME NEW u \in Threads, NEW b \in 1 .. nextId, NEW r \in Requests, Call(u, b, r)
      PROVE  /\ \E s : s = thread'[t].sid /\ Gone(s)'
             /\ \A k \in inbox' : Expects(t, k)' => Gone(k.sid)'
  <2>1. inbox' = inbox
    BY <1>8, CallFacts DEF Base
  <2>2. CASE t = u
    BY <1>5, <1>8, <2>1, <2>2, CallExpects
  <2>3. CASE t # u
    <3>1. thread'[t] = thread[t]
      BY <1>8, <2>3, CallExpects
    <3>2. \E s : s = thread'[t].sid /\ Gone(s)'
      BY <1>4, <3>1
    <3>3. \A k : Expects(t, k)' <=> Expects(t, k)
      BY <3>1 DEF Expects
    <3> QED
      BY <1>3, <2>1, <3>1, <3>2, <3>3
  <2> QED
    BY <2>2, <2>3
<1>9. ASSUME NEW u \in Threads, Return(u)
      PROVE  /\ \E s : s = thread'[t].sid /\ Gone(s)'
             /\ \A k \in inbox' : Expects(t, k)' => Gone(k.sid)'
  <2>1. PICK m \in inbox :
          /\ Expects(u, m) /\ inbox' = inbox \ {m}
          /\ thread'[u].st = "returned" /\ thread'[u].sid = m.sid
          /\ thread'[u].req = thread[u].req
          /\ \A v \in Threads \ {u} : thread'[v] = thread[v]
    BY <1>9, ReturnFacts DEF Base
  <2>2. CASE t = u
    <3>1. Gone(m.sid)'
      BY <1>3, <2>1, <2>2
    <3>2. \A k : ~Expects(t, k)'
      BY <2>1, <2>2 DEF Expects
    <3> QED
      BY <2>1, <2>2, <3>1, <3>2
  <2>3. CASE t # u
    <3>1. thread'[t] = thread[t]
      BY <2>1, <2>3
    <3>2. \E s : s = thread'[t].sid /\ Gone(s)'
      BY <1>4, <3>1
    <3>3. \A k : Expects(t, k)' <=> Expects(t, k)
      BY <3>1 DEF Expects
    <3> QED
      BY <1>3, <2>1, <3>1, <3>2, <3>3
  <2> QED
    BY <2>2, <2>3
<1>10. ASSUME NEW z, Drains(z)
       PROVE  /\ \E s : s = thread'[t].sid /\ Gone(s)'
              /\ \A k \in inbox' : Expects(t, k)' => Gone(k.sid)'
  <2>1. thread' = thread /\ inbox' = inbox
    BY <1>10 DEF Drains, Collects
  <2>2. \E s : s = thread'[t].sid /\ Gone(s)'
    BY <1>4, <2>1
  <2>3. \A k : Expects(t, k)' <=> Expects(t, k)
    BY <2>1 DEF Expects
  <2> QED
    BY <1>3, <2>1, <2>2, <2>3
<1> QED
  BY <1>6, <1>7, <1>8, <1>9, <1>10, SysKinds

-----------------------------------------------------------------------------
(* Target messages.                                                        *)

(* What is in the actor's hands before and after a step.                   *)
LEMMA HandsFacts ==
  ASSUME NEW s
  PROVE  /\ actor.pc # "drained" => InHand(s) = {}
         /\ actor'.pc # "drained" => InHand(s)' = {}
         /\ HandsStill => InHand(s)' = InHand(s)
BY DEF InHand, HandsStill, MessagesOf

(* What is drained for a run was in its buffer, and is new.                *)
LEMMA DrainMessages ==
  ASSUME Base, Base', NEW z, Drains(z)
  PROVE  /\ z \in Sids /\ z \in registry
         /\ \A s \in Sids : drained[s] \in Nat /\ drained[s] <= drained'[s]
         /\ drained'[z] = handled[z]
         /\ \A s \in Sids \ {z} : drained'[s] = drained[s]
         /\ InHand(z)' = Buffered(z)
         /\ InHand(z)' \subseteq drained[z] + 1 .. drained'[z]
         /\ \A s \in Sids : InHand(s) = {} /\ (s # z => InHand(s)' = {})
<1>1. drained \in [Sids -> Nat] /\ registry \subseteq Sids
  BY EngineAssumption DEF Base, IInv, TypeOK
<1>2. /\ z \in registry /\ z \in Sids
      /\ drained' = [drained EXCEPT ![z] = handled[z]]
      /\ actor.pc # "drained" /\ actor'.pc = "drained" /\ actor'.sid = z
      /\ actor'.messages = buffer[z]
  BY <1>1 DEF Drains, Collects
<1>3. drained'[z] = handled[z] /\ \A s \in Sids \ {z} : drained'[s] = drained[s]
  BY <1>1, <1>2
<1>4. /\ handled[z] \in Nat /\ drained[z] \in Nat /\ drained[z] <= handled[z]
      /\ Buffered(z) \subseteq drained[z] + 1 .. handled[z]
  BY <1>2, BufferedRange DEF Base
<1>5. InHand(z)' = Buffered(z)
  BY <1>2 DEF InHand, MessagesOf, Buffered
<1>6. \A s \in Sids : InHand(s) = {} /\ (s # z => InHand(s)' = {})
  BY <1>2 DEF InHand
<1>7. \A s \in Sids : drained[s] \in Nat /\ drained[s] <= drained'[s]
  BY <1>1, <1>3, <1>4
<1> QED
  BY <1>2, <1>3, <1>4, <1>5, <1>6, <1>7

(* What a reply that answers r carries was drained for it: for a pull in   *)
(* the step itself, for a run before.                                      *)
LEMMA AnswerMessages ==
  ASSUME Base, Base', Grows, NEW b, NEW r, NEW m, Answers(b, r, m)
  PROVE  /\ m \notin inbox /\ CallInv /\ Tells(b, r, m)
         /\ \A s \in Sids : drained[s] \in Nat /\ drained[s] <= drained'[s]
         /\ \A s \in Sids : InHand(s)' = {}
         /\ \/ /\ MessagesOf(m) = {} /\ drained' = drained
               /\ \A s \in Sids : InHand(s) = {}
            \/ \E z \in registry :
                 /\ z \in Sids /\ SessionAsked(r, m) = z
                 /\ MessagesOf(m) = Buffered(z)
                 /\ MessagesOf(m) \subseteq drained[z] + 1 .. drained'[z]
                 /\ drained'[z] = handled[z]
                 /\ \A s \in Sids \ {z} : drained'[s] = drained[s]
                 /\ \A s \in Sids : InHand(s) = {}
            \/ \E z \in registry :
                 /\ z \in Sids /\ SessionAsked(r, m) = z
                 /\ MessagesOf(m) = InHand(z) /\ drained' = drained
                 /\ \A s \in Sids \ {z} : InHand(s) = {}
<1>1. Tells(b, r, m) /\ m \notin inbox /\ CallInv
  BY TellsAsker DEF Answers, Base
<1>2. drained \in [Sids -> Nat] /\ registry \subseteq Sids
  BY EngineAssumption DEF Base, IInv, TypeOK
<1>3. drained' = drained => \A s \in Sids : drained[s] \in Nat /\ drained[s] <= drained'[s]
  BY <1>2
<1>4. \A s \in Sids : InHand(s)' = {} /\ (actor.pc # "drained" => InHand(s) = {})
  BY <1>1, HandsFacts DEF Tells
<1>5. CASE actor.pc # "drained" /\ m.messages = << >> /\ drained' = drained
  BY <1>1, <1>3, <1>4, <1>5 DEF MessagesOf
<1>6. CASE actor.pc # "drained" /\ m.sid = 0 /\ r.op = "pull" /\ DrainsInto(r.sid, m)
  <2>1. PICK z : z = r.sid
    OBVIOUS
  <2>2. z \in registry /\ z \in Sids /\ m.messages = buffer[z] /\ SessionAsked(r, m) = z
    BY <1>2, <1>6, <2>1 DEF DrainsInto, SessionAsked
  <2>3. drained' = [drained EXCEPT ![z] = handled[z]]
    BY <1>6, <2>1 DEF DrainsInto
  <2>4. drained'[z] = handled[z] /\ \A s \in Sids \ {z} : drained'[s] = drained[s]
    BY <1>2, <2>2, <2>3
  <2>5. /\ handled[z] \in Nat /\ drained[z] \in Nat /\ drained[z] <= handled[z]
        /\ Buffered(z) \subseteq drained[z] + 1 .. handled[z]
    BY <2>2, BufferedRange DEF Base
  <2>6. MessagesOf(m) = Buffered(z)
    BY <2>2 DEF MessagesOf, Buffered
  <2>7. \A s \in Sids : drained[s] \in Nat /\ drained[s] <= drained'[s]
    BY <1>2, <2>4, <2>5
  <2> QED
    BY <1>1, <1>4, <1>6, <2>2, <2>4, <2>5, <2>6, <2>7
<1>7. CASE /\ actor.pc = "drained" /\ m.sid = actor.sid /\ m.sid \in registry
           /\ m.messages = actor.messages /\ drained' = drained /\ r.op = "run"
  <2>1. PICK z : z = actor.sid
    OBVIOUS
  <2>2. z \in registry /\ z \in Sids /\ SessionAsked(r, m) = z
    BY <1>2, <1>7, <2>1 DEF SessionAsked
  <2>3. MessagesOf(m) = InHand(z) /\ \A s \in Sids \ {z} : InHand(s) = {}
    BY <1>7, <2>1 DEF InHand, MessagesOf
  <2> QED
    BY <1>1, <1>3, <1>4, <1>7, <2>2, <2>3
<1> QED
  BY <1>1, <1>5, <1>6, <1>7 DEF Tells

(* Which replies carry messages of a session to somebody, after a step     *)
(* that leaves the threads that wait alone.                                *)
LEMMA CarriesKept ==
  ASSUME \A t \in Threads : thread'[t] = thread[t] \/ thread'[t].st # "waiting"
  PROVE  \A m, s : Carries(m, s)' => Carries(m, s)
BY DEF Carries, Expects

LEMMA CarriesAgain ==
  ASSUME \A t \in Threads : thread'[t] = thread[t] \/ thread[t].bridge \notin attached'
  PROVE  \A m, s : m.bridge \in attached' /\ Carries(m, s) => Carries(m, s)'
BY DEF Carries, Expects

LEMMA FreshNext ==
  ASSUME Base, Base', FreshInv, [SysNext]_sysVars
  PROVE  /\ \A s \in Sids : s > nextId => drained'[s] = 0
         /\ FreshInv'
<1>0. Grows
  BY SysStep, SessionsGrow DEF Base
<1>1. \A s \in Sids : s > nextId => drained[s] = 0
  BY DEF FreshInv
<1>2. drained' = drained => \A s \in Sids : s > nextId => drained'[s] = 0
  BY <1>1
<1>3. ASSUME NEW b, NEW r, NEW m, Answers(b, r, m)
      PROVE  \A s \in Sids : s > nextId => drained'[s] = 0
  <2>1. drained' = drained \/ \E z \in registry : \A s \in Sids \ {z} : drained'[s] = drained[s]
    BY <1>0, <1>3, AnswerMessages
  <2>2. \A z \in registry : z <= nextId
    BY DEF Base, IInv, IssuedInv
  <2>3. \A z \in registry : \A s \in Sids : s > nextId => s # z
    BY <1>0, <2>2 DEF Grows, Sids, Base, IInv, TypeOK
  <2> QED
    BY <1>1, <2>1, <2>3
<1>6. ASSUME NEW z, Drains(z)
      PROVE  \A s \in Sids : s > nextId => drained'[s] = 0
  <2>1. z \in registry /\ \A s \in Sids \ {z} : drained'[s] = drained[s]
    BY <1>6, DrainMessages
  <2>2. z \in Nat /\ z <= nextId /\ nextId \in Nat
    BY <2>1 DEF Base, IInv, IssuedInv, TypeOK
  <2> QED
    BY <1>1, <2>1, <2>2 DEF Sids
<1>4. \A s \in Sids : s > nextId => drained'[s] = 0
  BY <1>2, <1>3, <1>6, SysKinds DEF Drops, Silent, Call, Return, ReceiveReply, vars, bufferVars
<1>5. \A s \in Sids : s > nextId' => s > nextId
  BY <1>0 DEF Grows, Sids
<1> QED
  BY <1>4, <1>5, Zenon DEF FreshInv

(* HeardInv for one session.                                               *)
HeardOf(s) ==
  /\ got[s] \cup InHand(s) \subseteq 1 .. drained[s]
  /\ got[s] \cap InHand(s) = {}
  /\ \A m \in inbox : Carries(m, s) =>
       /\ MessagesOf(m) \subseteq 1 .. drained[s]
       /\ MessagesOf(m) \cap (got[s] \cup InHand(s)) = {}
  /\ \A m, k \in inbox : Carries(m, s) /\ Carries(k, s) /\ m # k =>
       MessagesOf(m) \cap MessagesOf(k) = {}

(* Nothing new is carried, or in the actor's hands.                        *)
LEMMA HeardKept ==
  ASSUME NEW s, HeardOf(s), drained' = drained, got' = got, inbox' \subseteq inbox,
         InHand(s)' = InHand(s), \A m \in inbox' : Carries(m, s)' => Carries(m, s)
  PROVE  HeardOf(s)'
BY DEF HeardOf, MessagesOf

LEMMA HeardReturn ==
  ASSUME Base, NEW s \in Sids, HeardOf(s), NEW t \in Threads, Return(t)
  PROVE  HeardOf(s)'
<1>1. PICK m \in inbox :
        /\ Expects(t, m) /\ inbox' = inbox \ {m}
        /\ thread'[t].st = "returned"
        /\ \A u \in Threads \ {t} : thread'[u] = thread[u]
        /\ LET z == SessionAsked(thread[t].req, m)
           IN got' = IF z \in Sids THEN [got EXCEPT ![z] = @ \cup MessagesOf(m)] ELSE got
        /\ ReceiveReply(m)
  BY ReturnFacts DEF Base
<1>2. drained' = drained /\ InHand(s)' = InHand(s)
  BY <1>1, HandsFacts DEF ReceiveReply, bufferVars, HandsStill
<1>3. \A k : Carries(k, s)' => Carries(k, s)
  BY <1>1, CarriesKept
<1>4. CASE SessionAsked(thread[t].req, m) = s
  <2>1. Carries(m, s)
    BY <1>1, <1>4 DEF Carries
  <2>2. got'[s] = got[s] \cup MessagesOf(m)
    BY <1>1, <1>4 DEF Base, SysTypeOK
  <2>3. MessagesOf(m) \subseteq 1 .. drained[s] /\ MessagesOf(m) \cap InHand(s) = {}
    BY <2>1 DEF HeardOf
  <2>4. \A k \in inbox' : k \in inbox /\ k # m /\ (Carries(k, s)' => Carries(k, s))
    BY <1>1, <1>3
  <2>5. \A k \in inbox' : Carries(k, s) =>
          /\ MessagesOf(k) \subseteq 1 .. drained[s]
          /\ MessagesOf(k) \cap (got'[s] \cup InHand(s)) = {}
    BY <2>1, <2>2, <2>4 DEF HeardOf
  <2>6. /\ got'[s] \cup InHand(s) \subseteq 1 .. drained[s]
        /\ got'[s] \cap InHand(s) = {}
    BY <2>2, <2>3 DEF HeardOf
  <2>7. \A l, k \in inbox' : Carries(l, s) /\ Carries(k, s) /\ l # k =>
          MessagesOf(l) \cap MessagesOf(k) = {}
    BY <2>4 DEF HeardOf
  <2> QED
    BY <1>2, <2>4, <2>5, <2>6, <2>7 DEF HeardOf, MessagesOf
<1>5. CASE SessionAsked(thread[t].req, m) # s
  <2>1. got'[s] = got[s]
    BY <1>1, <1>5 DEF Base, SysTypeOK
  <2> QED
    BY <1>1, <1>2, <1>3, <2>1 DEF HeardOf, MessagesOf
<1> QED
  BY <1>4, <1>5

LEMMA HeardAnswer ==
  ASSUME Base, Base', Grows, NEW s \in Sids, HeardOf(s),
         NEW b, NEW r, NEW m, Answers(b, r, m)
  PROVE  HeardOf(s)'
<1>1. got' = got /\ thread' = thread
  BY DEF Answers
<1>2. /\ m \notin inbox /\ CallInv /\ Tells(b, r, m)
      /\ drained[s] \in Nat /\ drained[s] <= drained'[s]
      /\ InHand(s)' = {}
  BY AnswerMessages
<1>3. \A l \in inbox' : l \in inbox \/ (l = m /\ b \in attached')
  BY <1>2 DEF Tells, RepliesLeft
<1>4. drained'[s] \in Nat
  BY EngineAssumption DEF Base, IInv, TypeOK
<1>5. ASSUME b \in attached', Carries(m, s)
      PROVE  MessagesOf(m) \subseteq (drained[s] + 1 .. drained'[s]) \cup InHand(s)
  <2>1. SessionAsked(r, m) = s
    BY <1>2, <1>5, TellsAsker DEF Carries, Awaits
  <2> QED
    BY <2>1, AnswerMessages
<1>6. \A l : Carries(l, s)' <=> Carries(l, s)
  BY <1>1 DEF Carries, Expects
<1>7. /\ 1 .. drained[s] \subseteq 1 .. drained'[s]
      /\ drained[s] + 1 .. drained'[s] \subseteq 1 .. drained'[s]
      /\ (1 .. drained[s]) \cap (drained[s] + 1 .. drained'[s]) = {}
  BY <1>2, <1>4
<1>8. ASSUME NEW l \in inbox', Carries(l, s)
      PROVE  MessagesOf(l) \subseteq 1 .. drained'[s] /\ MessagesOf(l) \cap got'[s] = {}
  BY <1>1, <1>3, <1>5, <1>7, <1>8 DEF HeardOf
<1>9. \A l, k \in inbox' : Carries(l, s) /\ Carries(k, s) /\ l # k =>
        MessagesOf(l) \cap MessagesOf(k) = {}
  BY <1>3, <1>5, <1>7 DEF HeardOf
<1> QED
  BY <1>1, <1>2, <1>6, <1>7, <1>8, <1>9 DEF HeardOf, MessagesOf

LEMMA HeardDrain ==
  ASSUME Base, Base', NEW s \in Sids, HeardOf(s), NEW z, Drains(z)
  PROVE  HeardOf(s)'
<1>1. UNCHANGED <<got, thread, inbox>>
  BY DEF Drains, Collects
<1>2. \A l : Carries(l, s)' <=> Carries(l, s)
  BY <1>1 DEF Carries, Expects
<1>3. drained[s] \in Nat /\ drained'[s] \in Nat /\ drained[s] <= drained'[s]
  <2>1. drained'[s] \in Nat
    BY EngineAssumption DEF Base, IInv, TypeOK
  <2> QED
    BY <2>1, DrainMessages
<1>4. InHand(s)' \subseteq drained[s] + 1 .. drained'[s]
  BY DrainMessages
<1>5. /\ 1 .. drained[s] \subseteq 1 .. drained'[s]
      /\ drained[s] + 1 .. drained'[s] \subseteq 1 .. drained'[s]
      /\ (1 .. drained[s]) \cap (drained[s] + 1 .. drained'[s]) = {}
  BY <1>3
<1> QED
  BY <1>1, <1>2, <1>4, <1>5 DEF HeardOf, MessagesOf

LEMMA HeardNext ==
  ASSUME Base, Base', HeardInv, [SysNext]_sysVars
  PROVE  HeardInv'
<1>0. Grows
  BY SysStep, SessionsGrow DEF Base
<1>1. HeardInv <=> \A s \in Sids : HeardOf(s)
  BY DEF HeardInv, HeardOf
<1>2. HeardInv' <=> \A s \in Sids : HeardOf(s)'
  BY DEF HeardInv, HeardOf, MessagesOf
<1> SUFFICES ASSUME NEW s \in Sids
             PROVE  HeardOf(s)'
  BY <1>2
<1>3. HeardOf(s)
  BY <1>1
<1>4. CASE Drops
  <2>1. \A m : Carries(m, s)' => Carries(m, s)
    BY <1>4, CarriesKept DEF Drops
  <2>2. InHand(s)' = InHand(s)
    BY <1>4, HandsFacts DEF Drops, Silent
  <2> QED
    BY <1>3, <1>4, <2>1, <2>2, HeardKept DEF Drops, Silent, RepliesLeft
<1>5. ASSUME NEW t \in Threads, NEW b \in 1 .. nextId, NEW r \in Requests, Call(t, b, r)
      PROVE  HeardOf(s)'
  <2>1. \A m \in inbox : Carries(m, s)' => Carries(m, s)
    BY <1>5, CallExpects DEF Carries, Expects
  <2>2. UNCHANGED <<inbox, got, drained, actor>>
    BY <1>5 DEF Call, vars, bufferVars
  <2>3. InHand(s)' = InHand(s)
    BY <2>2, HandsFacts DEF HandsStill
  <2> QED
    BY <1>3, <2>1, <2>2, <2>3, HeardKept
<1> QED
  BY <1>0, <1>3, <1>4, <1>5, HeardReturn, HeardAnswer, HeardDrain, SysKinds

(* Handlers only count up.                                                 *)
LEMMA HandledGrows ==
  ASSUME IInv, [Next]_vars
  PROVE  \A s \in Sids : handled[s] \in Nat /\ handled[s] <= handled'[s]
<1>1. handled \in [Sids -> Nat]
  BY EngineAssumption DEF IInv, TypeOK
<1>2. CASE \E s \in 1 .. nextId : BufferMessage(s)
  <2>1. PICK z : handled' = [handled EXCEPT ![z] = @ + 1]
    BY <1>2 DEF BufferMessage
  <2> QED
    BY <1>1, <2>1
<1>3. CASE handled' = handled
  BY <1>1, <1>3
<1> QED
  BY <1>2, <1>3 DEF Next, vars, bufferVars, ActorStep, OpenDevice, HandleInjectBridge, HandleRun,
     BeginInject, InjectFails, LoadFails, LoadSucceeds, DrainRun, FinishRun, HandlePull,
     HandleKill, HandleMalformed, HandleDiagnostic, HandleShutdown, Drain, HandlerStep, BridgeStep,
     ForwardMessage, Forward, ReceiveReply, ProcessStep, ProcessExit, ProcessStart, MainStep,
     SendInjectBridge, MainResumes, CtrlC, SendShutdown, mainKeeps

(* The session being opened is the one that was, or a new one.             *)
LEMMA OpeningKept ==
  ASSUME IInv, [Next]_vars
  PROVE  Opening' \cap (1 .. nextId) \subseteq Opening
<1>1. Opening' # Opening => Opening' \cap (1 .. nextId) = {}
  BY StepKeepsIds
<1> QED
  BY <1>1

(* Message k of session s has reached a script, a reply that carries it is *)
(* waiting for one, or the actor is about to post it.                      *)
Told(s, k) == k \in got[s] \cup InHand(s) \/ \E m \in inbox : k \in MessagesOf(m) /\ Carries(m, s)

(* With every bridge loaded, whoever asked is told.                        *)
LEMMA AnswerTold ==
  ASSUME Base, Base', Grows, BridgesAttached', NEW s \in Sids,
         NEW b, NEW r, NEW m, Answers(b, r, m), SessionAsked(r, m) = s, NEW k \in MessagesOf(m)
  PROVE  Told(s, k)'
<1>1. Tells(b, r, m) /\ Known(b, r.id) /\ thread' = thread
  BY DEF Answers, Tells, Held
<1>2. b \in attached'
  BY <1>1 DEF Known, BridgesAttached, Grows
<1>3. b \in registry'
  BY <1>1, <1>2 DEF Tells, Base, IInv, AgentsRegistered, Opening
<1>4. m \in inbox'
  BY <1>1, <1>2, <1>3 DEF Tells
<1>5. Carries(m, s)'
  <2>1. PICK t \in Threads : Expects(t, m) /\ thread[t].req = r
    BY <1>1, <1>2, TellsAsker DEF Awaits, Base
  <2> QED
    BY <1>1, <2>1 DEF Carries, Expects
<1> QED
  BY <1>4, <1>5 DEF Told, MessagesOf

(* With every bridge loaded nothing that was told is lost.                 *)
LEMMA ToldKept ==
  ASSUME Base, Base', [SysNext]_sysVars, BridgesAttached', NEW s \in Sids, NEW k, Told(s, k)
  PROVE  Told(s, k)'
<1>0. Grows /\ CallInv
  BY SysStep, SessionsGrow DEF Base
<1>1. \A b \in 1 .. nextId : forward[b] => b \in attached'
  BY <1>0 DEF BridgesAttached, Grows
<1>2. \A m \in inbox : m.bridge \in attached'
  BY <1>0, <1>1 DEF CallInv, InboxInv, Known
<1>3. got \in [Sids -> SUBSET Nat]
  BY DEF Base, SysTypeOK
<1>4. CASE k \in got[s]
  <2>1. got[s] \subseteq got'[s]
    <3>1. ASSUME NEW t \in Threads, Return(t)
          PROVE  got[s] \subseteq got'[s]
      <4>1. PICK z, m : got' = IF z \in Sids THEN [got EXCEPT ![z] = @ \cup MessagesOf(m)] ELSE got
        BY <3>1 DEF Return
      <4> QED
        BY <1>3, <4>1
    <3> QED
      BY <3>1, SysKinds DEF Drops, Answers, Drains, Call
  <2> QED
    BY <1>4, <2>1 DEF Told
<1>6. CASE k \in InHand(s)
  <2>1. actor.pc = "drained"
    BY <1>6, HandsFacts
  <2>2. CASE InHand(s)' = InHand(s)
    BY <1>6, <2>2 DEF Told
  <2>3. ASSUME NEW b, NEW r, NEW m, Answers(b, r, m)
        PROVE  Told(s, k)'
    <3>1. SessionAsked(r, m) = s /\ k \in MessagesOf(m)
      BY <1>0, <1>6, <2>3, AnswerMessages
    <3> QED
      BY <1>0, <2>3, <3>1, AnswerTold
  <2>4. HandsStill => InHand(s)' = InHand(s)
    BY HandsFacts
  <2> QED
    BY <2>1, <2>2, <2>3, <2>4, SysKinds DEF Drops, Silent, Drains, Collects, Call, Return,
       ReceiveReply, vars, HandsStill
<1>5. ASSUME NEW m \in inbox, k \in MessagesOf(m), Carries(m, s)
      PROVE  Told(s, k)'
  <2>1. CASE Drops \/ (\E b, r, l : Answers(b, r, l)) \/ (\E z : Drains(z))
    <3>1. /\ RepliesLeft \subseteq inbox'
          /\ \A t \in Threads : thread'[t] = thread[t] \/ thread[t].bridge \notin attached'
      BY <2>1 DEF Drops, Silent, Answers, Tells, Drains, Collects, RepliesLeft
    <3>2. m \in inbox'
      BY <1>2, <3>1 DEF RepliesLeft
    <3>3. Carries(m, s)'
      BY <1>2, <1>5, <3>1, CarriesAgain
    <3> QED
      BY <1>5, <3>2, <3>3 DEF Told, MessagesOf
  <2>2. ASSUME NEW t \in Threads, NEW b \in 1 .. nextId, NEW r \in Requests, Call(t, b, r)
        PROVE  Told(s, k)'
    <3>1. /\ thread[t].st # "waiting" /\ inbox' = inbox
          /\ \A u \in Threads \ {t} : thread'[u] = thread[u]
      BY <2>2, CallFacts DEF Base
    <3>2. Carries(m, s)'
      BY <1>5, <3>1 DEF Carries, Expects
    <3> QED
      BY <1>5, <3>1, <3>2 DEF Told, MessagesOf
  <2>3. ASSUME NEW t \in Threads, Return(t)
        PROVE  Told(s, k)'
    <3>1. PICK l \in inbox :
            /\ Expects(t, l) /\ inbox' = inbox \ {l}
            /\ \A u \in Threads \ {t} : thread'[u] = thread[u]
            /\ LET z == SessionAsked(thread[t].req, l)
               IN got' = IF z \in Sids THEN [got EXCEPT ![z] = @ \cup MessagesOf(l)] ELSE got
      BY <2>3, ReturnFacts DEF Base
    <3>2. PICK u \in Threads : Expects(u, m) /\ SessionAsked(thread[u].req, m) = s
      BY <1>5 DEF Carries
    <3>3. CASE l = m
      <4>1. u = t
        BY <1>0, <3>1, <3>2, <3>3 DEF CallInv, ThreadInv, Expects
      <4>2. got'[s] = got[s] \cup MessagesOf(m)
        BY <1>3, <3>1, <3>2, <3>3, <4>1
      <4> QED
        BY <1>5, <4>2 DEF Told
    <3>4. CASE l # m
      <4>1. u # t
        BY <1>0, <3>1, <3>2, <3>4 DEF CallInv, InboxInv, Expects
      <4>2. Carries(m, s)'
        BY <3>1, <3>2, <4>1 DEF Carries, Expects
      <4> QED
        BY <1>5, <3>1, <3>4, <4>2 DEF Told, MessagesOf
    <3> QED
      BY <3>3, <3>4
  <2> QED
    BY <2>1, <2>2, <2>3, SysKinds
<1> QED
  BY <1>4, <1>5, <1>6 DEF Told

LEMMA ToldNext ==
  ASSUME Base, Base', FreshInv, ToldInv, [SysNext]_sysVars
  PROVE  ToldInv'
<1>0. Grows /\ [Next]_vars /\ IInv /\ IInv' /\ CallInv
  BY SysStep, SessionsGrow DEF Base
<1> SUFFICES ASSUME BridgesAttached',
                    NEW s \in (registry \cup Opening)', ~forward'[s], handled'[s] <= MaxBuffered,
                    NEW k \in 1 .. drained'[s]
             PROVE  Told(s, k)'
  BY DEF ToldInv, Told, MessagesOf
<1>1. s \in Sids
  BY <1>0 DEF IInv, TypeOK, Opening, ActorState, Receiving, Stopped
<1>2. drained'[s] \in Nat /\ drained[s] \in Nat
  BY <1>0, <1>1, EngineAssumption DEF IInv, TypeOK
<1>3. BridgesAttached
  BY <1>0 DEF BridgesAttached, Grows
<1>4. s \in 1 .. nextId
  <2>1. drained'[s] # 0
    BY <1>2
  <2> QED
    BY <1>0, <1>1, <2>1, FreshNext DEF Sids, Grows
<1>5. s \in registry \cup Opening /\ ~forward[s]
  BY <1>0, <1>4, OpeningKept DEF Grows
<1>6. handled[s] <= MaxBuffered
  <2>1. handled[s] \in Nat /\ handled[s] <= handled'[s]
    BY <1>0, <1>1, HandledGrows
  <2>2. handled'[s] \in Nat
    BY <1>0, <1>1, EngineAssumption DEF IInv, TypeOK
  <2> QED
    BY <2>1, <2>2, MaxBufferedAssumption
<1>7. CASE k <= drained[s]
  <2>1. Told(s, k)
    BY <1>2, <1>3, <1>5, <1>6, <1>7 DEF ToldInv, Told
  <2> QED
    BY <1>1, <2>1, ToldKept
(* The step drained session s.                                             *)
<1>8. CASE ~(k <= drained[s])
  <2>1. drained'[s] # drained[s]
    BY <1>2, <1>8
  <2>2. Buffered(s) = drained[s] + 1 .. handled[s]
    BY <1>0, <1>1, <1>6, BufferedRange
  <2>3. ASSUME NEW b, NEW r, NEW m, Answers(b, r, m)
        PROVE  Told(s, k)'
    <3>1. /\ SessionAsked(r, m) = s
          /\ MessagesOf(m) = Buffered(s) /\ drained'[s] = handled[s]
      BY <1>0, <1>1, <2>1, <2>3, AnswerMessages
    <3>2. k \in MessagesOf(m)
      BY <1>2, <1>8, <2>2, <3>1
    <3> QED
      BY <1>0, <1>1, <2>3, <3>1, <3>2, AnswerTold
  <2>4. ASSUME NEW z, Drains(z)
        PROVE  Told(s, k)'
    <3>1. z = s
      BY <1>1, <2>1, <2>4, DrainMessages
    <3>2. InHand(s)' = Buffered(s) /\ drained'[s] = handled[s]
      BY <2>4, <3>1, DrainMessages
    <3>3. k \in InHand(s)'
      BY <1>2, <1>8, <2>2, <3>2
    <3> QED
      BY <3>3 DEF Told
  <2> QED
    BY <2>1, <2>3, <2>4, SysKinds DEF Drops, Silent, Call, Return, ReceiveReply, vars, bufferVars
<1> QED
  BY <1>7, <1>8

-----------------------------------------------------------------------------
(* The theorems.                                                           *)

TellInv == Base /\ OneShotInv /\ HeardInv /\ FreshInv /\ ToldInv

LEMMA TellAlways == SysSpec => []TellInv
<1>1. SysInit => TellInv
  <2> SUFFICES ASSUME SysInit
               PROVE  TellInv
    OBVIOUS
  <2>1. /\ inbox = {} /\ registry = {} /\ attached = {} /\ nextId = 0
        /\ drained = [s \in Sids |-> 0] /\ got = [s \in Sids |-> {}]
        /\ Opening = {}
        /\ \A t \in Threads : thread[t].req.op = ""
    BY DEF SysInit, Init, NoCall, Diagnostic, Opening
  <2>2. OneShotInv /\ FreshInv
    BY <2>1 DEF OneShotInv, FreshInv
  <2>3. HeardInv
    <3>1. \A z \in Sids : InHand(z) = {}
      BY DEF SysInit, Init, InHand
    <3> QED
      BY <2>1, <3>1 DEF HeardInv
  <2>4. ToldInv
    BY <2>1 DEF ToldInv
  <2> QED
    BY <2>2, <2>3, <2>4, BaseInit DEF TellInv
<1>2. TellInv /\ [SysNext]_sysVars => TellInv'
  <2> SUFFICES ASSUME TellInv, [SysNext]_sysVars
               PROVE  TellInv'
    OBVIOUS
  <2>1. Base /\ Base'
    BY BaseNext DEF TellInv
  <2> QED
    BY <2>1, OneShotNext, HeardNext, FreshNext, ToldNext DEF TellInv
<1> QED
  BY <1>1, <1>2, PTL DEF SysSpec

(* OneShotGone: when the caller of a one-shot run can read its reply, or   *)
(* has read it, the session is neither loaded nor registered, and stays    *)
(* so.  The reply to a run is posted after kill, and closed ids are not    *)
(* issued or registered again.                                             *)
THEOREM OneShotsGone == SysSpec => []OneShotGone
<1>1. TellInv => OneShotGone
  BY DEF TellInv, OneShotInv, OneShotGone
<1> QED
  BY <1>1, TellAlways, PTL

(* HeardOnce: several threads and bridges may pull one session, and no     *)
(* message is given out twice.  What is out was drained (HeardInv), a      *)
(* buffer holds what was not (BufferExact), and a drain takes it whole.    *)
THEOREM MessagesHeardOnce == SysSpec => []HeardOnce
<1>1. ASSUME TellInv
      PROVE  HeardOnce
  <2> SUFFICES ASSUME NEW s \in Sids
               PROVE  /\ {p[2] : p \in OnTheWay(s)} \cap got[s] = {}
                      /\ \A p, q \in OnTheWay(s) : p[2] = q[2] => p = q
                      /\ InHand(s) \cap (got[s] \cup {p[2] : p \in OnTheWay(s)}) = {}
                      /\ Buffered(s)
                           \cap (InHand(s) \cup got[s] \cup {p[2] : p \in OnTheWay(s)}) = {}
    BY DEF HeardOnce
  <2>1. HeardOf(s)
    BY <1>1 DEF TellInv, HeardInv, HeardOf
  <2>2. ASSUME NEW p \in OnTheWay(s)
        PROVE  /\ p[1] \in inbox /\ Carries(p[1], s) /\ p[2] \in MessagesOf(p[1])
               /\ p = <<p[1], p[2]>>
    BY DEF OnTheWay
  <2>3. \A p \in OnTheWay(s) : p[2] \notin got[s] \cup InHand(s) /\ p[2] \in 1 .. drained[s]
    BY <2>1, <2>2 DEF HeardOf
  <2>4. \A p, q \in OnTheWay(s) : p[2] = q[2] => p = q
    BY <2>1, <2>2 DEF HeardOf
  <2>5. Buffered(s) \cap 1 .. drained[s] = {}
    <3>1. /\ drained[s] \in Nat /\ handled[s] \in Nat
          /\ Buffered(s) \subseteq drained[s] + 1 .. handled[s]
      BY <1>1, BufferedRange DEF TellInv, Base
    <3> QED
      BY <3>1
  <2> QED
    BY <2>1, <2>3, <2>4, <2>5 DEF HeardOf
<1> QED
  BY <1>1, TellAlways, PTL

(* NothingLost: while every bridge stays loaded, what a session that has   *)
(* not overrun its buffer has sent is in the buffer, in a reply on its way *)
(* or with a script; a drain is never for nobody.                          *)
THEOREM NoMessageLost == SysSpec => []NothingLost
<1>1. ASSUME TellInv
      PROVE  NothingLost
  <2> SUFFICES ASSUME BridgesAttached,
                      NEW s \in registry \cup Opening, ~forward[s], handled[s] <= MaxBuffered,
                      NEW k \in 1 .. handled[s]
               PROVE  k \in Buffered(s) \cup InHand(s) \cup got[s] \cup {p[2] : p \in OnTheWay(s)}
    BY DEF NothingLost
  <2>1. s \in Sids
    BY <1>1 DEF TellInv, Base, IInv, TypeOK, Opening, ActorState, Receiving, Stopped
  <2>2. /\ handled[s] \in 0 .. MaxMessages /\ drained[s] \in Nat /\ drained[s] <= handled[s]
        /\ Buffered(s) = drained[s] + 1 .. handled[s]
    BY <1>1, <2>1, BufferedRange DEF TellInv, Base, IInv, TypeOK
  <2>3. CASE k > drained[s]
    BY <2>2, <2>3
  <2>4. CASE ~(k > drained[s])
    <3>1. Told(s, k)
      BY <1>1, <2>2, <2>4 DEF TellInv, ToldInv, Told
    <3>2. ASSUME NEW m \in inbox, k \in MessagesOf(m), Carries(m, s)
          PROVE  \E p \in OnTheWay(s) : k = p[2]
      <4>1. PICK p : p = <<m, k>>
        OBVIOUS
      <4>2. k \in 1 .. MaxMessages
        BY <2>2, EngineAssumption
      <4>3. p \in inbox \X (1 .. MaxMessages) /\ p[1] = m /\ p[2] = k
        BY <4>1, <4>2
      <4> QED
        BY <3>2, <4>3 DEF OnTheWay
    <3> QED
      BY <3>1, <3>2 DEF Told
  <2> QED
    BY <2>3, <2>4
<1> QED
  BY <1>1, TellAlways, PTL

-----------------------------------------------------------------------------
(* The calls of CallService.                                               *)

AtBridge(t) == IF thread[t].st = "waiting" THEN thread[t].bridge ELSE 0
AnswersOf(t) == {m \in inbox : Expects(t, m)}

(* The mapping, thread by thread.                                          *)
LEMMA CallsMapped ==
  ASSUME NEW t \in Threads
  PROVE  /\ [u \in Threads |-> IF thread[u].st = "waiting" THEN thread[u].bridge ELSE 0][t]
              = AtBridge(t)
         /\ [u \in Threads |-> {m \in inbox : Expects(u, m)}][t] = AnswersOf(t)
         /\ [u \in Threads |-> IF thread'[u].st = "waiting" THEN thread'[u].bridge ELSE 0][t]
              = AtBridge(t)'
         /\ [u \in Threads |-> {m \in inbox' : Expects(u, m)'}][t] = AnswersOf(t)'
BY DEF AtBridge, AnswersOf

(* No thread waits for a session that is to come, and bridges that are not *)
(* loaded have no replies.                                                 *)
LEMMA AwaitedBridge ==
  ASSUME Base, NEW t \in Threads
  PROVE  /\ AtBridge(t) \in 0 .. nextId
         /\ AtBridge(t) \notin attached => AnswersOf(t) = {}
         /\ \A m \in AnswersOf(t) : m.bridge = AtBridge(t) /\ m.bridge \in attached
<1>1. nextId \in Nat /\ (\A m \in inbox : m.bridge \in attached)
  BY DEF Base, IInv, TypeOK, Sids, CallInv, InboxInv
<1>2. thread[t].st = "waiting" => thread[t].bridge \in 1 .. nextId
  BY DEF Base, CallInv, ThreadInv, Known
<1>3. \A m \in AnswersOf(t) : m.bridge = AtBridge(t) /\ m.bridge \in attached
  BY <1>1 DEF AnswersOf, AtBridge, Expects
<1> QED
  BY <1>1, <1>2, <1>3 DEF AtBridge

(* What Kept says of a thread whose replies are those that are left.       *)
AnswersKept(t) ==
  AnswersOf(t)' = IF AtBridge(t)' \in attached' THEN AnswersOf(t) ELSE {}

LEMMA LeftKept ==
  ASSUME Base', NEW t \in Threads,
         \/ thread'[t] = thread[t]
         \/ thread'[t].st # "waiting" /\ thread[t].bridge \notin attached',
         \A m : Expects(t, m)' => (m \in inbox' <=> m \in RepliesLeft)
  PROVE  AnswersKept(t)
<1>1. CASE thread'[t].st # "waiting"
  <2>1. AnswersOf(t)' = {} /\ AtBridge(t)' = 0
    BY <1>1 DEF AnswersOf, AtBridge, Expects
  <2>2. 0 \notin attached'
    BY DEF Base, IInv, TypeOK, Sids
  <2> QED
    BY <2>1, <2>2 DEF AnswersKept
<1>2. CASE thread'[t].st = "waiting"
  <2>1. thread'[t] = thread[t]
    BY <1>2
  <2>2. \A m : Expects(t, m)' <=> Expects(t, m)
    BY <2>1 DEF Expects
  <2>3. AtBridge(t)' = thread[t].bridge
    BY <1>2, <2>1 DEF AtBridge
  <2>4. \A m : Expects(t, m) => m.bridge = thread[t].bridge
    BY DEF Expects
  <2>5. AnswersOf(t)' = {m \in RepliesLeft : Expects(t, m)}
    BY <2>2 DEF AnswersOf
  <2> QED
    BY <2>3, <2>4, <2>5 DEF AnswersKept, AnswersOf, RepliesLeft
<1> QED
  BY <1>1, <1>2

(* Every step of the engine with its agents is a step of CallService.      *)
LEMMA StepImplementsCalls ==
  ASSUME Base, Base', [SysNext]_sysVars
  PROVE  [Calls!Next]_Calls!vars
<1>0. Grows
  BY SysStep, SessionsGrow DEF Base
<1>1. \A t \in Threads : AtBridge(t) \in attached' => AtBridge(t) \in attached
  <2>1. 0 \notin attached'
    BY DEF Base, IInv, TypeOK, Sids
  <2>2. \A t \in Threads : AtBridge(t) # 0 => AtBridge(t) \in 1 .. nextId
    BY <1>0, AwaitedBridge DEF Grows
  <2> QED
    BY <1>0, <2>1, <2>2 DEF Grows
<1>2. ASSUME \A t \in Threads : AnswersKept(t),
             \A t \in Threads :
               AtBridge(t)' = AtBridge(t) \/ (AtBridge(t)' = 0 /\ AtBridge(t) \notin attached')
      PROVE  Calls!Change
  BY <1>1, <1>2, CallsMapped, Zenon DEF Calls!Change, Calls!Kept, AnswersKept
<1>3. CASE Drops
  <2>1. \A t \in Threads : AnswersKept(t)
    BY <1>3, LeftKept DEF Drops, Silent
  <2>2. ASSUME NEW t \in Threads
        PROVE  AtBridge(t)' = AtBridge(t) \/ (AtBridge(t)' = 0 /\ AtBridge(t) \notin attached')
    <3>1. 0 \notin attached'
      BY DEF Base, IInv, TypeOK, Sids
    <3> QED
      BY <1>3, <3>1 DEF Drops, AtBridge
  <2> QED
    BY <1>2, <2>1, <2>2 DEF Calls!Next
<1>4. ASSUME NEW b, NEW r, NEW m, Answers(b, r, m)
      PROVE  Calls!Next
  <2>1. /\ thread' = thread /\ Tells(b, r, m)
        /\ inbox' = RepliesLeft \cup (IF b \in registry' \cap attached' THEN {m} ELSE {})
    BY <1>4 DEF Answers, Tells
  <2>2. \A t \in Threads : AtBridge(t)' = AtBridge(t)
    BY <2>1 DEF AtBridge
  <2>3. \A t \in Threads : \A k : Expects(t, k)' <=> Expects(t, k)
    BY <2>1 DEF Expects
  <2>4. CASE b \notin registry' \cap attached'
    <3>1. \A t \in Threads : AnswersKept(t)
      BY <2>1, <2>4, LeftKept
    <3> QED
      BY <1>2, <2>2, <3>1 DEF Calls!Next
  <2>5. CASE b \in registry' \cap attached'
    <3>1. PICK t \in Threads :
            /\ Awaits(t, b, r) /\ Expects(t, m)
            /\ \A u \in Threads : Expects(u, m) => thread[u] = thread[t]
      BY <1>0, <2>1, <2>5, TellsAsker DEF Base
    <3>2. \A u \in Threads \ {t} : ~Expects(u, m)
      BY <3>1 DEF Base, CallInv, ThreadInv, Expects
    <3>3. \A u \in Threads \ {t} : AnswersKept(u)
      BY <2>1, <2>3, <3>2, LeftKept
    <3>4. AtBridge(t) = b /\ AtBridge(t) \in attached'
      BY <2>5, <3>1 DEF AtBridge, Awaits
    <3>5. AnswersOf(t) = {}
      BY <2>1, <3>1 DEF Tells, Held, Answered, AnswersOf, Expects, Awaits
    <3>6. AnswersOf(t)' = {m}
      BY <2>1, <2>3, <2>5, <3>1, <3>5 DEF AnswersOf, RepliesLeft
    <3>7. attached' \subseteq attached
      <4>1. attached' \subseteq registry'
        BY <2>1 DEF Tells, Base, IInv, AgentsRegistered, Opening
      <4>2. \A s \in registry' : s \in 1 .. nextId
        BY <1>0, AttachedIssued DEF Grows, Base, IInv, IssuedInv
      <4> QED
        BY <1>0, <4>1, <4>2 DEF Grows
    <3>8. UNCHANGED [u \in Threads |-> IF thread[u].st = "waiting" THEN thread[u].bridge ELSE 0]
      BY <2>1
    <3>9. Calls!Answer(t)
      BY <3>3, <3>4, <3>5, <3>6, <3>7, <3>8, <2>2, CallsMapped
         DEF Calls!Answer, Calls!Kept, AnswersKept
    <3> QED
      BY <3>9 DEF Calls!Next
  <2> QED
    BY <2>4, <2>5
<1>5. ASSUME NEW t \in Threads, NEW b \in 1 .. nextId, NEW r \in Requests, Call(t, b, r)
      PROVE  Calls!Next
  <2>1. /\ b \in Sids /\ b \in attached /\ thread[t].st # "waiting"
        /\ thread'[t].st = "waiting" /\ thread'[t].bridge = b
        /\ \A u \in Threads \ {t} : thread'[u] = thread[u]
        /\ UNCHANGED <<inbox, attached>>
    <3>1. /\ b \in Sids /\ thread[t].st # "waiting"
          /\ thread'[t] = [st |-> "waiting", bridge |-> b, req |-> r, ok |-> FALSE, sid |-> 0]
          /\ \A u \in Threads \ {t} : thread'[u] = thread[u]
          /\ UNCHANGED <<inbox, attached>>
      BY <1>5, CallFacts DEF Base
    <3>2. b \in attached
      BY <1>5 DEF Call
    <3>3. thread'[t].st = "waiting" /\ thread'[t].bridge = b
      BY <3>1
    <3> QED
      BY <3>1, <3>2, <3>3
  <2>2. AtBridge(t) = 0 /\ AnswersOf(t) = {} /\ AtBridge(t)' = b
    BY <2>1 DEF AtBridge, AnswersOf, Expects
  <2>3. AnswersOf(t)' = {}
    BY <1>5, <2>1, CallExpects DEF AnswersOf
  <2>4. \A u \in Threads \ {t} : AtBridge(u)' = AtBridge(u) /\ AnswersOf(u)' = AnswersOf(u)
    BY <2>1 DEF AtBridge, AnswersOf, Expects
  <2> QED
    BY <2>1, <2>2, <2>3, <2>4 DEF Calls!Next, Calls!Ask, AtBridge, AnswersOf
<1>6. ASSUME NEW t \in Threads, Return(t)
      PROVE  Calls!Next
  <2>1. PICK m \in inbox :
          /\ Expects(t, m) /\ inbox' = inbox \ {m}
          /\ thread'[t].st = "returned"
          /\ \A u \in Threads \ {t} : thread'[u] = thread[u]
          /\ attached' = attached
    BY <1>6, ReturnFacts DEF Base, ReceiveReply
  <2>2. AnswersOf(t) # {} /\ AnswersOf(t)' = {} /\ AtBridge(t)' = 0
    BY <2>1 DEF AtBridge, AnswersOf, Expects
  <2>3. \A u \in Threads \ {t} : ~Expects(u, m)
    BY <2>1 DEF Base, CallInv, ThreadInv, Expects
  <2>4. \A u \in Threads \ {t} : AtBridge(u)' = AtBridge(u) /\ AnswersOf(u)' = AnswersOf(u)
    BY <2>1, <2>3 DEF AtBridge, AnswersOf, Expects
  <2> QED
    <3>1. Calls!Receive(t)
      BY <2>1, <2>2, <2>4 DEF Calls!Receive, AtBridge, AnswersOf
    <3> QED
      BY <3>1 DEF Calls!Next
<1>7. ASSUME NEW z, Drains(z)
      PROVE  UNCHANGED Calls!vars
  <2>1. UNCHANGED <<thread, inbox, attached>>
    BY <1>7 DEF Drains, Collects
  <2> QED
    BY <2>1 DEF Calls!vars, Expects
<1> QED
  BY <1>3, <1>4, <1>5, <1>6, <1>7, SysKinds

(* ImplementsCalls: the engine with its agents implements CallService.     *)
THEOREM SysImplementsCalls == SysSpec => ImplementsCalls
<1>1. SysInit => Calls!Init
  BY DEF SysInit, Init, Calls!Init, NoCall, Expects
<1>2. Base /\ Base' /\ [SysNext]_sysVars => [Calls!Next]_Calls!vars
  BY StepImplementsCalls
<1> QED
  BY <1>1, <1>2, BaseAlways, PTL DEF SysSpec, ImplementsCalls, Calls!Spec
==============================================================================
