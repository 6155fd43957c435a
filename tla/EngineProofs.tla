---------------------------- MODULE EngineProofs -----------------------------
(* The engine's invariants and its refinement of SessionService, for every *)
(* set of processes and requests, every capacity and every bound.          *)
EXTENDS Engine, MessageBufferProofs

-----------------------------------------------------------------------------
(* Lemmas.                                                                 *)

(* What a request of each operation carries.                               *)
LEMMA RequestTypes ==
  ASSUME NEW r \in Requests
  PROVE  /\ r.op = "run" => r.id \in Nat /\ r.pid \in Nat /\ r.blank \in BOOLEAN /\ r.keep \in BOOLEAN
         /\ r.op \in {"pull", "kill"} => r.id \in Nat /\ r.sid \in Nat
         /\ r.op = "malformed" => r.id \in Nat
<1>1. CASE r \in RunRequest
  BY <1>1 DEF RunRequest
<1>2. CASE r \in SessionRequest
  BY <1>2 DEF SessionRequest
<1>3. CASE r \in MalformedRequest
  BY <1>3 DEF MalformedRequest
<1>4. CASE r = Diagnostic
  BY <1>4 DEF Diagnostic
<1> QED
  BY <1>1, <1>2, <1>3, <1>4, EngineAssumption

(* What a command of each kind carries.                                    *)
LEMMA CommandTypes ==
  ASSUME NEW c \in Command
  PROVE  /\ c.kind = "InjectBridge" => c \in InjectBridgeCommand /\ c.pid \in Pids
         /\ c.kind = "BridgeMessage" =>
              c \in BridgeMessageCommand /\ c.bridge \in Sids /\ c.req \in Requests
BY DEF Command, InjectBridgeCommand, BridgeMessageCommand, Shutdown

(* Taking the first command keeps the channel a channel.                   *)
LEMMA ChannelHead ==
  ASSUME queue \in Seq(Command), Len(queue) <= Capacity, queue # << >>
  PROVE  /\ Head(queue) \in Command
         /\ Tail(queue) \in Seq(Command)
         /\ Len(Tail(queue)) <= Capacity
BY EngineAssumption, HeadTailProperties

(* So does sending one when there is room.                                 *)
LEMMA ChannelAppend ==
  ASSUME queue \in Seq(Command), Len(queue) < Capacity, NEW c \in Command
  PROVE  /\ Append(queue, c) \in Seq(Command)
         /\ Len(Append(queue, c)) <= Capacity
BY EngineAssumption, AppendProperties

(* Narrowed pids are natural numbers below the modulus, and a pid that     *)
(* fits is not changed.                                                    *)
LEMMA Narrowing ==
  ASSUME NEW p \in Nat
  PROVE  /\ AsU32(p) \in 0 .. PidModulus - 1
         /\ p < PidModulus => AsU32(p) = p
BY EngineAssumption, SMTT(30) DEF AsU32

(* Posting keeps the inboxes well typed.                                   *)
LEMMA PostType ==
  ASSUME inbox \subseteq ReplyRecord, NEW m \in ReplyRecord, Post(m)
  PROVE  inbox' \subseteq ReplyRecord
BY DEF Post, StillAddressed

(* A reply to a command is a reply.                                        *)
LEMMA ReplyType ==
  ASSUME NEW b \in Sids, NEW id \in Nat, NEW ok \in BOOLEAN,
         NEW s \in Sids \cup {0}, NEW q \in Seq(Nat)
  PROVE  Reply(b, id, ok, s, q) \in ReplyRecord
BY DEF Reply, ReplyRecord

LEMMA FailureType ==
  ASSUME NEW b \in Sids, NEW id \in Nat
  PROVE  Failure(b, id) \in ReplyRecord
<1>1. << >> \in Seq(Nat) /\ 0 \in Sids \cup {0} /\ FALSE \in BOOLEAN
  OBVIOUS
<1> QED
  BY <1>1, ReplyType DEF Failure

(* A drained session's buffer is exact again.                              *)
LEMMA DrainExact ==
  ASSUME TypeOK, BufferExact, IssuedInv, NEW s \in Sids, Drain(s)
  PROVE  /\ handled' \in [Sids -> 0 .. MaxMessages]
         /\ buffer' \in [Sids -> Seq(Nat)]
         /\ drained' \in [Sids -> 0 .. MaxMessages]
         /\ BufferExact'
         /\ \A u \in Sids : drained'[u] <= handled'[u]
<1>1. << >> \in Seq(Nat) /\ Newest(handled[s], handled[s]) = << >>
  BY NewestAfterDrain DEF TypeOK
<1>2. /\ handled' = handled
      /\ buffer' = [buffer EXCEPT ![s] = << >>]
      /\ drained' = [drained EXCEPT ![s] = handled[s]]
  BY DEF Drain
<1>3. /\ handled' \in [Sids -> 0 .. MaxMessages]
      /\ buffer' \in [Sids -> Seq(Nat)]
      /\ drained' \in [Sids -> 0 .. MaxMessages]
  BY <1>1, <1>2 DEF TypeOK
<1>4. ASSUME NEW u \in Sids
      PROVE  buffer'[u] = Newest(handled'[u], drained'[u]) /\ drained'[u] <= handled'[u]
  <2>1. CASE u = s
    BY <1>1, <1>2, <2>1 DEF TypeOK
  <2>2. CASE u # s
    BY <1>2, <2>2 DEF TypeOK, BufferExact, IssuedInv
  <2> QED
    BY <2>1, <2>2
<1> QED
  BY <1>3, <1>4 DEF BufferExact

-----------------------------------------------------------------------------
(* The invariant holds initially.                                          *)

LEMMA InitInv == Init => IInv
<1> SUFFICES ASSUME Init PROVE IInv
  OBVIOUS
<1>1. << >> \in Seq(Nat) /\ << >> \in Seq(Command) /\ Len(<< >>) <= Capacity
  BY EngineAssumption
<1>2. TypeOK
  BY <1>1, EngineAssumption
  DEF Init, TypeOK, ActorState, MainState, Main
<1>3. BufferExact
  BY NewestAfterDrain DEF Init, BufferExact
<1>4. AgentsRegistered /\ ActorInv /\ IssuedInv
  BY DEF Init, AgentsRegistered, ActorInv, IssuedInv, NoCommand
<1> QED
  BY <1>2, <1>3, <1>4 DEF IInv

-----------------------------------------------------------------------------
(* Each action preserves it.                                               *)

LEMMA OpenDeviceInv == IInv /\ OpenDevice => IInv'
<1> SUFFICES ASSUME IInv, OpenDevice PROVE IInv'
  OBVIOUS
<1>1. TypeOK'
  BY DEF IInv, OpenDevice, TypeOK, ActorState, MainState, Main, Receiving, Stopped,
         sessionVars, bufferVars
<1>2. AgentsRegistered' /\ ActorInv' /\ IssuedInv'
  BY DEF IInv, OpenDevice, AgentsRegistered, Opening, ActorInv, IssuedInv, Receiving, Stopped,
         NoCommand, sessionVars, bufferVars
<1>3. BufferExact'
  BY DEF IInv, OpenDevice, BufferExact, bufferVars
<1> QED
  BY <1>1, <1>2, <1>3 DEF IInv

(* What opening a session leaves, whoever asked for it.                    *)
LEMMA BeginInjectInv ==
  ASSUME IInv, actor.pc = "recv", queue # << >>, queue' = Tail(queue),
         NEW pid \in Nat, NEW fwd \in BOOLEAN, BeginInject(pid, fwd),
         \/ Head(queue).kind = "InjectBridge" /\ fwd
         \/ /\ Head(queue).kind = "BridgeMessage" /\ ~fwd
            /\ Head(queue).req.op = "run" /\ pid = AsU32(Head(queue).req.pid)
  PROVE  IInv'
<1>1. /\ Head(queue) \in Command
      /\ Head(queue) \in InjectBridgeCommand \cup BridgeMessageCommand
      /\ Tail(queue) \in Seq(Command)
      /\ Len(Tail(queue)) <= Capacity
  BY ChannelHead, CommandTypes DEF IInv, TypeOK
<1>2. /\ nextId' = nextId + 1 /\ nextId' \in Sids /\ nextId \in 0 .. MaxSessions
      /\ actor' = [pc |-> "load", sid |-> nextId + 1, cmd |-> Head(queue)]
      /\ pidOf' = [pidOf EXCEPT ![nextId + 1] = pid]
      /\ forward' = [forward EXCEPT ![nextId + 1] = fwd]
      /\ attached' = attached \cup {nextId + 1}
      /\ UNCHANGED <<registry, handled, buffer, drained, alive, inbox, main>>
  BY EngineAssumption DEF IInv, TypeOK, BeginInject, Attachable, FreshId, Sids, bufferVars
<1>3. TypeOK'
  <2>1. actor' \in ActorState
    BY <1>1, <1>2 DEF ActorState
  <2>2. /\ pidOf' \in [Sids -> Nat]
        /\ forward' \in [Sids -> BOOLEAN]
        /\ attached' \subseteq Sids
        /\ nextId' \in 0 .. MaxSessions
    BY <1>2 DEF IInv, TypeOK, Sids
  <2> QED
    BY <1>1, <1>2, <2>1, <2>2 DEF IInv, TypeOK
<1>4. registry \subseteq 1 .. nextId /\ nextId + 1 \notin registry
  BY <1>2 DEF IInv, IssuedInv
<1>5. AgentsRegistered'
  BY <1>2 DEF IInv, AgentsRegistered, Opening
<1>6. BufferExact' /\ IssuedInv'
  <2>1. BufferExact'
    BY <1>2 DEF IInv, BufferExact
  <2>2. registry' \subseteq 1 .. nextId'
    BY <1>2, <1>4
  <2>3. \A s \in Sids : drained'[s] <= handled'[s]
    BY <1>2 DEF IInv, IssuedInv
  <2> QED
    BY <2>1, <2>2, <2>3 DEF IssuedInv
<1>7. pidOf'[nextId + 1] = pid /\ forward'[nextId + 1] = fwd
  BY <1>2 DEF IInv, TypeOK
<1>8. ActorInv'
  BY <1>2, <1>4, <1>7 DEF ActorInv, AsU32
<1> QED
  BY <1>3, <1>5, <1>6, <1>8 DEF IInv

LEMMA LoadFailsInv == IInv /\ LoadFails => IInv'
<1> SUFFICES ASSUME IInv, LoadFails PROVE IInv'
  OBVIOUS
<1>1. /\ actor.sid \in Sids
      /\ actor.cmd \in InjectBridgeCommand \cup BridgeMessageCommand
      /\ actor.pc = "load"
  BY DEF IInv, LoadFails, TypeOK, ActorState, Receiving, Stopped
<1>2. ~forward[actor.sid] =>
        /\ actor.cmd \in BridgeMessageCommand
        /\ actor.cmd.bridge \in Sids /\ actor.cmd.req \in Requests
        /\ actor.cmd.req.op = "run"
  BY <1>1 DEF IInv, ActorInv, InjectBridgeCommand, BridgeMessageCommand
<1>3. inbox' \subseteq ReplyRecord
  <2>1. CASE forward[actor.sid]
    BY <2>1 DEF IInv, TypeOK, LoadFails, PostNothing, StillAddressed
  <2>2. CASE ~forward[actor.sid]
    <3>1. Failure(actor.cmd.bridge, actor.cmd.req.id) \in ReplyRecord
      BY <1>2, <2>2, RequestTypes, FailureType
    <3> QED
      BY <2>2, <3>1, PostType DEF IInv, TypeOK, LoadFails
  <2> QED
    BY <2>1, <2>2
<1>4. TypeOK'
  BY <1>1, <1>3 DEF IInv, TypeOK, LoadFails, ActorState, Receiving, MainState, Main,
                    sessionVars, bufferVars
<1>5. AgentsRegistered' /\ ActorInv' /\ IssuedInv'
  BY <1>1 DEF IInv, LoadFails, AgentsRegistered, Opening, ActorInv, IssuedInv, Receiving,
              NoCommand, sessionVars, bufferVars
<1>6. BufferExact'
  BY DEF IInv, LoadFails, BufferExact, bufferVars
<1> QED
  BY <1>4, <1>5, <1>6 DEF IInv

LEMMA LoadSucceedsInv == IInv /\ LoadSucceeds => IInv'
<1> SUFFICES ASSUME IInv, LoadSucceeds PROVE IInv'
  OBVIOUS
<1>1. /\ actor.sid \in Sids
      /\ actor.cmd \in InjectBridgeCommand \cup BridgeMessageCommand
      /\ actor.pc = "load"
      /\ actor.sid = nextId
      /\ nextId \in Nat
  BY DEF IInv, LoadSucceeds, TypeOK, ActorState, ActorInv, Receiving, Stopped
<1>2. CASE forward[actor.sid]
  <2>1. /\ registry' = registry \cup {actor.sid}
        /\ main' = Main("ok", actor.sid)
        /\ actor' = Receiving
    BY <1>2 DEF LoadSucceeds
  <2>2. TypeOK'
    BY <1>1, <2>1 DEF IInv, TypeOK, LoadSucceeds, ActorState, Receiving, MainState, Main,
                      sessionVars, bufferVars
  <2>3. AgentsRegistered' /\ ActorInv' /\ IssuedInv'
    BY <1>1, <2>1 DEF IInv, LoadSucceeds, AgentsRegistered, Opening, ActorInv, IssuedInv,
                      Receiving, NoCommand, sessionVars, bufferVars, Sids
  <2> QED
    BY <2>2, <2>3 DEF IInv, BufferExact, LoadSucceeds, bufferVars
<1>3. CASE ~forward[actor.sid]
  <2>1. /\ registry' = registry \cup {actor.sid}
        /\ actor' = [actor EXCEPT !.pc = "settle"]
        /\ actor.cmd \in BridgeMessageCommand
        /\ actor \in [pc : {"load"}, sid : Sids,
                      cmd : InjectBridgeCommand \cup BridgeMessageCommand]
    BY <1>1, <1>3 DEF LoadSucceeds, IInv, TypeOK, ActorInv, ActorState, Receiving, Stopped,
                      InjectBridgeCommand
  <2>2. actor' = [pc |-> "settle", sid |-> actor.sid, cmd |-> actor.cmd]
    BY <2>1
  <2>3. TypeOK'
    BY <1>1, <1>3, <2>1, <2>2 DEF IInv, TypeOK, LoadSucceeds, ActorState,
                                  sessionVars, bufferVars
  <2>4. AgentsRegistered' /\ ActorInv' /\ IssuedInv'
    BY <1>1, <1>3, <2>1, <2>2 DEF IInv, LoadSucceeds, AgentsRegistered, Opening, ActorInv,
                                  IssuedInv, AsU32, sessionVars, bufferVars, Sids
  <2> QED
    BY <2>3, <2>4 DEF IInv, BufferExact, LoadSucceeds, bufferVars
<1> QED
  BY <1>2, <1>3

(* What the actor holds of a run: the request, and what it drained.        *)
LEMMA RunFacts ==
  ASSUME IInv, actor.pc \in {"settle", "drained"}
  PROVE  /\ actor.sid \in Sids /\ actor.sid \in registry
         /\ actor.cmd \in BridgeMessageCommand
         /\ actor.cmd.kind = "BridgeMessage"
         /\ actor.cmd.bridge \in Sids
         /\ actor.cmd.req \in Requests
         /\ actor.cmd.req.id \in Nat
         /\ actor.pc = "drained" => actor.messages \in Seq(Nat)
<1>1. /\ actor.sid \in Sids /\ actor.cmd \in BridgeMessageCommand
      /\ actor.pc = "drained" => actor.messages \in Seq(Nat)
  BY DEF IInv, TypeOK, ActorState, Receiving, Stopped
<1>2. actor.cmd.kind = "BridgeMessage" /\ actor.cmd.bridge \in Sids /\ actor.cmd.req \in Requests
  BY <1>1 DEF BridgeMessageCommand
<1> QED
  BY <1>1, <1>2, RequestTypes DEF IInv, ActorInv

LEMMA DrainRunInv == IInv /\ DrainRun => IInv'
<1> SUFFICES ASSUME IInv, DrainRun PROVE IInv'
  OBVIOUS
<1>1. /\ actor.pc = "settle"
      /\ Drain(actor.sid)
      /\ actor' = [pc |-> "drained", sid |-> actor.sid, cmd |-> actor.cmd,
                   messages |-> buffer[actor.sid]]
      /\ UNCHANGED <<queue, registry, nextId, pidOf, forward, attached, alive, inbox, main>>
  BY DEF DrainRun, sessionVars
<1>2. /\ handled' \in [Sids -> 0 .. MaxMessages]
      /\ buffer' \in [Sids -> Seq(Nat)]
      /\ drained' \in [Sids -> 0 .. MaxMessages]
      /\ BufferExact'
      /\ \A u \in Sids : drained'[u] <= handled'[u]
  BY <1>1, RunFacts, DrainExact DEF IInv
<1>3. actor' \in [pc : {"drained"}, sid : Sids, cmd : BridgeMessageCommand, messages : Seq(Nat)]
  BY <1>1, RunFacts DEF IInv, TypeOK
<1>4. TypeOK'
  BY <1>1, <1>2, <1>3 DEF IInv, TypeOK, ActorState
<1>5. /\ actor'.pc = "drained" /\ actor'.sid = actor.sid /\ actor'.cmd = actor.cmd
  BY <1>1
<1>6. AgentsRegistered' /\ ActorInv' /\ IssuedInv'
  BY <1>1, <1>2, <1>5, RunFacts DEF IInv, AgentsRegistered, Opening, ActorInv, IssuedInv, AsU32
<1> QED
  BY <1>2, <1>4, <1>6 DEF IInv

LEMMA FinishRunInv == IInv /\ FinishRun => IInv'
<1> SUFFICES ASSUME IInv, FinishRun PROVE IInv'
  OBVIOUS
<1>1. actor.pc = "drained"
  BY DEF FinishRun
<1>2. inbox' \subseteq ReplyRecord
  <2>1. Reply(actor.cmd.bridge, actor.cmd.req.id, TRUE, actor.sid, actor.messages) \in ReplyRecord
    BY <1>1, RunFacts, ReplyType
  <2> QED
    BY <2>1, PostType DEF IInv, TypeOK, FinishRun
<1>3. /\ registry' \subseteq registry
      /\ attached' \subseteq attached
      /\ attached \subseteq registry => attached' \subseteq registry'
      /\ actor' = Receiving
      /\ UNCHANGED <<queue, nextId, pidOf, forward, handled, buffer, drained, alive, main>>
  BY DEF FinishRun, Kill, sessionVars, bufferVars
<1>4. TypeOK'
  BY <1>2, <1>3 DEF IInv, TypeOK, ActorState
<1>5. AgentsRegistered' /\ ActorInv' /\ IssuedInv'
  BY <1>1, <1>3 DEF IInv, AgentsRegistered, Opening, ActorInv, IssuedInv, Receiving, NoCommand
<1> QED
  BY <1>3, <1>4, <1>5 DEF IInv, BufferExact

(* What every handler starts from: a typed command, and a typed rest of    *)
(* the channel.                                                            *)
LEMMA ReceiveFacts ==
  ASSUME IInv, NEW kind, Receive(kind)
  PROVE  /\ actor = Receiving
         /\ Head(queue) \in Command
         /\ Head(queue).kind = kind
         /\ queue' = Tail(queue)
         /\ queue' \in Seq(Command) /\ Len(queue') <= Capacity
<1>1. actor = Receiving
  BY DEF IInv, TypeOK, ActorState, Receive, Stopped
<1>2. queue \in Seq(Command) /\ Len(queue) <= Capacity /\ queue # << >>
  BY DEF IInv, TypeOK, Receive
<1> QED
  BY <1>1, <1>2, ChannelHead DEF Receive

LEMMA ReceiveOpFacts ==
  ASSUME IInv, NEW op, ReceiveOp(op)
  PROVE  /\ actor = Receiving
         /\ Head(queue) \in BridgeMessageCommand
         /\ Head(queue).kind = "BridgeMessage"
         /\ Head(queue).bridge \in Sids
         /\ Head(queue).req \in Requests
         /\ Head(queue).req.op = op
         /\ queue # << >>
         /\ queue' = Tail(queue)
         /\ queue' \in Seq(Command) /\ Len(queue') <= Capacity
BY ReceiveFacts, CommandTypes DEF ReceiveOp, Receive

(* An injection that fails before load() changes nothing but the last id.  *)
LEMMA InjectFailsInv ==
  ASSUME IInv, actor = Receiving, NEW pid, InjectFails(pid),
         queue' \in Seq(Command), Len(queue') <= Capacity,
         inbox' \subseteq ReplyRecord, main' \in MainState
  PROVE  IInv'
<1>1. /\ UNCHANGED <<registry, pidOf, forward, handled, buffer, drained, attached, alive, actor>>
      /\ nextId' \in 0 .. MaxSessions /\ nextId' >= nextId
  BY EngineAssumption DEF IInv, TypeOK, InjectFails, Attachable, FreshId, sessionVars, bufferVars
<1>2. TypeOK'
  BY <1>1 DEF IInv, TypeOK
<1>3. AgentsRegistered' /\ BufferExact'
  BY <1>1 DEF IInv, AgentsRegistered, Opening, BufferExact
<1>4. ActorInv'
  BY <1>1 DEF IInv, ActorInv, Receiving, NoCommand
<1>5. IssuedInv'
  BY <1>1 DEF IInv, IssuedInv, TypeOK
<1> QED
  BY <1>2, <1>3, <1>4, <1>5 DEF IInv

LEMMA HandleInjectBridgeInv == IInv /\ HandleInjectBridge => IInv'
<1> SUFFICES ASSUME IInv, HandleInjectBridge PROVE IInv'
  OBVIOUS
<1>1. Receive("InjectBridge")
  BY DEF HandleInjectBridge
<1>2. /\ actor = Receiving /\ queue' = Tail(queue) /\ queue # << >>
      /\ queue' \in Seq(Command) /\ Len(queue') <= Capacity
      /\ Head(queue).kind = "InjectBridge" /\ Head(queue).pid \in Nat
  <2>1. /\ actor = Receiving /\ queue' = Tail(queue) /\ queue # << >>
        /\ queue' \in Seq(Command) /\ Len(queue') <= Capacity
        /\ Head(queue).kind = "InjectBridge" /\ Head(queue) \in Command
    BY <1>1, ReceiveFacts DEF Receive
  <2>2. Head(queue).pid \in Pids
    BY <2>1, CommandTypes
  <2>3. \A p \in Pids : p \in Nat
    BY EngineAssumption
  <2> QED
    BY <2>1, <2>2, <2>3
<1>3. CASE BeginInject(Head(queue).pid, TRUE)
  BY <1>2, <1>3, BeginInjectInv DEF Receiving
<1>4. CASE InjectFails(Head(queue).pid) /\ main' = Main("err", 0) /\ UNCHANGED inbox
  <2>1. inbox' \subseteq ReplyRecord /\ main' \in MainState
    BY <1>4 DEF IInv, TypeOK, MainState, Main
  <2> QED
    BY <1>2, <1>4, <2>1, InjectFailsInv
<1> QED
  BY <1>3, <1>4 DEF HandleInjectBridge

LEMMA HandleRunInv == IInv /\ HandleRun => IInv'
<1> SUFFICES ASSUME IInv, HandleRun PROVE IInv'
  OBVIOUS
<1> DEFINE b == Head(queue).bridge
           r == Head(queue).req
<1>1. /\ actor = Receiving /\ queue' = Tail(queue) /\ queue # << >>
      /\ queue' \in Seq(Command) /\ Len(queue') <= Capacity
      /\ Head(queue).kind = "BridgeMessage"
      /\ b \in Sids /\ r \in Requests /\ r.op = "run"
  BY ReceiveOpFacts DEF HandleRun
<1>2. r.id \in Nat /\ r.pid \in Nat /\ AsU32(r.pid) \in Nat
  <2>1. r.id \in Nat /\ r.pid \in Nat
    BY <1>1, RequestTypes
  <2>2. AsU32(r.pid) \in 0 .. PidModulus - 1
    BY <2>1, Narrowing
  <2> QED
    BY <2>1, <2>2, EngineAssumption
<1>3. CASE BeginInject(AsU32(r.pid), FALSE)
  BY <1>1, <1>2, <1>3, BeginInjectInv DEF Receiving
<1>4. CASE /\ IF r.blank THEN UNCHANGED <<nextId, registry, sessionVars, bufferVars,
                                         attached, alive, actor>>
                         ELSE InjectFails(AsU32(r.pid))
           /\ Post(Failure(b, r.id))
           /\ UNCHANGED main
  <2>1. InjectFails(AsU32(r.pid))
    BY <1>4 DEF InjectFails
  <2>2. inbox' \subseteq ReplyRecord /\ main' \in MainState
    BY <1>1, <1>2, <1>4, FailureType, PostType DEF IInv, TypeOK
  <2> QED
    BY <1>1, <2>1, <2>2, InjectFailsInv
<1> QED
  BY <1>3, <1>4 DEF HandleRun

LEMMA HandlePullInv == IInv /\ HandlePull => IInv'
<1> SUFFICES ASSUME IInv, HandlePull PROVE IInv'
  OBVIOUS
<1> DEFINE b == Head(queue).bridge
           r == Head(queue).req
<1>1. /\ actor = Receiving /\ queue' \in Seq(Command) /\ Len(queue') <= Capacity
      /\ b \in Sids /\ r \in Requests /\ r.op = "pull"
  BY ReceiveOpFacts DEF HandlePull
<1>2. r.id \in Nat /\ r.sid \in Nat
  BY <1>1, RequestTypes
<1>3. UNCHANGED <<registry, attached, actor, nextId, pidOf, forward, alive, main>>
  BY DEF HandlePull, sessionVars
<1>4. /\ handled' \in [Sids -> 0 .. MaxMessages]
      /\ buffer' \in [Sids -> Seq(Nat)]
      /\ drained' \in [Sids -> 0 .. MaxMessages]
      /\ BufferExact'
      /\ \A u \in Sids : drained'[u] <= handled'[u]
      /\ inbox' \subseteq ReplyRecord
  <2>1. CASE r.sid \in registry
    <3>1. r.sid \in Sids /\ Drain(r.sid)
      BY <2>1 DEF HandlePull, IInv, TypeOK
    <3>2. Reply(b, r.id, TRUE, 0, buffer[r.sid]) \in ReplyRecord
      BY <1>1, <1>2, <3>1, ReplyType DEF IInv, TypeOK
    <3>3. Post(Reply(b, r.id, TRUE, 0, buffer[r.sid]))
      BY <2>1 DEF HandlePull
    <3> QED
      BY <3>1, <3>2, <3>3, DrainExact, PostType DEF IInv, TypeOK
  <2>2. CASE r.sid \notin registry
    <3>1. UNCHANGED <<handled, buffer, drained>> /\ Post(Reply(b, r.id, TRUE, 0, << >>))
      BY <2>2 DEF HandlePull, bufferVars
    <3>2. Reply(b, r.id, TRUE, 0, << >>) \in ReplyRecord
      <4>1. << >> \in Seq(Nat)
        OBVIOUS
      <4> QED
        BY <1>1, <1>2, <4>1, ReplyType
    <3>3. inbox' \subseteq ReplyRecord
      BY <3>1, <3>2, PostType DEF IInv, TypeOK
    <3> QED
      BY <3>1, <3>3 DEF IInv, TypeOK, BufferExact, IssuedInv
  <2> QED
    BY <2>1, <2>2
<1>5. TypeOK'
  BY <1>1, <1>3, <1>4 DEF IInv, TypeOK
<1>6. AgentsRegistered' /\ ActorInv' /\ IssuedInv'
  BY <1>1, <1>3, <1>4 DEF IInv, AgentsRegistered, Opening, ActorInv, IssuedInv, AsU32
<1> QED
  BY <1>4, <1>5, <1>6 DEF IInv

LEMMA HandleKillInv == IInv /\ HandleKill => IInv'
<1> SUFFICES ASSUME IInv, HandleKill PROVE IInv'
  OBVIOUS
<1> DEFINE b == Head(queue).bridge
           r == Head(queue).req
<1>1. /\ actor = Receiving /\ queue' \in Seq(Command) /\ Len(queue') <= Capacity
      /\ b \in Sids /\ r \in Requests /\ r.op = "kill"
  BY ReceiveOpFacts DEF HandleKill
<1>2. r.id \in Nat /\ r.sid \in Nat
  BY <1>1, RequestTypes
<1>3. UNCHANGED <<actor, nextId, pidOf, forward, handled, buffer, drained, alive, main>>
  BY DEF HandleKill, sessionVars, bufferVars
<1>4. /\ registry' \subseteq registry
      /\ attached' \subseteq attached
      /\ attached \subseteq registry => attached' \subseteq registry'
  BY DEF HandleKill, Kill
<1>5. inbox' \subseteq ReplyRecord
  <2>1. Reply(b, r.id, r.sid \in registry, 0, << >>) \in ReplyRecord
    <3>1. << >> \in Seq(Nat) /\ (r.sid \in registry) \in BOOLEAN
      OBVIOUS
    <3> QED
      BY <1>1, <1>2, <3>1, ReplyType
  <2>2. Post(Reply(b, r.id, r.sid \in registry, 0, << >>))
    BY DEF HandleKill
  <2> QED
    BY <2>1, <2>2, PostType DEF IInv, TypeOK
<1>6. TypeOK'
  BY <1>1, <1>3, <1>4, <1>5 DEF IInv, TypeOK
<1>7. AgentsRegistered' /\ ActorInv' /\ IssuedInv'
  BY <1>1, <1>3, <1>4 DEF IInv, AgentsRegistered, Opening, ActorInv, IssuedInv, Receiving,
                          NoCommand
<1>8. BufferExact'
  BY <1>3 DEF IInv, BufferExact
<1> QED
  BY <1>6, <1>7, <1>8 DEF IInv

(* A step that leaves sessions, buffers and the actor alone preserves the  *)
(* invariant when it keeps the other variables well typed.                 *)
LEMMA OutsideInv ==
  ASSUME IInv,
         UNCHANGED <<actor, registry, nextId, pidOf, forward, handled, buffer, drained>>,
         queue' \in Seq(Command), Len(queue') <= Capacity,
         attached' \subseteq attached, alive' \subseteq Pids,
         inbox' \subseteq ReplyRecord, main' \in MainState
  PROVE  IInv'
<1>1. TypeOK'
  BY DEF IInv, TypeOK
<1>2. AgentsRegistered' /\ BufferExact' /\ IssuedInv'
  BY DEF IInv, AgentsRegistered, Opening, BufferExact, IssuedInv
<1>3. ActorInv'
  BY DEF IInv, ActorInv, AsU32
<1> QED
  BY <1>1, <1>2, <1>3 DEF IInv

LEMMA HandleMalformedInv == IInv /\ HandleMalformed => IInv'
<1> SUFFICES ASSUME IInv, HandleMalformed PROVE IInv'
  OBVIOUS
<1>1. /\ queue' \in Seq(Command) /\ Len(queue') <= Capacity
      /\ Head(queue).bridge \in Sids
      /\ Head(queue).req \in Requests /\ Head(queue).req.op = "malformed"
  BY ReceiveOpFacts DEF HandleMalformed
<1>2. Failure(Head(queue).bridge, Head(queue).req.id) \in ReplyRecord
  BY <1>1, RequestTypes, FailureType
<1>3. inbox' \subseteq ReplyRecord
  BY <1>2, PostType DEF IInv, TypeOK, HandleMalformed
<1> QED
  BY <1>1, <1>3, OutsideInv DEF IInv, TypeOK, HandleMalformed, sessionVars, bufferVars

LEMMA HandleDiagnosticInv == IInv /\ HandleDiagnostic => IInv'
<1> SUFFICES ASSUME IInv, HandleDiagnostic PROVE IInv'
  OBVIOUS
<1>1. queue' \in Seq(Command) /\ Len(queue') <= Capacity
  BY ReceiveOpFacts DEF HandleDiagnostic
<1> QED
  BY <1>1, OutsideInv DEF IInv, TypeOK, HandleDiagnostic, sessionVars, bufferVars

LEMMA HandleShutdownInv == IInv /\ HandleShutdown => IInv'
<1> SUFFICES ASSUME IInv, HandleShutdown PROVE IInv'
  OBVIOUS
<1>1. /\ queue' = << >> /\ << >> \in Seq(Command) /\ Len(<< >>) <= Capacity
      /\ registry' = {}
      /\ attached' = attached \ registry
      /\ actor' = Stopped
      /\ main' = Main("down", 0)
      /\ inbox' \subseteq inbox
      /\ UNCHANGED <<nextId, pidOf, forward, handled, buffer, drained, alive>>
  BY EngineAssumption
  DEF HandleShutdown, ShutdownAll, PostNothing, StillAddressed, sessionVars, bufferVars
<1>2. attached' = {}
  BY <1>1 DEF IInv, AgentsRegistered, Opening, HandleShutdown, ShutdownAll
<1>3. TypeOK'
  BY <1>1, <1>2 DEF IInv, TypeOK, ActorState, MainState, Main
<1>4. AgentsRegistered' /\ ActorInv' /\ IssuedInv'
  BY <1>1, <1>2 DEF IInv, AgentsRegistered, Opening, ActorInv, IssuedInv, Stopped, NoCommand
<1>5. BufferExact'
  BY <1>1 DEF IInv, BufferExact
<1> QED
  BY <1>3, <1>4, <1>5 DEF IInv

LEMMA BufferMessageInv ==
  ASSUME IInv, NEW s \in 1 .. nextId, BufferMessage(s)
  PROVE  IInv'
<1>1. s \in Sids
  BY EngineAssumption DEF IInv, TypeOK, Sids
<1>2. /\ handled[s] < MaxMessages
      /\ handled' = [handled EXCEPT ![s] = handled[s] + 1]
      /\ buffer' = [buffer EXCEPT ![s] = Push(buffer[s], handled[s] + 1)]
      /\ UNCHANGED <<queue, actor, registry, nextId, pidOf, forward, drained, attached, alive,
                     inbox, main>>
  BY DEF BufferMessage, sessionVars
<1>3. /\ handled[s] \in Nat /\ drained[s] \in Nat /\ drained[s] <= handled[s]
      /\ handled[s] + 1 \in 0 .. MaxMessages
  BY <1>1, <1>2, EngineAssumption DEF IInv, TypeOK, IssuedInv
<1>4. /\ Push(buffer[s], handled[s] + 1) = Newest(handled[s] + 1, drained[s])
      /\ Newest(handled[s] + 1, drained[s]) \in Seq(Nat)
  <2>1. buffer[s] = Newest(handled[s], drained[s])
    BY <1>1 DEF IInv, BufferExact
  <2>2. \A h \in Nat : drained[s] <= h => Newest(h, drained[s]) \in Seq(Nat)
    BY <1>3, NewestType
  <2> QED
    BY <1>3, <2>1, <2>2, PushKeepsNewest
<1>5. TypeOK'
  BY <1>1, <1>2, <1>3, <1>4 DEF IInv, TypeOK
<1>6. ASSUME NEW u \in Sids
      PROVE  buffer'[u] = Newest(handled'[u], drained'[u]) /\ drained'[u] <= handled'[u]
  <2>1. CASE u = s
    BY <1>1, <1>2, <1>3, <1>4, <2>1 DEF IInv, TypeOK
  <2>2. CASE u # s
    BY <1>1, <1>2, <2>2 DEF IInv, TypeOK, BufferExact, IssuedInv
  <2> QED
    BY <2>1, <2>2
<1>7. AgentsRegistered' /\ ActorInv' /\ IssuedInv' /\ BufferExact'
  BY <1>2, <1>6 DEF IInv, AgentsRegistered, Opening, ActorInv, IssuedInv, BufferExact, AsU32
<1> QED
  BY <1>5, <1>7 DEF IInv

LEMMA ForwardInv ==
  ASSUME IInv, NEW b \in 1 .. nextId, NEW r \in Requests, Forward(b, r)
  PROVE  IInv'
<1>1. BridgeMessage(b, r) \in Command
  <2>1. b \in Sids
    BY EngineAssumption DEF IInv, TypeOK, Sids
  <2> QED
    BY <2>1 DEF BridgeMessage, Command, BridgeMessageCommand
<1>2. queue' \in Seq(Command) /\ Len(queue') <= Capacity
  BY <1>1, ChannelAppend DEF Forward, TrySend, IInv, TypeOK
<1> QED
  BY <1>2, OutsideInv DEF IInv, TypeOK, Forward, sessionVars, bufferVars

LEMMA ReceiveReplyInv ==
  ASSUME IInv, NEW m, ReceiveReply(m)
  PROVE  IInv'
BY OutsideInv DEF IInv, TypeOK, ReceiveReply, sessionVars, bufferVars

LEMMA ProcessStepInv == IInv /\ ProcessStep => IInv'
<1>1. ASSUME IInv, NEW p \in Pids, ProcessExit(p) PROVE IInv'
  <2>1. attached' \subseteq attached /\ alive' \subseteq Pids /\ inbox' \subseteq ReplyRecord
    BY <1>1 DEF IInv, TypeOK, ProcessExit, PostNothing, StillAddressed
  <2> QED
    BY <1>1, <2>1, OutsideInv DEF IInv, TypeOK, ProcessExit, sessionVars, bufferVars
<1>2. ASSUME IInv, NEW p \in Pids, ProcessStart(p) PROVE IInv'
  <2>1. alive' \subseteq Pids
    BY <1>2 DEF IInv, TypeOK, ProcessStart
  <2> QED
    BY <1>2, <2>1, OutsideInv DEF IInv, TypeOK, ProcessStart, sessionVars, bufferVars
<1> QED
  BY <1>1, <1>2 DEF ProcessStep

LEMMA MainStepInv == IInv /\ MainStep => IInv'
<1> SUFFICES ASSUME IInv, MainStep PROVE IInv'
  OBVIOUS
<1>1. UNCHANGED mainKeeps /\ main' \in MainState
  <2>1. \A st \in {"free", "inject", "quitting", "shutdown"} : Main(st, 0) \in MainState
    BY DEF Main, MainState
  <2> QED
    BY <2>1 DEF MainStep, SendInjectBridge, MainResumes, CtrlC, SendShutdown
<1>2. queue' \in Seq(Command) /\ Len(queue') <= Capacity
  <2>1. ASSUME NEW p \in Pids, SendInjectBridge(p)
        PROVE  queue' \in Seq(Command) /\ Len(queue') <= Capacity
    <3>1. [kind |-> "InjectBridge", pid |-> p] \in Command
      BY DEF Command, InjectBridgeCommand
    <3> QED
      BY <2>1, <3>1, ChannelAppend DEF SendInjectBridge, IInv, TypeOK
  <2>2. ASSUME MainResumes \/ CtrlC
        PROVE  queue' \in Seq(Command) /\ Len(queue') <= Capacity
    BY <2>2 DEF MainResumes, CtrlC, IInv, TypeOK
  <2>3. ASSUME SendShutdown
        PROVE  queue' \in Seq(Command) /\ Len(queue') <= Capacity
    <3>1. Shutdown \in Command
      BY DEF Command
    <3> QED
      BY <2>3, <3>1, ChannelAppend DEF SendShutdown, IInv, TypeOK
  <2> QED
    BY <2>1, <2>2, <2>3 DEF MainStep
<1> QED
  BY <1>1, <1>2, OutsideInv DEF IInv, TypeOK, mainKeeps, sessionVars, bufferVars

-----------------------------------------------------------------------------
(* The invariant of the specification.                                     *)

LEMMA NextInv == IInv /\ [Next]_vars => IInv'
<1> SUFFICES ASSUME IInv, [Next]_vars PROVE IInv'
  OBVIOUS
<1>1. CASE ActorStep
  BY <1>1, OpenDeviceInv, HandleInjectBridgeInv, HandleRunInv, LoadFailsInv, LoadSucceedsInv,
     DrainRunInv, FinishRunInv, HandlePullInv, HandleKillInv, HandleMalformedInv, HandleDiagnosticInv,
     HandleShutdownInv
  DEF ActorStep
<1>2. CASE HandlerStep
  BY <1>2, BufferMessageInv DEF HandlerStep
<1>3. CASE BridgeStep
  BY <1>3, ForwardInv, ReceiveReplyInv DEF BridgeStep, ForwardMessage
<1>4. CASE ProcessStep
  BY <1>4, ProcessStepInv
<1>5. CASE MainStep
  BY <1>5, MainStepInv
<1>6. CASE UNCHANGED vars
  BY <1>6, OutsideInv DEF vars, sessionVars, bufferVars, IInv, TypeOK
<1> QED
  BY <1>1, <1>2, <1>3, <1>4, <1>5, <1>6 DEF Next

(* The inductive invariant holds throughout.                               *)
THEOREM Invariance == Spec => []IInv
<1>1. Init => IInv
  BY InitInv
<1>2. IInv /\ [Next]_vars => IInv'
  BY NextInv
<1> QED
  BY <1>1, <1>2, PTL DEF Spec

(* Every variable keeps its type, and the channel never exceeds its        *)
(* capacity, whatever the scripts, the processes and main do.              *)
THEOREM TypeCorrect == Spec => []TypeOK
<1>1. IInv => TypeOK
  BY DEF IInv
<1> QED
  BY <1>1, Invariance, PTL

(* No agent is ever loaded that the engine could not detach, and none is   *)
(* left when it has stopped.                                               *)
THEOREM NoOrphanAgents == Spec => []AgentsRegistered
<1>1. IInv => AgentsRegistered
  BY DEF IInv
<1> QED
  BY <1>1, Invariance, PTL

(* A drain always finds exactly the newest messages since the last one.    *)
THEOREM BuffersExact == Spec => []BufferExact
<1>1. IInv => BufferExact
  BY DEF IInv
<1> QED
  BY <1>1, Invariance, PTL

(* If every pid that scripts ask for fits in 32 bits, code runs where it   *)
(* was asked to run.                                                       *)
THEOREM RunsWhereAskedIfNarrow ==
  ASSUME \A r \in Requests : r.op = "run" => r.pid < PidModulus
  PROVE  Spec => []RunsWhereAsked
<1>1. IInv => RunsWhereAsked
  <2> SUFFICES ASSUME IInv, actor.pc \in {"load", "settle", "drained"},
                      actor.cmd.kind = "BridgeMessage"
               PROVE  pidOf[actor.sid] = actor.cmd.req.pid
    BY DEF RunsWhereAsked
  <2>1. actor.cmd \in InjectBridgeCommand \cup BridgeMessageCommand
    BY DEF IInv, TypeOK, ActorState, Receiving, Stopped
  <2>2. actor.cmd.req \in Requests
    BY <2>1 DEF InjectBridgeCommand, BridgeMessageCommand
  <2>3. actor.cmd.req.op = "run" /\ pidOf[actor.sid] = AsU32(actor.cmd.req.pid)
    BY DEF IInv, ActorInv
  <2> QED
    BY <2>2, <2>3, RequestTypes, Narrowing
<1> QED
  BY <1>1, Invariance, PTL

-----------------------------------------------------------------------------
(* Action properties and refinement.                                       *)

(* What a step of each kind does to the sessions: nothing at all, or one   *)
(* step of SessionService.                                                 *)

LEMMA InjectFailsService ==
  ASSUME IInv, actor = Receiving, NEW pid, InjectFails(pid)
  PROVE  [Service!Next]_Service!vars
<1>1. CASE UNCHANGED nextId
  BY <1>1 DEF InjectFails, Service!vars
<1>2. CASE Attachable(pid) /\ nextId' = FreshId
  <2>1. Service!Burn
    BY <1>2 DEF InjectFails, Attachable, FreshId, Service!Burn, Service!Idle, Receiving
  <2> QED
    BY <2>1 DEF Service!Next
<1> QED
  BY <1>1, <1>2 DEF InjectFails

LEMMA BeginInjectService ==
  ASSUME IInv, actor = Receiving, NEW pid, NEW fwd, BeginInject(pid, fwd)
  PROVE  [Service!Next]_Service!vars
<1>1. Service!Begin
  BY DEF BeginInject, Attachable, FreshId, Service!Begin, Service!Idle, Receiving
<1> QED
  BY <1>1 DEF Service!Next

(* Kill, by whichever request, is Close.                                   *)
LEMMA KillService ==
  ASSUME IInv, NEW s \in registry, Kill(s), UNCHANGED nextId,
         actor.pc \in {"recv", "drained"}, actor' = Receiving
  PROVE  [Service!Next]_Service!vars
<1>1. Service!Close(s)
  BY DEF Kill, Service!Close, Service!Idle, Receiving
<1> QED
  BY <1>1 DEF Service!Next

LEMMA ActorService == IInv /\ ActorStep => [Service!Next]_Service!vars
<1> SUFFICES ASSUME IInv, ActorStep PROVE [Service!Next]_Service!vars
  OBVIOUS
<1>1. CASE OpenDevice
  <2>1. CASE actor' = Receiving
    BY <1>1, <2>1 DEF OpenDevice, Service!vars, Receiving
  <2>2. CASE actor' = Stopped
    <3>1. Service!Stop
      BY <1>1, <2>2 DEF OpenDevice, Service!Stop, Service!Idle, Stopped, IInv, ActorInv
    <3> QED
      BY <3>1 DEF Service!Next
  <2> QED
    BY <1>1, <2>1, <2>2 DEF OpenDevice
<1>2. CASE HandleInjectBridge
  <2>1. actor = Receiving
    BY <1>2, ReceiveFacts DEF HandleInjectBridge
  <2> QED
    BY <1>2, <2>1, BeginInjectService, InjectFailsService DEF HandleInjectBridge
<1>3. CASE HandleRun
  <2>1. actor = Receiving
    BY <1>3, ReceiveOpFacts DEF HandleRun
  <2>2. CASE BeginInject(AsU32(Head(queue).req.pid), FALSE)
    BY <2>1, <2>2, BeginInjectService
  <2>3. CASE InjectFails(AsU32(Head(queue).req.pid))
    BY <2>1, <2>3, InjectFailsService
  <2>4. CASE UNCHANGED <<nextId, registry, attached, actor>>
    BY <2>4 DEF Service!vars
  <2> QED
    BY <1>3, <2>2, <2>3, <2>4 DEF HandleRun
<1>4. CASE LoadFails
  <2>1. actor.sid # 0 /\ actor.sid \in Sids
    BY <1>4 DEF LoadFails, IInv, TypeOK, ActorState, Receiving, Stopped, Sids
  <2>2. Service!Abort
    BY <1>4, <2>1 DEF LoadFails, Service!Abort, Receiving
  <2> QED
    BY <2>2 DEF Service!Next
<1>5. CASE LoadSucceeds
  <2>1. actor.pc = "load" /\ actor'.pc \in {"recv", "settle"}
    BY <1>5 DEF LoadSucceeds, Receiving, IInv, TypeOK, ActorState, Stopped
  <2>2. Service!Commit
    BY <1>5, <2>1 DEF LoadSucceeds, Service!Commit
  <2> QED
    BY <2>2 DEF Service!Next
<1>6. CASE FinishRun
  <2>1. actor.pc = "drained" /\ actor.sid \in registry /\ actor' = Receiving /\ UNCHANGED nextId
    BY <1>6, RunFacts DEF FinishRun
  <2>2. CASE Kill(actor.sid)
    BY <2>1, <2>2, KillService
  <2>3. CASE UNCHANGED <<registry, attached>>
    BY <2>1, <2>3 DEF Service!vars, Receiving
  <2> QED
    BY <1>6, <2>2, <2>3 DEF FinishRun
<1>7. CASE HandleKill
  <2>1. actor = Receiving /\ actor' = Receiving /\ UNCHANGED nextId
    BY <1>7, ReceiveOpFacts DEF HandleKill
  <2>2. CASE Head(queue).req.sid \in registry
    BY <1>7, <2>1, <2>2, KillService DEF HandleKill, Receiving
  <2>3. CASE Head(queue).req.sid \notin registry
    BY <1>7, <2>1, <2>3 DEF HandleKill, Service!vars
  <2> QED
    BY <2>2, <2>3
<1>8. CASE HandlePull \/ HandleMalformed \/ HandleDiagnostic
  BY <1>8 DEF HandlePull, HandleMalformed, HandleDiagnostic, Service!vars
<1>10. CASE DrainRun
  <2>1. actor.pc = "settle" /\ actor'.pc = "drained" /\ UNCHANGED <<nextId, registry, attached>>
    BY <1>10 DEF DrainRun
  <2> QED
    BY <2>1 DEF Service!vars
<1>9. CASE HandleShutdown
  <2>1. /\ attached' = {} /\ registry' = {} /\ actor' = Stopped
        /\ actor.pc = "recv" /\ UNCHANGED nextId
    BY <1>9 DEF HandleShutdown, ShutdownAll, IInv, AgentsRegistered, Opening
  <2>2. Service!Stop
    BY <2>1 DEF Service!Stop, Service!Idle, Stopped
  <2> QED
    BY <2>2 DEF Service!Next
<1> QED
  BY <1>1, <1>2, <1>3, <1>4, <1>5, <1>6, <1>7, <1>8, <1>9, <1>10
  DEF ActorStep

LEMMA StepService == IInv /\ [Next]_vars => [Service!Next]_Service!vars
<1> SUFFICES ASSUME IInv, [Next]_vars PROVE [Service!Next]_Service!vars
  OBVIOUS
<1>1. CASE ActorStep
  BY <1>1, ActorService
<1>2. CASE HandlerStep \/ BridgeStep
  BY <1>2 DEF HandlerStep, BridgeStep, BufferMessage, ForwardMessage, Forward, ReceiveReply,
              Service!vars
<1>3. CASE ProcessStep
  <2>1. attached' \subseteq attached /\ UNCHANGED <<actor, registry, nextId>>
    BY <1>3 DEF ProcessStep, ProcessExit, ProcessStart
  <2>2. Service!Lose
    BY <2>1 DEF Service!Lose
  <2> QED
    BY <2>2 DEF Service!Next
<1>4. CASE MainStep
  BY <1>4 DEF MainStep, SendInjectBridge, MainResumes, CtrlC, SendShutdown, mainKeeps,
              Service!vars
<1>5. CASE UNCHANGED vars
  BY <1>5 DEF vars, Service!vars
<1> QED
  BY <1>1, <1>2, <1>3, <1>4, <1>5 DEF Next

(* The engine implements SessionService.                                   *)
THEOREM EngineImplementsService == Spec => ImplementsService
<1>1. Init => Service!Init
  BY DEF Init, Service!Init
<1>2. IInv /\ [Next]_vars => [Service!Next]_Service!vars
  BY StepService
<1> QED
  BY <1>1, <1>2, Invariance, PTL DEF Spec, ImplementsService, Service!Spec

(* In SessionService an id that has been issued is never opened again; the *)
(* engine's steps are steps of it.                                         *)
LEMMA StepKeepsIds ==
  ASSUME IInv, [Next]_vars
  PROVE  /\ Opening' # Opening => Opening' \cap (1 .. nextId) = {}
         /\ \A s \in 1 .. nextId :
              s \notin registry \cup Opening => s \notin registry'
<1> DEFINE o == IF actor.pc = "load" THEN actor.sid ELSE 0
<1>1. nextId \in Nat /\ (\A s \in 1 .. nextId : s # 0)
  BY DEF IInv, TypeOK
<1>2. actor.pc = "load" => actor.sid # 0
  BY DEF IInv, TypeOK, ActorState, Receiving, Stopped, Sids
<1>3. [Service!Next]_Service!vars
  BY StepService
<1>4. /\ o' = o \/ o' = 0 \/ o' = nextId + 1
      /\ registry' \subseteq registry \cup {o}
  BY <1>3 DEF Service!Next, Service!vars, Service!Begin, Service!Burn, Service!Commit,
              Service!Abort, Service!Close, Service!Lose, Service!Stop
<1>5. Opening = (IF o = 0 THEN {} ELSE {o})
  BY <1>2 DEF Opening
<1>6. Opening' = (IF o' = 0 THEN {} ELSE {o'})
  <2>1. actor'.pc = "load" => actor'.sid # 0
    BY NextInv DEF IInv, TypeOK, ActorState, Receiving, Stopped, Sids
  <2> QED
    BY <2>1 DEF Opening
<1> HIDE DEF o
<1> QED
  BY <1>1, <1>4, <1>5, <1>6

(* A session id never names two sessions.                                  *)
THEOREM IdsUnique == Spec => IdsNeverReused
<1>1. IInv /\ [Next]_vars =>
        [/\ Opening' # Opening => Opening' \cap (1 .. nextId) = {}
         /\ \A s \in 1 .. nextId :
              s \notin registry \cup Opening => s \notin registry']_vars
  BY StepKeepsIds
<1> QED
  BY <1>1, Invariance, PTL DEF Spec, IdsNeverReused
-----------------------------------------------------------------------------
(* main()'s commands.                                                      *)

(* What taking the first command, or adding one, does to the others.       *)
LEMMA QueueTail ==
  ASSUME IInv, queue # << >>, queue' = Tail(queue)
  PROVE  /\ 1 \in 1 .. Len(queue) /\ queue[1] = Head(queue)
         /\ \A i \in 1 .. Len(queue') :
              i \in Nat /\ i + 1 \in 1 .. Len(queue) /\ queue'[i] = queue[i + 1]
         /\ Len(queue) \in Nat /\ Len(queue') = Len(queue) - 1
<1>1. queue \in Seq(Command)
  BY DEF IInv, TypeOK
<1>2. /\ Head(queue) = queue[1] /\ Tail(queue) \in Seq(Command)
      /\ Len(Tail(queue)) = Len(queue) - 1
      /\ \A i \in 1 .. Len(Tail(queue)) : Tail(queue)[i] = queue[i + 1]
  BY <1>1, HeadTailProperties
<1>3. Len(queue) \in Nat /\ Len(queue) # 0
  BY <1>1, EmptySeq, LenProperties
<1> QED
  BY <1>2, <1>3

LEMMA QueueAppend ==
  ASSUME IInv, NEW c \in Command, queue' = Append(queue, c)
  PROVE  /\ Len(queue) \in Nat /\ Len(queue') = Len(queue) + 1
         /\ \A i \in 1 .. Len(queue) : queue'[i] = queue[i]
         /\ queue'[Len(queue) + 1] = c
         /\ \A i \in 1 .. Len(queue') : i \in 1 .. Len(queue) \/ i = Len(queue) + 1
<1>1. queue \in Seq(Command) /\ Len(queue) \in Nat
  BY LenProperties DEF IInv, TypeOK
<1> QED
  BY <1>1, AppendProperties

(* main's commands in the channel after a step were there before it.       *)
MainKept ==
  \E d \in {0, 1} :
    \A i \in 1 .. Len(queue') :
      queue'[i].kind # "BridgeMessage" => i + d \in 1 .. Len(queue) /\ queue'[i] = queue[i + d]

(* A step that neither answers main nor comes from it.                     *)
LEMMA OneMainOther ==
  ASSUME IInv, OneMainCommand, MainKept, UNCHANGED main,
         actor'.cmd.kind = "InjectBridge" => actor.cmd.kind = "InjectBridge",
         actor'.pc = "boot" <=> actor.pc = "boot"
  PROVE  OneMainCommand'
<1>1. PICK d \in {0, 1} : \A i \in 1 .. Len(queue') :
        queue'[i].kind # "BridgeMessage" => i + d \in 1 .. Len(queue) /\ queue'[i] = queue[i + d]
  BY DEF MainKept
<1>2. ASSUME NEW i \in 1 .. Len(queue'), NEW j \in 1 .. Len(queue'),
             queue'[i].kind # "BridgeMessage", queue'[j].kind # "BridgeMessage"
      PROVE  i = j
  <2>1. i + d = j + d
    BY <1>1, <1>2 DEF OneMainCommand
  <2> QED
    BY <2>1
<1>3. ASSUME NEW i \in 1 .. Len(queue')
      PROVE  /\ queue'[i].kind = "InjectBridge" =>
                  main.st = "inject" /\ actor'.cmd.kind # "InjectBridge"
             /\ queue'[i].kind = "Shutdown" => main.st = "shutdown"
  BY <1>1 DEF OneMainCommand
<1> QED
  BY <1>2, <1>3 DEF OneMainCommand

(* A step after which the channel holds no command of main.                *)
LEMMA OneMainNone ==
  ASSUME \A i \in 1 .. Len(queue') : queue'[i].kind = "BridgeMessage",
         actor'.cmd.kind = "InjectBridge" => main'.st = "inject",
         actor'.pc = "boot" <=> main'.st = "boot"
  PROVE  OneMainCommand'
BY DEF OneMainCommand

LEMMA KeptBySame ==
  ASSUME IInv, UNCHANGED queue
  PROVE  MainKept
<1>1. \A i \in 1 .. Len(queue') : i + 0 \in 1 .. Len(queue) /\ queue'[i] = queue[i + 0]
  OBVIOUS
<1> QED
  BY <1>1 DEF MainKept

LEMMA KeptByTail ==
  ASSUME IInv, queue # << >>, queue' = Tail(queue)
  PROVE  MainKept
BY QueueTail DEF MainKept

LEMMA KeptByAppend ==
  ASSUME IInv, NEW c \in Command, c.kind = "BridgeMessage", queue' = Append(queue, c)
  PROVE  MainKept
<1>1. \A i \in 1 .. Len(queue') :
        queue'[i].kind # "BridgeMessage" => i + 0 \in 1 .. Len(queue) /\ queue'[i] = queue[i + 0]
  BY QueueAppend
<1> QED
  BY <1>1 DEF MainKept

(* Where no command of main can be, because main is not waiting.           *)
LEMMA NoMainCommand ==
  ASSUME IInv, OneMainCommand,
         main.st \notin {"inject", "shutdown"} \/ actor.cmd.kind = "InjectBridge"
  PROVE  \A i \in 1 .. Len(queue) : queue[i].kind = "BridgeMessage"
<1> SUFFICES ASSUME NEW i \in 1 .. Len(queue) PROVE queue[i].kind = "BridgeMessage"
  OBVIOUS
<1>1. queue[i] \in Command
  BY ElementOfSeq DEF IInv, TypeOK
<1>2. queue[i].kind \in {"InjectBridge", "BridgeMessage", "Shutdown"}
  BY <1>1 DEF Command, InjectBridgeCommand, BridgeMessageCommand, Shutdown
<1> QED
  BY <1>2 DEF OneMainCommand

LEMMA OneMainActor == IInv /\ OneMainCommand /\ ActorStep => OneMainCommand'
<1> SUFFICES ASSUME IInv, OneMainCommand, ActorStep PROVE OneMainCommand'
  OBVIOUS
<1>1. CASE OpenDevice
  <2>1. \A i \in 1 .. Len(queue') : queue'[i].kind = "BridgeMessage"
    BY <1>1, NoMainCommand DEF OpenDevice, OneMainCommand
  <2> QED
    BY <1>1, <2>1, OneMainNone DEF OpenDevice, Receiving, Stopped, NoCommand, Main
<1>2. CASE HandleInjectBridge
  <2>1. /\ actor = Receiving /\ queue # << >> /\ queue' = Tail(queue)
        /\ Head(queue).kind = "InjectBridge"
    BY <1>2, ReceiveFacts DEF HandleInjectBridge, Receive
  <2>2. \A i \in 1 .. Len(queue') : queue'[i].kind = "BridgeMessage"
    <3> SUFFICES ASSUME NEW i \in 1 .. Len(queue') PROVE queue'[i].kind = "BridgeMessage"
      OBVIOUS
    <3>1. /\ 1 \in 1 .. Len(queue) /\ queue[1].kind # "BridgeMessage"
          /\ i + 1 \in 1 .. Len(queue) /\ queue'[i] = queue[i + 1] /\ i + 1 # 1
      BY <2>1, QueueTail
    <3> QED
      BY <3>1 DEF OneMainCommand
  <2>3. main.st = "inject"
    BY <2>1, QueueTail DEF OneMainCommand
  <2>4. CASE BeginInject(Head(queue).pid, TRUE)
    BY <2>2, <2>3, <2>4, OneMainNone DEF BeginInject
  <2>5. CASE InjectFails(Head(queue).pid) /\ main' = Main("err", 0)
    BY <2>1, <2>2, <2>5, OneMainNone DEF InjectFails, Main, Receiving, NoCommand
  <2> QED
    BY <1>2, <2>4, <2>5 DEF HandleInjectBridge
<1>3. CASE HandleRun
  <2>1. /\ actor = Receiving /\ queue # << >> /\ queue' = Tail(queue)
        /\ Head(queue).kind = "BridgeMessage" /\ UNCHANGED main
    BY <1>3, ReceiveOpFacts DEF HandleRun, BeginInject
  <2>2. \/ actor' = actor
        \/ actor'.pc = "load" /\ actor'.cmd = Head(queue)
    BY <1>3 DEF HandleRun, BeginInject, InjectFails
  <2> QED
    BY <2>1, <2>2, KeptByTail, OneMainOther DEF Receiving
<1>4. CASE LoadFails
  <2>1. UNCHANGED queue /\ actor' = Receiving /\ actor.pc = "load"
    BY <1>4 DEF LoadFails
  <2>2. CASE forward[actor.sid]
    <3>1. main' = Main("err", 0) /\ actor.cmd.kind = "InjectBridge"
      BY <1>4, <2>1, <2>2 DEF LoadFails, IInv, ActorInv
    <3> QED
      BY <2>1, <3>1, NoMainCommand, OneMainNone DEF Main, Receiving, NoCommand
  <2>3. CASE ~forward[actor.sid]
    <3>1. UNCHANGED main
      BY <1>4, <2>3 DEF LoadFails
    <3> QED
      BY <2>1, <3>1, KeptBySame, OneMainOther DEF Receiving, NoCommand
  <2> QED
    BY <2>2, <2>3
<1>5. CASE LoadSucceeds
  <2>1. UNCHANGED queue /\ actor.pc = "load"
    BY <1>5 DEF LoadSucceeds
  <2>2. CASE forward[actor.sid]
    <3>1. main' = Main("ok", actor.sid) /\ actor' = Receiving /\ actor.cmd.kind = "InjectBridge"
      BY <1>5, <2>1, <2>2 DEF LoadSucceeds, IInv, ActorInv
    <3> QED
      BY <2>1, <3>1, NoMainCommand, OneMainNone DEF Main, Receiving, NoCommand
  <2>3. CASE ~forward[actor.sid]
    <3>1. UNCHANGED main /\ actor' = [actor EXCEPT !.pc = "settle"]
      BY <1>5, <2>3 DEF LoadSucceeds
    <3>2. actor'.pc = "settle" /\ actor'.cmd = actor.cmd
      BY <2>1, <3>1 DEF IInv, TypeOK, ActorState, Receiving, Stopped
    <3> QED
      BY <2>1, <3>1, <3>2, KeptBySame, OneMainOther
  <2> QED
    BY <2>2, <2>3
<1>6. CASE DrainRun \/ FinishRun
  <2>1. CASE DrainRun
    <3>1. UNCHANGED <<queue, main>> /\ actor.pc # "boot"
      BY <2>1 DEF DrainRun
    <3>2. actor'.pc = "drained" /\ actor'.cmd = actor.cmd
      BY <2>1 DEF DrainRun
    <3> QED
      BY <3>1, <3>2, KeptBySame, OneMainOther
  <2>2. CASE FinishRun
    <3>1. UNCHANGED <<queue, main>> /\ actor' = Receiving /\ actor.pc = "drained"
      BY <2>2 DEF FinishRun
    <3> QED
      BY <3>1, KeptBySame, OneMainOther DEF Receiving, NoCommand
  <2> QED
    BY <1>6, <2>1, <2>2
<1>7. CASE HandlePull \/ HandleKill \/ HandleMalformed \/ HandleDiagnostic
  <2>1. UNCHANGED <<actor, main>> /\ queue # << >> /\ queue' = Tail(queue)
    BY <1>7 DEF HandlePull, HandleKill, HandleMalformed, HandleDiagnostic, ReceiveOp, Receive
  <2> QED
    BY <2>1, KeptByTail, OneMainOther
<1>8. CASE HandleShutdown
  <2>1. queue' = << >> /\ actor' = Stopped /\ main' = Main("down", 0)
    BY <1>8 DEF HandleShutdown
  <2>2. \A i \in 1 .. Len(queue') : queue'[i].kind = "BridgeMessage"
    BY <2>1
  <2> QED
    BY <2>1, <2>2, OneMainNone DEF Stopped, NoCommand, Main
<1> QED
  BY <1>1, <1>2, <1>3, <1>4, <1>5, <1>6, <1>7, <1>8 DEF ActorStep

(* A command main sends is the only one of its in the channel.             *)
LEMMA OneMainSends ==
  ASSUME IInv, OneMainCommand, main.st \in {"free", "quitting"}, UNCHANGED actor,
         NEW c \in Command, queue' = Append(queue, c),
         \/ c.kind = "InjectBridge" /\ main'.st = "inject"
         \/ c.kind = "Shutdown" /\ main'.st = "shutdown"
  PROVE  OneMainCommand'
<1>1. /\ \A i \in 1 .. Len(queue) : queue[i].kind = "BridgeMessage"
      /\ actor.cmd.kind # "InjectBridge" /\ actor.pc # "boot"
  BY NoMainCommand DEF OneMainCommand
<1>2. \A i \in 1 .. Len(queue') : queue'[i].kind = "BridgeMessage" \/ i = Len(queue) + 1
  BY <1>1, QueueAppend
<1>3. queue'[Len(queue) + 1] = c
  BY QueueAppend
<1> QED
  BY <1>1, <1>2, <1>3 DEF OneMainCommand

LEMMA OneMainNext == IInv /\ OneMainCommand /\ [Next]_vars => OneMainCommand'
<1> SUFFICES ASSUME IInv, OneMainCommand, [Next]_vars PROVE OneMainCommand'
  OBVIOUS
<1>1. CASE ActorStep
  BY <1>1, OneMainActor
<1>2. CASE HandlerStep \/ ProcessStep \/ (\E m \in inbox : ReceiveReply(m)) \/ UNCHANGED vars
  <2>1. UNCHANGED <<queue, actor, main>>
    BY <1>2 DEF HandlerStep, BufferMessage, ProcessStep, ProcessExit, ProcessStart, ReceiveReply,
                vars
  <2> QED
    BY <2>1, KeptBySame, OneMainOther
<1>3. ASSUME NEW b \in 1 .. nextId, NEW r \in Requests, ForwardMessage(b, r)
      PROVE  OneMainCommand'
  <2>1. BridgeMessage(b, r) \in Command /\ BridgeMessage(b, r).kind = "BridgeMessage"
    <3>1. b \in Sids
      BY EngineAssumption DEF IInv, TypeOK, Sids
    <3> QED
      BY <3>1 DEF BridgeMessage, Command, BridgeMessageCommand
  <2>2. queue' = queue \/ queue' = Append(queue, BridgeMessage(b, r))
    BY <1>3 DEF ForwardMessage, Forward, TrySend
  <2>3. MainKept
    BY <2>1, <2>2, KeptBySame, KeptByAppend
  <2> QED
    BY <1>3, <2>3, OneMainOther DEF ForwardMessage, Forward
<1>4. ASSUME NEW p \in Pids, SendInjectBridge(p)
      PROVE  OneMainCommand'
  <2>1. [kind |-> "InjectBridge", pid |-> p] \in Command
    BY DEF Command, InjectBridgeCommand
  <2> QED
    BY <1>4, <2>1, OneMainSends DEF SendInjectBridge, Main, mainKeeps
<1>5. CASE SendShutdown
  <2>1. Shutdown \in Command /\ Shutdown.kind = "Shutdown"
    BY DEF Command, Shutdown
  <2> QED
    BY <1>5, <2>1, OneMainSends DEF SendShutdown, Main, mainKeeps
<1>6. CASE MainResumes \/ CtrlC
  <2>1. UNCHANGED <<queue, actor>> /\ main.st \in {"ok", "err", "free"}
        /\ main'.st \in {"free", "quitting"}
    BY <1>6 DEF MainResumes, CtrlC, Main, mainKeeps
  <2>2. \A i \in 1 .. Len(queue') : queue'[i].kind = "BridgeMessage"
    BY <2>1, NoMainCommand
  <2> QED
    BY <2>1, <2>2, OneMainNone DEF OneMainCommand
<1> QED
  BY <1>1, <1>2, <1>3, <1>4, <1>5, <1>6 DEF Next, BridgeStep, MainStep

LEMMA OneMainInit == Init => OneMainCommand
BY DEF Init, OneMainCommand, Main, NoCommand

(* main() never has two commands outstanding.                              *)
THEOREM MainSendsOneCommand == Spec => []OneMainCommand
<1>1. Init => OneMainCommand
  BY OneMainInit
<1>2. IInv /\ OneMainCommand /\ [Next]_vars => OneMainCommand'
  BY OneMainNext
<1> QED
  BY <1>1, <1>2, Invariance, PTL DEF Spec
==============================================================================
