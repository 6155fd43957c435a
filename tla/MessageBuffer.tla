---------------------------- MODULE MessageBuffer ----------------------------
(***************************************************************************)
(* The per-session message buffer of src/src/engine/session.rs: a deque    *)
(* shared by frida-core's dispatcher thread, which pushes                  *)
(* (BufferHandler::on_message), and the engine thread, which takes         *)
(* everything (Engine::drain_values).                                      *)
(*                                                                         *)
(* A message is represented by the number the handler stamps on it         *)
(* (value["seq"]): the handler counts every call, so the k-th message a    *)
(* script's handler sees is the number k.                                  *)
(***************************************************************************)
EXTENDS Integers, Sequences

CONSTANT
  MaxBuffered       \* MAX_BUFFERED_MESSAGES

ASSUME MaxBufferedAssumption == MaxBuffered \in Nat \ {0}

(* Mutations of Push: the message enters at the end of the deque that the  *)
(* oldest one leaves; the cap is one lower.                                *)
PushFront(q, m) == <<m>> \o (IF Len(q) >= MaxBuffered THEN Tail(q) ELSE q)
PushOffByOne(q, m) == Append(IF Len(q) + 1 >= MaxBuffered /\ q # <<>> THEN Tail(q) ELSE q, m)

(* BufferHandler::on_message on a queue of already stamped messages: at    *)
(* the cap the oldest message gives way to the new one.                    *)
Push(q, m) == Append(IF Len(q) >= MaxBuffered THEN Tail(q) ELSE q, m)

(* The messages numbered lo + 1 .. hi, in order.                           *)
Window(lo, hi) == [i \in 1 .. (hi - lo) |-> lo + i]

(* The number of the last message that is no longer buffered, when the     *)
(* handler has seen h messages and the first d of them had been seen at    *)
(* the last drain.                                                         *)
Floor(h, d) == IF h - d > MaxBuffered THEN h - MaxBuffered ELSE d

(* What the buffer must hold: every message since the last drain, or the   *)
(* newest MaxBuffered of them when there were more.                        *)
Newest(h, d) == Window(Floor(h, d), h)
==============================================================================
