------------------------- MODULE MessageBufferProofs -------------------------
(* What BufferHandler::on_message and drain_values do to the buffer, for   *)
(* every cap, every number of messages and every drain.                    *)
EXTENDS MessageBuffer, SequenceTheorems, TLAPS

(* The numbers lo + 1 .. hi are a sequence of that many naturals.          *)
LEMMA WindowType ==
  ASSUME NEW lo \in Nat, NEW hi \in Nat, lo <= hi
  PROVE  /\ Window(lo, hi) \in Seq(Nat)
         /\ Len(Window(lo, hi)) = hi - lo
         /\ \A i \in 1 .. (hi - lo) : Window(lo, hi)[i] = lo + i
<1>1. hi - lo \in Nat
  OBVIOUS
<1>2. \A i \in 1 .. (hi - lo) : lo + i \in Nat
  OBVIOUS
<1>3. Window(lo, hi) \in [1 .. (hi - lo) -> Nat]
  BY <1>2 DEF Window
<1>4. Window(lo, hi) \in Seq(Nat)
  BY <1>1, <1>3
<1>5. Len(Window(lo, hi)) = hi - lo
  BY <1>1, <1>3, <1>4
<1> QED
  BY <1>4, <1>5 DEF Window

(* The buffer never holds more than the cap.                               *)
LEMMA NewestType ==
  ASSUME NEW h \in Nat, NEW d \in Nat, d <= h
  PROVE  /\ Floor(h, d) \in Nat
         /\ d <= Floor(h, d) /\ Floor(h, d) <= h
         /\ Newest(h, d) \in Seq(Nat)
         /\ Len(Newest(h, d)) = h - Floor(h, d)
         /\ Len(Newest(h, d)) <= MaxBuffered
         /\ \A i \in 1 .. Len(Newest(h, d)) : Newest(h, d)[i] = Floor(h, d) + i
<1>1. Floor(h, d) \in Nat /\ d <= Floor(h, d) /\ Floor(h, d) <= h
  BY MaxBufferedAssumption DEF Floor
<1>2. h - Floor(h, d) <= MaxBuffered
  BY MaxBufferedAssumption DEF Floor
<1> QED
  BY <1>1, <1>2, WindowType DEF Newest

(* A drained buffer is empty, and stays exact.                             *)
LEMMA NewestAfterDrain ==
  ASSUME NEW h \in Nat
  PROVE  Newest(h, h) = << >>
BY NewestType, MaxBufferedAssumption DEF Floor

(* A run of consecutive numbers, with the next one appended.               *)
LEMMA RunExtends ==
  ASSUME NEW q \in Seq(Nat), NEW r \in Seq(Nat), NEW f \in Nat, NEW m \in Nat,
         Len(r) = Len(q) + 1, m = f + Len(r),
         \A i \in 1 .. Len(q) : q[i] = f + i,
         \A i \in 1 .. Len(r) : r[i] = f + i
  PROVE  Append(q, m) = r
<1>1. /\ Append(q, m) \in Seq(Nat)
      /\ Len(Append(q, m)) = Len(q) + 1
      /\ \A i \in 1 .. Len(q) : Append(q, m)[i] = q[i]
      /\ Append(q, m)[Len(q) + 1] = m
  BY AppendProperties
<1>2. \A i \in 1 .. Len(r) : Append(q, m)[i] = r[i]
  BY <1>1
<1> QED
  BY <1>1, <1>2, SeqEqual

(* A run of consecutive numbers, without its first one.                    *)
LEMMA RunShrinks ==
  ASSUME NEW q \in Seq(Nat), NEW f \in Nat, Len(q) > 0,
         \A i \in 1 .. Len(q) : q[i] = f + i
  PROVE  /\ Tail(q) \in Seq(Nat)
         /\ Len(Tail(q)) = Len(q) - 1
         /\ \A i \in 1 .. Len(Tail(q)) : Tail(q)[i] = f + 1 + i
<1>1. q # << >>
  OBVIOUS
<1>2. /\ Tail(q) \in Seq(Nat)
      /\ Len(Tail(q)) = Len(q) - 1
      /\ \A i \in 1 .. Len(Tail(q)) : Tail(q)[i] = q[i + 1]
  BY <1>1, HeadTailProperties
<1>3. \A i \in 1 .. Len(Tail(q)) : q[i + 1] = f + (i + 1)
  BY <1>2
<1> QED
  BY <1>2, <1>3

(* on_message keeps the buffer exact: from the newest messages since the   *)
(* last drain it makes the newest messages since the last drain.           *)
LEMMA PushKeepsNewest ==
  ASSUME NEW h \in Nat, NEW d \in Nat, d <= h
  PROVE  Push(Newest(h, d), h + 1) = Newest(h + 1, d)
<1>1. /\ Newest(h, d) \in Seq(Nat)
      /\ Len(Newest(h, d)) = h - Floor(h, d)
      /\ Floor(h, d) \in Nat /\ Floor(h, d) <= h
      /\ \A i \in 1 .. Len(Newest(h, d)) : Newest(h, d)[i] = Floor(h, d) + i
  BY NewestType
<1>2. h + 1 \in Nat /\ d <= h + 1
  OBVIOUS
<1>3. /\ Newest(h + 1, d) \in Seq(Nat)
      /\ Len(Newest(h + 1, d)) = h + 1 - Floor(h + 1, d)
      /\ Floor(h + 1, d) \in Nat /\ Floor(h + 1, d) <= h + 1
      /\ \A i \in 1 .. Len(Newest(h + 1, d)) :
           Newest(h + 1, d)[i] = Floor(h + 1, d) + i
  <2>1. ASSUME NEW k \in Nat, k = h + 1
        PROVE  /\ Newest(k, d) \in Seq(Nat)
               /\ Len(Newest(k, d)) = k - Floor(k, d)
               /\ Floor(k, d) \in Nat /\ Floor(k, d) <= k
               /\ \A i \in 1 .. Len(Newest(k, d)) : Newest(k, d)[i] = Floor(k, d) + i
    <3>1. d <= k
      BY <2>1
    <3> QED
      BY <3>1, NewestType
  <2> QED
    BY <1>2, <2>1
<1>4. CASE h - d >= MaxBuffered
  <2>1. /\ Floor(h, d) = h - MaxBuffered
        /\ Floor(h + 1, d) = Floor(h, d) + 1
    BY <1>4, MaxBufferedAssumption DEF Floor
  <2>2. Len(Newest(h, d)) = MaxBuffered /\ Len(Newest(h, d)) > 0
    BY <1>1, <2>1, MaxBufferedAssumption
  <2>3. /\ Tail(Newest(h, d)) \in Seq(Nat)
        /\ Len(Tail(Newest(h, d))) = Len(Newest(h, d)) - 1
        /\ \A i \in 1 .. Len(Tail(Newest(h, d))) :
             Tail(Newest(h, d))[i] = Floor(h + 1, d) + i
    BY <1>1, <2>1, <2>2, RunShrinks
  <2>4. /\ Len(Newest(h + 1, d)) = Len(Tail(Newest(h, d))) + 1
        /\ h + 1 = Floor(h + 1, d) + Len(Newest(h + 1, d))
    BY <1>1, <1>3, <2>1, <2>3
  <2>5. Append(Tail(Newest(h, d)), h + 1) = Newest(h + 1, d)
    BY <1>2, <1>3, <2>3, <2>4, RunExtends
  <2>6. Push(Newest(h, d), h + 1) = Append(Tail(Newest(h, d)), h + 1)
    BY <2>2, MaxBufferedAssumption DEF Push
  <2> QED
    BY <2>5, <2>6
<1>5. CASE h - d < MaxBuffered
  <2>1. Floor(h, d) = d /\ Floor(h + 1, d) = d
    BY <1>5, MaxBufferedAssumption DEF Floor
  <2>2. /\ Len(Newest(h + 1, d)) = Len(Newest(h, d)) + 1
        /\ h + 1 = Floor(h + 1, d) + Len(Newest(h + 1, d))
        /\ Len(Newest(h, d)) < MaxBuffered
    BY <1>1, <1>3, <1>5, <2>1
  <2>3. /\ \A i \in 1 .. Len(Newest(h, d)) : Newest(h, d)[i] = d + i
        /\ \A i \in 1 .. Len(Newest(h + 1, d)) : Newest(h + 1, d)[i] = d + i
        /\ h + 1 = d + Len(Newest(h + 1, d))
    BY <1>1, <1>3, <2>1, <2>2
  <2>4. Append(Newest(h, d), h + 1) = Newest(h + 1, d)
    BY <1>1, <1>2, <1>3, <2>2, <2>3, RunExtends
  <2>5. Push(Newest(h, d), h + 1) = Append(Newest(h, d), h + 1)
    BY <1>1, <2>2, MaxBufferedAssumption DEF Push
  <2> QED
    BY <2>4, <2>5
<1> QED
  BY <1>4, <1>5, MaxBufferedAssumption
==============================================================================
