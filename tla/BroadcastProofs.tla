---------------------------- MODULE BroadcastProofs ----------------------------
(***************************************************************************)
(* Facts about the broadcast channel that the proofs about concurrent      *)
(* tasks rest on, for any set of receivers, events and length.             *)
(***************************************************************************)
EXTENDS Broadcast, SequenceTheorems, TLAPS

\* The receivers R of a channel for the events M.
Receiver(M) == [open : BOOLEAN, lagged : BOOLEAN, msgs : Seq(M)]
Channel(R, M) ==
  {c \in [R -> Receiver(M)] : \A r \in R : Len(c[r].msgs) <= Capacity}

\* A receiver has the new event at the end, or is not subscribed; what it had
\* is kept, unless it lags.
LEMMA ReceiveProperties ==
  ASSUME NEW M, NEW q \in Receiver(M), Len(q.msgs) <= Capacity, NEW m \in M
  PROVE  /\ Receive(q, m) \in Receiver(M)
         /\ Len(Receive(q, m).msgs) <= Capacity
         /\ Receive(q, m).open = q.open
         /\ ~q.open => Receive(q, m) = q
         /\ q.open /\ ~Receive(q, m).lagged => Receive(q, m).msgs = Append(q.msgs, m)
         /\ q.lagged => Receive(q, m).lagged
<1>1. q.msgs \in Seq(M) /\ Len(q.msgs) \in Nat /\ Capacity \in Nat /\ Capacity > 0
  BY CapacityAssumption, LenProperties DEF Receiver
<1>2. Append(q.msgs, m) \in Seq(M) /\ Len(Append(q.msgs, m)) = Len(q.msgs) + 1
  BY <1>1, AppendProperties
<1>3. CASE ~q.open
  BY <1>3 DEF Receive
<1>4. CASE q.open /\ Len(q.msgs) < Capacity
  <2>1. Receive(q, m) = [q EXCEPT !.msgs = Append(q.msgs, m)]
    BY <1>4 DEF Receive
  <2>2. Len(q.msgs) + 1 <= Capacity
    BY <1>1, <1>4
  <2> QED BY <1>2, <1>4, <2>1, <2>2 DEF Receiver
<1>5. CASE q.open /\ ~(Len(q.msgs) < Capacity)
  <2>1. q.msgs # << >> /\ Len(q.msgs) = Capacity
    BY <1>1, <1>5
  <2>2. Tail(q.msgs) \in Seq(M) /\ Len(Tail(q.msgs)) = Capacity - 1
    BY <1>1, <2>1, HeadTailProperties
  <2>3. Append(Tail(q.msgs), m) \in Seq(M) /\ Len(Append(Tail(q.msgs), m)) = Capacity
    BY <1>1, <2>2, AppendProperties
  <2>4. Receive(q, m) = [q EXCEPT !.msgs = Append(Tail(q.msgs), m), !.lagged = TRUE]
    BY <1>5 DEF Receive
  <2> DEFINE t == Append(Tail(q.msgs), m)
             new == [q EXCEPT !.msgs = t, !.lagged = TRUE]
  <2>5. t \in Seq(M) /\ Len(t) <= Capacity
    BY <1>1, <2>3
  <2>6. Receive(q, m) = new
    BY <2>4
  <2> HIDE DEF t
  <2>7. new \in Receiver(M) /\ new.msgs = t /\ new.lagged = TRUE /\ new.open = q.open
    BY <2>5 DEF Receiver
  <2> HIDE DEF new
  <2> QED BY <1>5, <2>5, <2>6, <2>7
<1> QED BY <1>3, <1>4, <1>5

\* A send reaches every receiver.
LEMMA SendProperties ==
  ASSUME NEW R, NEW M, NEW c \in Channel(R, M), NEW m \in M
  PROVE  /\ Send(c, m) \in Channel(R, M)
         /\ \A r \in R : Send(c, m)[r] = Receive(c[r], m)
<1>1. Send(c, m) = [r \in R |-> Receive(c[r], m)]
  BY DEF Send, Channel
<1>2. \A r \in R : Receive(c[r], m) \in Receiver(M) /\ Len(Receive(c[r], m).msgs) <= Capacity
  BY ReceiveProperties DEF Channel
<1> QED BY <1>1, <1>2 DEF Channel

\* What is taken is the oldest event; the others keep their order.
LEMMA TakeProperties ==
  ASSUME NEW R, NEW M, NEW c \in Channel(R, M), NEW r \in R, CanTake(c, r)
  PROVE  /\ Take(c, r) \in Channel(R, M)
         /\ Head(c[r].msgs) \in M
         /\ Take(c, r)[r].msgs = Tail(c[r].msgs)
         /\ \A k \in R \ {r} : Take(c, r)[k] = c[k]
         /\ \A k \in R : Take(c, r)[k].open = c[k].open /\ Take(c, r)[k].lagged = c[k].lagged
<1> DEFINE q == c[r]
<1>1. q \in Receiver(M) /\ q.msgs \in Seq(M) /\ q.msgs # << >> /\ Len(q.msgs) <= Capacity
  BY DEF Channel, Receiver, CanTake
<1>2. Head(q.msgs) \in M /\ Tail(q.msgs) \in Seq(M) /\ Len(Tail(q.msgs)) = Len(q.msgs) - 1
  BY <1>1, HeadTailProperties
<1>3. Len(q.msgs) \in Nat /\ Capacity \in Nat /\ Len(q.msgs) <= Capacity
  BY <1>1, LenProperties, CapacityAssumption
<1>4. Take(c, r) = [c EXCEPT ![r] = [q EXCEPT !.msgs = Tail(q.msgs)]]
  BY <1>1 DEF Take, Channel, Receiver
<1> HIDE DEF q
<1>5. [q EXCEPT !.msgs = Tail(q.msgs)] \in Receiver(M) /\ Len(Tail(q.msgs)) <= Capacity
  <2>1. [q EXCEPT !.msgs = Tail(q.msgs)] \in Receiver(M)
    BY <1>1, <1>2 DEF Receiver
  <2>2. Len(Tail(q.msgs)) <= Capacity
    BY <1>1, <1>2, <1>3
  <2> QED BY <2>1, <2>2
<1>6. c \in [R -> Receiver(M)]
  BY DEF Channel
<1>7. /\ [q EXCEPT !.msgs = Tail(q.msgs)].msgs = Tail(q.msgs)
      /\ [q EXCEPT !.msgs = Tail(q.msgs)].open = q.open
      /\ [q EXCEPT !.msgs = Tail(q.msgs)].lagged = q.lagged
  BY <1>1 DEF Receiver
<1>8. /\ Take(c, r)[r] = [q EXCEPT !.msgs = Tail(q.msgs)]
      /\ \A k \in R \ {r} : Take(c, r)[k] = c[k]
      /\ Take(c, r) \in [R -> Receiver(M)]
  BY <1>4, <1>5, <1>6
<1>9. Take(c, r) \in Channel(R, M)
  BY <1>5, <1>7, <1>8 DEF Channel
<1> QED BY <1>2, <1>7, <1>8, <1>9 DEF q

\* Lagged is reported once.
LEMMA SkipProperties ==
  ASSUME NEW R, NEW M, NEW c \in Channel(R, M), NEW r \in R
  PROVE  /\ SkipLagged(c, r) \in Channel(R, M)
         /\ \A k \in R : SkipLagged(c, r)[k].msgs = c[k].msgs /\ SkipLagged(c, r)[k].open = c[k].open
         /\ \A k \in R \ {r} : SkipLagged(c, r)[k] = c[k]
<1> DEFINE q == [c[r] EXCEPT !.lagged = FALSE]
<1>1. c[r] \in Receiver(M) /\ Len(c[r].msgs) <= Capacity /\ c \in [R -> Receiver(M)]
  BY DEF Channel
<1>2. q \in Receiver(M) /\ q.msgs = c[r].msgs /\ q.open = c[r].open
  BY <1>1 DEF Receiver
<1>3. SkipLagged(c, r) = [c EXCEPT ![r] = q]
  BY <1>1 DEF SkipLagged, Receiver
<1> HIDE DEF q
<1> QED BY <1>1, <1>2, <1>3 DEF Channel

\* A receiver that subscribes has nothing to take.
LEMMA SubscribeProperties ==
  ASSUME NEW R, NEW M, NEW c \in Channel(R, M), NEW r \in R
  PROVE  /\ [c EXCEPT ![r] = Subscribed] \in Channel(R, M)
         /\ \A k \in R \ {r} : [c EXCEPT ![r] = Subscribed][k] = c[k]
         /\ [c EXCEPT ![r] = Subscribed][r].msgs = << >>
<1>1. Subscribed \in Receiver(M) /\ Subscribed.msgs = << >> /\ Len(<< >>) = 0
  BY EmptySeq DEF Subscribed, Receiver
<1> QED BY <1>1, CapacityAssumption DEF Channel

\* A larger set of events does not change a channel.
LEMMA ChannelWidens ==
  ASSUME NEW R, NEW M, NEW N, M \subseteq N, NEW c \in Channel(R, M)
  PROVE  c \in Channel(R, N)
<1>1. \A r \in R : c[r].msgs \in Seq(N)
  <2> SUFFICES ASSUME NEW r \in R PROVE c[r].msgs \in Seq(N)
    OBVIOUS
  <2>1. c[r].msgs \in Seq(M)
    BY DEF Channel, Receiver
  <2>2. \A i \in 1..Len(c[r].msgs) : c[r].msgs[i] \in N
    BY <2>1, ElementOfSeq
  <2> QED BY <2>1, <2>2, SeqMonotonic
<1>2. \A r \in R : c[r] \in Receiver(N)
  BY <1>1 DEF Channel, Receiver
<1> QED BY <1>2 DEF Channel
=============================================================================
