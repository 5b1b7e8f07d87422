------------------------------ MODULE GoBackNProofs ------------------------------
(*****************************************************************************)
(* Theorems about GoBackN, for every flow, window, chunk, interval and path.   *)
(*****************************************************************************)
EXTENDS GoBackN, TLAPS

USE DEF Seqno
--------------------------------------------------------------------------------
(* Integer facts about whole chunks and unsigned counters. *)
LEMMA GoBackFacts ==
  ASSUME NEW s \in Nat, NEW t \in Nat
  PROVE  /\ GoBack(s) \in Nat
         /\ GoBack(s) <= s
         /\ GoBack(GoBack(s)) = GoBack(s)
         /\ s <= t => GoBack(s) <= GoBack(t)
<1> DEFINE q == s \div Chunk
           r == t \div Chunk
<1>1. Chunk \in Nat /\ Chunk > 0
  BY GoBackNAssumption
<1>2. /\ q \in Nat /\ r \in Nat
      /\ s = Chunk * q + (s % Chunk) /\ s % Chunk \in 0 .. Chunk - 1
      /\ t = Chunk * r + (t % Chunk) /\ t % Chunk \in 0 .. Chunk - 1
  BY <1>1, SMTT(30)
<1>3. q * Chunk \in Nat /\ q * Chunk = Chunk * q /\ r * Chunk \in Nat /\ r * Chunk = Chunk * r
  BY <1>1, <1>2, SMTT(30)
<1>4. q * Chunk <= s
  BY <1>1, <1>2, <1>3
<1>5. (q * Chunk) \div Chunk = q
  BY <1>1, <1>2, SMTT(30)
<1>6. s <= t => q * Chunk <= r * Chunk
  BY <1>1, <1>2, SMTT(30)
<1> QED
  BY <1>3, <1>4, <1>5, <1>6 DEF GoBack

LEMMA GoBackRange == \A s \in Seqno : GoBack(s) \in Seqno /\ GoBack(s) <= s
<1> SUFFICES ASSUME NEW s \in Seqno
             PROVE  GoBack(s) \in Seqno /\ GoBack(s) <= s
  OBVIOUS
<1>1. s \in Nat
  BY GoBackNAssumption
<1>2. GoBack(s) \in Nat /\ GoBack(s) <= s
  BY <1>1, GoBackFacts
<1> QED
  BY <1>2, GoBackNAssumption

LEMMA ModSmall ==
  ASSUME NEW x \in Nat, x < Word
  PROVE  x % Word = x
BY GoBackNAssumption, SMTT(30)

LEMMA PayloadFacts ==
  ASSUME NEW s \in 0 .. Size - 1
  PROVE  /\ Payload(s) \in Nat \ {0}
         /\ s + Payload(s) \in 0..Size
BY GoBackNAssumption DEF Payload

LEMMA HeadType ==
  ASSUME NEW S, NEW s \in Seq(S), s # <<>>
  PROVE  Head(s) \in S
OBVIOUS

LEMMA AppendType ==
  ASSUME NEW S, NEW s \in Seq(S), NEW e \in S
  PROVE  Append(s, e) \in Seq(S)
OBVIOUS

(* What is left of a sequence without one of its elements. *)
LEMMA WithoutFacts ==
  ASSUME NEW S, NEW s \in Seq(S), NEW i \in 1..Len(s)
  PROVE  /\ Without(s, i) \in Seq(S)
         /\ Len(Without(s, i)) = Len(s) - 1
         /\ \A j \in 1 .. Len(s) - 1 :
              Without(s, i)[j] = IF j < i THEN s[j] ELSE s[j + 1]
<1>1. Len(s) \in Nat /\ \A j \in 1..Len(s) : s[j] \in S
  OBVIOUS
<1>2. \A j \in 1 .. Len(s) - 1 : (IF j < i THEN s[j] ELSE s[j + 1]) \in S
  BY <1>1
<1>3. Len(s) - 1 \in Nat
  BY <1>1
<1> QED
  BY <1>1, <1>2, <1>3 DEF Without
--------------------------------------------------------------------------------
LEMMA TypeInit == Init => TypeOK
<1> SUFFICES ASSUME Init PROVE TypeOK
  OBVIOUS
<1>1. 0 \in Seqno /\ 0 \in 0..MaxDataLoss /\ 0 \in 0..MaxAckLoss /\ 0 \in Nat
  BY GoBackNAssumption
<1>2. data \in Seq(0 .. Size - 1) /\ acks \in Seq(Ack)
  BY DEF Init
<1>3. lost \in [data : 0..MaxDataLoss, acks : 0..MaxAckLoss]
  BY <1>1 DEF Init
<1> QED
  BY <1>1, <1>2, <1>3 DEF Init, TypeOK

LEMMA TypeNext == TypeOK /\ [Next]_vars => TypeOK'
<1> SUFFICES ASSUME TypeOK, [Next]_vars
             PROVE  TypeOK'
  OBVIOUS
<1> USE GoBackNAssumption DEF TypeOK
<1>1. CASE Send
  <2>1. snd_nxt \in 0 .. Size - 1
    BY <1>1 DEF Send, GetBytesLeft
  <2>2. snd_nxt' \in Seqno
    BY <1>1, <2>1, PayloadFacts DEF Send
  <2>3. data' \in Seq(0 .. Size - 1)
    BY <1>1, <2>1 DEF Send
  <2>4. rto' \in BOOLEAN
    BY <1>1 DEF Send, ArmsRTO
  <2> QED
    BY <1>1, <2>2, <2>3, <2>4 DEF Send, receiver
<1>2. CASE Timeout
  BY <1>2 DEF Timeout, receiver
<1>3. CASE ReceiveAck
  <2>1. Head(acks) \in Ack /\ Tail(acks) \in Seq(Ack)
    BY <1>3 DEF ReceiveAck
  <2>2. GoBack(Head(acks).seq) \in Seqno
    <3>1. Head(acks).seq \in Seqno
      BY <2>1 DEF Ack
    <3> QED
      BY <3>1, GoBackRange
  <2>3. snd_una' \in Seqno
    BY <1>3, <2>2 DEF ReceiveAck, Larger
  <2>4. snd_nxt' \in Seqno
    BY <1>3, <2>3 DEF ReceiveAck
  <2>5. completed' \in Nat
    BY <1>3 DEF ReceiveAck
  <2>6. rto' \in BOOLEAN
    BY <1>3 DEF ReceiveAck, ArmsRTO
  <2> QED
    BY <1>3, <2>1, <2>3, <2>4, <2>5, <2>6 DEF ReceiveAck, receiver
<1>4. CASE ReceiveUdp
  <2> DEFINE seq == Head(data)
  <2>1. seq \in 0 .. Size - 1 /\ Tail(data) \in Seq(0 .. Size - 1)
    BY <1>4 DEF ReceiveUdp
  <2>2. CASE InOrder(seq)
    <3>1. expected' \in Seqno
      BY <2>1, <2>2, PayloadFacts DEF InOrder
    <3>2. [nack |-> FALSE, seq |-> expected'] \in Ack
      BY <3>1 DEF Ack
    <3>3. acks' \in Seq(Ack)
      <4>1. \/ acks' = acks
            \/ acks' = Append(acks, [nack |-> FALSE, seq |-> expected'])
        BY <2>2 DEF InOrder, Reply
      <4>2. acks \in Seq(Ack)
        OBVIOUS
      <4>3. Append(acks, [nack |-> FALSE, seq |-> expected']) \in Seq(Ack)
        BY <3>2, <4>2, AppendType
      <4> QED
        BY <4>1, <4>2, <4>3
    <3> QED
      BY <1>4, <2>1, <2>2, <3>1, <3>3 DEF ReceiveUdp, InOrder, sender
  <2>3. CASE OutOfOrder(seq)
    <3>1. GoBack(expected) \in Seqno
      BY GoBackRange
    <3>2. expected' \in Seqno
      BY <2>3, <3>1 DEF OutOfOrder, receiver
    <3>3. acks' \in Seq(Ack)
      <4>1. [nack |-> TRUE, seq |-> expected'] \in Ack
        BY <3>2 DEF Ack
      <4>2. \/ acks' = acks
            \/ acks' = Append(acks, [nack |-> TRUE, seq |-> expected'])
        BY <2>3 DEF OutOfOrder, Reply
      <4>3. acks \in Seq(Ack)
        OBVIOUS
      <4>4. Append(acks, [nack |-> TRUE, seq |-> expected']) \in Seq(Ack)
        BY <4>1, <4>3, AppendType
      <4> QED
        BY <4>2, <4>3, <4>4
    <3>4. lastNACK' \in Seqno /\ nackWait' \in BOOLEAN
      BY <2>3 DEF OutOfOrder, receiver
    <3> QED
      BY <1>4, <2>1, <3>2, <3>3, <3>4 DEF ReceiveUdp, sender
  <2>4. CASE Duplicate(seq)
    BY <1>4, <2>1, <2>4 DEF ReceiveUdp, Duplicate, sender, receiver
  <2> QED
    BY <1>4, <2>2, <2>3, <2>4 DEF ReceiveUdp
<1>5. CASE NackTimerExpires
  BY <1>5 DEF NackTimerExpires, sender
<1>6. CASE DropData
  <2>1. data' \in Seq(0 .. Size - 1)
    BY <1>6, WithoutFacts, SMTT(20) DEF DropData
  <2>2. lost' \in [data : 0..MaxDataLoss, acks : 0..MaxAckLoss]
    <3>1. lost.data \in 0..MaxDataLoss /\ lost.acks \in 0..MaxAckLoss
      OBVIOUS
    <3>2. lost.data + 1 \in 0..MaxDataLoss
      <4>1. lost.data < MaxDataLoss
        BY <1>6 DEF DropData
      <4> QED
        BY <3>1, <4>1
    <3>3. lost' = [lost EXCEPT !.data = lost.data + 1]
      BY <1>6 DEF DropData
    <3> QED
      BY <3>1, <3>2, <3>3
  <2> QED
    BY <1>6, <2>1, <2>2 DEF DropData, sender, receiver
<1>7. CASE DropAck
  <2>1. acks' \in Seq(Ack)
    BY <1>7, WithoutFacts DEF DropAck
  <2>2. lost' \in [data : 0..MaxDataLoss, acks : 0..MaxAckLoss]
    <3>1. lost.data \in 0..MaxDataLoss /\ lost.acks \in 0..MaxAckLoss
      OBVIOUS
    <3>2. lost.acks + 1 \in 0..MaxAckLoss
      <4>1. lost.acks < MaxAckLoss
        BY <1>7 DEF DropAck
      <4> QED
        BY <3>1, <4>1
    <3>3. lost' = [lost EXCEPT !.acks = lost.acks + 1]
      BY <1>7 DEF DropAck
    <3> QED
      BY <3>1, <3>2, <3>3
  <2> QED
    BY <1>7, <2>1, <2>2 DEF DropAck, sender, receiver
<1>8. CASE UNCHANGED vars
  BY <1>8 DEF vars, sender, receiver
<1> QED
  BY <1>1, <1>2, <1>3, <1>4, <1>5, <1>6, <1>7, <1>8 DEF Next

(* The counters stay in range and the path carries what the two ends send. *)
THEOREM TypeCorrect == Spec => []TypeOK
<1> QED
  BY TypeInit, TypeNext, PTL DEF Spec
--------------------------------------------------------------------------------
(* AckedIsReceived with the acknowledgements on the path as a sequence over the
   covered ones: sequences over a set are closed under what the path does. *)
Covered == {a \in Ack : GoBack(a.seq) <= GoBack(expected)}

AckInv == snd_una <= GoBack(expected) /\ acks \in Seq(Covered)

LEMMA SeqMonotone ==
  ASSUME NEW S, NEW R, S \subseteq R, NEW s \in Seq(S)
  PROVE  s \in Seq(R)
OBVIOUS

LEMMA AckInvIsAcked == TypeOK /\ AckInv => AckedIsReceived
BY DEF AckInv, AckedIsReceived, Covered

LEMMA AckInvInit == Init => AckInv
<1> SUFFICES ASSUME Init PROVE AckInv
  OBVIOUS
<1>1. 0 <= GoBack(0)
  BY GoBackRange, GoBackNAssumption
<1> QED
  BY <1>1 DEF Init, AckInv

(* When the receiver moves on, what was covered stays covered. *)
LEMMA CoveredGrows ==
  ASSUME TypeOK, AckInv, expected' \in Seqno, GoBack(expected) <= GoBack(expected'),
         UNCHANGED snd_una,
         \/ UNCHANGED acks
         \/ \E n \in BOOLEAN : Reply(n)
  PROVE  AckInv'
<1>1. GoBack(expected) \in Seqno /\ GoBack(expected') \in Seqno
  BY GoBackRange DEF TypeOK
<1>2. snd_una' <= GoBack(expected')
  BY <1>1 DEF AckInv, TypeOK
<1>3. Covered \subseteq Covered'
  <2> SUFFICES ASSUME NEW a \in Ack, GoBack(a.seq) <= GoBack(expected)
               PROVE  GoBack(a.seq) <= GoBack(expected')
    BY DEF Covered
  <2>1. a.seq \in Seqno
    BY DEF Ack
  <2>2. GoBack(a.seq) \in Seqno
    BY <2>1, GoBackRange
  <2> QED
    BY <1>1, <2>2, GoBackNAssumption
<1>4. acks \in Seq(Covered')
  BY <1>3, SeqMonotone DEF AckInv
<1>5. CASE UNCHANGED acks
  BY <1>2, <1>4, <1>5 DEF AckInv
<1>6. ASSUME NEW n \in BOOLEAN, Reply(n)
      PROVE  AckInv'
  <2>1. [nack |-> n, seq |-> expected'] \in Covered'
    BY <1>1, GoBackNAssumption DEF Covered, Ack
  <2>2. Append(acks, [nack |-> n, seq |-> expected']) \in Seq(Covered')
    BY <1>4, <2>1, AppendType
  <2>3. acks' \in Seq(Covered')
    BY <1>6, <2>2 DEF Reply
  <2> QED
    BY <1>2, <2>3 DEF AckInv
<1> QED
  BY <1>5, <1>6

(* What the receiver counts in whole chunks never shrinks. *)
LEMMA ReceiverMovesOn ==
  ASSUME TypeOK, ReceiveUdp
  PROVE  GoBack(expected) <= GoBack(expected')
<1> DEFINE seq == Head(data)
<1>0. expected \in Nat /\ GoBack(expected) \in Nat
  BY GoBackFacts, GoBackNAssumption DEF TypeOK
<1>1. seq \in 0 .. Size - 1
  <2>1. data # <<>> /\ data \in Seq(0 .. Size - 1)
    BY DEF ReceiveUdp, TypeOK
  <2> QED
    BY <2>1, HeadType
<1>2. CASE InOrder(seq)
  <2>1. expected' \in Nat /\ expected <= expected'
    BY <1>0, <1>1, <1>2, PayloadFacts DEF InOrder
  <2> QED
    BY <1>0, <2>1, GoBackFacts
<1>3. CASE OutOfOrder(seq)
  <2>1. expected' = expected \/ expected' = GoBack(expected)
    BY <1>3 DEF OutOfOrder, receiver
  <2>2. GoBack(GoBack(expected)) = GoBack(expected)
    BY <1>0, GoBackFacts
  <2> QED
    BY <1>0, <2>1, <2>2
<1>4. CASE Duplicate(seq)
  BY <1>0, <1>4 DEF Duplicate, receiver
<1> QED
  BY <1>2, <1>3, <1>4 DEF ReceiveUdp

LEMMA AckInvNext == TypeOK /\ AckInv /\ [Next]_vars => AckInv'
<1> SUFFICES ASSUME TypeOK, AckInv, [Next]_vars
             PROVE  AckInv'
  OBVIOUS
<1>0. expected' \in Seqno
  BY TypeNext DEF TypeOK
<1>1. CASE UNCHANGED <<snd_una, expected, acks>>
  BY <1>1 DEF AckInv, Covered
<1>2. CASE ReceiveAck
  <2>1. Covered' = Covered
    BY <1>2 DEF ReceiveAck, receiver, Covered
  <2>2. acks # <<>> /\ acks \in Seq(Covered)
    BY <1>2 DEF ReceiveAck, AckInv
  <2>3. Head(acks) \in Covered /\ Tail(acks) \in Seq(Covered)
    BY <2>2
  <2>4. GoBack(Head(acks).seq) <= GoBack(expected)
    BY <2>3 DEF Covered
  <2>5. snd_una' <= GoBack(expected)
    BY <1>2, <2>4 DEF ReceiveAck, Larger, AckInv
  <2> QED
    BY <1>2, <2>1, <2>3, <2>5 DEF ReceiveAck, AckInv, receiver
<1>3. CASE ReceiveUdp
  <2>1. GoBack(expected) <= GoBack(expected') /\ UNCHANGED snd_una
    BY <1>3, ReceiverMovesOn DEF ReceiveUdp, sender
  <2>2. UNCHANGED acks \/ \E n \in BOOLEAN : Reply(n)
    BY <1>3 DEF ReceiveUdp, InOrder, OutOfOrder, Duplicate
  <2> QED
    BY <1>0, <2>1, <2>2, CoveredGrows
<1>4. CASE DropAck
  <2>1. Covered' = Covered /\ UNCHANGED <<snd_una, expected>>
    BY <1>4 DEF DropAck, sender, receiver, Covered
  <2>2. acks' \in Seq(Covered)
    BY <1>4, WithoutFacts DEF DropAck, AckInv
  <2> QED
    BY <2>1, <2>2 DEF AckInv
<1> QED
  BY <1>1, <1>2, <1>3, <1>4
  DEF Next, Send, Timeout, NackTimerExpires, DropData, vars, sender, receiver

(* Whatever is lost or late, the sender takes nothing for acknowledged that
   the receiver does not have. *)
THEOREM AcksAreSound == Spec => []AckedIsReceived
<1> QED
  BY TypeInit, TypeNext, AckInvInit, AckInvNext, AckInvIsAcked, PTL DEF Spec
--------------------------------------------------------------------------------
(* The condition under which the timeout is scheduled, without unsigned
   arithmetic. *)
LEMMA ArmsFacts ==
  ASSUME NEW una \in Seqno, NEW nxt \in Seqno
  PROVE  ArmsRTO(una, nxt) <=> UseRTO /\ nxt = Size /\ una < Size
<1>1. GetBytesLeft(nxt) = 0 <=> nxt = Size
  BY GoBackNAssumption DEF GetBytesLeft
<1>2. ASSUME nxt = Size
      PROVE  GetOnTheFly(una, nxt) > 0 <=> una < Size
  <2>1. nxt - una \in Nat /\ nxt - una < Word
    BY <1>2, GoBackNAssumption
  <2>2. GetOnTheFly(una, nxt) = nxt - una
    BY <2>1, ModSmall DEF GetOnTheFly
  <2> QED
    BY <1>2, <2>1, <2>2, GoBackNAssumption
<1> QED
  BY <1>1, <1>2 DEF ArmsRTO

TimerInv == QuietWhenDone /\ TailIsTimed

LEMMA TimerInit == Init => TimerInv
BY GoBackNAssumption DEF Init, TimerInv, QuietWhenDone, TailIsTimed, IsFinished

LEMMA TimerNext == TypeOK /\ TimerInv /\ [Next]_vars => TimerInv'
<1> SUFFICES ASSUME TypeOK, TimerInv, [Next]_vars
             PROVE  TimerInv'
  OBVIOUS
<1>0. /\ Size \in Nat
      /\ snd_una \in Seqno /\ snd_nxt \in Seqno /\ rto \in BOOLEAN
      /\ snd_una' \in Seqno /\ snd_nxt' \in Seqno
  BY TypeNext, GoBackNAssumption DEF TypeOK
<1> USE DEF TimerInv, QuietWhenDone, TailIsTimed, IsFinished
<1>1. CASE Send
  <2>1. rto' = (rto \/ ArmsRTO(snd_una, snd_nxt')) /\ snd_una' = snd_una
    BY <1>1 DEF Send
  <2>2. ArmsRTO(snd_una, snd_nxt') <=> UseRTO /\ snd_nxt' = Size /\ snd_una < Size
    BY <1>0, ArmsFacts
  <2>3. QuietWhenDone'
    BY <1>0, <2>1, <2>2
  <2>4. TailIsTimed'
    BY <1>0, <2>1, <2>2
  <2> QED
    BY <2>3, <2>4
<1>2. CASE Timeout
  BY <1>0, <1>2 DEF Timeout
<1>3. CASE ReceiveAck
  <2>1. rto' = \/ rto /\ ~IsFinished(snd_una')
               \/ ArmsRTO(snd_una', snd_nxt')
    BY <1>3 DEF ReceiveAck
  <2>2. ArmsRTO(snd_una', snd_nxt') <=> UseRTO /\ snd_nxt' = Size /\ snd_una' < Size
    BY <1>0, ArmsFacts
  <2>3. QuietWhenDone'
    BY <1>0, <2>1, <2>2
  <2>4. TailIsTimed'
    BY <1>0, <2>1, <2>2
  <2> QED
    BY <2>3, <2>4
<1>4. CASE UNCHANGED sender
  BY <1>4 DEF sender
<1> QED
  BY <1>1, <1>2, <1>3, <1>4
  DEF Next, ReceiveUdp, NackTimerExpires, DropData, DropAck, vars

(* With everything sent and something not acknowledged a timeout is pending. *)
THEOREM TailAlwaysTimed == Spec => []TailIsTimed
<1>1. TimerInv => TailIsTimed
  BY DEF TimerInv
<1> QED
  BY <1>1, TypeInit, TypeNext, TimerInit, TimerNext, PTL DEF Spec

(* A finished flow has no timeout. *)
THEOREM AlwaysQuietWhenDone == Spec => []QuietWhenDone
<1>1. TimerInv => QuietWhenDone
  BY DEF TimerInv
<1> QED
  BY <1>1, TypeInit, TypeNext, TimerInit, TimerNext, PTL DEF Spec
--------------------------------------------------------------------------------
(* GoBackN implements Transfer. *)
LEMMA ImplementsInit == Init => T!Init
<1> SUFFICES ASSUME Init PROVE T!Init
  OBVIOUS
<1>1. GoBack(0) = 0
  BY GoBackFacts
<1> QED
  BY <1>1 DEF Init, T!Init

LEMMA ImplementsNext ==
  TypeOK /\ AckInv /\ [Next]_vars => [T!Next]_T!vars
<1> SUFFICES ASSUME TypeOK, AckInv, [Next]_vars
             PROVE  T!Next \/ UNCHANGED T!vars
  OBVIOUS
<1>0. /\ Size \in Nat
      /\ snd_una \in Seqno /\ expected \in Seqno /\ completed \in Nat
      /\ snd_una' \in Seqno /\ expected' \in Seqno
      /\ GoBack(expected) \in Seqno /\ GoBack(expected') \in Seqno
  BY TypeNext, GoBackRange, GoBackNAssumption DEF TypeOK
<1>1. CASE UNCHANGED <<snd_una, completed, expected>>
  BY <1>1 DEF T!vars
<1>2. CASE ReceiveAck
  <2>1. UNCHANGED expected
    BY <1>2 DEF ReceiveAck, receiver
  <2>2. snd_una' <= GoBack(expected)
    BY <1>2, <2>1, AckInvNext DEF AckInv
  <2>3. snd_una <= snd_una'
    <3>1. Head(acks) \in Ack
      BY <1>2 DEF ReceiveAck, TypeOK
    <3>2. GoBack(Head(acks).seq) \in Seqno
      BY <3>1, GoBackRange DEF Ack
    <3> QED
      BY <1>0, <1>2, <3>2 DEF ReceiveAck, Larger
  <2>4. \/ completed' = completed
        \/ completed' = completed + 1 /\ snd_una' = Size
    BY <1>0, <1>2 DEF ReceiveAck, IsFinished
  <2>5. \/ (completed' > 0) = (completed > 0)
        \/ GoBack(expected) = Size /\ (completed' > 0) = TRUE
    BY <1>0, <2>2, <2>4
  <2>6. snd_una' \in snd_una .. GoBack(expected)
    BY <1>0, <2>2, <2>3
  <2>7. T!Acknowledge
    BY <2>1, <2>5, <2>6 DEF T!Acknowledge
  <2> QED
    BY <2>7 DEF T!Next
<1>3. CASE ReceiveUdp
  <2>1. GoBack(expected) <= GoBack(expected') /\ UNCHANGED <<snd_una, completed>>
    BY <1>3, ReceiverMovesOn DEF ReceiveUdp, sender
  <2>2. CASE GoBack(expected') = GoBack(expected)
    BY <2>1, <2>2 DEF T!vars
  <2>3. CASE GoBack(expected') # GoBack(expected)
    <3>1. GoBack(expected') \in GoBack(expected) + 1 .. Size
      BY <1>0, <2>1, <2>3
    <3>2. T!Deliver
      BY <2>1, <3>1 DEF T!Deliver
    <3> QED
      BY <3>2 DEF T!Next
  <2> QED
    BY <2>2, <2>3
<1> QED
  BY <1>1, <1>2, <1>3
  DEF Next, Send, Timeout, NackTimerExpires, DropData, DropAck, vars, sender, receiver

(* Every behaviour of go-back-N is one of Transfer: what the receiver has grows,
   what the sender counts as acknowledged stays behind it, and the flow is
   reported complete only when the receiver has all of it. *)
THEOREM GoBackNIsTransfer == Spec => ImplementsTransfer
<1> QED
  BY TypeInit, TypeNext, AckInvInit, AckInvNext, ImplementsInit, ImplementsNext, PTL
  DEF Spec, ImplementsTransfer, T!Spec
--------------------------------------------------------------------------------
(* The acknowledgement of the whole flow is the last one the receiver sends,
   and the sender has taken it only when nothing is left on the path. *)
LastInv ==
  /\ \A i \in 1..Len(acks) : acks[i].seq = Size => i = Len(acks) /\ expected = Size
  /\ snd_una = Size => acks = <<>>
  /\ completed = IF snd_una = Size THEN 1 ELSE 0

LEMMA LastInit == Init => LastInv
BY GoBackNAssumption DEF Init, LastInv

LEMMA LastNext == TypeOK /\ AckInv /\ LastInv /\ [Next]_vars => LastInv'
<1> SUFFICES ASSUME TypeOK, AckInv, LastInv, [Next]_vars
             PROVE  LastInv'
  OBVIOUS
<1>0. /\ Size \in Nat \ {0} /\ snd_una \in Seqno /\ expected \in Seqno
      /\ GoBack(expected) \in Seqno /\ GoBack(expected) <= expected
      /\ acks \in Seq(Ack) /\ Len(acks) \in Nat
      /\ snd_una = Size => expected = Size
  <2>1. /\ Size \in Nat \ {0} /\ snd_una \in Seqno /\ expected \in Seqno
        /\ acks \in Seq(Ack) /\ snd_una <= GoBack(expected)
    BY GoBackNAssumption DEF TypeOK, AckInv
  <2>2. GoBack(expected) \in Seqno /\ GoBack(expected) <= expected
    BY <2>1, GoBackRange
  <2>3. Len(acks) \in Nat
    BY <2>1
  <2>4. snd_una = Size => expected = Size
    BY <2>1, <2>2
  <2> QED
    BY <2>1, <2>2, <2>3, <2>4
<1>1. CASE UNCHANGED <<snd_una, completed, expected, acks>>
  BY <1>1 DEF LastInv
<1>2. CASE ReceiveAck
  <2> DEFINE h == Head(acks)
  <2>1. /\ acks # <<>> /\ snd_una < Size /\ completed = 0
        /\ acks' = Tail(acks) /\ UNCHANGED expected
    BY <1>0, <1>2 DEF ReceiveAck, LastInv, receiver
  <2>2. /\ h = acks[1] /\ h.seq \in Seqno
        /\ Len(acks) >= 1 /\ Len(Tail(acks)) = Len(acks) - 1
        /\ \A i \in 1 .. Len(acks) - 1 : Tail(acks)[i] = acks[i + 1]
    <3>1. h \in Ack
      BY <1>0, <2>1, HeadType
    <3>2. h.seq \in Seqno
      BY <3>1 DEF Ack
    <3>3. /\ h = acks[1] /\ Len(acks) >= 1 /\ Len(Tail(acks)) = Len(acks) - 1
          /\ \A i \in 1 .. Len(acks) - 1 : Tail(acks)[i] = acks[i + 1]
      BY <1>0, <2>1
    <3> QED
      BY <3>2, <3>3
  <2>3. GoBack(h.seq) \in Seqno /\ GoBack(h.seq) <= h.seq
    BY <2>2, GoBackRange
  <2>4. \A i \in 1 .. Len(acks') : acks'[i].seq = Size => i = Len(acks') /\ expected' = Size
    <3> SUFFICES ASSUME NEW i \in 1 .. Len(acks) - 1, acks[i + 1].seq = Size
                 PROVE  i = Len(acks) - 1 /\ expected = Size
      BY <2>1, <2>2
    <3>1. i + 1 \in 1..Len(acks)
      BY <1>0
    <3>2. i + 1 = Len(acks) /\ expected = Size
      BY <3>1 DEF LastInv
    <3> QED
      BY <1>0, <3>2
  <2>5. snd_una' = Larger(snd_una, GoBack(h.seq))
    BY <1>2 DEF ReceiveAck
  <2>6. snd_una' \in Seqno /\ (snd_una' = Size => h.seq = Size)
    BY <1>0, <2>1, <2>2, <2>3, <2>5 DEF Larger
  <2>7. h.seq = Size => Len(acks) = 1
    <3>1. 1 \in 1..Len(acks)
      BY <1>0, <2>2
    <3> QED
      BY <2>2, <3>1 DEF LastInv
  <2>8. snd_una' = Size => acks' = <<>>
    BY <1>0, <2>1, <2>2, <2>6, <2>7
  <2>9. completed' = IF snd_una' = Size THEN 1 ELSE 0
    BY <1>0, <1>2, <2>1, <2>6 DEF ReceiveAck, IsFinished
  <2> QED
    BY <2>4, <2>8, <2>9 DEF LastInv
<1>3. CASE ReceiveUdp
  <2> DEFINE seq == Head(data)
  <2>1. UNCHANGED <<snd_una, completed>>
    BY <1>3 DEF ReceiveUdp, sender
  <2>2. seq \in 0 .. Size - 1
    <3>1. data # <<>> /\ data \in Seq(0 .. Size - 1)
      BY <1>3 DEF ReceiveUdp, TypeOK
    <3> QED
      BY <3>1, HeadType
  <2>3. CASE Duplicate(seq)
    BY <1>1, <2>1, <2>3 DEF Duplicate, receiver
  <2>4. CASE ~Duplicate(seq)
    <3>1. InOrder(seq) \/ OutOfOrder(seq)
      BY <1>3, <2>4 DEF ReceiveUdp
    <3>2. expected < Size /\ snd_una < Size /\ completed = 0
      <4>1. expected < Size
        <5>1. seq = expected \/ seq > expected
          BY <3>1 DEF InOrder, OutOfOrder
        <5> QED
          BY <1>0, <2>2, <5>1
      <4>2. snd_una < Size
        BY <1>0, <4>1
      <4> QED
        BY <1>0, <4>1, <4>2 DEF LastInv
    <3>3. \A i \in 1..Len(acks) : acks[i].seq # Size
      BY <1>0, <3>2 DEF LastInv
    <3>4. UNCHANGED acks \/ \E n \in BOOLEAN : Reply(n)
      BY <3>1 DEF InOrder, OutOfOrder
    <3>5. CASE UNCHANGED acks
      BY <1>0, <2>1, <3>2, <3>3, <3>5 DEF LastInv
    <3>6. ASSUME NEW n \in BOOLEAN, Reply(n)
          PROVE  LastInv'
      <4> DEFINE a == [nack |-> n, seq |-> expected']
      <4>1. /\ acks' = Append(acks, a) /\ a.seq = expected'
            /\ Len(acks') = Len(acks) + 1
            /\ \A i \in 1 .. Len(acks) : acks'[i] = acks[i]
            /\ acks'[Len(acks) + 1] = a
        BY <1>0, <3>6 DEF Reply
      <4>2. \A i \in 1 .. Len(acks') : acks'[i].seq = Size => i = Len(acks') /\ expected' = Size
        <5> SUFFICES ASSUME NEW i \in 1 .. Len(acks) + 1, acks'[i].seq = Size
                     PROVE  i = Len(acks) + 1 /\ expected' = Size
          BY <4>1
        <5>1. i \notin 1..Len(acks)
          BY <3>3, <4>1
        <5>2. i = Len(acks) + 1
          BY <1>0, <5>1
        <5> QED
          BY <4>1, <5>2
      <4> QED
        BY <1>0, <2>1, <3>2, <4>2 DEF LastInv
    <3> QED
      BY <3>4, <3>5, <3>6
  <2> QED
    BY <2>3, <2>4
<1>4. CASE DropAck
  <2>1. UNCHANGED <<snd_una, completed, expected>>
    BY <1>4 DEF DropAck, sender, receiver
  <2>2. PICK i \in 1..Len(acks) : acks' = Without(acks, i)
    BY <1>4 DEF DropAck
  <2>3. /\ Len(acks') = Len(acks) - 1
        /\ \A j \in 1 .. Len(acks) - 1 : acks'[j] = IF j < i THEN acks[j] ELSE acks[j + 1]
    BY <1>0, <2>2, WithoutFacts
  <2>4. \A j \in 1 .. Len(acks') : acks'[j].seq = Size => j = Len(acks') /\ expected' = Size
    <3> SUFFICES ASSUME NEW j \in 1 .. Len(acks) - 1, acks'[j].seq = Size
                 PROVE  j = Len(acks) - 1 /\ expected = Size
      BY <2>1, <2>3
    <3>1. CASE j < i
      <4>1. j \in 1..Len(acks) /\ acks[j].seq = Size /\ j # Len(acks)
        BY <1>0, <2>3, <3>1
      <4> QED
        BY <4>1 DEF LastInv
    <3>2. CASE ~(j < i)
      <4>1. j + 1 \in 1..Len(acks) /\ acks[j + 1].seq = Size
        BY <1>0, <2>3, <3>2
      <4>2. j + 1 = Len(acks) /\ expected = Size
        BY <4>1 DEF LastInv
      <4> QED
        BY <1>0, <4>2
    <3> QED
      BY <3>1, <3>2
  <2>5. snd_una # Size
    <3>1. acks # <<>>
      BY <1>0, <2>2
    <3> QED
      BY <3>1 DEF LastInv
  <2> QED
    BY <2>1, <2>4, <2>5 DEF LastInv
<1> QED
  BY <1>1, <1>2, <1>3, <1>4
  DEF Next, Send, Timeout, NackTimerExpires, DropData, vars, sender, receiver

(* A flow is reported complete at most once. *)
THEOREM ReportedOnce == Spec => []CompletesOnce
<1>1. LastInv => CompletesOnce
  BY DEF LastInv, CompletesOnce
<1> QED
  BY <1>1, TypeInit, TypeNext, AckInvInit, AckInvNext, LastInit, LastNext, PTL DEF Spec
================================================================================
