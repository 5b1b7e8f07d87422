--------------------------------- MODULE GoBackN ---------------------------------
(*****************************************************************************)
(* One RDMA flow without packet-level routing: the sending queue pair          *)
(* (RdmaQueuePair), the receiving one (RdmaRxQueuePair), the handlers of       *)
(* RdmaHw and a path that delays and loses packets but keeps their order       *)
(* (the route of a flow is a hash of its addresses and ports).                 *)
(*****************************************************************************)
EXTENDS Integers, Sequences

CONSTANTS
  Size,          \* m_size, bytes of the flow
  Mtu,           \* m_mtu
  Win,           \* m_win, 0 for a flow without window
  AckInterval,   \* m_ack_interval
  Chunk,         \* m_chunk
  BackTo0,       \* m_backto0
  NackReaction,  \* Settings::nack_reaction
  UseRTO,        \* Settings::rto_us # 0
  Word,          \* 2^64: byte counters are unsigned
  MaxFlight,     \* bound: packets on the path, each way
  MaxDataLoss,   \* bound: data packets the path may lose
  MaxAckLoss     \* bound: ACKs and NACKs it may lose

ASSUME GoBackNAssumption ==
  /\ Size \in Nat \ {0} /\ Mtu \in Nat \ {0} /\ Win \in Nat
  /\ AckInterval \in Nat \ {0} /\ Chunk \in Nat \ {0}
  /\ BackTo0 \in BOOLEAN /\ NackReaction \in BOOLEAN /\ UseRTO \in BOOLEAN
  /\ Word \in Nat /\ Word > Size + Win
  /\ MaxFlight \in Nat \ {0} /\ MaxDataLoss \in Nat /\ MaxAckLoss \in Nat

VARIABLES
  snd_una, snd_nxt,  \* of the sending queue pair
  rto,               \* m_eventTimeoutRetransmission is scheduled
  completed,         \* calls of QpComplete
  expected,          \* ReceiverNextExpectedSeq
  lastNACK,          \* m_lastNACK
  nackWait,          \* Simulator::Now() < m_nackTimer
  data, acks,        \* the path, first to last
  lost               \* packets lost: data, acks

sender == <<snd_una, snd_nxt, rto, completed>>
receiver == <<expected, lastNACK, nackWait>>
vars == <<sender, receiver, data, acks, lost>>

Seqno == 0..Size
Ack == [nack : BOOLEAN, seq : Seqno]

TypeOK ==
  /\ snd_una \in Seqno /\ snd_nxt \in Seqno
  /\ rto \in BOOLEAN
  /\ completed \in Nat
  /\ expected \in Seqno
  /\ lastNACK \in Seqno /\ nackWait \in BOOLEAN
  /\ data \in Seq(0 .. Size - 1)
  /\ acks \in Seq(Ack)
  /\ lost \in [data : 0..MaxDataLoss, acks : 0..MaxAckLoss]

Init ==
  /\ snd_una = 0 /\ snd_nxt = 0
  /\ rto = FALSE
  /\ completed = 0
  /\ expected = 0
  /\ lastNACK = 0 /\ nackWait = FALSE
  /\ data = <<>> /\ acks = <<>>
  /\ lost = [data |-> 0, acks |-> 0]

(* The bytes of the packet that starts at s. *)
Payload_Whole(s) == Mtu
Payload(s) == IF s + Mtu >= Size THEN Size - s ELSE Mtu

(* Under go-back-to-0 both ends count whole chunks. *)
GoBack(s) == IF BackTo0 THEN (s \div Chunk) * Chunk ELSE s

Without(s, i) == [j \in 1 .. Len(s) - 1 |-> IF j < i THEN s[j] ELSE s[j + 1]]

Larger(a, b) == IF a > b THEN a ELSE b
--------------------------------------------------------------------------------
GetBytesLeft(nxt) == IF Size >= nxt THEN Size - nxt ELSE 0

GetOnTheFly(una, nxt) == (nxt - una) % Word

IsWinBound(una, nxt) == Win # 0 /\ GetOnTheFly(una, nxt) >= Win

IsFinished_LastSent(una) == una + Mtu >= Size
IsFinished(una) == una >= Size

(* The test that guards every call of ResetRTOEvent. *)
ArmsRTO_NotLast(una, nxt) == UseRTO /\ GetBytesLeft(nxt) = 0 /\ GetOnTheFly(una, nxt) > Mtu
ArmsRTO(una, nxt) == UseRTO /\ GetBytesLeft(nxt) = 0 /\ GetOnTheFly(una, nxt) > 0

(* The NIC takes a packet of the flow; its rate and PFC decide when. *)
Send ==
  /\ GetBytesLeft(snd_nxt) > 0
  /\ ~IsWinBound(snd_una, snd_nxt)
  /\ Len(data) < MaxFlight
  /\ data' = Append(data, snd_nxt)
  /\ snd_nxt' = snd_nxt + Payload(snd_nxt)
  /\ rto' = (rto \/ ArmsRTO(snd_una, snd_nxt'))
  /\ UNCHANGED <<snd_una, completed, receiver, acks, lost>>

(* RdmaQueuePair::RecoverQueue, the retransmission timeout. The simulated
   clock is not modelled: it fires at any time. *)
Timeout_NoGoBack ==
  /\ rto
  /\ rto' = FALSE
  /\ UNCHANGED <<snd_una, snd_nxt, completed, receiver, data, acks, lost>>
Timeout ==
  /\ rto
  /\ rto' = FALSE
  /\ snd_nxt' = snd_una
  /\ UNCHANGED <<snd_una, completed, receiver, data, acks, lost>>

(* An ACK or a NACK arrives. QpComplete cancels the timer. *)
ReceiveAck_NoCancel ==
  /\ acks # <<>>
  /\ acks' = Tail(acks)
  /\ snd_una' = Larger(snd_una, GoBack(Head(acks).seq))
  /\ completed' = completed + IF IsFinished(snd_una') THEN 1 ELSE 0
  /\ snd_nxt' = IF Head(acks).nack /\ NackReaction THEN snd_una' ELSE snd_nxt
  /\ rto' = (rto \/ ArmsRTO(snd_una', snd_nxt'))
  /\ UNCHANGED <<receiver, data, lost>>
ReceiveAck ==
  /\ acks # <<>>
  /\ acks' = Tail(acks)
  /\ snd_una' = Larger(snd_una, GoBack(Head(acks).seq))
  /\ completed' = completed + IF IsFinished(snd_una') THEN 1 ELSE 0
  /\ snd_nxt' = IF Head(acks).nack /\ NackReaction THEN snd_una' ELSE snd_nxt
  /\ rto' = \/ rto /\ ~IsFinished(snd_una')
            \/ ArmsRTO(snd_una', snd_nxt')
  /\ UNCHANGED <<receiver, data, lost>>
--------------------------------------------------------------------------------
Reply(n) == acks' = Append(acks, [nack |-> n, seq |-> expected'])

(* ReceiverCheckSeq, seq = expected. ReceiveUdp has set the milestone to
   m_ack_interval just before. *)
InOrder(seq) ==
  /\ seq = expected
  /\ expected' = expected + Payload(seq)
  /\ IF expected' >= AckInterval \/ expected' % Chunk = 0
     THEN Reply(FALSE)
     ELSE UNCHANGED acks
  /\ UNCHANGED <<lastNACK, nackWait>>

(* ReceiverCheckSeq, seq > expected. *)
OutOfOrder_Arrived(seq) ==
  /\ seq > expected
  /\ IF ~nackWait \/ lastNACK # expected
     THEN /\ nackWait' = TRUE
          /\ lastNACK' = expected
          /\ expected' = GoBack(expected)
          /\ acks' = Append(acks, [nack |-> TRUE, seq |-> seq])
     ELSE UNCHANGED <<receiver, acks>>
OutOfOrder(seq) ==
  /\ seq > expected
  /\ IF ~nackWait \/ lastNACK # expected
     THEN /\ nackWait' = TRUE
          /\ lastNACK' = expected
          /\ expected' = GoBack(expected)
          /\ Reply(TRUE)
     ELSE UNCHANGED <<receiver, acks>>

(* ReceiverCheckSeq, seq < expected: no reply. *)
Duplicate_Reply(seq) ==
  /\ seq < expected
  /\ UNCHANGED receiver
  /\ Reply(FALSE)
Duplicate(seq) ==
  /\ seq < expected
  /\ UNCHANGED <<receiver, acks>>

ReceiveUdp ==
  /\ data # <<>>
  /\ Len(acks) < MaxFlight
  /\ data' = Tail(data)
  /\ \/ InOrder(Head(data))
     \/ OutOfOrder(Head(data))
     \/ Duplicate(Head(data))
  /\ UNCHANGED <<sender, lost>>

NackTimerExpires ==
  /\ nackWait
  /\ nackWait' = FALSE
  /\ UNCHANGED <<sender, expected, lastNACK, data, acks, lost>>
--------------------------------------------------------------------------------
(* A switch on the path drops the packet: no room, SendToDev. *)
DropData ==
  /\ lost.data < MaxDataLoss
  /\ \E i \in 1..Len(data) : data' = Without(data, i)
  /\ lost' = [lost EXCEPT !.data = @ + 1]
  /\ UNCHANGED <<sender, receiver, acks>>

DropAck ==
  /\ lost.acks < MaxAckLoss
  /\ \E i \in 1..Len(acks) : acks' = Without(acks, i)
  /\ lost' = [lost EXCEPT !.acks = @ + 1]
  /\ UNCHANGED <<sender, receiver, data>>

Next ==
  \/ Send \/ Timeout \/ ReceiveAck
  \/ ReceiveUdp \/ NackTimerExpires
  \/ DropData \/ DropAck

Spec == Init /\ [][Next]_vars

(* The NIC sends when it may, the path delivers what it does not lose, timers
   expire. *)
FairSpec ==
  /\ Spec
  /\ WF_vars(Send) /\ WF_vars(ReceiveUdp) /\ WF_vars(ReceiveAck)
  /\ WF_vars(Timeout) /\ WF_vars(NackTimerExpires)
--------------------------------------------------------------------------------
(* What the sender has taken as acknowledged, and what any acknowledgement on
   the path will make it take, the receiver has: ReceiverNextExpectedSeq covers
   it, also after it went back to the start of a chunk (Acknowledge,
   ReceiverCheckSeq). *)
AckedIsReceived ==
  /\ snd_una <= GoBack(expected)
  /\ \A i \in 1..Len(acks) : GoBack(acks[i].seq) <= GoBack(expected)

(* The end of a flow cannot be forgotten: when everything has been sent and not
   everything acknowledged, the timeout is scheduled (GetNxtPacket,
   ReceiveAck). *)
TailIsTimed == UseRTO /\ snd_nxt = Size /\ snd_una < Size => rto

(* After the last acknowledgement no timeout is left to revive the flow
   (QpComplete cancels, ReceiveAck must not schedule again). *)
QuietWhenDone == IsFinished(snd_una) => ~rto

(* QpComplete is called once: nothing that arrives after the last
   acknowledgement reports the flow again. *)
CompletesOnce == completed <= 1

(* The flow is a Transfer. *)
T == INSTANCE Transfer WITH
       delivered <- GoBack(expected), acked <- snd_una, done <- completed > 0

ImplementsTransfer == T!Spec

(* A flow without window finishes, whatever data packets are lost, if its
   acknowledgements arrive (settings.h:45, "for timeout retransmission"). *)
FlowCompletes == Win = 0 /\ [](lost.acks = 0) => <>IsFinished(snd_una)

(* "m_win; // bound of on-the-fly packets" (rdma-queue-pair.h:102): in
   IsWinBound's own count the flow exceeds its window by less than a packet. *)
WinBoundsOnTheFly == Win # 0 => GetOnTheFly(snd_una, snd_nxt) < Win + Mtu
================================================================================
