------------------------------- MODULE PacketLevel -------------------------------
(*****************************************************************************)
(* One RDMA flow under packet-level routing (DRILL): packets and ACKs take     *)
(* any path, so they overtake each other, the receiver acknowledges every      *)
(* packet by its own number, and only a timeout retransmits (settings.cc:5).   *)
(* The scheme shares its functions with go-back-N, whose bookkeeping at the    *)
(* receiver (ReceiverCheckSeq) is idle here: its verdict is overwritten and    *)
(* its sequence number not sent.                                               *)
(*****************************************************************************)
EXTENDS Integers, FiniteSetsExt

CONSTANTS
  Size,          \* m_size, bytes of the flow
  Mtu,           \* m_mtu = Settings::packet_payload
  Win,           \* m_win, 0 for a flow without window
  Chunk,         \* m_chunk
  BackTo0,       \* m_backto0
  UseRTO,        \* Settings::rto_us # 0
  MaxCopies,     \* bound: copies of a packet or ACK on the path
  MaxLoss        \* bound: packets and ACKs the path may lose

ASSUME PacketLevelAssumption ==
  /\ Size \in Nat \ {0} /\ Mtu \in Nat \ {0} /\ Win \in Nat
  /\ Chunk \in Nat \ {0}
  /\ BackTo0 \in BOOLEAN /\ UseRTO \in BOOLEAN
  /\ MaxCopies \in Nat \ {0} /\ MaxLoss \in Nat

VARIABLES
  snd_una, snd_nxt,
  sent,              \* m_sent_psn: sent and not acknowledged
  timeout_psn,       \* m_timeout_psn: of these, to be sent again
  timeouted,
  received_last_ack, \* m_received_last_ack
  rto,               \* m_eventTimeoutRetransmission is scheduled
  completed,         \* calls of QpComplete
  received,          \* m_received_psn of the receiver
  data, acks,        \* copies of each on the paths
  lost               \* copies lost

sender == <<snd_una, snd_nxt, sent, timeout_psn, timeouted, received_last_ack, rto,
            completed>>
vars == <<sender, received, data, acks, lost>>

Packets == {s \in 0 .. Size - 1 : s % Mtu = 0}

LastPacket == CHOOSE s \in Packets : s + Mtu >= Size

Payload_Whole(s) == Mtu
Payload(s) == IF s + Mtu >= Size THEN Size - s ELSE Mtu

(* An ACK carries the packet's number and maybe the tag that says that the
   receiver has everything (LastPacketTag). *)
Ack == [psn : Packets, last : BOOLEAN]

TypeOK ==
  /\ snd_una \in 0..Size /\ snd_nxt \in 0..Size
  /\ sent \subseteq Packets /\ timeout_psn \subseteq Packets
  /\ timeouted \in BOOLEAN /\ received_last_ack \in BOOLEAN /\ rto \in BOOLEAN
  /\ completed \in Nat
  /\ received \subseteq Packets
  /\ data \in [Packets -> 0..MaxCopies]
  /\ acks \in [Ack -> 0..MaxCopies]
  /\ lost \in 0..MaxLoss

Init ==
  /\ snd_una = 0 /\ snd_nxt = 0
  /\ sent = {} /\ timeout_psn = {}
  /\ timeouted = FALSE /\ received_last_ack = FALSE /\ rto = FALSE
  /\ completed = 0
  /\ received = {}
  /\ data = [s \in Packets |-> 0]
  /\ acks = [a \in Ack |-> 0]
  /\ lost = 0
--------------------------------------------------------------------------------
(* The bytes of a set of packets, of which the last may be short. *)
Bytes(S) == Cardinality(S) * Mtu
            - IF LastPacket \in S THEN Mtu - Payload(LastPacket) ELSE 0

GetBytesLeft(nxt, again) == IF timeouted /\ again # {} THEN Bytes(again) ELSE Size - nxt

GetOnTheFly(out, again) == Bytes(out) - IF timeouted THEN Bytes(again) ELSE 0

IsWinBound_Over == Win # 0 /\ GetOnTheFly(sent, timeout_psn) > Win
IsWinBound == Win # 0 /\ GetOnTheFly(sent, timeout_psn) >= Win

ArmsRTO(nxt, out, again) ==
  UseRTO /\ GetBytesLeft(nxt, again) = 0 /\ GetOnTheFly(out, again) > 0

(* GetNxtPacket: a packet for the first time, or, when all have been sent, the
   first of those that timed out. *)
SendNew ==
  /\ ~(snd_nxt >= Size /\ timeouted /\ timeout_psn # {})
  /\ sent' = sent \cup {snd_nxt}
  /\ data' = [data EXCEPT ![snd_nxt] = @ + 1]
  /\ snd_nxt' = snd_nxt + Payload(snd_nxt)
  /\ UNCHANGED timeout_psn

SendAgain ==
  /\ snd_nxt >= Size /\ timeouted /\ timeout_psn # {}
  /\ LET psn == Min(timeout_psn)
     IN /\ timeout_psn' = timeout_psn \ {psn}
        /\ data' = [data EXCEPT ![psn] = @ + 1]
  /\ UNCHANGED <<snd_nxt, sent>>

Send ==
  /\ GetBytesLeft(snd_nxt, timeout_psn) > 0
  /\ ~IsWinBound
  /\ SendNew \/ SendAgain
  /\ data' \in [Packets -> 0..MaxCopies]
  /\ rto' = (rto \/ ArmsRTO(snd_nxt', sent', timeout_psn'))
  /\ UNCHANGED <<snd_una, timeouted, received_last_ack, completed, received, acks, lost>>

(* RdmaQueuePair::RecoverQueue. *)
Timeout ==
  /\ rto
  /\ rto' = FALSE
  /\ timeouted' = TRUE
  /\ timeout_psn' = sent
  /\ UNCHANGED <<snd_una, snd_nxt, sent, received_last_ack, completed, received, data, acks,
                 lost>>

(* RdmaQueuePair::Acknowledge and UpdateReceivedACK. *)
Acknowledge_KeepTimeout(psn) ==
  /\ sent' = sent \ {psn}
  /\ timeout_psn' = timeout_psn
  /\ snd_una' = IF psn \notin sent THEN snd_una
                ELSE IF sent' = {} THEN snd_nxt
                ELSE Min(sent')
Acknowledge_Cumulative(psn) ==
  /\ sent' = {s \in sent : s > psn}
  /\ timeout_psn' = {s \in timeout_psn : s > psn}
  /\ snd_una' = IF sent' = {} THEN snd_nxt ELSE Min(sent')
Acknowledge(psn) ==
  /\ sent' = sent \ {psn}
  /\ timeout_psn' = IF psn \in sent THEN timeout_psn \ {psn} ELSE timeout_psn
  /\ snd_una' = IF psn \notin sent THEN snd_una
                ELSE IF sent' = {} THEN snd_nxt
                ELSE Min(sent')

(* Go-back-to-0 acknowledges the start of the chunk, here too. *)
GoBack_Chunk(s) == (s \div Chunk) * Chunk
GoBack(s) == IF BackTo0 THEN (s \div Chunk) * Chunk ELSE s

(* An ACK arrives. A flow that is finished is reported (again, for every copy
   of an ACK that comes later) and cancels its timer; it is scheduled anew if
   other ACKs are missing. *)
ReceiveAck_NoRearm(a) ==
  /\ acks[a] > 0
  /\ acks' = [acks EXCEPT ![a] = @ - 1]
  /\ Acknowledge(GoBack(a.psn))
  /\ received_last_ack' = (received_last_ack \/ a.last)
  /\ completed' = completed + IF received_last_ack' THEN 1 ELSE 0
  /\ rto' = (rto /\ ~received_last_ack')
  /\ UNCHANGED <<snd_nxt, timeouted, received, data, lost>>
ReceiveAck(a) ==
  /\ acks[a] > 0
  /\ acks' = [acks EXCEPT ![a] = @ - 1]
  /\ Acknowledge(GoBack(a.psn))
  /\ received_last_ack' = (received_last_ack \/ a.last)
  /\ completed' = completed + IF received_last_ack' THEN 1 ELSE 0
  /\ rto' = \/ rto /\ ~received_last_ack'
            \/ ArmsRTO(snd_nxt, sent', timeout_psn')
  /\ UNCHANGED <<snd_nxt, timeouted, received, data, lost>>
--------------------------------------------------------------------------------
(* RdmaRxQueuePair::ReceivedAll: the packet with the tag has come and there is
   no gap before the last one. *)
ReceivedAll_LastOnly(S) == LastPacket \in S
ReceivedAll(S) == LastPacket \in S /\ \A s \in Packets : s < Max(S) => s \in S

ReceiveUdp_OnlyNew(s) ==
  /\ data[s] > 0
  /\ data' = [data EXCEPT ![s] = @ - 1]
  /\ received' = received \cup {s}
  /\ IF s \in received
     THEN UNCHANGED acks
     ELSE acks' = [acks EXCEPT ![[psn |-> s, last |-> ReceivedAll(received')]] = @ + 1]
  /\ acks' \in [Ack -> 0..MaxCopies]
  /\ UNCHANGED <<sender, lost>>
ReceiveUdp(s) ==
  /\ data[s] > 0
  /\ data' = [data EXCEPT ![s] = @ - 1]
  /\ received' = received \cup {s}
  /\ acks' = [acks EXCEPT ![[psn |-> s, last |-> ReceivedAll(received')]] = @ + 1]
  /\ acks' \in [Ack -> 0..MaxCopies]
  /\ UNCHANGED <<sender, lost>>
--------------------------------------------------------------------------------
(* A switch has no room (SendToDev); ACKs share the data's priority. *)
DropData(s) ==
  /\ lost < MaxLoss /\ data[s] > 0
  /\ data' = [data EXCEPT ![s] = @ - 1]
  /\ lost' = lost + 1
  /\ UNCHANGED <<sender, received, acks>>

DropAck(a) ==
  /\ lost < MaxLoss /\ acks[a] > 0
  /\ acks' = [acks EXCEPT ![a] = @ - 1]
  /\ lost' = lost + 1
  /\ UNCHANGED <<sender, received, data>>

Next ==
  \/ Send \/ Timeout
  \/ \E a \in Ack : ReceiveAck(a) \/ DropAck(a)
  \/ \E s \in Packets : ReceiveUdp(s) \/ DropData(s)

Spec == Init /\ [][Next]_vars

(* The NIC sends when it may, the paths deliver what they do not lose, the
   timer expires. *)
FairSpec ==
  /\ Spec
  /\ WF_vars(Send) /\ WF_vars(Timeout)
  /\ \A a \in Ack : WF_vars(ReceiveAck(a))
  /\ \A s \in Packets : WF_vars(ReceiveUdp(s))
--------------------------------------------------------------------------------
(* What is on its way again is also outstanding: "assert(timeout_sent <=
   result)" (rdma-queue-pair.cc:827), and the byte counts never wrap. *)
RetransmitsOutstanding == timeout_psn \subseteq sent

(* The tag tells the truth: with it, on a path or at the sender, the receiver
   has every packet (ReceivedAll, IsFinished). *)
LastAckMeansAll ==
  received_last_ack \/ (\E a \in Ack : acks[a] > 0 /\ a.last) => received = Packets

(* The window bounds what is under way, also after a timeout and with late
   ACKs (IsWinBound, GetOnTheFly). *)
WinBoundsOnTheFly == Win # 0 => GetOnTheFly(sent, timeout_psn) < Win + Mtu

(* When nothing is left to send and something has not been acknowledged, the
   timeout is scheduled (GetNxtPacket, ReceiveAck). *)
TailIsTimed ==
  UseRTO /\ GetBytesLeft(snd_nxt, timeout_psn) = 0 /\ sent # {} => rto

(* Unless something was lost, every packet that counts as outstanding is on its
   way, or its ACK is: "Received an ACK, m_sent psn.erase(curr_psn)"
   (settings.cc:14), so that a window without loss always opens again. *)
OutstandingUnderWay ==
  lost = 0 => \A s \in sent : data[s] > 0 \/ \E a \in Ack : a.psn = s /\ acks[a] > 0

(* The flow is a Transfer. *)
T == INSTANCE Transfer WITH
       delivered <- Bytes(received),
       acked <- Bytes({s \in Packets : s < snd_nxt} \ sent),
       done <- completed > 0

ImplementsTransfer == T!Spec

(* The flow finishes if packets and ACKs are lost only after all of it has been
   sent for the first time, retransmissions included (GetNxtPacket). *)
TailCompletes == [](snd_nxt < Size => lost = 0) => <>received_last_ack

(* The flow finishes, whatever data packets and ACKs are lost: "retransmission
   with timeout" (settings.cc:18). *)
FlowCompletes == <>received_last_ack
================================================================================
