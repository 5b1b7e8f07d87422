------------------------------- MODULE AbsolutePSN -------------------------------
(*****************************************************************************)
(* One hop and one destination under switch_absolute_psn: an upstream switch   *)
(* numbers the bytes it lets through its gate, the downstream switch returns   *)
(* the number up to which packets have left it, and a SwitchSYN is to repair   *)
(* the loss of packets and of SwitchACKs. The link loses whatever its error    *)
(* model picks; SwitchSYN and SwitchACK use queue 0 of a port and overtake     *)
(* the data that waits in the others.                                          *)
(* There is no clock: recent says that a SwitchACK arrived since the SYN       *)
(* timeout, which is periodic, last fired. That is what its test of            *)
(* m_lstrcv_ack_time asks.                                                     *)
(*****************************************************************************)
EXTENDS Integers, Sequences

CONSTANTS
  Sizes,       \* of packets
  Win,         \* m_wins[dst], fixed in this mode
  K,           \* switch_byte_counter
  PerDst,      \* SWITCH_DST_CREDIT, else SWITCH_INGRESS_CREDIT
  DelayAcks,   \* switch_ack_th_m > 0
  OtherDsts,   \* other destinations of the port may be named in a SwitchSYN
  Word,        \* 2^32, the width of the variable resume
  MaxPsn,      \* bound: bytes the upstream switch sends
  MaxWire,     \* bound: packets on the link
  MaxAcks      \* bound: SwitchACKs on the link

ASSUME PSNAssumption ==
  /\ Sizes \subseteq Nat \ {0}
  /\ Win \in Nat /\ K \in Nat /\ Word \in Nat \ {0}
  /\ PerDst \in BOOLEAN /\ DelayAcks \in BOOLEAN /\ OtherDsts \in BOOLEAN
  /\ MaxPsn \in Nat /\ MaxWire \in Nat /\ MaxAcks \in Nat

VARIABLES
  nxtData, rcvAck,          \* upstream: m_nxt_data_psn, m_rcv_ack_psn
  recent,                   \* m_lstrcv_ack_time is within the SYN timeout
  synTimer,                 \* m_syn_timeout_event runs
  egress,                   \* data in the port, as PSNs, first to last
  wire, acks,               \* the link, each way
  rcvData, nxtAck, lstAck,  \* downstream: m_rcv_data_psn, m_nxt_ack_psn, m_lst_ack_psn
  stored,                   \* data the downstream switch stores
  forgiven,                 \* history: the last PSN given back before it left
  impaired                  \* history: more went wrong than data lost on the link

upstream == <<nxtData, rcvAck, recent, synTimer>>
downstream == <<rcvData, nxtAck, lstAck, stored>>
history == <<forgiven, impaired>>
vars == <<upstream, egress, wire, acks, downstream, history>>

Psn == 0..MaxPsn
Frame == [kind : {"data", "syn"}, ack : Psn, data : Psn]
Data(psn) == [kind |-> "data", ack |-> 0, data |-> psn]
Syn(ack, psn) == [kind |-> "syn", ack |-> ack, data |-> psn]
MaxOf(a, b) == IF a > b THEN a ELSE b
Without(s, i) == [j \in 1 .. Len(s) - 1 |-> IF j < i THEN s[j] ELSE s[j + 1]]

TypeOK ==
  /\ nxtData \in Psn /\ rcvAck \in Psn
  /\ recent \in BOOLEAN /\ synTimer \in BOOLEAN
  /\ egress \in Seq(Psn) /\ wire \in Seq(Frame) /\ acks \in Seq(Psn)
  /\ rcvData \in Psn /\ nxtAck \in Psn /\ lstAck \in Psn
  /\ stored \in Seq(Psn)
  /\ forgiven \in Psn /\ impaired \in BOOLEAN

(* The timer belongs to the port: another destination may have started it. *)
Init ==
  /\ nxtData = 0 /\ rcvAck = 0
  /\ recent = FALSE /\ synTimer \in BOOLEAN
  /\ egress = <<>> /\ wire = <<>> /\ acks = <<>>
  /\ rcvData = 0 /\ nxtAck = 0 /\ lstAck = 0
  /\ stored = <<>>
  /\ forgiven = 0 /\ impaired = FALSE
------------------------------------------------------------------------------
(* The upstream switch. *)

CheckDstWin_NoSize(n) == nxtData - rcvAck <= Win
CheckDstWin(n) == nxtData - rcvAck + n <= Win

(* A packet passes the gate, on arrival or from its VOQ, and gets its PSN. *)
Send(n) ==
  /\ nxtData + n <= MaxPsn
  /\ CheckDstWin(n)
  /\ nxtData' = nxtData + n
  /\ egress' = Append(egress, nxtData + n)
  /\ UNCHANGED <<rcvAck, recent, synTimer, wire, acks, downstream, history>>

(* The port may be paused or busy with other queues for any time. *)
Transmit ==
  /\ egress # <<>> /\ Len(wire) < MaxWire
  /\ wire' = Append(wire, Data(Head(egress)))
  /\ egress' = Tail(egress)
  /\ UNCHANGED <<upstream, acks, downstream, history>>

(* GetSwitchSYNTag names the destination. *)
Named == rcvAck < nxtData /\ recent

(* A tag counts for its size only the entries with an rcv_ack above 0, and a   *)
(* tag of size 0 is not sent. A destination without entry reads as two zeros.  *)
SynTimeout ==
  /\ synTimer /\ Len(wire) < MaxWire
  /\ \E others \in {FALSE, OtherDsts} :
       wire' = IF others \/ (Named /\ rcvAck > 0)
               THEN Append(wire, IF Named THEN Syn(rcvAck, nxtData) ELSE Syn(0, 0))
               ELSE wire
  /\ recent' = FALSE
  /\ UNCHANGED <<nxtData, rcvAck, synTimer, egress, acks, downstream, history>>

RecoverWin_Difference(a) == a - rcvAck
RecoverWin(a) ==
  LET resume == IF PerDst THEN a % Word ELSE a
  IN IF resume > rcvAck THEN a ELSE rcvAck

(* ResumeVOQWin. What the VOQs then send is the demand of Send. *)
ReceiveAck ==
  /\ acks # <<>>
  /\ acks' = Tail(acks)
  /\ rcvAck' = RecoverWin(Head(acks))
  /\ recent' = (recent \/ PerDst \/ Head(acks) > 0)
  /\ synTimer' = TRUE
  /\ UNCHANGED <<nxtData, egress, wire, downstream, history>>
------------------------------------------------------------------------------
(* The downstream switch. *)

(* SendToDev records the PSN before the admission test may drop the packet. *)
ReceiveData_Credits ==
  /\ wire # <<>> /\ Head(wire).kind = "data"
  /\ wire' = Tail(wire)
  /\ rcvData' = MaxOf(rcvData, Head(wire).data)
  /\ nxtAck' = rcvData'
  /\ stored' = Append(stored, Head(wire).data)
  /\ UNCHANGED <<upstream, egress, acks, lstAck, history>>
ReceiveData ==
  /\ wire # <<>> /\ Head(wire).kind = "data"
  /\ wire' = Tail(wire)
  /\ rcvData' = MaxOf(rcvData, Head(wire).data)
  /\ \/ stored' = Append(stored, Head(wire).data) /\ UNCHANGED impaired
     \/ stored' = stored /\ impaired' = TRUE
  /\ UNCHANGED <<upstream, egress, acks, nxtAck, lstAck, forgiven>>

(* SendSwitchACK and SendAccSwitchACK, with the tag they were given; an entry  *)
(* of 0 is one that was not set, because credits are held back.                *)
SendAck(entry) ==
  /\ Len(acks) < MaxAcks
  /\ acks' = Append(acks, entry)
  /\ lstAck' = IF entry > 0 THEN entry ELSE lstAck

SendNothing == UNCHANGED <<acks, lstAck>>

(* What CheckSYN makes of the downstream's PSNs: a SYN that has counted more   *)
(* data than has arrived means that the difference is lost.                    *)
LooksLost(syn) == syn.data > rcvData

(* Does CheckSYN ask for a SwitchACK, given the new m_nxt_ack_psn?             *)
Unacknowledged_Never(syn, psn) == FALSE
Unacknowledged(syn, psn) == syn.ack < psn

ReceiveSYN ==
  /\ wire # <<>> /\ Head(wire).kind = "syn"
  /\ LET syn == Head(wire)
         lost == LooksLost(syn)
     IN /\ wire' = Tail(wire)
        /\ rcvData' = IF lost THEN syn.data ELSE rcvData
        /\ nxtAck' = IF lost THEN syn.data ELSE nxtAck
        /\ forgiven' = IF lost THEN syn.data ELSE forgiven
        /\ IF Unacknowledged(syn, nxtAck')
           THEN \/ SendAck(nxtAck') /\ UNCHANGED impaired
                \/ ~PerDst /\ DelayAcks /\ SendAck(0) /\ impaired' = TRUE
           ELSE SendNothing /\ UNCHANGED impaired
  /\ UNCHANGED <<upstream, egress, stored>>

(* A packet leaves. Several ports to the destination (GetOutDev hashes each     *)
(* flow to one of them) go on independently of each other, so that it need not *)
(* be the first; its PSN then covers the ones that stay.                       *)
Leave(i) ==
  /\ stored' = Without(stored, i)
  /\ forgiven' = IF i > 1 THEN MaxOf(forgiven, stored[i - 1]) ELSE forgiven

(* SwitchNotifyDequeue. What is buffered of the destination decides whether    *)
(* its credits are held back (more than the threshold) or flushed (nothing).   *)
Dequeue_NoMax ==
  /\ Len(acks) < MaxAcks
  /\ \E i \in 1..Len(stored) : Leave(i) /\ nxtAck' = stored[i]
  /\ IF nxtAck' - lstAck >= K THEN SendAck(nxtAck') ELSE SendNothing
  /\ UNCHANGED <<upstream, egress, wire, rcvData, impaired>>
Dequeue ==
  /\ Len(acks) < MaxAcks
  /\ \E i \in 1..Len(stored) : Leave(i) /\ nxtAck' = MaxOf(nxtAck, stored[i])
  /\ \E buffered \in {"none", "some"} \cup (IF DelayAcks THEN {"many"} ELSE {}) :
       LET credit == IF buffered = "many" THEN 0 ELSE nxtAck' - lstAck
       IN IF credit >= K \/ (K > 1 /\ buffered = "none" /\ credit >= 1)
          THEN SendAck(nxtAck') /\ UNCHANGED impaired
          ELSE SendNothing /\ impaired' = (impaired \/ nxtAck' > lstAck)
  /\ UNCHANGED <<upstream, egress, wire, rcvData>>

(* Credits of this destination also go back when a packet of another upstream  *)
(* or, per ingress, of another destination leaves, and when the timer expires. *)
ReturnCredit ==
  /\ nxtAck > lstAck
  /\ SendAck(nxtAck)
  /\ UNCHANGED <<upstream, egress, wire, rcvData, nxtAck, stored, history>>
------------------------------------------------------------------------------
(* The error model of the receiving port. *)

LoseFrame ==
  /\ wire # <<>>
  /\ wire' = Tail(wire)
  /\ impaired' = (impaired \/ Head(wire).kind = "syn")
  /\ UNCHANGED <<upstream, egress, acks, downstream, forgiven>>

LoseAck ==
  /\ acks # <<>>
  /\ acks' = Tail(acks)
  /\ impaired' = TRUE
  /\ UNCHANGED <<upstream, egress, wire, downstream, forgiven>>

Next ==
  \/ \E n \in Sizes : Send(n)
  \/ Transmit
  \/ SynTimeout
  \/ ReceiveAck
  \/ ReceiveData
  \/ ReceiveSYN
  \/ Dequeue
  \/ ReturnCredit
  \/ LoseFrame
  \/ LoseAck

Spec == Init /\ [][Next]_vars

(* What is on the link arrives or is lost, the downstream port goes on, and    *)
(* the timeout is periodic. The upstream port may be paused for ever. Fairness *)
(* is strong where a bound of the model, MaxAcks or MaxWire, and nothing in    *)
(* the code disables a step for a while.                                       *)
FairSpec ==
  /\ Spec
  /\ WF_vars(ReceiveData) /\ WF_vars(ReceiveAck)
  /\ SF_vars(ReceiveSYN) /\ SF_vars(Dequeue) /\ SF_vars(SynTimeout)
------------------------------------------------------------------------------
(* The asserts of GetInflightBytes (sent >= acknowledged) and                  *)
(* GetIngressDstCreditCounter (to be acknowledged >= acknowledged last), with  *)
(* what is between the two switches: acknowledged <= given up <= received (or  *)
(* taken for lost) <= sent, whatever is lost, repeated or overtaken.           *)
PsnsOrdered ==
  /\ rcvAck <= lstAck /\ lstAck <= nxtAck /\ nxtAck <= rcvData /\ rcvData <= nxtData
  /\ \A i \in 1..Len(acks) : acks[i] <= lstAck
  /\ \A i \in 1..Len(wire) : wire[i].ack <= rcvAck /\ wire[i].data <= nxtData

InTransit ==
  {egress[i] : i \in 1..Len(egress)}
    \cup {wire[i].data : i \in {j \in 1..Len(wire) : wire[j].kind = "data"}}
    \cup {stored[i] : i \in 1..Len(stored)}

(* What the gate is for: the packets between it and the egress of the next     *)
(* switch lie between rcvAck and nxtData, which are at most Win apart. There   *)
(* are two exceptions, for which the window is spent a second time: what a SYN *)
(* took for lost while it was still under way, and what a later packet         *)
(* overtook, by another port of the next switch.                               *)
OutstandingBounded ==
  /\ nxtData - rcvAck <= Win
  /\ \A p \in InTransit : p > forgiven => p > rcvAck

(* The hop is an AckLoop: no loss, repetition or SYN moves a counter back or   *)
(* past the next.                                                              *)
Loop == INSTANCE AckLoop WITH Window <- Win, sent <- nxtData, left <- nxtAck, acked <- rcvAck
ImplementsAckLoop == Loop!Spec

Recovered(n) == rcvAck >= n \/ impaired \/ nxtData >= Word

(* Data the link loses within a timeout of the last SwitchACK comes back to    *)
(* the window, by a later packet or by the SYN. (Not if the SYN or its answer  *)
(* is lost, the switch drops the packet itself or holds its credits back, and  *)
(* not after 2^32 bytes: the 32-bit copy of a PSN in ResumeVOQWin wraps.)      *)
RecentRecovers ==
  \A n \in 1..MaxPsn : (synTimer /\ recent /\ nxtData >= n) ~> Recovered(n)

(* The same without the condition that a SwitchACK is recent: SYN packets are  *)
(* there "to work under lossy network" (config_doc.txt), for data in flight of *)
(* which the switch "hasn't receive SwitchACK for a period of time".           *)
WindowRecovers ==
  \A n \in 1..MaxPsn : (synTimer /\ rcvAck > 0 /\ nxtData >= n) ~> Recovered(n)
==================================================================================
