------------------------------- MODULE PfcMmu -------------------------------
(***************************************************************************)
(* The ingress side of the shared buffer of a switch (SwitchMmu) with the  *)
(* PFC frames it makes the switch send: admission into reserve, shared     *)
(* pool and headroom, pause and resume per port and priority (or per port  *)
(* and destination: PFC_ON_DST), and the m_paused flags of the device at   *)
(* the far end of each port, which stop its transmissions.  A packet is    *)
(* its size: stored counts the bytes of the packets in the switch, from    *)
(* SendToDev to SwitchNotifyDequeue, by ingress.                           *)
(***************************************************************************)
EXTENDS Integers, Sequences, FiniteSets, Functions

CONSTANTS
  Port,          \* ingress ports
  Queue,         \* priorities, or destinations under PFC_ON_DST
  Off,           \* ports with pfc_mode PFC_OFF
  Static,        \* ports with pfc_th_static > 0
  Threshold,     \* pfc_th_static of those
  Divisor,       \* 2^pfc_a_shift of a port
  Headroom,      \* headroom of a port
  Reserve,       \* reserve
  ResumeOffset,  \* resume_offset
  Pool,          \* buffer_size - total_hdrm - total_rsrv
  Infinite,      \* INT_MAX
  Word,          \* 2^32, the modulus of uint32_t
  Sizes,         \* packet sizes
  MaxStored,     \* bound: bytes of an ingress at which senders stop
  MaxFlight,     \* bound: packets on the wire of an ingress
  MaxFrames      \* bound: PFC frames of an ingress on their way

ASSUME PfcAssumption ==
  /\ IsFiniteSet(Port) /\ IsFiniteSet(Queue)
  /\ Off \subseteq Port /\ Static \subseteq Port
  /\ Threshold \in [Port -> Nat]
  /\ Divisor \in [Port -> Nat \ {0}]
  /\ Headroom \in [Port -> Nat]
  /\ Reserve \in Nat /\ ResumeOffset \in Nat
  /\ MaxStored \in Nat /\ MaxFlight \in Nat /\ MaxFrames \in Nat
  /\ Infinite \in Nat /\ Word \in Nat
  /\ Pool \in Nat /\ Pool < Word
  /\ Sizes \subseteq Nat \ {0}

VARIABLES
  ingress,   \* ingress_bytes
  hdrm,      \* hdrm_bytes
  shared,    \* shared_used_bytes
  paused,    \* paused
  stored,    \* bytes really in the switch
  frames,    \* PFC frames on their way to the far end, TRUE for a pause
  upPaused,  \* m_paused of the far end
  wire       \* packets on their way from the far end

mmuVars == <<ingress, hdrm, shared, stored>>
vars == <<ingress, hdrm, shared, stored, paused, frames, upPaused, wire>>

Ingress == Port \X Queue

Init ==
  /\ ingress = [i \in Ingress |-> 0]
  /\ hdrm = [i \in Ingress |-> 0]
  /\ shared = 0
  /\ paused = [i \in Ingress |-> FALSE]
  /\ stored = [i \in Ingress |-> 0]
  /\ frames = [i \in Ingress |-> <<>>]
  /\ upPaused = [i \in Ingress |-> FALSE]
  /\ wire = [i \in Ingress |-> <<>>]

-----------------------------------------------------------------------------
MinOf(a, b) == IF a <= b THEN a ELSE b

(* What bytes in ingress_bytes use of the shared pool (GetSharedUsed).     *)
Excess(bytes) == IF bytes > Reserve THEN bytes - Reserve ELSE 0

GetSharedUsed(i) == Excess(ingress[i])

(* What is left of the pool, as the unsigned subtraction computes it.      *)
PoolLeft(used) == IF used <= Pool THEN Pool - used ELSE Pool - used + Word

GetPfcThreshold(p, used) ==
  IF p \in Off THEN Infinite
  ELSE IF p \in Static THEN Threshold[p]
  ELSE PoolLeft(used) \div Divisor[p]

CheckIngressAdmission_NoSize(i, n) ==
  \/ hdrm[i] <= Headroom[i[1]]
  \/ n + GetSharedUsed(i) <= GetPfcThreshold(i[1], shared)
CheckIngressAdmission(i, n) ==
  \/ n + hdrm[i] <= Headroom[i[1]]
  \/ n + GetSharedUsed(i) <= GetPfcThreshold(i[1], shared)

(* Whether the packet goes to the headroom.                                *)
ToHeadroom_Late(i, n) ==
  /\ ingress[i] > Reserve
  /\ ingress[i] - Reserve > GetPfcThreshold(i[1], shared)
ToHeadroom(i, n) ==
  /\ ingress[i] + n > Reserve
  /\ ingress[i] + n - Reserve > GetPfcThreshold(i[1], shared)

(* What a packet takes of the pool: only what is above the reserve.        *)
ToShared_Whole(i, n) == IF ingress[i] + n > Reserve THEN n ELSE 0
ToShared(i, n) == MinOf(n, Excess(ingress[i] + n))

UpdateIngressAdmission(i, n) ==
  /\ stored' = [stored EXCEPT ![i] = @ + n]
  /\ IF ToHeadroom(i, n)
     THEN hdrm' = [hdrm EXCEPT ![i] = @ + n] /\ UNCHANGED <<ingress, shared>>
     ELSE /\ ingress' = [ingress EXCEPT ![i] = @ + n]
          /\ shared' = shared + ToShared(i, n)
          /\ UNCHANGED hdrm

(* What a packet that leaves gives back to the headroom and to the rest.   *)
FromHdrm_All(i, n) == n
FromHdrm(i, n) == MinOf(hdrm[i], n)

FromIngress_All(i, n) == n
FromIngress(i, n) == n - FromHdrm(i, n)

RemoveFromIngressAdmission(i, n) ==
  /\ stored' = [stored EXCEPT ![i] = @ - n]
  /\ hdrm' = [hdrm EXCEPT ![i] = @ - FromHdrm(i, n)]
  /\ ingress' = [ingress EXCEPT ![i] = @ - FromIngress(i, n)]
  /\ shared' = shared - MinOf(FromIngress(i, n), GetSharedUsed(i))

(* CheckShouldPause and CheckShouldResume on the counters as they are then. *)
CheckShouldPause(i, bytes, head, used) ==
  /\ ~paused[i]
  /\ head > 0 \/ Excess(bytes) >= GetPfcThreshold(i[1], used)

CheckShouldResume_Always(i, bytes, head, used) ==
  head = 0 /\ Excess(bytes) = 0
CheckShouldResume_NoZero(i, bytes, head, used) ==
  /\ paused[i] /\ head = 0
  /\ Excess(bytes) + ResumeOffset <= GetPfcThreshold(i[1], used)
CheckShouldResume(i, bytes, head, used) ==
  /\ paused[i]
  /\ head = 0
  /\ \/ Excess(bytes) = 0
     \/ Excess(bytes) + ResumeOffset <= GetPfcThreshold(i[1], used)

(* SendPfc and SetPause or SetResume.                                      *)
SendPfc(i, pause) ==
  /\ frames' = [frames EXCEPT ![i] = Append(@, pause)]
  /\ paused' = [paused EXCEPT ![i] = pause]

-----------------------------------------------------------------------------
(* The far end of ingress i may transmit unless it is paused.              *)
Send(i, n) ==
  /\ ~upPaused[i]
  /\ stored[i] < MaxStored /\ Len(wire[i]) < MaxFlight
  /\ wire' = [wire EXCEPT ![i] = Append(@, n)]
  /\ UNCHANGED <<mmuVars, paused, frames, upPaused>>

(* SendToDev: a packet arrives and is dropped, or admitted and the far end *)
(* paused if need be.                                                      *)
Drop(i) ==
  /\ wire[i] # <<>>
  /\ ~CheckIngressAdmission(i, Head(wire[i]))
  /\ wire' = [wire EXCEPT ![i] = Tail(@)]
  /\ UNCHANGED <<mmuVars, paused, frames, upPaused>>

Admit(i) ==
  /\ wire[i] # <<>> /\ Len(frames[i]) < MaxFrames
  /\ CheckIngressAdmission(i, Head(wire[i]))
  /\ wire' = [wire EXCEPT ![i] = Tail(@)]
  /\ UpdateIngressAdmission(i, Head(wire[i]))
  /\ IF CheckShouldPause(i, ingress'[i], hdrm'[i], shared')
     THEN SendPfc(i, TRUE)
     ELSE UNCHANGED <<frames, paused>>
  /\ UNCHANGED upPaused

(* SwitchNotifyDequeue: n bytes leave, and the far end is resumed if it    *)
(* may be.                                                                 *)
Release(i, n) ==
  /\ n <= stored[i] /\ Len(frames[i]) < MaxFrames
  /\ RemoveFromIngressAdmission(i, n)
  /\ IF CheckShouldResume(i, ingress'[i], hdrm'[i], shared')
     THEN SendPfc(i, FALSE)
     ELSE UNCHANGED <<frames, paused>>
  /\ UNCHANGED <<upPaused, wire>>

(* QbbNetDevice::Receive of a PFC frame at the far end.                    *)
ReceivePfc(i) ==
  /\ frames[i] # <<>>
  /\ upPaused' = [upPaused EXCEPT ![i] = Head(frames[i])]
  /\ frames' = [frames EXCEPT ![i] = Tail(@)]
  /\ UNCHANGED <<mmuVars, paused, wire>>

Next ==
  \E i \in Ingress :
    \/ \E n \in Sizes : Send(i, n) \/ Release(i, n)
    \/ Drop(i) \/ Admit(i) \/ ReceivePfc(i)

Spec == Init /\ [][Next]_vars

(* The egress ports keep draining and links deliver; nothing need be sent. *)
FairSpec ==
  /\ Spec
  /\ \A i \in Ingress : /\ WF_vars(\E n \in Sizes : Release(i, n))
                        /\ WF_vars(Drop(i) \/ Admit(i))
                        /\ WF_vars(ReceivePfc(i))

-----------------------------------------------------------------------------
(* The types of the variables.  That shared never goes below zero is part  *)
(* of SharedExact.                                                         *)
TypeOK ==
  /\ ingress \in [Ingress -> Nat]
  /\ hdrm \in [Ingress -> Nat]
  /\ shared \in Int
  /\ stored \in [Ingress -> Nat]
  /\ paused \in [Ingress -> BOOLEAN]
  /\ frames \in [Ingress -> Seq(BOOLEAN)]
  /\ upPaused \in [Ingress -> BOOLEAN]
  /\ wire \in [Ingress -> Seq(Sizes)]

(* The two counters of an ingress add up to its bytes in the switch, however
   a packet that was counted in one is released from the other: nothing
   leaks, and the unsigned subtractions of RemoveFromIngressAdmission never
   wrap.                                                                   *)
Accounted == \A i \in Ingress : ingress[i] + hdrm[i] = stored[i]

(* The headroom of an ingress is never overrun.                            *)
HeadroomBounded == \A i \in Ingress : hdrm[i] <= Headroom[i[1]]

(* Headroom is only in use while the far end has been told to pause.       *)
HeadroomPaused == \A i \in Ingress : hdrm[i] > 0 => paused[i]

(* An ingress with nothing in the switch is not paused: CheckShouldResume is
   evaluated only when one of its packets leaves, so a pause that survived
   the last one would never end.                                           *)
DrainedResumed == \A i \in Ingress : paused[i] => stored[i] > 0

(* With dynamic thresholds on every port the pool is never overcommitted,
   and the unsigned subtraction of GetPfcThreshold never wraps.            *)
PoolBounded == Off = {} /\ Static = {} => shared <= Pool

Used == SumFunction([i \in Ingress |-> GetSharedUsed(i)])

(* shared_used_bytes is exactly the shared use of all ingresses, through
   packets that straddle the reserve and packets released from the headroom. *)
SharedExact == shared = Used

(* The ingresses together never store more than the pool and the reserve and
   headroom of each: with one priority in use, the buffer ConfigNPort divided
   among the ports.                                                        *)
BufferBounded ==
  Off = {} /\ Static = {} =>
    SumFunction(stored) <=
      Pool + SumFunction([i \in Ingress |-> Reserve + Headroom[i[1]]])

(* A packet that fits the headroom is dropped only if its sender has been
   told to pause before.                                                   *)
DropOnlyPaused ==
  \A i \in Ingress, n \in Sizes :
    n <= Headroom[i[1]] /\ ~CheckIngressAdmission(i, n) => paused[i]

(* A frame in a sequence that takes the far end from one state to another
   flips it.                                                               *)
Alternates(fs, from, to) ==
  IF fs = <<>> THEN from = to
  ELSE /\ fs[1] = ~from
       /\ fs[Len(fs)] = to
       /\ \A k \in 1..(Len(fs) - 1) : fs[k + 1] = ~fs[k]

(* Pauses and resumes alternate on their way, and the last one carries the
   state of the switch.                                                    *)
FramesAlternate ==
  \A i \in Ingress : Alternates(frames[i], upPaused[i], paused[i])

(* The assert of QbbNetDevice::Resume (qbb-net-device.cc:331): a resume frame
   finds its queue paused.                                                 *)
ResumeFindsPause ==
  \A i \in Ingress : frames[i] # <<>> /\ ~Head(frames[i]) => upPaused[i]
=============================================================================
