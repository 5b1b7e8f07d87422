----------------------------- MODULE CreditLoop -----------------------------
(***************************************************************************)
(* What Floodgate promises about one hop and one destination: an upstream  *)
(* switch has Window bytes to spend on a destination, and every byte it    *)
(* spends comes back exactly once.  A byte of the window is, in turn,      *)
(*   win       available to the upstream (m_wins[dst]),                    *)
(*   inflight  in a data packet between the upstream's VOQ gate and the    *)
(*             downstream switch,                                          *)
(*   held      in a packet the downstream switch stores (VOQ or egress),   *)
(*   credit    counted by the downstream (m_ingressDstCredits[dev][dst]),  *)
(*   ack       in a SwitchACK on its way back.                             *)
(* Floodgate implements this module on each hop (HopsImplementLoop), and   *)
(* so what CreditLoopProofs proves of a window holds there.                *)
(***************************************************************************)
EXTENDS Integers

CONSTANTS
  Window,    \* the runtime window of the destination, VOQ::BDPMAP
  Sizes      \* packet sizes, in the unit of the window

(* What the theorems ask of the constants.                                 *)
LoopAssumption == Window \in Nat /\ Sizes \subseteq Nat \ {0}

VARIABLES win, inflight, held, credit, ack

vars == <<win, inflight, held, credit, ack>>

Init ==
  /\ win = Window
  /\ inflight = 0
  /\ held = 0
  /\ credit = 0
  /\ ack = 0

(* A packet passes the gate: CheckDstWin, then UpdateDstWin(.., false).     *)
Send(n) ==
  /\ n <= win
  /\ win' = win - n
  /\ inflight' = inflight + n
  /\ UNCHANGED <<held, credit, ack>>

(* The downstream switch receives it.                                      *)
Arrive(n) ==
  /\ n <= inflight
  /\ inflight' = inflight - n
  /\ held' = held + n
  /\ UNCHANGED <<win, credit, ack>>

(* The downstream sends it on and keeps the credit (AddCreditCounter).     *)
Release(n) ==
  /\ n <= held
  /\ held' = held - n
  /\ credit' = credit + n
  /\ UNCHANGED <<win, inflight, ack>>

(* The same, and the counter goes back in a SwitchACK in the same step.    *)
ReleaseAndReturn(n) ==
  /\ n <= held
  /\ held' = held - n
  /\ ack' = ack + credit + n
  /\ credit' = 0
  /\ UNCHANGED <<win, inflight>>

(* A packet of another upstream or destination, or a timer, returns it.    *)
Return ==
  /\ credit > 0
  /\ ack' = ack + credit
  /\ credit' = 0
  /\ UNCHANGED <<win, inflight, held>>

(* The upstream receives a SwitchACK of n bytes (UpdateWin).               *)
Restore(n) ==
  /\ n <= ack
  /\ ack' = ack - n
  /\ win' = win + n
  /\ UNCHANGED <<inflight, held, credit>>

Next ==
  \/ \E n \in Sizes :
       Send(n) \/ Arrive(n) \/ Release(n) \/ ReleaseAndReturn(n)
  \/ Return
  \/ \E n \in 1..Window : Restore(n)

Spec == Init /\ [][Next]_vars

-----------------------------------------------------------------------------
(* Every counter is a natural number: none of the uint32_t counters of the *)
(* code wraps.                                                             *)
TypeOK ==
  /\ win \in Nat
  /\ inflight \in Nat
  /\ held \in Nat
  /\ credit \in Nat
  /\ ack \in Nat

(* No byte of the window is lost and none is restored twice: AddCreditCounter,
   the Clean* operations and UpdateWin move the same bytes.                *)
Conserved == win + inflight + held + credit + ack = Window

(* The upstream never has more than its window outstanding, so the backlog
   of a destination at the downstream is bounded by the windows upstream.  *)
BoundedBacklog == inflight + held <= Window
=============================================================================
