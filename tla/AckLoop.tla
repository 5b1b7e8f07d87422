--------------------------------- MODULE AckLoop ---------------------------------
(*****************************************************************************)
(* What one hop promises about one destination when windows are differences    *)
(* of absolute PSNs (switch_absolute_psn): the upstream switch never has more  *)
(* than Window bytes unacknowledged, and acknowledges to itself only what the  *)
(* downstream switch has given up, as sent on or as lost. No counter ever goes *)
(* back. AbsolutePSN is an implementation.                                     *)
(*****************************************************************************)
EXTENDS Naturals

CONSTANT Window        \* m_wins[dst], in bytes

VARIABLES sent,        \* bytes that passed the gate of the upstream switch
          left,        \* bytes the downstream switch will not wait for
          acked        \* bytes the upstream switch knows to have left

vars == <<sent, left, acked>>

Init ==
  /\ sent = 0
  /\ left = 0
  /\ acked = 0

(* Packets pass the gate. *)
Send ==
  /\ sent' \in sent + 1 .. acked + Window
  /\ UNCHANGED <<left, acked>>

(* Packets leave the downstream switch, or turn out to be lost. *)
Leave ==
  /\ left' \in left + 1 .. sent
  /\ UNCHANGED <<sent, acked>>

(* A SwitchACK arrives. *)
Acknowledge ==
  /\ acked' \in acked + 1 .. left
  /\ UNCHANGED <<sent, left>>

Next == Send \/ Leave \/ Acknowledge

Spec == Init /\ [][Next]_vars
==================================================================================
