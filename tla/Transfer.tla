-------------------------------- MODULE Transfer --------------------------------
(*****************************************************************************)
(* What one RDMA flow promises its user (third.cc traces both ends of it):    *)
(* the receiver gets ever more of Size bytes, the sender counts as            *)
(* acknowledged only what the receiver has, and the flow is reported complete  *)
(* only after all of it has been received. GoBackN and PacketLevel, the two    *)
(* transports of rdma-hw.cc, are implementations.                              *)
(*****************************************************************************)
EXTENDS Naturals

CONSTANT Size               \* m_size: the bytes of the flow

VARIABLES delivered,        \* bytes the receiver will not ask for again
          acked,            \* bytes the sender knows to be delivered
          done              \* the sender has reported completion

vars == <<delivered, acked, done>>

Init ==
  /\ delivered = 0
  /\ acked = 0
  /\ done = FALSE

(* Packets arrive. *)
Deliver ==
  /\ delivered' \in delivered + 1 .. Size
  /\ UNCHANGED <<acked, done>>

(* An acknowledgement arrives; the flow may be complete with it. *)
Acknowledge ==
  /\ acked' \in acked .. delivered
  /\ \/ done' = done
     \/ delivered = Size /\ done' = TRUE
  /\ UNCHANGED delivered

Next == Deliver \/ Acknowledge

Spec == Init /\ [][Next]_vars
================================================================================
