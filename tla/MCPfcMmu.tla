------------------------------ MODULE MCPfcMmu ------------------------------
(***************************************************************************)
(* Instances of PfcMmu for TLC, and its liveness property.                 *)
(***************************************************************************)
EXTENDS PfcMmu

CONSTANTS p1, p2, Room, Shift, Th

AllHeadroom == [p \in Port |-> Room]
AllDivisor == [p \in Port |-> 2 ^ Shift]
AllThreshold == [p \in Port |-> Th]

(* A paused far end is eventually resumed, whatever the other ports do to the
   shared threshold.                                                       *)
EventuallyResumed == \A i \in Ingress : upPaused[i] ~> ~upPaused[i]
=============================================================================
