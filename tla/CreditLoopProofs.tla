-------------------------- MODULE CreditLoopProofs --------------------------
(***************************************************************************)
(* The window of a hop is conserved, for every window and packet size.     *)
(***************************************************************************)
EXTENDS CreditLoop, TLAPS

(* Conserved alone is not inductive: that no counter goes below zero comes
   from the guards, and that win stays within the window from both.        *)
LoopInv == TypeOK /\ Conserved

(* The windows start full.                                                 *)
LEMMA InitLoopInv == ASSUME LoopAssumption PROVE Init => LoopInv
  BY DEF LoopAssumption, Init, LoopInv, TypeOK, Conserved

(* Every step moves bytes from one counter to another.                     *)
LEMMA NextLoopInv == ASSUME LoopAssumption PROVE LoopInv /\ [Next]_vars => LoopInv'
  <1> SUFFICES ASSUME LoopInv, [Next]_vars
               PROVE  LoopInv'
    OBVIOUS
  <1> USE DEF LoopAssumption, LoopInv, TypeOK, Conserved
  <1>1. ASSUME NEW n \in Sizes, Send(n) PROVE LoopInv'
    BY <1>1 DEF Send
  <1>2. ASSUME NEW n \in Sizes, Arrive(n) PROVE LoopInv'
    BY <1>2 DEF Arrive
  <1>3. ASSUME NEW n \in Sizes, Release(n) PROVE LoopInv'
    BY <1>3 DEF Release
  <1>4. ASSUME NEW n \in Sizes, ReleaseAndReturn(n) PROVE LoopInv'
    BY <1>4 DEF ReleaseAndReturn
  <1>5. CASE Return
    BY <1>5 DEF Return
  <1>6. ASSUME NEW n \in 1..Window, Restore(n) PROVE LoopInv'
    BY <1>6 DEF Restore
  <1>7. CASE UNCHANGED vars
    BY <1>7 DEF vars
  <1>8. QED
    BY <1>1, <1>2, <1>3, <1>4, <1>5, <1>6, <1>7 DEF Next

(* Every byte UpdateDstWin takes from a window comes back exactly once, and
   neither the window nor a counter on its way wraps below zero.           *)
THEOREM WindowIsConserved ==
  ASSUME LoopAssumption
  PROVE  Spec => [](TypeOK /\ Conserved)
  <1>1. (Init => LoopInv) /\ (LoopInv /\ [Next]_vars => LoopInv')
    BY InitLoopInv, NextLoopInv
  <1>2. QED
    BY <1>1, PTL DEF Spec, LoopInv

(* CheckDstWin bounds what one upstream can have at a downstream switch by
   its window.                                                             *)
THEOREM BacklogIsBounded ==
  ASSUME LoopAssumption
  PROVE  Spec => []BoundedBacklog
  <1>1. (Init => LoopInv) /\ (LoopInv /\ [Next]_vars => LoopInv')
    BY InitLoopInv, NextLoopInv
  <1>2. LoopInv => BoundedBacklog
    BY DEF LoopAssumption, LoopInv, TypeOK, Conserved, BoundedBacklog
  <1>3. QED
    BY <1>1, <1>2, PTL DEF Spec
=============================================================================
