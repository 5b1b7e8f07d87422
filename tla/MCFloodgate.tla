---------------------------- MODULE MCFloodgate -----------------------------
(***************************************************************************)
(* Instances of Floodgate for TLC: two sender ToRs A and B, a core C and   *)
(* the ToR T of the destinations 1 and 2.                                  *)
(***************************************************************************)
EXTENDS Floodgate

CONSTANTS A, B, C, T, WinToR, WinCore

Tree == {A, B, C, T}

TreeNextHop ==
  [s \in Tree |-> [d \in Dst |-> IF s \in {A, B} THEN C
                                 ELSE IF s = C THEN T ELSE d]]

TreeWin ==
  [s \in Tree |-> [d \in Dst |-> IF s = T THEN 0
                                 ELSE IF s = C THEN WinCore ELSE WinToR]]

(* Packets only wait at the ToRs for the core, and there for a ToR.         *)
TreeRank == [s \in Tree |-> [d \in Dst |-> IF s \in {A, B} THEN 1 ELSE 0]]

ASSUME TreeAssumption == Layered(TreeRank) /\ SourcesAtEdge

(* Both destinations hash to the same VOQ.                                 *)
Collide == [d \in Dst |-> 0]

(* Both senders to destination 1; one of them to 2 as well.                *)
Incast == {<<A, 1>>, <<B, 1>>}
OneSender == {<<A, 1>>, <<A, 2>>}
Mixed == {<<A, 1>>, <<A, 2>>, <<B, 1>>}
=============================================================================
