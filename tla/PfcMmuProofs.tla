---------------------------- MODULE PfcMmuProofs ----------------------------
(***************************************************************************)
(* The invariants of PfcMmu for every number of ports and priorities, every *)
(* packet size and every setting of the buffer.                            *)
(***************************************************************************)
EXTENDS PfcMmu, SumLemmas

(* The shift by pfc_a_shift never makes what is left of the pool larger.   *)
LEMMA DivBound ==
  ASSUME NEW x \in Nat, NEW d \in Nat \ {0}
  PROVE  x \div d \in Nat /\ x \div d <= x
  BY Z3


(* The threshold is an integer, whatever the mode of the port.             *)
LEMMA ThresholdType ==
  ASSUME NEW p \in Port, NEW used \in Int
  PROVE  GetPfcThreshold(p, used) \in Int
  BY PfcAssumption DEF GetPfcThreshold, PoolLeft

(* What arrives on a wire has one of the packet sizes.                     *)
LEMMA HeadInSizes ==
  ASSUME TypeOK, NEW i \in Ingress, wire[i] # <<>>
  PROVE  /\ Head(wire[i]) \in Nat \ {0}
         /\ Tail(wire[i]) \in Seq(Sizes)
  <1>1. wire[i] \in Seq(Sizes)
    BY DEF TypeOK
  <1>2. Head(wire[i]) \in Sizes /\ Tail(wire[i]) \in Seq(Sizes)
    BY <1>1
  <1>3. QED BY <1>2, PfcAssumption

-----------------------------------------------------------------------------
(* Types.                                                                  *)

(* The constructor's zeroes have their types.                               *)
LEMMA InitTypeOK == Init => TypeOK
  BY DEF Init, TypeOK

(* What an admission does to the counters, when it goes to the headroom and
   when it does not.                                                       *)
LEMMA AdmitCounters ==
  ASSUME TypeOK, NEW i \in Ingress, NEW n \in Nat \ {0},
         UpdateIngressAdmission(i, n)
  PROVE  /\ stored' = [stored EXCEPT ![i] = @ + n]
         /\ ToHeadroom(i, n) => /\ hdrm' = [hdrm EXCEPT ![i] = @ + n]
                                /\ ingress' = ingress
                                /\ shared' = shared
         /\ ~ToHeadroom(i, n) => /\ hdrm' = hdrm
                                 /\ ingress' = [ingress EXCEPT ![i] = @ + n]
                                 /\ shared' <= shared + n
         /\ shared' \in Int
         /\ hdrm' \in [Ingress -> Nat]
         /\ ingress' \in [Ingress -> Nat]
         /\ stored' \in [Ingress -> Nat]
  <1>1. /\ stored' = [stored EXCEPT ![i] = @ + n]
        /\ stored' \in [Ingress -> Nat]
    BY DEF UpdateIngressAdmission, TypeOK
  <1>2. CASE ToHeadroom(i, n)
    <2>1. /\ hdrm' = [hdrm EXCEPT ![i] = @ + n]
          /\ ingress' = ingress /\ shared' = shared
      BY <1>2 DEF UpdateIngressAdmission
    <2>2. hdrm' \in [Ingress -> Nat]
      BY <2>1 DEF TypeOK
    <2>3. QED BY <1>1, <1>2, <2>1, <2>2 DEF TypeOK
  <1>3. CASE ~ToHeadroom(i, n)
    <2>1. /\ hdrm' = hdrm
          /\ ingress' = [ingress EXCEPT ![i] = @ + n]
          /\ shared' = shared + ToShared(i, n)
      BY <1>3 DEF UpdateIngressAdmission
    <2>2. ingress[i] + n \in Nat /\ shared \in Int
      BY DEF TypeOK
    <2>3. Excess(ingress[i] + n) \in Nat
      BY <2>2, PfcAssumption DEF Excess
    <2>4. /\ ToShared(i, n) \in Nat
          /\ ToShared(i, n) <= n
      BY <2>3 DEF ToShared, MinOf
    <2>5. shared' \in Int /\ shared' <= shared + n
      BY <2>1, <2>2, <2>4
    <2>6. ingress' \in [Ingress -> Nat]
      BY <2>1 DEF TypeOK
    <2>7. QED BY <1>1, <1>3, <2>1, <2>5, <2>6 DEF TypeOK
  <1>4. QED BY <1>2, <1>3

(* A release empties the headroom of the ingress first; with Accounted no
   counter goes below zero.                                                *)
LEMMA ReleaseCounters ==
  ASSUME TypeOK, Accounted, NEW i \in Ingress, NEW n \in Nat \ {0},
         n <= stored[i], RemoveFromIngressAdmission(i, n)
  PROVE  /\ stored' = [stored EXCEPT ![i] = @ - n]
         /\ hdrm' = [hdrm EXCEPT ![i] = @ - FromHdrm(i, n)]
         /\ ingress' = [ingress EXCEPT ![i] = @ - FromIngress(i, n)]
         /\ shared' \in Int /\ shared' <= shared
         /\ hdrm' \in [Ingress -> Nat]
         /\ ingress' \in [Ingress -> Nat]
         /\ stored' \in [Ingress -> Nat]
  <1>1. /\ ingress[i] \in Nat /\ hdrm[i] \in Nat /\ stored[i] \in Nat
        /\ ingress[i] + hdrm[i] = stored[i]
        /\ GetSharedUsed(i) \in Nat
    BY PfcAssumption DEF TypeOK, Accounted, GetSharedUsed, Excess
  <1>2. /\ FromHdrm(i, n) \in Nat
        /\ FromHdrm(i, n) <= hdrm[i] /\ FromHdrm(i, n) <= n
        /\ ingress[i] - FromIngress(i, n) \in Nat
    BY <1>1 DEF FromHdrm, FromIngress, MinOf
  <1>3. MinOf(FromIngress(i, n), GetSharedUsed(i)) \in Nat
    BY <1>1, <1>2 DEF FromHdrm, FromIngress, MinOf
  <1>4. /\ stored' = [stored EXCEPT ![i] = @ - n]
        /\ hdrm' = [hdrm EXCEPT ![i] = @ - FromHdrm(i, n)]
        /\ ingress' = [ingress EXCEPT ![i] = @ - FromIngress(i, n)]
        /\ shared' = shared - MinOf(FromIngress(i, n), GetSharedUsed(i))
    BY DEF RemoveFromIngressAdmission
  <1>5. shared' \in Int /\ shared' <= shared
    BY <1>3, <1>4 DEF TypeOK
  <1>6. hdrm' \in [Ingress -> Nat]
    BY <1>1, <1>2, <1>4 DEF TypeOK
  <1>7. ingress' \in [Ingress -> Nat]
    BY <1>1, <1>2, <1>4 DEF TypeOK
  <1>8. stored' \in [Ingress -> Nat]
    BY <1>1, <1>4 DEF TypeOK
  <1>9. QED
    BY <1>4, <1>5, <1>6, <1>7, <1>8

(* A frame, or no frame, leaves frames and paused typed.                   *)
LEMMA SendPfcType ==
  ASSUME TypeOK, NEW i \in Ingress, NEW b \in BOOLEAN,
         SendPfc(i, b) \/ UNCHANGED <<frames, paused>>
  PROVE  /\ frames' \in [Ingress -> Seq(BOOLEAN)]
         /\ paused' \in [Ingress -> BOOLEAN]
  <1>1. /\ frames \in [Ingress -> Seq(BOOLEAN)]
        /\ paused \in [Ingress -> BOOLEAN]
    BY DEF TypeOK
  <1>2. CASE SendPfc(i, b)
    <2>1. Append(frames[i], b) \in Seq(BOOLEAN)
      BY <1>1
    <2>2. QED BY <1>1, <1>2, <2>1 DEF SendPfc
  <1>3. QED BY <1>1, <1>2

(* The counters of RemoveFromIngressAdmission are typed only because they
   account for what is stored, so the two are proved together.             *)
TypedAndAccounted == TypeOK /\ Accounted

(* Every step preserves the two.                                           *)
LEMMA NextTypedAndAccounted == TypedAndAccounted /\ [Next]_vars => TypedAndAccounted'
  <1> SUFFICES ASSUME TypeOK, Accounted, [Next]_vars
               PROVE  TypeOK' /\ Accounted'
    BY DEF TypedAndAccounted
  <1>1. ASSUME NEW i \in Ingress, NEW n \in Sizes, Send(i, n)
        PROVE  TypeOK' /\ Accounted'
    BY <1>1 DEF Send, mmuVars, TypeOK, Accounted
  <1>2. ASSUME NEW i \in Ingress, NEW n \in Sizes, Release(i, n)
        PROVE  TypeOK' /\ Accounted'
    <2>1. n \in Nat \ {0}
      BY PfcAssumption
    <2>2. n <= stored[i] /\ RemoveFromIngressAdmission(i, n)
      BY <1>2 DEF Release
    <2>3. /\ frames' \in [Ingress -> Seq(BOOLEAN)]
          /\ paused' \in [Ingress -> BOOLEAN]
      BY <1>2, SendPfcType DEF Release
    <2>4. TypeOK'
      BY <1>2, <2>1, <2>2, <2>3, ReleaseCounters DEF Release, TypeOK
    <2>5. Accounted'
      <3> SUFFICES ASSUME NEW j \in Ingress
                   PROVE  ingress'[j] + hdrm'[j] = stored'[j]
        BY DEF Accounted
      <3>1. /\ ingress[j] \in Nat /\ hdrm[j] \in Nat /\ stored[j] \in Nat
            /\ ingress[j] + hdrm[j] = stored[j]
        BY DEF TypeOK, Accounted
      <3>2. /\ stored' = [stored EXCEPT ![i] = @ - n]
            /\ hdrm' = [hdrm EXCEPT ![i] = @ - FromHdrm(i, n)]
            /\ ingress' = [ingress EXCEPT ![i] = @ - FromIngress(i, n)]
        BY <2>1, <2>2, ReleaseCounters
      <3>3. FromHdrm(i, n) \in Nat
        BY <2>1 DEF FromHdrm, MinOf, TypeOK
      <3>4. CASE j = i
        <4>1. /\ stored'[j] = stored[j] - n
              /\ hdrm'[j] = hdrm[j] - FromHdrm(i, n)
              /\ ingress'[j] = ingress[j] - FromIngress(i, n)
          BY <3>2, <3>4 DEF TypeOK
        <4>2. QED BY <2>1, <3>1, <3>3, <4>1 DEF FromIngress
      <3>5. CASE j # i
        BY <3>1, <3>2, <3>5 DEF TypeOK
      <3>6. QED BY <3>4, <3>5
    <2>6. QED BY <2>4, <2>5
  <1>3. ASSUME NEW i \in Ingress, Drop(i)
        PROVE  TypeOK' /\ Accounted'
    BY <1>3, HeadInSizes DEF Drop, mmuVars, TypeOK, Accounted
  <1>4. ASSUME NEW i \in Ingress, Admit(i)
        PROVE  TypeOK' /\ Accounted'
    <2> DEFINE n == Head(wire[i])
    <2>1. n \in Nat \ {0} /\ Tail(wire[i]) \in Seq(Sizes)
      BY <1>4, HeadInSizes DEF Admit
    <2>2. UpdateIngressAdmission(i, n)
      BY <1>4 DEF Admit
    <2>3. /\ frames' \in [Ingress -> Seq(BOOLEAN)]
          /\ paused' \in [Ingress -> BOOLEAN]
      BY <1>4, SendPfcType DEF Admit
    <2>4. wire' \in [Ingress -> Seq(Sizes)] /\ upPaused' \in [Ingress -> BOOLEAN]
      BY <1>4, <2>1 DEF Admit, TypeOK
    <2> HIDE DEF n
    <2>5. TypeOK'
      BY <2>1, <2>2, <2>3, <2>4, AdmitCounters DEF TypeOK
    <2>6. Accounted'
      <3> SUFFICES ASSUME NEW j \in Ingress
                   PROVE  ingress'[j] + hdrm'[j] = stored'[j]
        BY DEF Accounted
      <3>1. /\ ingress[j] \in Nat /\ hdrm[j] \in Nat /\ stored[j] \in Nat
            /\ ingress[j] + hdrm[j] = stored[j]
        BY DEF TypeOK, Accounted
      <3>2. CASE ToHeadroom(i, n)
        <4>1. /\ stored' = [stored EXCEPT ![i] = @ + n]
              /\ hdrm' = [hdrm EXCEPT ![i] = @ + n]
              /\ ingress' = ingress
          BY <2>1, <2>2, <3>2, AdmitCounters
        <4>2. QED BY <2>1, <3>1, <4>1 DEF TypeOK
      <3>3. CASE ~ToHeadroom(i, n)
        <4>1. /\ stored' = [stored EXCEPT ![i] = @ + n]
              /\ hdrm' = hdrm
              /\ ingress' = [ingress EXCEPT ![i] = @ + n]
          BY <2>1, <2>2, <3>3, AdmitCounters
        <4>2. QED BY <2>1, <3>1, <4>1 DEF TypeOK
      <3>4. QED BY <3>2, <3>3
    <2>7. QED BY <2>5, <2>6
  <1>5. ASSUME NEW i \in Ingress, ReceivePfc(i)
        PROVE  TypeOK' /\ Accounted'
    BY <1>5 DEF ReceivePfc, mmuVars, TypeOK, Accounted
  <1>6. CASE UNCHANGED vars
    BY <1>6 DEF vars, TypeOK, Accounted
  <1>7. QED
    BY <1>1, <1>2, <1>3, <1>4, <1>5, <1>6 DEF Next

-----------------------------------------------------------------------------
(* The headroom and the pauses.                                            *)

(* A packet that is admitted and does not fit under the threshold fits the
   headroom: the two tests of the code count the bytes above the reserve
   differently, but agree where it matters.                                *)
LEMMA HeadroomFits ==
  ASSUME TypeOK, NEW i \in Ingress, NEW n \in Nat \ {0},
         CheckIngressAdmission(i, n), ToHeadroom(i, n)
  PROVE  hdrm[i] + n <= Headroom[i[1]]
  <1>1. /\ ingress[i] \in Nat /\ hdrm[i] \in Nat /\ shared \in Int
        /\ i[1] \in Port
    BY DEF TypeOK, Ingress
  <1>2. /\ GetPfcThreshold(i[1], shared) \in Int /\ Headroom[i[1]] \in Nat
        /\ Reserve \in Nat
    BY <1>1, ThresholdType, PfcAssumption
  <1> DEFINE th == GetPfcThreshold(i[1], shared)
  <1> HIDE DEF th
  <1>3. /\ ingress[i] + n > Reserve
        /\ ingress[i] + n - Reserve > th
    BY DEF ToHeadroom, th
  <1>4. \/ n + hdrm[i] <= Headroom[i[1]]
        \/ n + (IF ingress[i] > Reserve THEN ingress[i] - Reserve ELSE 0) <= th
    BY DEF CheckIngressAdmission, GetSharedUsed, Excess, th
  <1>5. th \in Int
    BY <1>2 DEF th
  <1>6. QED
    BY <1>1, <1>2, <1>3, <1>4, <1>5

(* Whoever is paused has bytes in the switch, whoever uses headroom is
   paused, and within the headroom.                                        *)
PauseInv == HeadroomBounded /\ HeadroomPaused /\ DrainedResumed

(* What an admission and a release leave of PauseInv at the ingress itself. *)
LEMMA AdmitPause ==
  ASSUME TypeOK, PauseInv, NEW i \in Ingress, Admit(i)
  PROVE  /\ hdrm'[i] <= Headroom[i[1]]
         /\ hdrm'[i] > 0 => paused'[i]
         /\ stored'[i] > 0
  <1> DEFINE n == Head(wire[i])
  <1>1. n \in Nat \ {0} /\ CheckIngressAdmission(i, n) /\ UpdateIngressAdmission(i, n)
    BY HeadInSizes DEF Admit
  <1>2. IF CheckShouldPause(i, ingress'[i], hdrm'[i], shared')
        THEN SendPfc(i, TRUE) ELSE UNCHANGED <<frames, paused>>
    BY DEF Admit
  <1> HIDE DEF n
  <1>3. /\ hdrm[i] \in Nat /\ stored[i] \in Nat /\ Headroom[i[1]] \in Nat
        /\ hdrm[i] <= Headroom[i[1]] /\ paused[i] \in BOOLEAN
    BY PfcAssumption DEF TypeOK, PauseInv, HeadroomBounded, Ingress
  <1>4. stored'[i] = stored[i] + n
    BY <1>1, AdmitCounters DEF TypeOK
  <1>5. hdrm'[i] = IF ToHeadroom(i, n) THEN hdrm[i] + n ELSE hdrm[i]
    BY <1>1, AdmitCounters DEF TypeOK
  <1>6. hdrm'[i] <= Headroom[i[1]]
    BY <1>1, <1>3, <1>5, HeadroomFits
  <1>7. ASSUME hdrm'[i] > 0 PROVE paused'[i]
    <2>1. CASE paused[i]
      <3>1. ~CheckShouldPause(i, ingress'[i], hdrm'[i], shared')
        BY <2>1 DEF CheckShouldPause
      <3>2. QED BY <1>2, <2>1, <3>1
    <2>2. CASE ~paused[i]
      <3>1. CheckShouldPause(i, ingress'[i], hdrm'[i], shared')
        BY <1>7, <2>2 DEF CheckShouldPause
      <3>2. QED BY <1>2, <3>1 DEF SendPfc, TypeOK
    <2>3. QED BY <2>1, <2>2
  <1>8. QED BY <1>1, <1>3, <1>4, <1>6, <1>7

(* A release may lift the pause, but not while the headroom is in use, and
   it does when nothing is left.                                           *)
LEMMA ReleasePause ==
  ASSUME TypeOK, Accounted, PauseInv, NEW i \in Ingress, NEW n \in Nat \ {0},
         Release(i, n)
  PROVE  /\ hdrm'[i] <= Headroom[i[1]]
         /\ hdrm'[i] > 0 => paused'[i]
         /\ paused'[i] => stored'[i] > 0
  <1>1. n <= stored[i] /\ RemoveFromIngressAdmission(i, n)
    BY DEF Release
  <1>2. IF CheckShouldResume(i, ingress'[i], hdrm'[i], shared')
        THEN SendPfc(i, FALSE) ELSE UNCHANGED <<frames, paused>>
    BY DEF Release
  <1>3. /\ hdrm[i] \in Nat /\ stored[i] \in Nat /\ ingress[i] \in Nat
        /\ Headroom[i[1]] \in Nat /\ Reserve \in Nat
        /\ hdrm[i] <= Headroom[i[1]] /\ paused[i] \in BOOLEAN
        /\ hdrm[i] > 0 => paused[i]
        /\ ingress[i] + hdrm[i] = stored[i]
    BY PfcAssumption
       DEF TypeOK, PauseInv, HeadroomBounded, HeadroomPaused, Accounted, Ingress
  <1>4. /\ stored'[i] = stored[i] - n
        /\ hdrm'[i] = hdrm[i] - FromHdrm(i, n)
        /\ ingress'[i] = ingress[i] - FromIngress(i, n)
        /\ hdrm'[i] \in Nat /\ stored'[i] \in Nat /\ ingress'[i] \in Nat
    BY <1>1, ReleaseCounters DEF TypeOK
  <1>5. FromHdrm(i, n) \in Nat
    BY <1>3 DEF FromHdrm, FromIngress, MinOf
  <1>6. hdrm'[i] <= hdrm[i] /\ ingress'[i] + hdrm'[i] = stored'[i]
    BY <1>3, <1>4, <1>5 DEF FromIngress
  <1>7. CASE CheckShouldResume(i, ingress'[i], hdrm'[i], shared')
    <2>1. ~paused'[i] /\ hdrm'[i] = 0
      BY <1>2, <1>7 DEF SendPfc, CheckShouldResume, TypeOK
    <2>2. QED BY <1>3, <2>1
  <1>8. CASE ~CheckShouldResume(i, ingress'[i], hdrm'[i], shared')
    <2>1. paused' = paused
      BY <1>2, <1>8
    <2>2. ASSUME paused[i], stored'[i] = 0 PROVE FALSE
      <3>1. hdrm'[i] = 0 /\ ingress'[i] = 0
        BY <1>4, <1>6, <2>2
      <3>2. Excess(ingress'[i]) = 0
        BY <1>3, <3>1 DEF Excess
      <3>3. QED BY <1>8, <2>2, <3>1, <3>2 DEF CheckShouldResume
    <2>3. QED BY <1>3, <1>4, <1>6, <2>1, <2>2
  <1>9. QED BY <1>7, <1>8

(* Neither touches another ingress.                                        *)
LEMMA OthersUntouched ==
  ASSUME TypeOK, Accounted, NEW i \in Ingress,
         Admit(i) \/ \E n \in Sizes : Release(i, n)
  PROVE  \A j \in Ingress : j # i =>
           /\ hdrm'[j] = hdrm[j] /\ stored'[j] = stored[j]
           /\ paused'[j] = paused[j] /\ frames'[j] = frames[j]
  <1>1. CASE Admit(i)
    <2>1. UpdateIngressAdmission(i, Head(wire[i]))
      BY <1>1 DEF Admit
    <2>2. \A j \in Ingress : j # i => hdrm'[j] = hdrm[j] /\ stored'[j] = stored[j]
      BY <2>1 DEF UpdateIngressAdmission, TypeOK
    <2>3. \A j \in Ingress : j # i => paused'[j] = paused[j] /\ frames'[j] = frames[j]
      BY <1>1 DEF Admit, SendPfc, TypeOK
    <2>4. QED BY <2>2, <2>3
  <1>2. ASSUME NEW n \in Sizes, Release(i, n)
        PROVE  \A j \in Ingress : j # i =>
                 /\ hdrm'[j] = hdrm[j] /\ stored'[j] = stored[j]
                 /\ paused'[j] = paused[j] /\ frames'[j] = frames[j]
    <2>1. RemoveFromIngressAdmission(i, n)
      BY <1>2 DEF Release
    <2>2. \A j \in Ingress : j # i => hdrm'[j] = hdrm[j] /\ stored'[j] = stored[j]
      BY <2>1 DEF RemoveFromIngressAdmission, TypeOK
    <2>3. \A j \in Ingress : j # i => paused'[j] = paused[j] /\ frames'[j] = frames[j]
      BY <1>2 DEF Release, SendPfc, TypeOK
    <2>4. QED BY <2>2, <2>3
  <1>3. QED BY <1>1, <1>2

(* PauseInv is inductive, given what is stored (Accounted).                *)
LEMMA NextPauseInv ==
  TypedAndAccounted /\ PauseInv /\ [Next]_vars => PauseInv'
  <1> SUFFICES ASSUME TypeOK, Accounted, PauseInv, [Next]_vars
               PROVE  PauseInv'
    BY DEF TypedAndAccounted
  <1>1. ASSUME UNCHANGED <<hdrm, stored, paused>> PROVE PauseInv'
    BY <1>1 DEF PauseInv, HeadroomBounded, HeadroomPaused, DrainedResumed
  <1>2. ASSUME NEW i \in Ingress, Admit(i) \/ \E n \in Sizes : Release(i, n)
        PROVE  PauseInv'
    <2>1. /\ hdrm'[i] <= Headroom[i[1]]
          /\ hdrm'[i] > 0 => paused'[i]
          /\ paused'[i] => stored'[i] > 0
      BY <1>2, AdmitPause, ReleasePause, PfcAssumption
    <2>2. \A j \in Ingress : j # i =>
            hdrm'[j] = hdrm[j] /\ stored'[j] = stored[j] /\ paused'[j] = paused[j]
      BY <1>2, OthersUntouched
    <2>3. QED
      BY <2>1, <2>2 DEF PauseInv, HeadroomBounded, HeadroomPaused, DrainedResumed
  <1>3. ASSUME NEW i \in Ingress,
               Drop(i) \/ ReceivePfc(i) \/ \E n \in Sizes : Send(i, n)
        PROVE  PauseInv'
    BY <1>1, <1>3 DEF Drop, ReceivePfc, Send, mmuVars
  <1>4. CASE UNCHANGED vars
    BY <1>1, <1>4 DEF vars
  <1>5. QED BY <1>2, <1>3, <1>4 DEF Next

-----------------------------------------------------------------------------
(* The shared pool under dynamic thresholds.                               *)

(* What is admitted to the pool fits in what is left of it, whatever the
   divisor: the test of UpdateIngressAdmission bounds all that the ingress
   uses, hence what the packet adds.                                       *)
LEMMA AdmissionFitsPool ==
  ASSUME TypeOK, Off = {}, Static = {}, shared <= Pool,
         NEW i \in Ingress, NEW n \in Nat \ {0}, ~ToHeadroom(i, n)
  PROVE  shared + ToShared(i, n) <= Pool
  <1>1. /\ ingress[i] \in Nat /\ shared \in Int /\ i[1] \in Port
        /\ Reserve \in Nat /\ Pool \in Nat /\ Divisor[i[1]] \in Nat \ {0}
    BY PfcAssumption DEF TypeOK, Ingress
  <1>2. /\ PoolLeft(shared) = Pool - shared
        /\ PoolLeft(shared) \in Nat
    BY <1>1 DEF PoolLeft
  <1>3. GetPfcThreshold(i[1], shared) = PoolLeft(shared) \div Divisor[i[1]]
    BY DEF GetPfcThreshold
  <1>4. GetPfcThreshold(i[1], shared) <= Pool - shared
    BY <1>1, <1>2, <1>3, DivBound
  <1>5. CASE ingress[i] + n <= Reserve
    <2>1. ToShared(i, n) = 0
      BY <1>1, <1>5 DEF ToShared, MinOf, Excess
    <2>2. QED BY <1>1, <2>1
  <1>6. CASE ingress[i] + n > Reserve
    <2>1. ingress[i] + n - Reserve <= GetPfcThreshold(i[1], shared)
      <3>1. GetPfcThreshold(i[1], shared) \in Int
        BY <1>1, ThresholdType
      <3>2. QED BY <1>1, <1>6, <3>1 DEF ToHeadroom
    <2>2. ToShared(i, n) <= ingress[i] + n - Reserve
      BY <1>1, <1>6 DEF ToShared, MinOf, Excess
    <2>3. ToShared(i, n) \in Int
      BY <1>1, <1>6 DEF ToShared, MinOf, Excess
    <2>4. GetPfcThreshold(i[1], shared) \in Int
      BY <1>1, ThresholdType
    <2>5. QED BY <1>1, <1>4, <2>1, <2>2, <2>3, <2>4
  <1>7. QED BY <1>1, <1>5, <1>6

(* PoolBounded is inductive: only an admission to the pool raises shared.  *)
LEMMA NextPoolBounded ==
  TypedAndAccounted /\ PoolBounded /\ [Next]_vars => PoolBounded'
  <1> SUFFICES ASSUME TypeOK, Accounted, Off = {}, Static = {}, shared <= Pool,
                      [Next]_vars
               PROVE  shared' <= Pool
    BY DEF TypedAndAccounted, PoolBounded
  <1>1. ASSUME NEW i \in Ingress, Admit(i) PROVE shared' <= Pool
    <2> DEFINE n == Head(wire[i])
    <2>1. n \in Nat \ {0} /\ UpdateIngressAdmission(i, n)
      BY <1>1, HeadInSizes DEF Admit
    <2> HIDE DEF n
    <2>2. CASE ToHeadroom(i, n)
      BY <2>1, <2>2, AdmitCounters
    <2>3. CASE ~ToHeadroom(i, n)
      <3>1. shared' = shared + ToShared(i, n)
        BY <2>1, <2>3 DEF UpdateIngressAdmission
      <3>2. QED BY <2>1, <2>3, <3>1, AdmissionFitsPool
    <2>4. QED BY <2>2, <2>3
  <1>2. ASSUME NEW i \in Ingress, NEW n \in Sizes, Release(i, n)
        PROVE  shared' <= Pool
    <2>1. n \in Nat \ {0} /\ n <= stored[i] /\ RemoveFromIngressAdmission(i, n)
      BY <1>2, PfcAssumption DEF Release
    <2>2. shared' \in Int /\ shared' <= shared
      BY <2>1, ReleaseCounters
    <2>3. QED BY <2>2, PfcAssumption DEF TypeOK
  <1>3. ASSUME NEW i \in Ingress,
               Drop(i) \/ ReceivePfc(i) \/ \E n \in Sizes : Send(i, n)
        PROVE  shared' <= Pool
    BY <1>3 DEF Drop, ReceivePfc, Send, mmuVars
  <1>4. CASE UNCHANGED vars
    BY <1>4 DEF vars
  <1>5. QED BY <1>1, <1>2, <1>3, <1>4 DEF Next

-----------------------------------------------------------------------------
(* The frames.                                                             *)

(* The head of a sequence of frames, as its first element.                 *)
LEMMA HeadIsFirst ==
  ASSUME NEW fs \in Seq(BOOLEAN), fs # <<>>
  PROVE  Head(fs) = fs[1]
  OBVIOUS

(* Sending the flipped state, and receiving a frame, keep a sequence of    *)
(* frames alternating.                                                     *)
LEMMA AppendAlternates ==
  ASSUME NEW fs \in Seq(BOOLEAN), NEW from \in BOOLEAN, NEW to \in BOOLEAN,
         Alternates(fs, from, to)
  PROVE  Alternates(Append(fs, ~to), from, ~to)
  <1> DEFINE gs == Append(fs, ~to)
  <1>1. /\ gs \in Seq(BOOLEAN) /\ Len(gs) = Len(fs) + 1 /\ Len(fs) \in Nat
        /\ gs[Len(gs)] = ~to
        /\ \A k \in 1..Len(fs) : gs[k] = fs[k]
        /\ gs # <<>>
    OBVIOUS
  <1>2. CASE fs = <<>>
    <2>1. Len(fs) = 0 /\ from = to
      BY <1>2 DEF Alternates
    <2>2. gs[1] = ~from
      BY <1>1, <2>1
    <2>3. \A k \in 1..(Len(gs) - 1) : gs[k + 1] = ~gs[k]
      BY <1>1, <2>1
    <2>4. QED BY <1>1, <2>2, <2>3 DEF Alternates
  <1>3. CASE fs # <<>>
    <2>1. /\ Len(fs) > 0 /\ fs[1] = ~from /\ fs[Len(fs)] = to
          /\ \A k \in 1..(Len(fs) - 1) : fs[k + 1] = ~fs[k]
      BY <1>3 DEF Alternates
    <2>2. gs[1] = ~from
      BY <1>1, <2>1
    <2>3. ASSUME NEW k \in 1..(Len(gs) - 1) PROVE gs[k + 1] = ~gs[k]
      <3>1. CASE k = Len(fs)
        BY <1>1, <2>1, <3>1
      <3>2. CASE k # Len(fs)
        <4>1. k \in 1..(Len(fs) - 1) /\ k \in 1..Len(fs) /\ k + 1 \in 1..Len(fs)
          BY <1>1, <3>2
        <4>2. gs[k + 1] = fs[k + 1] /\ gs[k] = fs[k]
          BY <1>1, <4>1
        <4>3. QED BY <2>1, <4>1, <4>2
      <3>3. QED BY <3>1, <3>2
    <2>4. QED BY <1>1, <2>2, <2>3 DEF Alternates
  <1>4. QED BY <1>2, <1>3

(* See above, for a frame received.                                        *)
LEMMA TailAlternates ==
  ASSUME NEW fs \in Seq(BOOLEAN), NEW from \in BOOLEAN, NEW to \in BOOLEAN,
         fs # <<>>, Alternates(fs, from, to)
  PROVE  Alternates(Tail(fs), Head(fs), to)
  <1> DEFINE gs == Tail(fs)
  <1>1. /\ gs \in Seq(BOOLEAN) /\ Len(gs) = Len(fs) - 1 /\ Len(fs) \in Nat \ {0}
        /\ \A k \in 1..Len(gs) : gs[k] = fs[k + 1]
        /\ Head(fs) = fs[1]
    OBVIOUS
  <1> HIDE DEF gs
  <1>2. /\ fs[Len(fs)] = to
        /\ \A k \in 1..(Len(fs) - 1) : fs[k + 1] = ~fs[k]
    BY DEF Alternates
  <1>3. CASE gs = <<>>
    <2>1. Len(fs) = 1
      BY <1>1, <1>3
    <2>2. QED BY <1>1, <1>2, <1>3, <2>1 DEF Alternates, gs
  <1>4. CASE gs # <<>>
    <2>1. Len(gs) \in Nat \ {0}
      BY <1>1, <1>4
    <2>2. gs[1] = ~Head(fs)
      <3>1. 1 \in 1..Len(gs) /\ 1 \in 1..(Len(fs) - 1)
        BY <1>1, <2>1
      <3>2. gs[1] = fs[1 + 1] /\ fs[1 + 1] = ~fs[1]
        BY <1>1, <1>2, <3>1
      <3>3. QED BY <1>1, <3>2
    <2>3. gs[Len(gs)] = to
      BY <1>1, <1>2, <2>1
    <2>4. ASSUME NEW k \in 1..(Len(gs) - 1) PROVE gs[k + 1] = ~gs[k]
      <3>1. k \in 1..Len(gs) /\ k + 1 \in 1..Len(gs) /\ k + 1 \in 1..(Len(fs) - 1)
        BY <1>1, <2>1
      <3>2. gs[k] = fs[k + 1] /\ gs[k + 1] = fs[k + 1 + 1]
        BY <1>1, <3>1
      <3>3. QED BY <1>2, <3>1, <3>2
    <2>5. QED BY <1>4, <2>2, <2>3, <2>4 DEF Alternates, gs
  <1>5. QED BY <1>3, <1>4 DEF gs

(* The switch pauses only whom it has not paused, and resumes only whom it *)
(* has: what it sends flips what it sent last.                             *)
LEMMA SendFlips ==
  ASSUME TypeOK, NEW i \in Ingress,
         Admit(i) \/ \E n \in Sizes : Release(i, n)
  PROVE  /\ upPaused' = upPaused
         /\ \/ frames'[i] = frames[i] /\ paused'[i] = paused[i]
            \/ frames'[i] = Append(frames[i], ~paused[i]) /\ paused'[i] = ~paused[i]
  <1>1. CASE Admit(i)
    BY <1>1 DEF Admit, SendPfc, CheckShouldPause, TypeOK
  <1>2. CASE \E n \in Sizes : Release(i, n)
    BY <1>2 DEF Release, SendPfc, CheckShouldResume, TypeOK
  <1>3. QED BY <1>1, <1>2

(* FramesAlternate is inductive.                                           *)
LEMMA NextFramesAlternate ==
  TypedAndAccounted /\ FramesAlternate /\ [Next]_vars => FramesAlternate'
  <1> SUFFICES ASSUME TypeOK, Accounted, FramesAlternate, [Next]_vars
               PROVE  FramesAlternate'
    BY DEF TypedAndAccounted
  <1>1. ASSUME NEW j \in Ingress
        PROVE  /\ frames[j] \in Seq(BOOLEAN)
               /\ upPaused[j] \in BOOLEAN /\ paused[j] \in BOOLEAN
               /\ Alternates(frames[j], upPaused[j], paused[j])
    BY DEF TypeOK, FramesAlternate
  <1>2. ASSUME UNCHANGED <<frames, upPaused, paused>> PROVE FramesAlternate'
    BY <1>2 DEF FramesAlternate, Alternates
  <1>3. ASSUME NEW i \in Ingress, Admit(i) \/ \E n \in Sizes : Release(i, n)
        PROVE  FramesAlternate'
    <2> SUFFICES ASSUME NEW j \in Ingress
                 PROVE  Alternates(frames'[j], upPaused'[j], paused'[j])
      BY DEF FramesAlternate, Alternates
    <2>1. CASE j = i
      BY <1>1, <1>3, <2>1, SendFlips, AppendAlternates
    <2>2. CASE j # i
      <3>1. frames'[j] = frames[j] /\ paused'[j] = paused[j] /\ upPaused' = upPaused
        BY <1>3, <2>2, OthersUntouched, SendFlips
      <3>2. QED BY <1>1, <3>1
    <2>3. QED BY <2>1, <2>2
  <1>4. ASSUME NEW i \in Ingress, ReceivePfc(i) PROVE FramesAlternate'
    <2> SUFFICES ASSUME NEW j \in Ingress
                 PROVE  Alternates(frames'[j], upPaused'[j], paused'[j])
      BY DEF FramesAlternate, Alternates
    <2>1. /\ frames[i] # <<>> /\ paused' = paused
          /\ upPaused' = [upPaused EXCEPT ![i] = Head(frames[i])]
          /\ frames' = [frames EXCEPT ![i] = Tail(@)]
      BY <1>4 DEF ReceivePfc
    <2>2. CASE j = i
      <3>1. /\ frames'[j] = Tail(frames[i]) /\ upPaused'[j] = Head(frames[i])
            /\ paused'[j] = paused[i]
        BY <2>1, <2>2 DEF TypeOK
      <3>2. QED BY <1>1, <2>1, <3>1, TailAlternates
    <2>3. CASE j # i
      <3>1. frames'[j] = frames[j] /\ upPaused'[j] = upPaused[j] /\ paused'[j] = paused[j]
        BY <2>1, <2>3 DEF TypeOK
      <3>2. QED BY <1>1, <3>1
    <2>4. QED BY <2>2, <2>3
  <1>5. ASSUME NEW i \in Ingress, Drop(i) \/ \E n \in Sizes : Send(i, n)
        PROVE  FramesAlternate'
    BY <1>2, <1>5 DEF Drop, Send, mmuVars
  <1>6. CASE UNCHANGED vars
    BY <1>2, <1>6 DEF vars
  <1>7. QED BY <1>3, <1>4, <1>5, <1>6 DEF Next

-----------------------------------------------------------------------------
(* The sums over the ingresses.                                            *)

Uses == [i \in Ingress |-> GetSharedUsed(i)]

LEMMA IngressFinite == IsFiniteSet(Ingress)
  BY PfcAssumption, FS_Product DEF Ingress

LEMMA UsedIs == Used = SumFunctionOnSet(Uses, Ingress)
  <1>1. DOMAIN Uses = Ingress
    BY DEF Uses
  <1>2. Used = SumFunction(Uses)
    BY DEF Used, Uses
  <1>3. QED BY <1>1, <1>2 DEF SumFunction

LEMMA UsedIsNext == Used' = SumFunctionOnSet(Uses', Ingress)
  <1>1. DOMAIN Uses' = Ingress
    BY DEF Uses
  <1>2. Used' = SumFunction(Uses')
    BY DEF Used, Uses
  <1>3. QED BY <1>1, <1>2 DEF SumFunction

(* When one ingress changes, so does its share of the sum.                  *)
LEMMA UsedChange ==
  ASSUME TypeOK, NEW i \in Ingress, NEW b \in Nat, ingress' = [ingress EXCEPT ![i] = b]
  PROVE  Used' = Used - Excess(ingress[i]) + Excess(b)
  <1>1. ingress \in [Ingress -> Nat] /\ Reserve \in Nat
    BY PfcAssumption DEF TypeOK
  <1>2. \A j \in Ingress : Uses[j] = Excess(ingress[j]) /\ Uses'[j] = Excess(ingress'[j])
    BY DEF Uses, GetSharedUsed
  <1>3. \A j \in Ingress : Excess(ingress[j]) \in Int
    BY <1>1 DEF Excess
  <1>4. Excess(b) \in Int
    BY <1>1 DEF Excess
  <1>5. SumHas(Uses, Ingress)
    BY <1>2, <1>3, IngressFinite DEF SumHas
  <1>6. Uses'[i] = Excess(b) /\ \A j \in Ingress \ {i} : Uses'[j] = Uses[j]
    BY <1>1, <1>2
  <1>7. SumFunctionOnSet(Uses', Ingress)
          = SumFunctionOnSet(Uses, Ingress) - Uses[i] + Uses'[i]
    BY <1>4, <1>5, <1>6, SumChange
  <1>8. QED BY <1>2, <1>6, <1>7, UsedIs, UsedIsNext

(* Accounting and pool are exact: what an admission takes and a release gives
   back is what its ingress then uses more or less of the pool.            *)
LEMMA NextSharedExact == TypedAndAccounted /\ SharedExact /\ [Next]_vars => SharedExact'
  <1> SUFFICES ASSUME TypeOK, Accounted, shared = Used, [Next]_vars PROVE shared' = Used'
    BY DEF TypedAndAccounted, SharedExact
  <1>1. ASSUME ingress' = ingress PROVE Used' = Used
    BY <1>1 DEF Used, GetSharedUsed
  <1>2. ASSUME NEW i \in Ingress, Admit(i) PROVE shared' = Used'
    <2> DEFINE n == Head(wire[i])
    <2>1. n \in Nat \ {0} /\ UpdateIngressAdmission(i, n)
      BY <1>2, HeadInSizes DEF Admit
    <2> HIDE DEF n
    <2>2. CASE ToHeadroom(i, n)
      BY <1>1, <2>1, <2>2 DEF UpdateIngressAdmission
    <2>3. CASE ~ToHeadroom(i, n)
      <3>1. /\ ingress' = [ingress EXCEPT ![i] = ingress[i] + n]
            /\ shared' = shared + ToShared(i, n)
        BY <2>1, <2>3 DEF UpdateIngressAdmission
      <3>2. ingress[i] \in Nat /\ Reserve \in Nat /\ shared \in Int
        BY PfcAssumption DEF TypeOK
      <3>3. ToShared(i, n) = Excess(ingress[i] + n) - Excess(ingress[i])
        BY <2>1, <3>2 DEF ToShared, MinOf, Excess
      <3>4. Excess(ingress[i] + n) \in Int /\ Excess(ingress[i]) \in Int
        BY <2>1, <3>2 DEF Excess
      <3>5. Used' = Used - Excess(ingress[i]) + Excess(ingress[i] + n)
        <4>1. ingress[i] + n \in Nat
          BY <2>1, <3>2
        <4>2. QED BY <3>1, <4>1, UsedChange
      <3>6. QED BY <3>1, <3>2, <3>3, <3>4, <3>5
    <2>4. QED BY <2>2, <2>3
  <1>3. ASSUME NEW i \in Ingress, NEW n \in Sizes, Release(i, n) PROVE shared' = Used'
    <2> DEFINE k == FromIngress(i, n)
    <2>1. n \in Nat \ {0} /\ n <= stored[i] /\ RemoveFromIngressAdmission(i, n)
      BY <1>3, PfcAssumption DEF Release
    <2>2. /\ ingress[i] \in Nat /\ hdrm[i] \in Nat /\ stored[i] \in Nat /\ Reserve \in Nat
          /\ ingress[i] + hdrm[i] = stored[i] /\ shared \in Int
      BY PfcAssumption DEF TypeOK, Accounted
    <2>3. k \in Nat /\ ingress[i] - k \in Nat
      BY <2>1, <2>2 DEF FromIngress, FromHdrm, MinOf
    <2>4. /\ ingress' = [ingress EXCEPT ![i] = ingress[i] - k]
          /\ shared' = shared - MinOf(k, Excess(ingress[i]))
      BY <2>1 DEF RemoveFromIngressAdmission, GetSharedUsed
    <2> HIDE DEF k
    <2>5. MinOf(k, Excess(ingress[i])) = Excess(ingress[i]) - Excess(ingress[i] - k)
      BY <2>2, <2>3 DEF MinOf, Excess
    <2>6. Excess(ingress[i] - k) \in Int /\ Excess(ingress[i]) \in Int
      BY <2>2, <2>3 DEF Excess
    <2>7. Used' = Used - Excess(ingress[i]) + Excess(ingress[i] - k)
      BY <2>3, <2>4, UsedChange
    <2>8. QED BY <2>2, <2>4, <2>5, <2>6, <2>7
  <1>4. ASSUME NEW i \in Ingress, Drop(i) \/ ReceivePfc(i) \/ \E n \in Sizes : Send(i, n)
        PROVE  shared' = Used'
    BY <1>1, <1>4 DEF Drop, ReceivePfc, Send, mmuVars
  <1>5. CASE UNCHANGED vars
    BY <1>1, <1>5 DEF vars
  <1>6. QED BY <1>2, <1>3, <1>4, <1>5 DEF Next

LEMMA InitSharedExact == Init => SharedExact
  <1> SUFFICES ASSUME Init PROVE shared = Used
    BY DEF SharedExact
  <1>1. \A i \in Ingress : Uses[i] = 0
    BY PfcAssumption DEF Init, Uses, GetSharedUsed, Excess
  <1>2. SumFunctionOnSet(Uses, Ingress) = 0
    BY <1>1, IngressFinite, SumZero
  <1>3. QED BY <1>2, UsedIs DEF Init

(* An ingress stores at most its reserve, its headroom and what it uses of the
   pool; together, then, at most all of these and the pool.                *)
LEMMA StoredFits ==
  TypedAndAccounted /\ PauseInv /\ SharedExact /\ PoolBounded => BufferBounded
  <1> DEFINE Room == [i \in Ingress |-> Reserve + Headroom[i[1]]]
             Limit == [i \in Ingress |-> Uses[i] + Room[i]]
  <1> SUFFICES ASSUME TypeOK, Accounted, HeadroomBounded, shared = Used, shared <= Pool
               PROVE  SumFunction(stored) <= Pool + SumFunction(Room)
    BY DEF TypedAndAccounted, PauseInv, SharedExact, PoolBounded, BufferBounded
  <1>1. /\ DOMAIN stored = Ingress
        /\ SumFunction(stored) = SumFunctionOnSet(stored, Ingress)
        /\ SumFunction(Room) = SumFunctionOnSet(Room, Ingress)
    BY DEF TypeOK, SumFunction
  <1>2. /\ \A i \in Ingress : stored[i] \in Int /\ Uses[i] = Excess(ingress[i])
        /\ \A i \in Ingress : Room[i] = Reserve + Headroom[i[1]]
        /\ \A i \in Ingress : Limit[i] = Uses[i] + Room[i]
    BY DEF TypeOK, Uses, GetSharedUsed
  <1> HIDE DEF Room, Limit
  <1>3. ASSUME NEW i \in Ingress
        PROVE  Uses[i] \in Int /\ Room[i] \in Int /\ stored[i] <= Limit[i]
    <2>1. /\ ingress[i] \in Nat /\ hdrm[i] \in Nat /\ stored[i] = ingress[i] + hdrm[i]
          /\ hdrm[i] <= Headroom[i[1]]
      BY DEF TypeOK, Accounted, HeadroomBounded
    <2>2. Headroom[i[1]] \in Nat /\ Reserve \in Nat
      BY PfcAssumption DEF Ingress
    <2>3. Uses[i] \in Int /\ ingress[i] <= Uses[i] + Reserve
      BY <1>2, <2>1, <2>2 DEF Excess
    <2>4. QED BY <1>2, <2>1, <2>2, <2>3
  <1>4. SumHas(stored, Ingress) /\ SumHas(Uses, Ingress) /\ SumHas(Room, Ingress)
    BY <1>2, <1>3, IngressFinite DEF SumHas
  <1>5. SumHas(Limit, Ingress)
    BY <1>2, <1>3, IngressFinite DEF SumHas
  <1>6. SumFunctionOnSet(stored, Ingress) <= SumFunctionOnSet(Limit, Ingress)
    BY <1>3, <1>4, <1>5, SumMonotone
  <1>7. SumFunctionOnSet(Limit, Ingress)
          = SumFunctionOnSet(Uses, Ingress) + SumFunctionOnSet(Room, Ingress)
    BY <1>2, <1>4, SumPlus
  <1>8. /\ SumFunctionOnSet(stored, Ingress) \in Int /\ SumFunctionOnSet(Limit, Ingress) \in Int
        /\ SumFunctionOnSet(Uses, Ingress) \in Int /\ SumFunctionOnSet(Room, Ingress) \in Int
    BY <1>4, <1>5, SumInt
  <1>9. SumFunctionOnSet(Uses, Ingress) <= Pool
    BY UsedIs
  <1>10. QED BY <1>1, <1>6, <1>7, <1>8, <1>9, PfcAssumption

-----------------------------------------------------------------------------
(* The theorems.                                                           *)

(* Types, and Accounted: no byte leaks from the two ingress counters of
   RemoveFromIngressAdmission and neither subtraction wraps.               *)
THEOREM AlwaysAccounted == Spec => [](TypeOK /\ Accounted)
  <1>1. Init => TypedAndAccounted
    BY InitTypeOK DEF Init, TypedAndAccounted, Accounted
  <1>2. QED
    BY <1>1, NextTypedAndAccounted, PTL DEF Spec, TypedAndAccounted

(* The headroom is never overrun (CheckIngressAdmission), it is in use only
   while the far end is paused (CheckAndSendPfc), and the last packet to
   leave an ingress lifts its pause (CheckAndSendResume).                  *)
THEOREM PausesAreSound ==
  Spec => [](HeadroomBounded /\ HeadroomPaused /\ DrainedResumed)
  <1>1. Init => TypedAndAccounted /\ PauseInv
    BY InitTypeOK, PfcAssumption
       DEF Init, TypedAndAccounted, Accounted, PauseInv, HeadroomBounded,
           HeadroomPaused, DrainedResumed, Ingress
  <1>2. QED
    BY <1>1, NextTypedAndAccounted, NextPauseInv, PTL DEF Spec, PauseInv

(* A packet CheckIngressAdmission refuses had been preceded by a pause.    *)
THEOREM DropsOnlyWhenPaused == Spec => []DropOnlyPaused
  <1>1. TypedAndAccounted /\ PauseInv => DropOnlyPaused
    <2> SUFFICES ASSUME TypeOK, PauseInv, NEW i \in Ingress, NEW n \in Sizes,
                        n <= Headroom[i[1]], ~CheckIngressAdmission(i, n)
                 PROVE  paused[i]
      BY DEF TypedAndAccounted, DropOnlyPaused
    <2>1. hdrm[i] \in Nat /\ n \in Nat /\ Headroom[i[1]] \in Nat
      BY PfcAssumption DEF TypeOK, Ingress
    <2>2. hdrm[i] > 0
      BY <2>1 DEF CheckIngressAdmission
    <2>3. QED BY <2>2 DEF PauseInv, HeadroomPaused
  <1>2. Init => TypedAndAccounted /\ PauseInv
    BY InitTypeOK, PfcAssumption
       DEF Init, TypedAndAccounted, Accounted, PauseInv, HeadroomBounded,
           HeadroomPaused, DrainedResumed, Ingress
  <1>3. QED
    BY <1>1, <1>2, NextTypedAndAccounted, NextPauseInv, PTL DEF Spec

(* When every port has a dynamic threshold the pool is never overcommitted,
   and GetPfcThreshold never subtracts below zero.                         *)
THEOREM PoolNeverOvercommitted == Spec => []PoolBounded
  <1>1. Init => TypedAndAccounted /\ PoolBounded
    BY InitTypeOK, PfcAssumption
       DEF Init, TypedAndAccounted, Accounted, PoolBounded
  <1>2. QED
    BY <1>1, NextTypedAndAccounted, NextPoolBounded, PTL DEF Spec

(* Pauses and resumes alternate from SendPfc to Receive, and the assert of
   QbbNetDevice::Resume holds of every resume that arrives.                *)
THEOREM ResumesFollowPauses == Spec => [](FramesAlternate /\ ResumeFindsPause)
  <1>1. Init => TypedAndAccounted /\ FramesAlternate
    BY InitTypeOK
       DEF Init, TypedAndAccounted, Accounted, FramesAlternate, Alternates
  <1>2. TypedAndAccounted /\ FramesAlternate => ResumeFindsPause
    <2> SUFFICES ASSUME TypeOK, FramesAlternate, NEW i \in Ingress,
                        frames[i] # <<>>, ~Head(frames[i])
                 PROVE  upPaused[i]
      BY DEF TypedAndAccounted, ResumeFindsPause
    <2>1. frames[i][1] = ~upPaused[i] /\ upPaused[i] \in BOOLEAN
      BY DEF FramesAlternate, Alternates, TypeOK
    <2>2. frames[i] \in Seq(BOOLEAN)
      BY DEF TypeOK
    <2>3. Head(frames[i]) = frames[i][1]
      BY <2>2, HeadIsFirst
    <2>4. QED BY <2>1, <2>3
  <1>3. QED
    BY <1>1, <1>2, NextTypedAndAccounted, NextFramesAlternate, PTL DEF Spec

(* The tables of SwitchMmu and of the devices keep their types.             *)
THEOREM TypeCorrect == Spec => []TypeOK
  BY AlwaysAccounted, PTL

(* shared_used_bytes is what the ingresses together use of the pool, whatever
   the order in which RemoveFromIngressAdmission gives back what
   UpdateIngressAdmission took.                                             *)
THEOREM SharedUseIsExact == Spec => []SharedExact
  <1>1. Init => TypedAndAccounted /\ SharedExact
    BY InitTypeOK, InitSharedExact DEF Init, TypedAndAccounted, Accounted
  <1>2. QED
    BY <1>1, NextTypedAndAccounted, NextSharedExact, PTL DEF Spec

(* With dynamic thresholds the switch never stores more than pool, reserve and
   headroom: admission and accounting together keep what ConfigNPort divided. *)
THEOREM BufferNeverOverrun == Spec => []BufferBounded
  BY AlwaysAccounted, PausesAreSound, SharedUseIsExact, PoolNeverOvercommitted,
     StoredFits, PTL DEF TypedAndAccounted, PauseInv
=============================================================================
