---------------------------- MODULE CreditTimerProofs ----------------------------
(*****************************************************************************)
(* Theorems about CreditTimer, for every set of ports and destinations, every  *)
(* K and T and both modes.                                                     *)
(*****************************************************************************)
EXTENDS CreditTimer, TLAPS

USE TimerAssumption DEF TimerAssumption

(* Credits are covered by a time that has begun, and have waited for no longer *)
(* than that time runs.                                                        *)
Covering ==
  \A p \in Pair : /\ credits[p] > 0 => age[Key(p)] # Never
                  /\ waiting[p] = 0 \/ waiting[p] <= age[Key(p)]

TimerInv == TypeOK /\ OldestArmed /\ Covering

LEMMA KeyIsPair == \A p \in Pair : Key(p) \in Pair
  BY DEF Key, Pair

(* ResetCreditTimer restores OldestArmed whatever happened to the times.       *)
LEMMA ResetArms ==
  ASSUME age' \in [Pair -> {Never} \cup 0..T], ResetCreditTimer
  PROVE  /\ timer' \in {NoTimer} \cup {Armed(k, due) : k \in Pair, due \in 0..T}
         /\ OldestArmed'
<1>1. CASE \A k \in Pair : age'[k] = Never
  BY <1>1 DEF ResetCreditTimer, OldestArmed, NoTimer
<1>2. CASE ~(\A k \in Pair : age'[k] = Never)
  <2>1. PICK k \in Oldest(age') : timer' = Armed(k, T - age'[k])
    BY <1>2 DEF ResetCreditTimer
  <2>2. k \in Pair /\ age'[k] # Never /\ \A j \in Pair : age'[j] <= age'[k]
    BY <2>1 DEF Oldest
  <2>3. age'[k] \in 0..T /\ T - age'[k] \in 0..T
    BY <2>2
  <2>4. timer'.armed /\ timer'.key = k /\ timer'.due = T - age'[k]
    BY <2>1 DEF Armed
  <2>5. timer' \in {Armed(j, due) : j \in Pair, due \in 0..T}
    BY <2>1, <2>2, <2>3
  <2> QED BY <2>2, <2>4, <2>5 DEF OldestArmed
<1> QED BY <1>1, <1>2

(* Returning the credits of some times and starting these and others anew      *)
(* keeps what is left covered.                                                 *)
LEMMA ReturnCovers ==
  ASSUME TypeOK, Covering,
         NEW c \in [Pair -> Nat], NEW ks \in SUBSET Pair, NEW begun \in SUBSET Pair,
         ks \subseteq begun,
         \A p \in Pair : c[p] > 0 => credits[p] > 0 \/ age[Key(p)] # Never \/ Key(p) \in begun,
         \A k \in begun : k \in ks \/ age[k] = Never,
         credits' = Returned(c, ks), held' = held, waiting' = StillWaiting,
         age' = [k \in Pair |-> IF k \in begun THEN 0 ELSE age[k]]
  PROVE  Covering' /\ credits' \in [Pair -> Nat] /\ waiting' \in [Pair -> Nat]
<1>1. credits' \in [Pair -> Nat]
  BY DEF Returned
<1>2. waiting' \in [Pair -> Nat]
  BY DEF StillWaiting, TypeOK
<1>3. ASSUME NEW p \in Pair
      PROVE  /\ credits'[p] > 0 => age'[Key(p)] # Never
             /\ waiting'[p] = 0 \/ waiting'[p] <= age'[Key(p)]
  <2>1. Key(p) \in Pair
    BY KeyIsPair
  <2>2. p[2] \in Dst
    BY DEF Pair
  <2>3. credits'[p] > 0 => c[p] > 0
    BY DEF Returned
  <2>4. credits'[p] > 0 => age'[Key(p)] # Never
    BY <2>1, <2>3 DEF Covering, Never
  <2>5. CASE Key(p) \in ks
    <3>1. ~held[p[2]] => credits'[p] = 0
      BY <2>5 DEF Returned
    <3>2. waiting'[p] = 0
      BY <3>1 DEF StillWaiting, Waits
    <3> QED BY <2>4, <3>2
  <2>6. CASE Key(p) \in begun \ ks
    <3>1. age[Key(p)] = Never
      BY <2>6
    <3>2. waiting[p] = 0
      BY <2>1, <3>1 DEF Covering, TypeOK, Never
    <3>3. waiting'[p] = 0
      BY <3>2 DEF StillWaiting
    <3> QED BY <2>4, <3>3
  <2>7. CASE Key(p) \notin begun
    <3>1. age'[Key(p)] = age[Key(p)]
      BY <2>1, <2>7
    <3>2. waiting'[p] = 0 \/ waiting'[p] = waiting[p]
      BY DEF StillWaiting
    <3> QED BY <2>4, <3>1, <3>2 DEF Covering
  <2> QED BY <2>5, <2>6, <2>7
<1> QED BY <1>1, <1>2, <1>3 DEF Covering

LEMMA InitTimer == Init => TimerInv
  BY KeyIsPair DEF Init, TimerInv, TypeOK, OldestArmed, Covering, NoTimer, Never

LEMMA DequeueTimer ==
  ASSUME TimerInv, NEW p \in Pair, NEW n \in Sizes, Dequeue(p, n)
  PROVE  TimerInv'
<1> DEFINE counted == [credits EXCEPT ![p] = @ + n]
           full == {k \in Checked(p) : ReachesK(counted, k)}
           start == {k \in Checked(p) : age[k] = Never}
<1>1. counted \in [Pair -> Nat]
  BY DEF TimerInv, TypeOK
<1>2. Checked(p) \subseteq Pair /\ Key(p) \in Checked(p)
  <2>1. \A u \in Dev : <<u, p[2]>> \in Pair
    BY DEF Pair
  <2>2. p[1] \in Dev /\ p = <<p[1], p[2]>>
    BY DEF Pair
  <2> QED BY <2>1, <2>2, KeyIsPair DEF Checked
<1>3. full \in SUBSET Pair /\ start \in SUBSET Pair
  BY <1>2
<1>4. /\ credits' = Returned(counted, full)
      /\ age' = [k \in Pair |-> IF k \in full \cup start THEN 0 ELSE age[k]]
      /\ ResetCreditTimer /\ held' = held /\ waiting' = StillWaiting
  BY DEF Dequeue
<1>5. age' \in [Pair -> {Never} \cup 0..T]
  BY <1>4 DEF TimerInv, TypeOK
<1>6. \A q \in Pair : counted[q] > 0 => credits[q] > 0 \/ age[Key(q)] # Never
                                          \/ Key(q) \in full \cup start
  <2> SUFFICES ASSUME NEW q \in Pair, counted[q] > 0
               PROVE  credits[q] > 0 \/ age[Key(q)] # Never \/ Key(q) \in full \cup start
    OBVIOUS
  <2>1. CASE q = p
    BY <1>2, <2>1
  <2>2. CASE q # p
    BY <2>2 DEF TimerInv, TypeOK
  <2> QED BY <2>1, <2>2
<1>7. \A k \in full \cup start : k \in full \/ age[k] = Never
  OBVIOUS
<1> HIDE DEF counted, full, start
<1>8. Covering' /\ credits' \in [Pair -> Nat] /\ waiting' \in [Pair -> Nat]
  BY <1>1, <1>3, <1>4, <1>6, <1>7, ReturnCovers, ZenonT(60) DEF TimerInv
<1>9. /\ timer' \in {NoTimer} \cup {Armed(k, due) : k \in Pair, due \in 0..T}
      /\ OldestArmed'
  BY <1>4, <1>5, ResetArms
<1> QED BY <1>4, <1>5, <1>8, <1>9 DEF TimerInv, TypeOK

LEMMA CreditTimeoutTimer ==
  ASSUME TimerInv, CreditTimeout
  PROVE  TimerInv'
<1>1. timer.key \in Pair
  BY DEF CreditTimeout, TimerInv, TypeOK, NoTimer, Armed
<1> DEFINE ks == {timer.key}
<1>2. /\ credits' = Returned(credits, ks)
      /\ age' = [k \in Pair |-> IF k \in ks THEN 0 ELSE age[k]]
      /\ ResetCreditTimer /\ held' = held /\ waiting' = StillWaiting
  <2>1. age' = [age EXCEPT ![timer.key] = 0] /\ age \in [Pair -> {Never} \cup 0..T]
    BY DEF CreditTimeout, TimerInv, TypeOK
  <2>2. age' = [k \in Pair |-> IF k \in ks THEN 0 ELSE age[k]]
    BY <2>1
  <2> QED BY <2>2 DEF CreditTimeout
<1>3. age' \in [Pair -> {Never} \cup 0..T]
  BY <1>2 DEF TimerInv, TypeOK
<1>4. Covering' /\ credits' \in [Pair -> Nat] /\ waiting' \in [Pair -> Nat]
  <2>1. credits \in [Pair -> Nat] /\ ks \in SUBSET Pair /\ TypeOK /\ Covering
    BY <1>1 DEF TimerInv, TypeOK
  <2>2. \A k \in ks : k \in ks \/ age[k] = Never
    OBVIOUS
  <2> HIDE DEF ks
  <2> QED BY <1>2, <2>1, <2>2, ReturnCovers
<1>5. /\ timer' \in {NoTimer} \cup {Armed(k, due) : k \in Pair, due \in 0..T}
      /\ OldestArmed'
  BY <1>2, <1>3, ResetArms
<1> QED BY <1>2, <1>3, <1>4, <1>5 DEF TimerInv, TypeOK

LEMMA BufferTimer ==
  ASSUME TimerInv, NEW d \in Dst, Buffer(d)
  PROVE  TimerInv'
<1>1. /\ credits' = credits /\ age' = age /\ timer' = timer
      /\ held' \in [Dst -> BOOLEAN] /\ waiting' = StillWaiting
  BY DEF Buffer, TimerInv, TypeOK
<1>2. waiting' \in [Pair -> Nat] /\ \A p \in Pair : waiting'[p] = 0 \/ waiting'[p] = waiting[p]
  BY <1>1 DEF StillWaiting, TimerInv, TypeOK
<1>3. TypeOK'
  BY <1>1, <1>2 DEF TimerInv, TypeOK
<1>4. OldestArmed'
  BY <1>1 DEF TimerInv, OldestArmed
<1>5. Covering'
  BY <1>1, <1>2 DEF TimerInv, Covering
<1> QED BY <1>3, <1>4, <1>5 DEF TimerInv

LEMMA TickTimer ==
  ASSUME TimerInv, Tick
  PROVE  TimerInv'
<1>1. PICK k \in Pair, due \in 0..T : timer = Armed(k, due)
  BY DEF Tick, TimerInv, TypeOK, NoTimer
<1>2. timer.armed /\ timer.key = k /\ timer.due = due
  BY <1>1 DEF Armed
<1>3. due > 0 /\ timer' = Armed(k, due - 1)
  BY <1>1, <1>2 DEF Tick, Armed
<1>4. age[k] # Never /\ due = T - age[k] /\ \A j \in Pair : age[j] <= age[k]
  BY <1>2 DEF TimerInv, OldestArmed
<1>5. /\ credits' = credits /\ held' = held
      /\ age' = [j \in Pair |-> IF age[j] = Never THEN Never ELSE age[j] + 1]
      /\ waiting' = [p \in Pair |-> IF Waits(credits, held, p) THEN waiting[p] + 1 ELSE 0]
  BY DEF Tick
<1>6. age \in [Pair -> {Never} \cup 0..T] /\ waiting \in [Pair -> Nat]
  BY DEF TimerInv, TypeOK
<1>7. age' \in [Pair -> {Never} \cup 0..T]
  <2> SUFFICES ASSUME NEW j \in Pair, age[j] # Never
               PROVE  age[j] + 1 \in 0..T
    BY <1>5, <1>6
  <2>1. age[j] \in 0..T /\ age[k] \in 0..T /\ age[j] <= age[k]
    BY <1>4, <1>6
  <2> QED BY <1>3, <1>4, <2>1
<1>8. TypeOK'
  <2>1. waiting' \in [Pair -> Nat]
    BY <1>5, <1>6
  <2>2. due - 1 \in 0..T
    BY <1>3
  <2> QED BY <1>3, <1>5, <1>7, <2>1, <2>2 DEF TimerInv, TypeOK
<1>9. OldestArmed'
  <2>1. timer'.armed /\ timer'.key = k /\ timer'.due = due - 1
    BY <1>3 DEF Armed
  <2>2. age'[k] = age[k] + 1 /\ age[k] \in 0..T
    BY <1>4, <1>5, <1>6
  <2>3. \A j \in Pair : age'[j] <= age'[k]
    BY <1>4, <1>5, <1>6, <2>2 DEF Never
  <2>4. age'[k] # Never /\ due - 1 = T - age'[k]
    BY <1>4, <2>2 DEF Never
  <2> QED BY <2>1, <2>3, <2>4 DEF OldestArmed
<1>10. Covering'
  <2> SUFFICES ASSUME NEW p \in Pair
               PROVE  /\ credits'[p] > 0 => age'[Key(p)] # Never
                      /\ waiting'[p] = 0 \/ waiting'[p] <= age'[Key(p)]
    BY DEF Covering
  <2>1. Key(p) \in Pair
    BY KeyIsPair
  <2>2. credits'[p] > 0 => age[Key(p)] # Never /\ age'[Key(p)] = age[Key(p)] + 1
    BY <1>5, <2>1 DEF TimerInv, Covering
  <2>3. credits'[p] > 0 => age'[Key(p)] # Never
    BY <1>6, <2>1, <2>2 DEF Never
  <2>4. CASE Waits(credits, held, p)
    <3>1. credits'[p] > 0 /\ waiting'[p] = waiting[p] + 1
      BY <1>5, <2>4 DEF Waits
    <3>2. waiting[p] = 0 \/ waiting[p] <= age[Key(p)]
      BY DEF TimerInv, Covering
    <3>3. age[Key(p)] \in 0..T /\ waiting[p] \in Nat
      BY <1>6, <2>1, <2>2, <3>1
    <3> QED BY <2>2, <2>3, <3>1, <3>2, <3>3
  <2>5. CASE ~Waits(credits, held, p)
    BY <1>5, <2>3, <2>5
  <2> QED BY <2>4, <2>5
<1> QED BY <1>8, <1>9, <1>10 DEF TimerInv

LEMMA NextTimer == TimerInv /\ [Next]_vars => TimerInv'
<1> SUFFICES ASSUME TimerInv, [Next]_vars PROVE TimerInv'
  OBVIOUS
<1>1. CASE UNCHANGED vars
  BY <1>1 DEF vars, TimerInv, TypeOK, OldestArmed, Covering
<1>2. CASE Next
  BY <1>2, DequeueTimer, CreditTimeoutTimer, BufferTimer, TickTimer DEF Next
<1> QED BY <1>1, <1>2

LEMMA TimerInvariant == Spec => []TimerInv
  BY InitTimer, NextTimer, PTL DEF Spec

(* The timer always follows the oldest time and is never overdue: the assert   *)
(* of ResetCreditTimer, and no time is forgotten.                              *)
THEOREM TimerFollowsOldest == Spec => [](TypeOK /\ OldestArmed)
<1>1. TimerInv => TypeOK /\ OldestArmed
  BY DEF TimerInv
<1> QED BY <1>1, TimerInvariant, PTL

(* Credits that are not held back go back within T: K, the expiry and the      *)
(* delayed SwitchACKs set one timer anew and none of them loses another's.     *)
THEOREM CreditsReturnInTime == Spec => []ReturnedInTime
<1>1. TimerInv => ReturnedInTime
  <2> SUFFICES ASSUME TimerInv, NEW p \in Pair PROVE waiting[p] <= T
    BY DEF ReturnedInTime
  <2>1. Key(p) \in Pair
    BY KeyIsPair
  <2>2. age[Key(p)] \in {Never} \cup 0..T /\ waiting[p] \in Nat
    BY <2>1 DEF TimerInv, TypeOK
  <2>3. waiting[p] = 0 \/ waiting[p] <= age[Key(p)]
    BY DEF TimerInv, Covering
  <2> QED BY <2>2, <2>3 DEF Never
<1> QED BY <1>1, TimerInvariant, PTL

(* The counters, times and the timer of CreditTimer keep their types.          *)
THEOREM TypeCorrect == Spec => []TypeOK
  BY TimerFollowsOldest, PTL
==================================================================================
