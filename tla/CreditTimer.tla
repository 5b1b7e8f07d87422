------------------------------- MODULE CreditTimer -------------------------------
(*****************************************************************************)
(* The credit timer of a downstream switch (switch_credit_interval > 0): the   *)
(* one timer of the switch follows whoever was sent a SwitchACK the longest    *)
(* ago, and returns the credits that K does not. Credits are relative, of one  *)
(* counter per ingress and destination; the timer keeps a time for each of     *)
(* them (SWITCH_DST_CREDIT) or one per ingress (SWITCH_INGRESS_CREDIT, under   *)
(* destination 0).                                                             *)
(* Time is discrete and relative to now: an event that is due happens before   *)
(* the clock moves, in any order with the other events of that instant.        *)
(*****************************************************************************)
EXTENDS Integers, FiniteSetsExt

CONSTANTS
  Dev,        \* the upstream ports
  Dst,        \* the destinations, 0 among them
  PerDst,     \* SWITCH_DST_CREDIT, else SWITCH_INGRESS_CREDIT
  DelayAcks,  \* switch_ack_th_m > 0
  K,          \* switch_byte_counter
  T,          \* switch_credit_interval
  Sizes,      \* of packets
  MaxCredit   \* bound: bytes counted and not returned, per ingress and destination

ASSUME TimerAssumption ==
  /\ 0 \in Dst
  /\ PerDst \in BOOLEAN /\ DelayAcks \in BOOLEAN
  /\ K \in Nat \ {0} /\ T \in Nat \ {0}
  /\ Sizes \subseteq Nat \ {0} /\ MaxCredit \in Nat

VARIABLES
  credits,    \* m_ingressDstCredits
  held,       \* m_buffering of a destination is above m_th_ack
  age,        \* now - m_ingressLastTime, Never for Time(0)
  timer,      \* m_creditTimer: whose it is and in how long it expires
  waiting     \* history: for how long credits could have been returned

vars == <<credits, held, age, timer, waiting>>

Pair == Dev \X Dst
Never == -1
NoTimer == [armed |-> FALSE]
Armed(k, due) == [armed |-> TRUE, key |-> k, due |-> due]

TypeOK ==
  /\ credits \in [Pair -> Nat]
  /\ held \in [Dst -> BOOLEAN]
  /\ age \in [Pair -> {Never} \cup 0..T]
  /\ timer \in {NoTimer} \cup {Armed(k, due) : k \in Pair, due \in 0..T}
  /\ waiting \in [Pair -> Nat]

Init ==
  /\ credits = [p \in Pair |-> 0]
  /\ held = [d \in Dst |-> FALSE]
  /\ age = [p \in Pair |-> Never]
  /\ timer = NoTimer
  /\ waiting = [p \in Pair |-> 0]

(* Whose time covers the credits of a pair, and the pairs a time covers.       *)
Key(p) == IF PerDst THEN p ELSE <<p[1], 0>>
Covered(k) == {p \in Pair : Key(p) = k}

(* GetIngressDstCreditCounter: what may be returned now.                       *)
Owed(c, p) == IF held[p[2]] THEN 0 ELSE c[p]

Returned(c, ks) == [p \in Pair |-> IF Key(p) \in ks /\ ~held[p[2]] THEN 0 ELSE c[p]]

(* ResetCreditTimer: the oldest of those that ever began; on a tie the first   *)
(* in the order of the loops, here any.                                        *)
Oldest_Newest(a) ==
  {k \in Pair : a[k] # Never /\ \A j \in Pair : a[j] # Never => a[j] >= a[k]}
Oldest(a) == {k \in Pair : a[k] # Never /\ \A j \in Pair : a[j] <= a[k]}

ResetCreditTimer ==
  timer' \in IF \A k \in Pair : age'[k] = Never THEN {NoTimer}
             ELSE {Armed(k, T - age'[k]) : k \in Oldest(age')}

Waits(c, h, p) == c[p] > 0 /\ ~h[p[2]]
StillWaiting == [p \in Pair |-> IF Waits(credits', held', p) THEN waiting[p] ELSE 0]
------------------------------------------------------------------------------
(* SwitchNotifyDequeue: counts the packet, starts the times that have not      *)
(* begun, and returns what has reached K. With delayed SwitchACKs it looks at  *)
(* every upstream.                                                             *)
Checked(p) == {Key(<<u, p[2]>>) : u \in IF DelayAcks THEN Dev ELSE {p[1]}}

ReachesK(c, k) == MapThenSumSet(LAMBDA p : Owed(c, p), Covered(k)) >= K

Dequeue_NoStart(p, n) ==
  /\ credits[p] + n <= MaxCredit
  /\ LET counted == [credits EXCEPT ![p] = @ + n]
         full == {k \in Checked(p) : ReachesK(counted, k)}
     IN /\ credits' = Returned(counted, full)
        /\ age' = [k \in Pair |-> IF k \in full THEN 0 ELSE age[k]]
  /\ ResetCreditTimer
  /\ UNCHANGED held
  /\ waiting' = StillWaiting
Dequeue(p, n) ==
  /\ credits[p] + n <= MaxCredit
  /\ LET counted == [credits EXCEPT ![p] = @ + n]
         full == {k \in Checked(p) : ReachesK(counted, k)}
         start == {k \in Checked(p) : age[k] = Never}
     IN /\ credits' = Returned(counted, full)
        /\ age' = [k \in Pair |-> IF k \in full \cup start THEN 0 ELSE age[k]]
  /\ ResetCreditTimer
  /\ UNCHANGED held
  /\ waiting' = StillWaiting

(* CreditTimeout: what is owed goes back; the time starts anew in any case.    *)
CreditTimeout_OnlyIfSent ==
  /\ timer.armed /\ timer.due = 0
  /\ credits' = Returned(credits, {timer.key})
  /\ IF \E p \in Covered(timer.key) : Owed(credits, p) > 0
     THEN age' = [age EXCEPT ![timer.key] = 0] /\ ResetCreditTimer
     ELSE UNCHANGED age /\ timer' = NoTimer
  /\ UNCHANGED held
  /\ waiting' = StillWaiting
CreditTimeout ==
  /\ timer.armed /\ timer.due = 0
  /\ credits' = Returned(credits, {timer.key})
  /\ age' = [age EXCEPT ![timer.key] = 0]
  /\ ResetCreditTimer
  /\ UNCHANGED held
  /\ waiting' = StillWaiting

(* UpdateBufferingCount moves the buffered bytes of a destination across the   *)
(* threshold of the delayed SwitchACKs.                                        *)
Buffer(d) ==
  /\ DelayAcks
  /\ held' = [held EXCEPT ![d] = ~@]
  /\ UNCHANGED <<credits, age, timer>>
  /\ waiting' = StillWaiting

Tick ==
  /\ timer.armed /\ timer.due > 0
  /\ timer' = [timer EXCEPT !.due = @ - 1]
  /\ age' = [k \in Pair |-> IF age[k] = Never THEN Never ELSE age[k] + 1]
  /\ waiting' = [p \in Pair |-> IF Waits(credits, held, p) THEN waiting[p] + 1 ELSE 0]
  /\ UNCHANGED <<credits, held>>

Next ==
  \/ \E p \in Pair, n \in Sizes : Dequeue(p, n)
  \/ CreditTimeout
  \/ \E d \in Dst : Buffer(d)
  \/ Tick

Spec == Init /\ [][Next]_vars
------------------------------------------------------------------------------
(* The timer is that of the oldest time and expires T after it; it runs from   *)
(* the first packet on, whichever of K, the expiry or a first packet set it    *)
(* last. With TypeOK: the assert of ResetCreditTimer that it is not overdue.   *)
OldestArmed ==
  IF timer.armed
  THEN /\ age[timer.key] # Never
       /\ timer.due = T - age[timer.key]
       /\ \A k \in Pair : age[k] <= age[timer.key]
  ELSE \A k \in Pair : age[k] = Never

(* What the timer is for: no credits wait longer than T except while they are  *)
(* held back, although one timer serves every ingress and destination, and is  *)
(* cancelled and set anew by all of them.                                      *)
ReturnedInTime == \A p \in Pair : waiting[p] <= T
==================================================================================
