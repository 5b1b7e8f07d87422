---------------------------- MODULE AbsolutePSNProofs ----------------------------
(*****************************************************************************)
(* Theorems about AbsolutePSN, for every packet size, window, K and mode and   *)
(* whatever is lost.                                                           *)
(*****************************************************************************)
EXTENDS AbsolutePSN, TLAPS

LEMMA AppendAt ==
  ASSUME NEW S, NEW s \in Seq(S), NEW e \in S
  PROVE  /\ Append(s, e) \in Seq(S)
         /\ Len(Append(s, e)) = Len(s) + 1
         /\ \A i \in 1..Len(s) : Append(s, e)[i] = s[i]
         /\ Append(s, e)[Len(s) + 1] = e
  OBVIOUS

LEMMA TailAt ==
  ASSUME NEW S, NEW s \in Seq(S), s # <<>>
  PROVE  /\ Head(s) = s[1] /\ 1 \in 1..Len(s)
         /\ Tail(s) \in Seq(S)
         /\ Len(Tail(s)) = Len(s) - 1
         /\ \A i \in 1..Len(Tail(s)) : Tail(s)[i] = s[i + 1] /\ i + 1 \in 1..Len(s)
  OBVIOUS

(* A packet leaves from anywhere: the others keep their order.                 *)
LEMMA WithoutAt ==
  ASSUME NEW S, NEW s \in Seq(S), NEW i \in 1..Len(s)
  PROVE  /\ Without(s, i) \in Seq(S)
         /\ Len(Without(s, i)) = Len(s) - 1
         /\ \A j \in 1..Len(Without(s, i)) :
              \/ j < i /\ j \in 1..Len(s) /\ Without(s, i)[j] = s[j]
              \/ j >= i /\ j + 1 \in 1..Len(s) /\ Without(s, i)[j] = s[j + 1]
<1>1. Len(s) - 1 \in Nat
  OBVIOUS
<1>2. \A j \in 1..Len(s) - 1 : j \in 1..Len(s) /\ j + 1 \in 1..Len(s)
  OBVIOUS
<1>3. \A j \in 1..Len(s) : s[j] \in S
  OBVIOUS
<1>4. Without(s, i) \in [1..Len(s) - 1 -> S]
  BY <1>2, <1>3 DEF Without
<1>5. Without(s, i) \in Seq(S) /\ Len(Without(s, i)) = Len(s) - 1
  BY <1>1, <1>4
<1> QED BY <1>2, <1>5 DEF Without

LEMMA MoveTerm == \A a, b, c \in Int : a - b <= c => a <= b + c
  OBVIOUS

LEMMA ModBelow == \A a \in Nat, w \in Nat \ {0} : a % w <= a
  OBVIOUS
------------------------------------------------------------------------------
(* Packets arrive and leave in the order of their PSNs.                        *)
Rising ==
  /\ \A i, j \in 1..Len(stored) : i < j => stored[i] < stored[j]
  /\ \A i, j \in 1..Len(wire) :
       i < j /\ wire[i].kind = "data" /\ wire[j].kind = "data" => wire[i].data < wire[j].data
  /\ \A i, j \in 1..Len(egress) : i < j => egress[i] < egress[j]
  /\ \A i \in 1..Len(stored), j \in 1..Len(wire) : wire[j].kind = "data" => stored[i] < wire[j].data
  /\ \A i \in 1..Len(stored), j \in 1..Len(egress) : stored[i] < egress[j]
  /\ \A i \in 1..Len(wire), j \in 1..Len(egress) : wire[i].kind = "data" => wire[i].data < egress[j]

(* A packet under way is not given up, except by a SYN or, when it is stored,  *)
(* by one that overtakes it.                                                   *)
Pending(p) == p > nxtAck \/ p <= forgiven

UnderWay ==
  /\ \A i \in 1..Len(stored) : stored[i] <= rcvData /\ Pending(stored[i])
  /\ \A i \in 1..Len(wire) : wire[i].kind = "data" => Pending(wire[i].data)
  /\ \A i \in 1..Len(egress) : egress[i] <= nxtData /\ Pending(egress[i])

WindowKept == nxtData - rcvAck <= Win

PsnInv == TypeOK /\ PsnsOrdered /\ Rising /\ UnderWay /\ WindowKept

LEMMA Typed ==
  ASSUME TypeOK
  PROVE  /\ nxtData \in Nat /\ rcvAck \in Nat /\ rcvData \in Nat /\ nxtAck \in Nat
         /\ lstAck \in Nat /\ forgiven \in Nat
         /\ Len(stored) \in Nat /\ Len(wire) \in Nat /\ Len(egress) \in Nat /\ Len(acks) \in Nat
         /\ \A i \in 1..Len(stored) : stored[i] \in Nat
         /\ \A i \in 1..Len(wire) : wire[i].data \in Nat /\ wire[i].ack \in Nat
         /\ \A i \in 1..Len(egress) : egress[i] \in Nat
         /\ \A i \in 1..Len(acks) : acks[i] \in Nat
<1>1. Psn \subseteq Nat
  BY PSNAssumption DEF PSNAssumption, Psn
<1>2. \A i \in 1..Len(wire) : wire[i] \in Frame
  BY DEF TypeOK
<1>3. \A i \in 1..Len(wire) : wire[i].data \in Psn /\ wire[i].ack \in Psn
  BY <1>2 DEF Frame
<1>4. /\ stored \in Seq(Psn) /\ egress \in Seq(Psn) /\ acks \in Seq(Psn) /\ wire \in Seq(Frame)
  BY DEF TypeOK
<1>5. \A i \in 1..Len(stored) : stored[i] \in Psn
  BY <1>4
<1>6. \A i \in 1..Len(egress) : egress[i] \in Psn
  BY <1>4
<1>7. \A i \in 1..Len(acks) : acks[i] \in Psn
  BY <1>4
<1>8. Len(stored) \in Nat /\ Len(wire) \in Nat /\ Len(egress) \in Nat /\ Len(acks) \in Nat
  BY <1>4
<1>9. /\ nxtData \in Psn /\ rcvAck \in Psn /\ rcvData \in Psn /\ nxtAck \in Psn
      /\ lstAck \in Psn /\ forgiven \in Psn
  BY DEF TypeOK
<1> QED BY <1>1, <1>3, <1>5, <1>6, <1>7, <1>8, <1>9

LEMMA InitPsn == Init => PsnInv
<1> SUFFICES ASSUME Init PROVE PsnInv
  OBVIOUS
<1>1. 0 \in Psn
  BY PSNAssumption DEF PSNAssumption, Psn
<1>2. TypeOK
  <2>1. /\ nxtData \in Psn /\ rcvAck \in Psn /\ rcvData \in Psn /\ nxtAck \in Psn
        /\ lstAck \in Psn /\ forgiven \in Psn
    BY <1>1 DEF Init
  <2>2. recent \in BOOLEAN /\ synTimer \in BOOLEAN /\ impaired \in BOOLEAN
    BY Zenon DEF Init
  <2>3. egress = <<>> /\ wire = <<>> /\ acks = <<>> /\ stored = <<>>
    BY DEF Init
  <2>4. egress \in Seq(Psn) /\ wire \in Seq(Frame) /\ acks \in Seq(Psn) /\ stored \in Seq(Psn)
    BY <2>3
  <2> QED BY <2>1, <2>2, <2>4 DEF TypeOK
<1>3. PsnsOrdered /\ Rising /\ UnderWay
  BY DEF Init, PsnsOrdered, Rising, UnderWay
<1>4. WindowKept
  BY PSNAssumption DEF PSNAssumption, Init, WindowKept
<1> QED BY <1>2, <1>3, <1>4 DEF PsnInv

LEMMA SendPsn ==
  ASSUME PsnInv, NEW n \in Sizes, Send(n)
  PROVE  PsnInv'
<1>1. /\ nxtData \in Psn /\ n \in Nat /\ n > 0 /\ nxtData + n \in Psn
      /\ egress \in Seq(Psn)
  BY PSNAssumption DEF PSNAssumption, Send, PsnInv, TypeOK, Psn
<1>2. /\ nxtData' = nxtData + n /\ egress' = Append(egress, nxtData + n)
      /\ UNCHANGED <<rcvAck, recent, synTimer, wire, acks, rcvData, nxtAck, lstAck, stored,
                     forgiven, impaired>>
  BY DEF Send, downstream, history
<1>3. /\ egress' \in Seq(Psn) /\ Len(egress') = Len(egress) + 1
      /\ \A i \in 1..Len(egress) : egress'[i] = egress[i]
      /\ egress'[Len(egress) + 1] = nxtData'
  BY <1>1, <1>2, AppendAt
<1>4. TypeOK'
  BY <1>1, <1>2, <1>3 DEF PsnInv, TypeOK
<1>5. /\ nxtData \in Nat /\ rcvAck \in Nat /\ rcvData \in Nat /\ nxtAck \in Nat /\ Len(egress) \in Nat
      /\ \A i \in 1..Len(stored) : stored[i] \in Nat
      /\ \A i \in 1..Len(wire) : wire[i].data \in Nat
      /\ \A i \in 1..Len(egress) : egress[i] \in Nat
  BY Typed DEF PsnInv
<1>6. PsnsOrdered'
  BY <1>1, <1>2, <1>5 DEF PsnInv, PsnsOrdered
<1>7. Rising'
  <2>1. /\ \A i \in 1..Len(stored) : stored[i] <= rcvData
        /\ rcvData <= nxtData
        /\ \A i \in 1..Len(wire) : wire[i].data <= nxtData
        /\ \A i \in 1..Len(egress) : egress[i] <= nxtData
    BY DEF PsnInv, PsnsOrdered, UnderWay
  <2>2. \A i, j \in 1..Len(egress') : i < j => egress'[i] < egress'[j]
    <3> SUFFICES ASSUME NEW i \in 1..Len(egress'), NEW j \in 1..Len(egress'), i < j
                 PROVE  egress'[i] < egress'[j]
      OBVIOUS
    <3>1. i \in 1..Len(egress) /\ egress'[i] = egress[i] /\ egress[i] <= nxtData
      BY <1>3, <1>5, <2>1
    <3>2. CASE j \in 1..Len(egress)
      BY <1>3, <3>1, <3>2 DEF PsnInv, Rising
    <3>3. CASE j = Len(egress) + 1
      BY <1>1, <1>2, <1>3, <1>5, <3>1, <3>3
    <3> QED BY <1>3, <1>5, <3>2, <3>3
  <2>3. \A i \in 1..Len(stored), j \in 1..Len(egress') : stored[i] < egress'[j]
    BY <1>1, <1>2, <1>3, <1>5, <2>1 DEF PsnInv, Rising
  <2>4. \A i \in 1..Len(wire), j \in 1..Len(egress') :
          wire[i].kind = "data" => wire[i].data < egress'[j]
    BY <1>1, <1>2, <1>3, <1>5, <2>1 DEF PsnInv, Rising
  <2> QED BY <1>2, <2>2, <2>3, <2>4 DEF PsnInv, Rising
<1>8. UnderWay'
  <2>1. nxtData' > nxtAck
    BY <1>1, <1>2, <1>5 DEF PsnInv, PsnsOrdered
  <2>2. \A i \in 1..Len(egress') : egress'[i] <= nxtData' /\ Pending(egress'[i])
    BY <1>1, <1>2, <1>3, <1>5, <2>1 DEF PsnInv, UnderWay, Pending
  <2> QED BY <1>2, <2>2 DEF PsnInv, UnderWay, Pending
<1>9. WindowKept'
  BY <1>1, <1>2, <1>5, PSNAssumption DEF PSNAssumption, Send, CheckDstWin, WindowKept
<1> QED BY <1>4, <1>6, <1>7, <1>8, <1>9 DEF PsnInv

LEMMA TransmitPsn ==
  ASSUME PsnInv, Transmit
  PROVE  PsnInv'
<1>1. /\ egress \in Seq(Psn) /\ egress # <<>> /\ wire \in Seq(Frame)
  BY DEF Transmit, PsnInv, TypeOK
<1>2. /\ Head(egress) = egress[1] /\ egress[1] \in Psn /\ 1 \in 1..Len(egress)
      /\ Tail(egress) \in Seq(Psn) /\ Len(Tail(egress)) = Len(egress) - 1
      /\ \A i \in 1..Len(Tail(egress)) : Tail(egress)[i] = egress[i + 1] /\ i + 1 \in 1..Len(egress)
  BY <1>1, TailAt
<1>3. /\ wire' = Append(wire, Data(egress[1])) /\ egress' = Tail(egress)
      /\ UNCHANGED <<nxtData, rcvAck, recent, synTimer, acks, rcvData, nxtAck, lstAck, stored,
                     forgiven, impaired>>
  BY <1>2 DEF Transmit, upstream, downstream, history
<1>4. /\ Data(egress[1]) \in Frame /\ Data(egress[1]).kind = "data" /\ Data(egress[1]).ack = 0
      /\ Data(egress[1]).data = egress[1]
  BY <1>2, PSNAssumption DEF PSNAssumption, Data, Frame, Psn
<1>5. /\ wire' \in Seq(Frame) /\ Len(wire') = Len(wire) + 1
      /\ \A i \in 1..Len(wire) : wire'[i] = wire[i]
      /\ wire'[Len(wire) + 1] = Data(egress[1])
  BY <1>1, <1>3, <1>4, AppendAt
<1>6. TypeOK'
  BY <1>2, <1>3, <1>5 DEF PsnInv, TypeOK
<1>7. PsnsOrdered'
  <2>1. 0 <= rcvAck /\ egress[1] <= nxtData
    BY <1>2, Typed DEF PsnInv, UnderWay
  <2>2. \A i \in 1..Len(wire') : wire'[i].ack <= rcvAck /\ wire'[i].data <= nxtData
    BY <1>1, <1>4, <1>5, <2>1 DEF PsnInv, PsnsOrdered
  <2> QED BY <1>3, <2>2 DEF PsnInv, PsnsOrdered
<1>8. Rising'
  <2>1. \A i, j \in 1..Len(egress') : i < j => egress'[i] < egress'[j]
    <3> SUFFICES ASSUME NEW i \in 1..Len(egress'), NEW j \in 1..Len(egress'), i < j
                 PROVE  egress'[i] < egress'[j]
      OBVIOUS
    <3>1. /\ i + 1 \in 1..Len(egress) /\ j + 1 \in 1..Len(egress) /\ i + 1 < j + 1
          /\ egress'[i] = egress[i + 1] /\ egress'[j] = egress[j + 1]
      BY <1>2, <1>3
    <3> QED BY <3>1 DEF PsnInv, Rising
  <2>2. \A i, j \in 1..Len(wire') :
          i < j /\ wire'[i].kind = "data" /\ wire'[j].kind = "data" => wire'[i].data < wire'[j].data
    BY <1>1, <1>2, <1>4, <1>5 DEF PsnInv, Rising
  <2>3. \A i \in 1..Len(stored), j \in 1..Len(wire') : wire'[j].kind = "data" => stored[i] < wire'[j].data
    BY <1>1, <1>2, <1>4, <1>5 DEF PsnInv, Rising
  <2>4. \A i \in 1..Len(stored), j \in 1..Len(egress') : stored[i] < egress'[j]
    BY <1>2, <1>3 DEF PsnInv, Rising
  <2>5. \A i \in 1..Len(wire'), j \in 1..Len(egress') : wire'[i].kind = "data" => wire'[i].data < egress'[j]
    BY <1>1, <1>2, <1>3, <1>4, <1>5 DEF PsnInv, Rising
  <2> QED BY <1>3, <2>1, <2>2, <2>3, <2>4, <2>5 DEF PsnInv, Rising
<1>9. UnderWay'
  BY <1>2, <1>3, <1>4, <1>5 DEF PsnInv, UnderWay, Pending
<1>10. WindowKept'
  BY <1>3 DEF PsnInv, WindowKept
<1> QED BY <1>6, <1>7, <1>8, <1>9, <1>10 DEF PsnInv

LEMMA SynTimeoutPsn ==
  ASSUME PsnInv, SynTimeout
  PROVE  PsnInv'
<1>1. /\ recent' = FALSE
      /\ UNCHANGED <<nxtData, rcvAck, synTimer, egress, acks, rcvData, nxtAck, lstAck, stored,
                     forgiven, impaired>>
  BY DEF SynTimeout, downstream, history
<1>2. /\ nxtData \in Psn /\ rcvAck \in Psn /\ 0 \in Psn /\ wire \in Seq(Frame)
      /\ Len(wire) \in Nat /\ nxtData \in Nat /\ rcvAck \in Nat
  BY Typed, PSNAssumption DEF PSNAssumption, PsnInv, TypeOK, Psn
<1>3. CASE wire' = wire
  <2>1. TypeOK'
    BY <1>1, <1>2, <1>3 DEF PsnInv, TypeOK
  <2> QED BY <1>1, <1>3, <2>1 DEF PsnInv, PsnsOrdered, Rising, UnderWay, Pending, WindowKept
<1>4. CASE wire' # wire
  <2>1. PICK f \in {Syn(rcvAck, nxtData), Syn(0, 0)} : wire' = Append(wire, f)
    BY <1>4 DEF SynTimeout
  <2>2. /\ f \in Frame /\ f.kind = "syn" /\ f.ack <= rcvAck /\ f.data <= nxtData
    BY <1>2 DEF Syn, Frame
  <2>3. /\ wire' \in Seq(Frame) /\ Len(wire') = Len(wire) + 1
        /\ \A i \in 1..Len(wire) : wire'[i] = wire[i]
        /\ wire'[Len(wire) + 1] = f
    BY <1>2, <2>1, <2>2, AppendAt
  <2>4. TypeOK'
    BY <1>1, <1>2, <2>3 DEF PsnInv, TypeOK
  <2>5. PsnsOrdered'
    <3>1. \A i \in 1..Len(wire') : wire'[i].ack <= rcvAck /\ wire'[i].data <= nxtData
      BY <1>2, <2>2, <2>3 DEF PsnInv, PsnsOrdered
    <3> QED BY <1>1, <3>1 DEF PsnInv, PsnsOrdered
  <2>6. \A i \in 1..Len(wire') : wire'[i].kind = "data" => i \in 1..Len(wire) /\ wire'[i] = wire[i]
    BY <1>2, <2>2, <2>3
  <2>7. Rising'
    BY <1>1, <2>6 DEF PsnInv, Rising
  <2>8. UnderWay'
    BY <1>1, <2>6 DEF PsnInv, UnderWay, Pending
  <2> QED BY <1>1, <2>4, <2>5, <2>7, <2>8 DEF PsnInv, WindowKept
<1> QED BY <1>3, <1>4

(* RecoverWin never moves past the SwitchACK, nor back.                        *)
LEMMA Recovering ==
  ASSUME NEW a \in Nat, rcvAck \in Nat
  PROVE  RecoverWin(a) \in {a, rcvAck} /\ RecoverWin(a) >= rcvAck
<1>1. a % Word <= a /\ a % Word \in Int
  BY PSNAssumption, ModBelow DEF PSNAssumption
<1> QED BY <1>1 DEF RecoverWin

LEMMA ReceiveAckPsn ==
  ASSUME PsnInv, ReceiveAck
  PROVE  PsnInv'
<1>1. /\ rcvAck' = RecoverWin(Head(acks)) /\ acks' = Tail(acks) /\ synTimer' = TRUE
      /\ recent' = (recent \/ PerDst \/ Head(acks) > 0)
      /\ UNCHANGED <<nxtData, egress, wire, rcvData, nxtAck, lstAck, stored, forgiven, impaired>>
  BY DEF ReceiveAck, downstream, history
<1>2. acks \in Seq(Psn) /\ acks # <<>>
  BY DEF ReceiveAck, PsnInv, TypeOK
<1>3. /\ Head(acks) = acks[1] /\ 1 \in 1..Len(acks)
      /\ Tail(acks) \in Seq(Psn)
      /\ \A i \in 1..Len(Tail(acks)) : Tail(acks)[i] = acks[i + 1] /\ i + 1 \in 1..Len(acks)
  BY <1>2, TailAt
<1>4. /\ acks[1] \in Psn /\ acks[1] \in Nat /\ acks[1] <= lstAck
      /\ nxtData \in Nat /\ rcvAck \in Nat /\ rcvAck \in Psn /\ lstAck \in Nat /\ Len(wire) \in Nat
      /\ \A i \in 1..Len(wire) : wire[i].ack \in Nat
  BY <1>2, <1>3, Typed DEF PsnInv, PsnsOrdered, TypeOK
<1>5. rcvAck' \in {acks[1], rcvAck} /\ rcvAck' >= rcvAck
  BY <1>1, <1>3, <1>4, Recovering
<1>6. TypeOK'
  <2>1. recent' \in BOOLEAN
    <3>1. recent \in BOOLEAN
      BY DEF PsnInv, TypeOK
    <3> QED BY <1>1, <3>1, Zenon
  <2> QED BY <1>1, <1>3, <1>4, <1>5, <2>1 DEF PsnInv, TypeOK
<1>7. PsnsOrdered'
  <2>1. rcvAck' <= lstAck /\ rcvAck' \in Nat
    BY <1>4, <1>5 DEF PsnInv, PsnsOrdered
  <2>2. \A i \in 1..Len(wire) : wire[i].ack <= rcvAck'
    BY <1>4, <1>5, <2>1 DEF PsnInv, PsnsOrdered
  <2>3. \A i \in 1..Len(acks') : acks'[i] <= lstAck
    BY <1>1, <1>3 DEF PsnInv, PsnsOrdered
  <2> QED BY <1>1, <2>1, <2>2, <2>3 DEF PsnInv, PsnsOrdered
<1>8. Rising' /\ UnderWay'
  BY <1>1 DEF PsnInv, Rising, UnderWay, Pending
<1>9. WindowKept'
  BY <1>1, <1>4, <1>5, PSNAssumption DEF PSNAssumption, PsnInv, WindowKept
<1> QED BY <1>6, <1>7, <1>8, <1>9 DEF PsnInv
------------------------------------------------------------------------------
(* A frame leaves the link: what holds of the others.                          *)
LEMMA WireTail ==
  ASSUME PsnInv, wire # <<>>, wire' = Tail(wire)
  PROVE  /\ Head(wire) \in Frame /\ wire' \in Seq(Frame)
         /\ Head(wire).ack <= rcvAck /\ Head(wire).data <= nxtData
         /\ \A i \in 1..Len(wire') : wire'[i].ack <= rcvAck /\ wire'[i].data <= nxtData
         /\ \A i, j \in 1..Len(wire') :
              i < j /\ wire'[i].kind = "data" /\ wire'[j].kind = "data" => wire'[i].data < wire'[j].data
         /\ \A i \in 1..Len(stored), j \in 1..Len(wire') :
              wire'[j].kind = "data" => stored[i] < wire'[j].data
         /\ \A i \in 1..Len(wire'), j \in 1..Len(egress) :
              wire'[i].kind = "data" => wire'[i].data < egress[j]
         /\ \A i \in 1..Len(wire') : wire'[i].kind = "data" => Pending(wire'[i].data)
         /\ Head(wire).kind = "data" =>
              /\ Pending(Head(wire).data)
              /\ \A i \in 1..Len(stored) : stored[i] < Head(wire).data
              /\ \A i \in 1..Len(wire') : wire'[i].kind = "data" => Head(wire).data < wire'[i].data
              /\ \A i \in 1..Len(egress) : Head(wire).data < egress[i]
<1>1. wire \in Seq(Frame)
  BY DEF PsnInv, TypeOK
<1>2. /\ Head(wire) = wire[1] /\ 1 \in 1..Len(wire) /\ wire' \in Seq(Frame)
      /\ \A i \in 1..Len(wire') : wire'[i] = wire[i + 1] /\ i + 1 \in 1..Len(wire)
  BY <1>1, TailAt
<1>3. Head(wire) \in Frame
  BY <1>1, <1>2
<1>4. /\ Head(wire).ack <= rcvAck /\ Head(wire).data <= nxtData
      /\ \A i \in 1..Len(wire') : wire'[i].ack <= rcvAck /\ wire'[i].data <= nxtData
  BY <1>2 DEF PsnInv, PsnsOrdered
<1>5. \A i, j \in 1..Len(wire') :
         i < j /\ wire'[i].kind = "data" /\ wire'[j].kind = "data" => wire'[i].data < wire'[j].data
  <2> SUFFICES ASSUME NEW i \in 1..Len(wire'), NEW j \in 1..Len(wire'), i < j,
                      wire'[i].kind = "data", wire'[j].kind = "data"
               PROVE  wire'[i].data < wire'[j].data
    OBVIOUS
  <2>1. /\ i + 1 \in 1..Len(wire) /\ j + 1 \in 1..Len(wire) /\ i + 1 < j + 1
        /\ wire'[i] = wire[i + 1] /\ wire'[j] = wire[j + 1]
    BY <1>2
  <2> QED BY <2>1 DEF PsnInv, Rising
<1>6. \A i \in 1..Len(stored), j \in 1..Len(wire') :
         wire'[j].kind = "data" => stored[i] < wire'[j].data
  BY <1>2 DEF PsnInv, Rising
<1>7. \A i \in 1..Len(wire'), j \in 1..Len(egress) :
         wire'[i].kind = "data" => wire'[i].data < egress[j]
  BY <1>2 DEF PsnInv, Rising
<1>8. \A i \in 1..Len(wire') : wire'[i].kind = "data" => Pending(wire'[i].data)
  BY <1>2 DEF PsnInv, UnderWay
<1>9. ASSUME Head(wire).kind = "data"
      PROVE  /\ Pending(Head(wire).data)
             /\ \A i \in 1..Len(stored) : stored[i] < Head(wire).data
             /\ \A i \in 1..Len(wire') : wire'[i].kind = "data" => Head(wire).data < wire'[i].data
             /\ \A i \in 1..Len(egress) : Head(wire).data < egress[i]
  <2>1. Pending(Head(wire).data)
    BY <1>2, <1>9 DEF PsnInv, UnderWay
  <2>2. \A i \in 1..Len(stored) : stored[i] < Head(wire).data
    BY <1>2, <1>9 DEF PsnInv, Rising
  <2>3. \A i \in 1..Len(wire') : wire'[i].kind = "data" => Head(wire).data < wire'[i].data
    <3> SUFFICES ASSUME NEW i \in 1..Len(wire'), wire'[i].kind = "data"
                 PROVE  wire[1].data < wire[i + 1].data
      BY <1>2
    <3>1. i + 1 \in 1..Len(wire) /\ 1 < i + 1 /\ wire[i + 1].kind = "data" /\ wire[1].kind = "data"
      BY <1>2, <1>9
    <3> QED BY <1>2, <3>1 DEF PsnInv, Rising
  <2>4. \A i \in 1..Len(egress) : Head(wire).data < egress[i]
    BY <1>2, <1>9 DEF PsnInv, Rising
  <2> QED BY <2>1, <2>2, <2>3, <2>4
<1> QED BY <1>2, <1>3, <1>4, <1>5, <1>6, <1>7, <1>8, <1>9

LEMMA LoseFramePsn ==
  ASSUME PsnInv, LoseFrame
  PROVE  PsnInv'
<1>1. /\ wire # <<>> /\ wire' = Tail(wire) /\ impaired' = (impaired \/ Head(wire).kind = "syn")
      /\ UNCHANGED <<nxtData, rcvAck, recent, synTimer, egress, acks, rcvData, nxtAck, lstAck,
                     stored, forgiven>>
  BY DEF LoseFrame, upstream, downstream
<1>2. wire' \in Seq(Frame)
  BY <1>1, WireTail
<1>3. TypeOK'
  <2>1. impaired \in BOOLEAN
    BY DEF PsnInv, TypeOK
  <2>2. impaired' \in BOOLEAN
    BY <1>1, <2>1, Zenon
  <2> QED BY <1>1, <1>2, <2>2 DEF PsnInv, TypeOK
<1>4. PsnsOrdered'
  BY <1>1, WireTail DEF PsnInv, PsnsOrdered
<1>5. Rising'
  BY <1>1, WireTail DEF PsnInv, Rising
<1>6. UnderWay'
  BY <1>1, WireTail DEF PsnInv, UnderWay, Pending
<1> QED BY <1>1, <1>3, <1>4, <1>5, <1>6 DEF PsnInv, WindowKept

LEMMA LoseAckPsn ==
  ASSUME PsnInv, LoseAck
  PROVE  PsnInv'
<1>1. /\ acks \in Seq(Psn) /\ acks # <<>> /\ acks' = Tail(acks) /\ impaired' = TRUE
      /\ UNCHANGED <<nxtData, rcvAck, recent, synTimer, egress, wire, rcvData, nxtAck, lstAck,
                     stored, forgiven>>
  BY DEF LoseAck, upstream, downstream, PsnInv, TypeOK
<1>2. /\ acks' \in Seq(Psn)
      /\ \A i \in 1..Len(acks') : acks'[i] = acks[i + 1] /\ i + 1 \in 1..Len(acks)
  BY <1>1, TailAt
<1>3. TypeOK'
  BY <1>1, <1>2 DEF PsnInv, TypeOK
<1>4. PsnsOrdered'
  BY <1>1, <1>2 DEF PsnInv, PsnsOrdered
<1> QED BY <1>1, <1>3, <1>4 DEF PsnInv, Rising, UnderWay, Pending, WindowKept
------------------------------------------------------------------------------
LEMMA ReceiveDataPsn ==
  ASSUME PsnInv, ReceiveData
  PROVE  PsnInv'
<1> DEFINE d == Head(wire).data
<1>1. /\ wire # <<>> /\ wire' = Tail(wire) /\ Head(wire).kind = "data"
      /\ rcvData' = MaxOf(rcvData, d)
      /\ \/ stored' = Append(stored, d) /\ impaired' = impaired
         \/ stored' = stored /\ impaired' = TRUE
      /\ UNCHANGED <<nxtData, rcvAck, recent, synTimer, egress, acks, nxtAck, lstAck, forgiven>>
  BY DEF ReceiveData, upstream
<1>2. /\ Head(wire) \in Frame /\ wire' \in Seq(Frame) /\ d <= nxtData
      /\ Pending(d)
      /\ \A i \in 1..Len(stored) : stored[i] < d
      /\ \A i \in 1..Len(wire') : wire'[i].kind = "data" => d < wire'[i].data
      /\ \A i \in 1..Len(egress) : d < egress[i]
  BY <1>1, WireTail
<1>3. /\ d \in Psn /\ d \in Nat /\ rcvData \in Nat /\ nxtAck \in Nat /\ nxtData \in Nat
      /\ Len(stored) \in Nat /\ \A i \in 1..Len(stored) : stored[i] \in Nat
  BY <1>2, Typed, PSNAssumption DEF PSNAssumption, PsnInv, Frame, Psn
<1>4. rcvData' \in {rcvData, d} /\ rcvData' >= rcvData /\ rcvData' >= d
  BY <1>1, <1>3 DEF MaxOf
<1>5. stored \in Seq(Psn)
  BY DEF PsnInv, TypeOK
<1>6. /\ stored' \in Seq(Psn)
      /\ Len(stored') \in Nat
      /\ \A i \in 1..Len(stored') :
           \/ i \in 1..Len(stored) /\ stored'[i] = stored[i]
           \/ i = Len(stored) + 1 /\ stored'[i] = d
  <2>1. CASE stored' = stored
    BY <1>3, <1>5, <2>1
  <2>2. CASE stored' = Append(stored, d)
    BY <1>3, <1>5, <2>2, AppendAt
  <2> QED BY <1>1, <2>1, <2>2
<1>7. TypeOK'
  <2>1. rcvData' \in Psn
    BY <1>3, <1>4 DEF PsnInv, TypeOK
  <2>2. impaired' \in BOOLEAN
    BY <1>1 DEF PsnInv, TypeOK
  <2> QED BY <1>1, <1>2, <1>6, <2>1, <2>2 DEF PsnInv, TypeOK
<1>8. PsnsOrdered'
  <2>1. nxtAck <= rcvData' /\ rcvData' <= nxtData
    BY <1>2, <1>3, <1>4 DEF PsnInv, PsnsOrdered
  <2> QED BY <1>1, <2>1, WireTail DEF PsnInv, PsnsOrdered
<1>9. Rising'
  <2>1. \A i, j \in 1..Len(stored') : i < j => stored'[i] < stored'[j]
    <3> SUFFICES ASSUME NEW i \in 1..Len(stored'), NEW j \in 1..Len(stored'), i < j
                 PROVE  stored'[i] < stored'[j]
      OBVIOUS
    <3>1. i \in 1..Len(stored) /\ stored'[i] = stored[i]
      BY <1>3, <1>6
    <3> QED BY <1>2, <1>6, <3>1 DEF PsnInv, Rising
  <2>2. \A i \in 1..Len(stored'), j \in 1..Len(wire') :
           wire'[j].kind = "data" => stored'[i] < wire'[j].data
    BY <1>1, <1>2, <1>6, WireTail
  <2>3. \A i \in 1..Len(stored'), j \in 1..Len(egress) : stored'[i] < egress[j]
    BY <1>2, <1>6 DEF PsnInv, Rising
  <2> QED BY <1>1, <2>1, <2>2, <2>3, WireTail DEF PsnInv, Rising
<1>10. UnderWay'
  <2>1. \A i \in 1..Len(stored) : stored[i] <= rcvData'
    BY <1>3, <1>4 DEF PsnInv, UnderWay
  <2>2. \A i \in 1..Len(stored') : stored'[i] <= rcvData' /\ Pending(stored'[i])
    BY <1>2, <1>4, <1>6, <2>1 DEF PsnInv, UnderWay
  <2> QED BY <1>1, <2>2, WireTail DEF PsnInv, UnderWay, Pending
<1> QED BY <1>1, <1>7, <1>8, <1>9, <1>10 DEF PsnInv, WindowKept

LEMMA SendAckPsn ==
  ASSUME acks \in Seq(Psn), lstAck \in Psn, \A i \in 1..Len(acks) : acks[i] <= lstAck,
         NEW entry \in Psn, entry = 0 \/ lstAck <= entry, SendAck(entry)
  PROVE  /\ acks' \in Seq(Psn) /\ lstAck' \in {lstAck, entry} /\ lstAck <= lstAck'
         /\ \A i \in 1..Len(acks') : acks'[i] <= lstAck'
<1>1. acks' = Append(acks, entry) /\ lstAck' = IF entry > 0 THEN entry ELSE lstAck
  BY DEF SendAck
<1>2. lstAck \in Nat /\ entry \in Nat /\ \A i \in 1..Len(acks) : acks[i] \in Nat
  BY PSNAssumption DEF PSNAssumption, Psn
<1>3. lstAck' \in {lstAck, entry} /\ lstAck <= lstAck' /\ entry <= lstAck'
  BY <1>1, <1>2
<1>4. /\ acks' \in Seq(Psn)
      /\ \A i \in 1..Len(acks') : acks'[i] = entry \/ (i \in 1..Len(acks) /\ acks'[i] = acks[i])
  BY <1>1, AppendAt
<1>5. \A i \in 1..Len(acks') : acks'[i] <= lstAck'
  BY <1>2, <1>3, <1>4
<1> QED BY <1>3, <1>4, <1>5

(* A SwitchACK carries what has been given up, or an entry of 0, or is not sent. *)
LEMMA AckOrNot ==
  ASSUME PsnInv, nxtAck' \in Psn, nxtAck <= nxtAck',
         SendAck(nxtAck') \/ SendAck(0) \/ SendNothing
  PROVE  /\ acks' \in Seq(Psn) /\ lstAck' \in Psn /\ rcvAck <= lstAck' /\ lstAck' <= nxtAck'
         /\ \A i \in 1..Len(acks') : acks'[i] <= lstAck'
<1>1. /\ acks \in Seq(Psn) /\ lstAck \in Psn /\ rcvAck \in Psn /\ nxtAck \in Psn
      /\ \A i \in 1..Len(acks) : acks[i] <= lstAck
      /\ rcvAck <= lstAck /\ lstAck <= nxtAck
  BY DEF PsnInv, TypeOK, PsnsOrdered
<1>2. 0 \in Psn /\ Psn \subseteq Nat
  BY PSNAssumption DEF PSNAssumption, Psn
<1>3. lstAck <= nxtAck'
  BY <1>1, <1>2
<1>4. CASE SendNothing
  BY <1>1, <1>3, <1>4 DEF SendNothing
<1>5. CASE SendAck(nxtAck')
  <2>1. /\ acks' \in Seq(Psn) /\ lstAck' \in {lstAck, nxtAck'} /\ lstAck <= lstAck'
        /\ \A i \in 1..Len(acks') : acks'[i] <= lstAck'
    BY <1>1, <1>3, <1>5, SendAckPsn
  <2> QED BY <1>1, <1>2, <1>3, <2>1
<1>6. CASE SendAck(0)
  <2>1. /\ acks' \in Seq(Psn) /\ lstAck' \in {lstAck, 0} /\ lstAck <= lstAck'
        /\ \A i \in 1..Len(acks') : acks'[i] <= lstAck'
    BY <1>1, <1>2, <1>6, SendAckPsn
  <2> QED BY <1>1, <1>2, <1>3, <2>1
<1> QED BY <1>4, <1>5, <1>6

(* Whatever the loss it finds, a SYN gives up no more than has been sent; what *)
(* was under way it has then taken for lost.                                   *)
LEMMA ReceiveSYNPsn ==
  ASSUME PsnInv, ReceiveSYN
  PROVE  PsnInv'
<1> DEFINE syn == Head(wire)
           lost == LooksLost(syn)
           Later(p) == p > nxtAck' \/ p <= forgiven'
<1>1. /\ wire # <<>> /\ wire' = Tail(wire)
      /\ rcvData' = IF lost THEN syn.data ELSE rcvData
      /\ nxtAck' = IF lost THEN syn.data ELSE nxtAck
      /\ forgiven' = IF lost THEN syn.data ELSE forgiven
      /\ SendAck(nxtAck') \/ SendAck(0) \/ SendNothing
      /\ impaired' = impaired \/ impaired' = TRUE
      /\ UNCHANGED <<nxtData, rcvAck, recent, synTimer, egress, stored>>
  BY DEF ReceiveSYN, upstream
<1>2. /\ syn \in Frame /\ syn.data \in Psn /\ syn.data <= nxtData /\ wire' \in Seq(Frame)
  BY <1>1, WireTail DEF Frame
<1>3. /\ rcvData \in Psn /\ nxtAck \in Psn /\ forgiven \in Psn
      /\ nxtAck <= rcvData /\ rcvData <= nxtData
  BY DEF PsnInv, TypeOK, PsnsOrdered
<1>4. Psn \subseteq Nat
  BY PSNAssumption DEF PSNAssumption, Psn
<1>5. /\ rcvData' \in Psn /\ nxtAck' \in Psn /\ forgiven' \in Psn
      /\ nxtAck <= nxtAck' /\ nxtAck' <= rcvData' /\ rcvData <= rcvData' /\ rcvData' <= nxtData
  <2>1. syn.data \in Nat /\ rcvData \in Nat /\ nxtAck \in Nat /\ (lost <=> syn.data > rcvData)
    BY <1>2, <1>3, <1>4 DEF LooksLost
  <2>2. CASE lost
    BY <1>1, <1>2, <1>3, <2>1, <2>2
  <2>3. CASE ~lost
    BY <1>1, <1>3, <2>1, <2>3
  <2> QED BY <2>2, <2>3
<1>6. /\ acks' \in Seq(Psn) /\ lstAck' \in Psn /\ rcvAck <= lstAck' /\ lstAck' <= nxtAck'
      /\ \A i \in 1..Len(acks') : acks'[i] <= lstAck'
  BY <1>1, <1>5, AckOrNot
<1>7. TypeOK'
  <2>1. impaired' \in BOOLEAN
    BY <1>1 DEF PsnInv, TypeOK
  <2> QED BY <1>1, <1>2, <1>5, <1>6, <2>1 DEF PsnInv, TypeOK
<1>8. PsnsOrdered'
  BY <1>1, <1>5, <1>6, WireTail DEF PsnsOrdered
<1>9. Rising'
  BY <1>1, WireTail DEF PsnInv, Rising
<1>10. \A p \in Nat : Pending(p) => Later(p)
  <2>1. CASE lost
    <3>1. nxtAck' = forgiven' /\ forgiven' \in Nat
      BY <1>1, <1>4, <1>5, <2>1
    <3> QED BY <3>1
  <2>2. CASE ~lost
    BY <1>1, <2>2 DEF Pending
  <2> QED BY <2>1, <2>2
<1>11. UnderWay'
  <2>1. /\ \A i \in 1..Len(stored) : stored[i] \in Nat
        /\ \A i \in 1..Len(egress) : egress[i] \in Nat
    BY Typed DEF PsnInv
  <2>2. \A i \in 1..Len(wire') : wire'[i].data \in Nat
    <3>1. \A i \in 1..Len(wire') : wire'[i] \in Frame
      BY <1>2
    <3> QED BY <1>4, <3>1 DEF Frame
  <2>3. \A i \in 1..Len(stored) : stored[i] <= rcvData' /\ Later(stored[i])
    BY <1>1, <1>3, <1>4, <1>5, <1>10, <2>1 DEF PsnInv, UnderWay
  <2>4. \A i \in 1..Len(egress) : egress[i] <= nxtData /\ Later(egress[i])
    BY <1>1, <1>10, <2>1 DEF PsnInv, UnderWay
  <2>5. \A i \in 1..Len(wire') : wire'[i].kind = "data" => Later(wire'[i].data)
    BY <1>1, <1>10, <2>2, WireTail
  <2> QED BY <1>1, <2>3, <2>4, <2>5 DEF UnderWay, Pending
<1> QED BY <1>1, <1>7, <1>8, <1>9, <1>11 DEF PsnInv, WindowKept

LEMMA DequeuePsn ==
  ASSUME PsnInv, Dequeue
  PROVE  PsnInv'
<1>0. PICK k \in 1..Len(stored) :
         /\ stored' = Without(stored, k)
         /\ forgiven' = IF k > 1 THEN MaxOf(forgiven, stored[k - 1]) ELSE forgiven
         /\ nxtAck' = MaxOf(nxtAck, stored[k])
  BY DEF Dequeue, Leave
<1> DEFINE d == stored[k]
           Later(p) == p > nxtAck' \/ p <= forgiven'
<1>1. /\ SendAck(nxtAck') \/ SendNothing
      /\ impaired' \in {impaired, (impaired \/ nxtAck' > lstAck)}
      /\ UNCHANGED <<nxtData, rcvAck, recent, synTimer, egress, wire, rcvData>>
  <2>1. \E buffered \in {"none", "some", "many"} :
          \/ SendAck(nxtAck') /\ UNCHANGED impaired
          \/ SendNothing /\ impaired' = (impaired \/ nxtAck' > lstAck)
    BY DEF Dequeue
  <2> QED BY <2>1 DEF Dequeue, upstream
<1>2. stored \in Seq(Psn)
  BY DEF PsnInv, TypeOK
<1>3. /\ k \in 1..Len(stored) /\ d \in Psn
      /\ stored' \in Seq(Psn) /\ Len(stored') = Len(stored) - 1
      /\ \A i \in 1..Len(stored') :
           \/ i < k /\ i \in 1..Len(stored) /\ stored'[i] = stored[i]
           \/ i >= k /\ i + 1 \in 1..Len(stored) /\ stored'[i] = stored[i + 1]
  <2>1. k \in 1..Len(stored)
    BY <1>0
  <2>2. /\ Without(stored, k) \in Seq(Psn) /\ Len(Without(stored, k)) = Len(stored) - 1
        /\ \A i \in 1..Len(Without(stored, k)) :
             \/ i < k /\ i \in 1..Len(stored) /\ Without(stored, k)[i] = stored[i]
             \/ i >= k /\ i + 1 \in 1..Len(stored) /\ Without(stored, k)[i] = stored[i + 1]
    BY <1>2, <2>1, WithoutAt
  <2>3. d \in Psn
    BY <1>2, <2>1
  <2> HIDE DEF d
  <2> QED BY <1>0, <2>1, <2>2, <2>3
<1>4. /\ nxtAck \in Psn /\ rcvData \in Psn /\ Psn \subseteq Nat /\ d <= rcvData /\ nxtAck <= rcvData
  BY <1>3, PSNAssumption DEF PSNAssumption, PsnInv, TypeOK, PsnsOrdered, UnderWay, Psn
<1>5. /\ nxtAck' \in {nxtAck, d} /\ nxtAck <= nxtAck' /\ nxtAck' <= rcvData
  BY <1>0, <1>3, <1>4 DEF MaxOf
<1>12. /\ forgiven' \in Psn /\ forgiven <= forgiven'
       /\ \A i \in 1..Len(stored) : i < k => stored[i] <= forgiven'
  <2>1. forgiven \in Psn /\ Psn \subseteq Nat /\ \A i \in 1..Len(stored) : stored[i] \in Psn
    BY <1>2, <1>4 DEF PsnInv, TypeOK
  <2>2. CASE k > 1
    <3>1. k - 1 \in 1..Len(stored) /\ stored[k - 1] \in Psn /\ stored[k - 1] \in Nat
          /\ forgiven \in Nat
      <4>1. k - 1 \in 1..Len(stored)
        BY <1>3, <2>2
      <4>2. stored[k - 1] \in Psn
        BY <2>1, <4>1
      <4> QED BY <2>1, <4>1, <4>2
    <3>2. forgiven' = MaxOf(forgiven, stored[k - 1])
      BY <1>0, <2>2
    <3>3. /\ forgiven' \in Psn /\ forgiven <= forgiven' /\ stored[k - 1] <= forgiven'
      BY <2>1, <3>1, <3>2 DEF MaxOf
    <3>4. ASSUME NEW i \in 1..Len(stored), i < k PROVE stored[i] <= forgiven'
      <4>0. stored[i] \in Nat
        BY <2>1
      <4>1. stored[i] <= stored[k - 1]
        <5>1. CASE i = k - 1
          BY <3>1, <4>0, <5>1
        <5>2. CASE i < k - 1
          <6>1. stored[i] < stored[k - 1]
            BY <3>1, <5>2 DEF PsnInv, Rising
          <6> QED BY <3>1, <4>0, <6>1
        <5> QED BY <3>4, <1>3, <5>1, <5>2
      <4>2. forgiven' \in Nat
        BY <2>1, <3>3
      <4> QED BY <3>1, <3>3, <4>0, <4>1, <4>2
    <3> QED BY <3>3, <3>4
  <2>3. CASE ~(k > 1)
    BY <1>0, <1>3, <2>1, <2>3
  <2> QED BY <2>2, <2>3
<1>6. /\ acks' \in Seq(Psn) /\ lstAck' \in Psn /\ rcvAck <= lstAck' /\ lstAck' <= nxtAck'
      /\ \A i \in 1..Len(acks') : acks'[i] <= lstAck'
  BY <1>1, <1>3, <1>4, <1>5, AckOrNot
<1>7. TypeOK'
  <2>1. impaired \in BOOLEAN
    BY DEF PsnInv, TypeOK
  <2>2. impaired' \in BOOLEAN
    BY <1>1, <2>1, Zenon
  <2> QED BY <1>1, <1>3, <1>4, <1>5, <1>6, <1>12, <2>2 DEF PsnInv, TypeOK
<1>8. PsnsOrdered'
  BY <1>1, <1>5, <1>6 DEF PsnInv, PsnsOrdered
<1>9. Rising'
  <2>1. \A i, j \in 1..Len(stored') : i < j => stored'[i] < stored'[j]
    <3> SUFFICES ASSUME NEW i \in 1..Len(stored'), NEW j \in 1..Len(stored'), i < j
                 PROVE  stored'[i] < stored'[j]
      OBVIOUS
    <3>1. PICK m \in {i, i + 1}, n \in {j, j + 1} :
            /\ m \in 1..Len(stored) /\ n \in 1..Len(stored) /\ m < n
            /\ stored'[i] = stored[m] /\ stored'[j] = stored[n]
      BY <1>3
    <3> QED BY <3>1 DEF PsnInv, Rising
  <2>2. \A i \in 1..Len(stored'), j \in 1..Len(wire) :
           wire[j].kind = "data" => stored'[i] < wire[j].data
    BY <1>3 DEF PsnInv, Rising
  <2>3. \A i \in 1..Len(stored'), j \in 1..Len(egress) : stored'[i] < egress[j]
    BY <1>3 DEF PsnInv, Rising
  <2> QED BY <1>1, <2>1, <2>2, <2>3 DEF PsnInv, Rising
<1>10. \A p \in Nat : Pending(p) /\ d < p => Later(p)
  <2>1. forgiven \in Nat /\ forgiven' \in Nat
    BY <1>4, <1>12 DEF PsnInv, TypeOK
  <2> QED BY <1>5, <1>12, <2>1 DEF Pending
<1>11. UnderWay'
  <2>1. /\ \A i \in 1..Len(stored) : stored[i] \in Nat
        /\ \A i \in 1..Len(egress) : egress[i] \in Nat
        /\ \A i \in 1..Len(wire) : wire[i].data \in Nat
    BY Typed DEF PsnInv
  <2>2. \A i \in 1..Len(stored') :
          stored'[i] <= rcvData /\ Later(stored'[i])
    <3>1. \A i \in 1..Len(stored') : stored'[i] <= rcvData
      BY <1>3 DEF PsnInv, UnderWay
    <3>2. ASSUME NEW i \in 1..Len(stored') PROVE Later(stored'[i])
      <4>1. CASE i < k /\ i \in 1..Len(stored) /\ stored'[i] = stored[i]
        BY <1>12, <4>1
      <4>2. CASE i >= k /\ i + 1 \in 1..Len(stored) /\ stored'[i] = stored[i + 1]
        <5>1. k < i + 1
          BY <1>3, <4>2
        <5>2. d < stored[i + 1]
          BY <1>3, <4>2, <5>1 DEF PsnInv, Rising
        <5>3. Pending(stored[i + 1]) /\ stored[i + 1] \in Nat
          BY <2>1, <4>2 DEF PsnInv, UnderWay
        <5> QED BY <1>10, <4>2, <5>2, <5>3
      <4> QED BY <1>3, <4>1, <4>2
    <3> QED BY <3>1, <3>2
  <2>3. \A i \in 1..Len(egress) : egress[i] <= nxtData /\ Later(egress[i])
    BY <1>1, <1>3, <1>10, <2>1 DEF PsnInv, UnderWay, Rising, Pending
  <2>4. \A i \in 1..Len(wire) : wire[i].kind = "data" => Later(wire[i].data)
    BY <1>1, <1>3, <1>10, <2>1 DEF PsnInv, UnderWay, Rising, Pending
  <2> QED BY <1>1, <2>2, <2>3, <2>4 DEF UnderWay, Pending
<1> QED BY <1>1, <1>7, <1>8, <1>9, <1>11 DEF PsnInv, WindowKept

LEMMA ReturnCreditPsn ==
  ASSUME PsnInv, ReturnCredit
  PROVE  PsnInv'
<1>1. /\ SendAck(nxtAck') /\ nxtAck' = nxtAck
      /\ UNCHANGED <<nxtData, rcvAck, recent, synTimer, egress, wire, rcvData, stored,
                     forgiven, impaired>>
  BY DEF ReturnCredit, upstream, history
<1>2. nxtAck' \in Psn /\ nxtAck <= nxtAck'
  BY <1>1, Typed DEF PsnInv, TypeOK
<1>3. /\ acks' \in Seq(Psn) /\ lstAck' \in Psn /\ rcvAck <= lstAck' /\ lstAck' <= nxtAck'
      /\ \A i \in 1..Len(acks') : acks'[i] <= lstAck'
  BY <1>1, <1>2, AckOrNot
<1>4. TypeOK'
  BY <1>1, <1>3 DEF PsnInv, TypeOK
<1>5. PsnsOrdered'
  BY <1>1, <1>3 DEF PsnInv, PsnsOrdered
<1> QED BY <1>1, <1>4, <1>5 DEF PsnInv, Rising, UnderWay, Pending, WindowKept
------------------------------------------------------------------------------
LEMMA StepPsn == PsnInv /\ [Next]_vars => PsnInv'
<1> SUFFICES ASSUME PsnInv, [Next]_vars PROVE PsnInv'
  OBVIOUS
<1>1. CASE \E n \in Sizes : Send(n)
  BY <1>1, SendPsn
<1>2. CASE Transmit
  BY <1>2, TransmitPsn
<1>3. CASE SynTimeout
  BY <1>3, SynTimeoutPsn
<1>4. CASE ReceiveAck
  BY <1>4, ReceiveAckPsn
<1>5. CASE ReceiveData
  BY <1>5, ReceiveDataPsn
<1>6. CASE ReceiveSYN
  BY <1>6, ReceiveSYNPsn
<1>7. CASE Dequeue
  BY <1>7, DequeuePsn
<1>8. CASE ReturnCredit
  BY <1>8, ReturnCreditPsn
<1>9. CASE LoseFrame
  BY <1>9, LoseFramePsn
<1>10. CASE LoseAck
  BY <1>10, LoseAckPsn
<1>11. CASE UNCHANGED vars
  BY <1>11 DEF vars, upstream, downstream, history, PsnInv, TypeOK, PsnsOrdered, Rising, UnderWay, Pending,
               WindowKept
<1> QED BY <1>1, <1>2, <1>3, <1>4, <1>5, <1>6, <1>7, <1>8, <1>9, <1>10, <1>11 DEF Next

LEMMA PsnInvariant == Spec => []PsnInv
  BY InitPsn, StepPsn, PTL DEF Spec

(* The asserts on the PSNs of GetInflightBytes and GetIngressDstCreditCounter  *)
(* hold, and the counters of the two switches stay in order, whatever the link *)
(* loses and whenever a SYN arrives.                                           *)
THEOREM PsnsStayOrdered == Spec => [](TypeOK /\ PsnsOrdered)
<1>1. PsnInv => TypeOK /\ PsnsOrdered
  BY DEF PsnInv
<1> QED BY <1>1, PsnInvariant, PTL

LEMMA InTransitBounded == PsnInv => OutstandingBounded
<1> SUFFICES ASSUME PsnInv PROVE OutstandingBounded
  OBVIOUS
<1>1. nxtData - rcvAck <= Win
  BY DEF PsnInv, WindowKept
<1>2. rcvAck \in Nat /\ nxtAck \in Nat /\ lstAck \in Nat /\ forgiven \in Nat /\ rcvAck <= nxtAck
  BY Typed DEF PsnInv, PsnsOrdered
<1>3. ASSUME NEW p \in InTransit PROVE p \in Nat /\ Pending(p)
  <2>1. CASE p \in {egress[i] : i \in 1..Len(egress)}
    BY <2>1, Typed DEF PsnInv, UnderWay
  <2>2. CASE p \in {stored[i] : i \in 1..Len(stored)}
    BY <2>2, Typed DEF PsnInv, UnderWay
  <2>3. CASE p \in {wire[i].data : i \in {j \in 1..Len(wire) : wire[j].kind = "data"}}
    BY <2>3, Typed DEF PsnInv, UnderWay
  <2> QED BY <1>3, <2>1, <2>2, <2>3 DEF InTransit
<1>4. \A p \in InTransit : p > forgiven => p > rcvAck
  BY <1>2, <1>3 DEF Pending
<1> QED BY <1>1, <1>4 DEF OutstandingBounded

(* The gate of CheckDstWin keeps at most a window between the upstream and the *)
(* downstream switch, but for packets that a SYN took for lost or that another *)
(* overtook at the downstream switch.                                          *)
THEOREM WindowBoundsOutstanding == Spec => []OutstandingBounded
  BY PsnInvariant, InTransitBounded, PTL
------------------------------------------------------------------------------
LEMMA StepIsAckLoop ==
  ASSUME PsnInv, PsnInv', [Next]_vars
  PROVE  [Loop!Next]_(Loop!vars)
<1> USE DEF Loop!Next, Loop!vars
<1>1. /\ nxtData \in Nat /\ rcvAck \in Nat /\ nxtAck \in Nat /\ rcvData \in Nat
      /\ nxtAck <= rcvData
  BY Typed DEF PsnInv, PsnsOrdered
<1>2. /\ nxtData' \in Nat /\ rcvAck' \in Nat /\ nxtAck' \in Nat
      /\ nxtData' - rcvAck' <= Win /\ rcvAck' <= nxtAck' /\ nxtAck' <= nxtData'
  <2>1. /\ nxtData' \in Psn /\ rcvAck' \in Psn /\ nxtAck' \in Psn /\ lstAck' \in Psn /\ rcvData' \in Psn
        /\ rcvAck' <= lstAck' /\ lstAck' <= nxtAck' /\ nxtAck' <= rcvData' /\ rcvData' <= nxtData'
    BY DEF PsnInv, TypeOK, PsnsOrdered
  <2>2. Psn \subseteq Nat
    BY PSNAssumption DEF PSNAssumption, Psn
  <2>3. nxtData' - rcvAck' <= Win
    BY DEF PsnInv, WindowKept
  <2> QED BY <2>1, <2>2, <2>3
<1>3. ASSUME nxtData' > nxtData, rcvAck' = rcvAck, nxtAck' = nxtAck
      PROVE  Loop!Next
  <2>1. Win \in Nat
    BY PSNAssumption DEF PSNAssumption
  <2>2. nxtData' <= rcvAck + Win /\ nxtData + 1 <= nxtData'
    <3>1. nxtData' - rcvAck <= Win
      BY <1>2, <1>3
    <3>2. nxtData \in Int /\ nxtData' \in Int /\ rcvAck \in Int /\ Win \in Int
      BY <1>1, <1>2, <2>1
    <3>3. nxtData' <= rcvAck + Win
      BY <3>1, <3>2, MoveTerm
    <3>4. nxtData + 1 <= nxtData'
      BY <1>3, <3>2
    <3> QED BY <3>3, <3>4
  <2>3. Loop!Send
    BY <1>1, <1>2, <1>3, <2>1, <2>2 DEF Loop!Send
  <2> QED BY <2>3
<1>4. ASSUME nxtAck' > nxtAck, nxtData' = nxtData, rcvAck' = rcvAck
      PROVE  Loop!Next
  BY <1>1, <1>2, <1>4 DEF Loop!Leave
<1>5. ASSUME rcvAck' > rcvAck, nxtData' = nxtData, nxtAck' = nxtAck
      PROVE  Loop!Next
  BY <1>1, <1>2, <1>5 DEF Loop!Acknowledge
<1>6. CASE \E n \in Sizes : Send(n)
  <2>1. nxtData' > nxtData /\ rcvAck' = rcvAck /\ nxtAck' = nxtAck
    BY <1>1, <1>6, PSNAssumption DEF PSNAssumption, Send, downstream
  <2> QED BY <1>3, <2>1
<1>7. CASE ReceiveAck
  <2>1. acks # <<>> /\ acks \in Seq(Psn) /\ Psn \subseteq Nat
    BY <1>7, PSNAssumption DEF PSNAssumption, ReceiveAck, PsnInv, TypeOK, Psn
  <2>2. Head(acks) \in Nat
    <3>1. Head(acks) = acks[1] /\ 1 \in 1..Len(acks)
      BY <2>1, TailAt
    <3> QED BY <3>1, Typed DEF PsnInv
  <2>3. rcvAck' >= rcvAck /\ nxtData' = nxtData /\ nxtAck' = nxtAck
    BY <1>1, <1>7, <2>2, Recovering DEF ReceiveAck, downstream, history
  <2> QED BY <1>1, <1>2, <1>5, <2>3
<1>8. CASE ReceiveSYN
  <2>1. /\ nxtData' = nxtData /\ rcvAck' = rcvAck
        /\ nxtAck' = IF LooksLost(Head(wire)) THEN Head(wire).data ELSE nxtAck
    BY <1>8 DEF ReceiveSYN, upstream
  <2>2. nxtAck' >= nxtAck
    BY <1>1, <1>2, <2>1 DEF LooksLost
  <2> QED BY <1>1, <1>2, <1>4, <2>1, <2>2
<1>9. CASE Dequeue
  <2>1. PICK k \in 1..Len(stored) : nxtAck' = MaxOf(nxtAck, stored[k])
    BY <1>9 DEF Dequeue
  <2>3. nxtData' = nxtData /\ rcvAck' = rcvAck
    BY <1>9 DEF Dequeue, upstream
  <2>2. nxtAck' >= nxtAck
    BY <1>1, <1>2, <2>1 DEF MaxOf
  <2> QED BY <1>1, <1>2, <1>4, <2>2, <2>3
<1>10. CASE Transmit \/ SynTimeout \/ ReceiveData \/ ReturnCredit \/ LoseFrame \/ LoseAck \/ UNCHANGED vars
  BY <1>10 DEF Transmit, SynTimeout, ReceiveData, ReturnCredit, LoseFrame, LoseAck, vars, upstream,
               downstream, history
<1> QED BY <1>6, <1>7, <1>8, <1>9, <1>10 DEF Next

(* Under loss, repetition and SYNs the windows of the hop are those of an      *)
(* AckLoop: no counter moves back or past the next.                            *)
THEOREM AbsolutePSNIsAckLoop == Spec => ImplementsAckLoop
<1>1. Init => Loop!Init
  BY DEF Init, Loop!Init
<1>2. PsnInv /\ PsnInv' /\ [Next]_vars => [Loop!Next]_(Loop!vars)
  BY StepIsAckLoop
<1> QED BY <1>1, <1>2, PsnInvariant, PTL DEF Spec, Loop!Spec, ImplementsAckLoop

(* The ports' PSN tables of both ends keep their types.                        *)
THEOREM TypeCorrect == Spec => []TypeOK
  BY PsnsStayOrdered, PTL
==================================================================================
