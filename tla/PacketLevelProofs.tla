---------------------------- MODULE PacketLevelProofs ----------------------------
(*****************************************************************************)
(* Theorems about PacketLevel, for every flow, packet size, window and loss    *)
(* and every order in which packets and ACKs arrive.                           *)
(*****************************************************************************)
EXTENDS PacketLevel, FiniteSetTheorems, WellFoundedInduction, TLAPS

LEMMA Sizes == Size \in Nat /\ Size > 0 /\ Mtu \in Nat /\ Mtu > 0 /\ Win \in Nat
  BY PacketLevelAssumption DEF PacketLevelAssumption

LEMMA Euclid ==
  ASSUME NEW a \in Nat, NEW m \in Nat, m > 0
  PROVE  /\ a \div m \in Nat /\ a % m \in Nat /\ a % m < m
         /\ a = m * (a \div m) + (a % m)
  OBVIOUS

LEMMA ScaleOrder ==
  ASSUME NEW m \in Nat, NEW i \in Int, NEW j \in Int, i >= j
  PROVE  m * i >= m * j
  BY SMTT(30)

LEMMA Distribute ==
  ASSUME NEW m \in Nat, NEW i \in Int
  PROVE  m * (i + 1) = m * i + m
  BY SMTT(30)

LEMMA MultipleMod ==
  ASSUME NEW m \in Nat, m > 0, NEW k \in Nat
  PROVE  m * k \in Nat /\ (m * k) % m = 0
<1>1. m * k \in Nat
  OBVIOUS
<1>2. /\ (m * k) \div m \in Nat /\ (m * k) % m \in Nat /\ (m * k) % m < m
      /\ m * k = m * ((m * k) \div m) + ((m * k) % m)
  BY <1>1, Euclid
<1> DEFINE q == (m * k) \div m
           r == (m * k) % m
<1> HIDE DEF q, r
<1>3. /\ q \in Nat /\ r \in Nat /\ r < m /\ m * k = m * q + r
  BY <1>2 DEF q, r
<1>4. ~(q >= k + 1)
  <2>1. SUFFICES ASSUME q >= k + 1 PROVE FALSE
    OBVIOUS
  <2>2. m * q >= m * (k + 1)
    BY <2>1, <1>3, ScaleOrder
  <2>3. m * (k + 1) = m * k + m
    BY Distribute
  <2> QED BY <2>2, <2>3, <1>1, <1>3
<1>5. ~(k >= q + 1)
  <2>1. SUFFICES ASSUME k >= q + 1 PROVE FALSE
    OBVIOUS
  <2>2. m * k >= m * (q + 1)
    BY <2>1, <1>3, ScaleOrder
  <2>3. m * (q + 1) = m * q + m
    BY <1>3, Distribute
  <2>4. m * q \in Nat
    BY <1>3
  <2> QED BY <2>2, <2>3, <2>4, <1>1, <1>3
<1>6. q = k
  BY <1>3, <1>4, <1>5
<1>7. r = 0
  BY <1>1, <1>3, <1>6
<1> QED BY <1>1, <1>7 DEF r

(* Two multiples of a number are at least that number apart. *)
LEMMA MultiplesApart ==
  ASSUME NEW m \in Nat, m > 0, NEW a \in Nat, NEW b \in Nat,
         a % m = 0, b % m = 0, a > b
  PROVE  a >= b + m
<1> DEFINE i == a \div m
           j == b \div m
<1>1. /\ i \in Nat /\ j \in Nat /\ a = m * i /\ b = m * j
  <2>1. i \in Nat /\ a = m * i + 0
    BY Euclid
  <2>2. j \in Nat /\ b = m * j + 0
    BY Euclid
  <2>3. m * i \in Nat /\ m * j \in Nat
    BY <2>1, <2>2
  <2> QED BY <2>1, <2>2, <2>3
<1> HIDE DEF i, j
<1>2. ~(j >= i)
  BY <1>1, ScaleOrder
<1>3. m * i >= m * (j + 1) /\ m * (j + 1) = m * j + m
  BY <1>1, <1>2, ScaleOrder, Distribute
<1> QED BY <1>1, <1>3

LEMMA NextMultiple ==
  ASSUME NEW m \in Nat, m > 0, NEW a \in Nat, a % m = 0
  PROVE  (a + m) % m = 0
<1> DEFINE i == a \div m
<1>1. i \in Nat /\ a = m * i + 0 /\ m * i \in Nat
  BY Euclid
<1> HIDE DEF i
<1>2. a + m = m * (i + 1)
  BY <1>1, Distribute
<1>3. i + 1 \in Nat
  BY <1>1
<1>4. (m * (i + 1)) % m = 0
  BY <1>3, MultipleMod
<1> QED BY <1>2, <1>4
------------------------------------------------------------------------------
(* The packets: finitely many, the last one the largest.                       *)
LEMMA PacketsAre ==
  /\ IsFiniteSet(Packets)
  /\ \A s \in Packets : s \in Nat /\ s < Size /\ s % Mtu = 0
  /\ \A s \in Nat : s < Size /\ s % Mtu = 0 => s \in Packets
  /\ 0 \in Packets
<1>1. \A s \in Packets : s \in Nat /\ s < Size /\ s % Mtu = 0
  BY Sizes DEF Packets
<1>2. \A s \in Nat : s < Size /\ s % Mtu = 0 => s \in Packets
  BY Sizes DEF Packets
<1>3. 0 % Mtu = 0
  BY Sizes
<1>4. IsFiniteSet(0 .. Size - 1)
  BY Sizes, FS_Interval
<1>5. Packets \in SUBSET (0 .. Size - 1)
  BY DEF Packets
<1>6. IsFiniteSet(Packets)
  BY <1>4, <1>5, FS_Subset
<1> QED BY <1>1, <1>2, <1>3, <1>6, Sizes

LEMMA LastIs ==
  /\ LastPacket \in Packets /\ LastPacket + Mtu >= Size
  /\ \A s \in Packets : s <= LastPacket /\ (s + Mtu >= Size => s = LastPacket)
<1> DEFINE k == (Size - 1) \div Mtu
           p == Mtu * k
<1>1. k \in Nat /\ (Size - 1) % Mtu \in Nat /\ (Size - 1) % Mtu < Mtu
      /\ Size - 1 = p + ((Size - 1) % Mtu)
  BY Sizes, Euclid
<1>2. p \in Nat /\ p % Mtu = 0
  BY <1>1, Sizes, MultipleMod
<1> HIDE DEF k, p
<1>3. p < Size /\ p + Mtu >= Size
  BY <1>1, <1>2, Sizes
<1>4. p \in Packets
  BY <1>2, <1>3, PacketsAre
<1>5. LastPacket \in Packets /\ LastPacket + Mtu >= Size
  BY <1>3, <1>4 DEF LastPacket
<1>6. ASSUME NEW s \in Packets PROVE s <= LastPacket
  <2>1. /\ s \in Nat /\ s < Size /\ s % Mtu = 0
        /\ LastPacket \in Nat /\ LastPacket % Mtu = 0
    BY <1>5, PacketsAre
  <2>2. s > LastPacket => s >= LastPacket + Mtu
    BY <2>1, Sizes, MultiplesApart
  <2> QED BY <2>1, <2>2, <1>5, Sizes
<1>7. ASSUME NEW s \in Packets, s + Mtu >= Size PROVE s = LastPacket
  <2>1. /\ s \in Nat /\ s % Mtu = 0
        /\ LastPacket \in Nat /\ LastPacket < Size /\ LastPacket % Mtu = 0
    BY <1>5, PacketsAre
  <2>2. LastPacket > s => LastPacket >= s + Mtu
    BY <2>1, Sizes, MultiplesApart
  <2> QED BY <2>1, <2>2, <1>6, <1>7, Sizes
<1> QED BY <1>5, <1>6, <1>7

LEMMA PayloadIs ==
  ASSUME NEW s \in Packets
  PROVE  /\ Payload(s) \in Nat /\ Payload(s) > 0 /\ Payload(s) <= Mtu
         /\ s # LastPacket => Payload(s) = Mtu
         /\ s = LastPacket => Payload(s) = Size - s
         /\ s + Payload(s) \in Packets \/ s + Payload(s) = Size
<1>1. s \in Nat /\ s < Size /\ s % Mtu = 0
  BY PacketsAre
<1>2. CASE s + Mtu >= Size
  <2>1. s = LastPacket /\ Payload(s) = Size - s
    BY <1>2, LastIs DEF Payload
  <2> QED BY <2>1, <1>1, <1>2, Sizes
<1>3. CASE ~(s + Mtu >= Size)
  <2>1. s # LastPacket /\ Payload(s) = Mtu
    BY <1>3, LastIs DEF Payload
  <2>2. (s + Mtu) % Mtu = 0
    BY <1>1, Sizes, NextMultiple
  <2>3. s + Mtu \in Nat /\ s + Mtu < Size
    BY <1>1, <1>3, Sizes
  <2>4. s + Mtu \in Packets
    BY <2>2, <2>3, PacketsAre
  <2> QED BY <2>1, <2>4, <1>1, <1>3, Sizes
<1> QED BY <1>2, <1>3

(* The bytes of a set of packets. *)
LEMMA BytesAre ==
  ASSUME NEW S \in SUBSET Packets
  PROVE  /\ Bytes(S) \in Nat
         /\ S = {} => Bytes(S) = 0
         /\ S # {} => Bytes(S) > 0
<1>1. IsFiniteSet(S) /\ Cardinality(S) \in Nat
  BY PacketsAre, FS_Subset, FS_CardinalityType
<1>2. S # {} => Cardinality(S) > 0
  BY <1>1, FS_EmptySet
<1>3. S = {} => Cardinality(S) = 0
  BY FS_EmptySet
<1> DEFINE n == Cardinality(S)
<1> HIDE DEF n
<1>4. /\ n \in Nat /\ (S # {} => n > 0) /\ (S = {} => n = 0)
  BY <1>1, <1>2, <1>3 DEF n
<1>5. n * Mtu \in Nat /\ (n > 0 => n * Mtu >= Mtu) /\ (n = 0 => n * Mtu = 0)
  <2>1. n > 0 => Mtu * n >= Mtu * 1
    BY <1>4, Sizes, ScaleOrder
  <2> QED BY <2>1, <1>4, Sizes
<1>6. /\ Payload(LastPacket) \in Nat /\ Payload(LastPacket) > 0 /\ Payload(LastPacket) <= Mtu
  BY PayloadIs, LastIs
<1>7. Bytes(S) = n * Mtu - IF LastPacket \in S THEN Mtu - Payload(LastPacket) ELSE 0
  BY DEF Bytes, n
<1>8. CASE LastPacket \in S
  BY <1>4, <1>5, <1>6, <1>7, <1>8, Sizes
<1>9. CASE LastPacket \notin S
  BY <1>4, <1>5, <1>7, <1>9, Sizes
<1> QED BY <1>8, <1>9

LEMMA BytesWithout ==
  ASSUME NEW S \in SUBSET Packets, NEW x \in S
  PROVE  Bytes(S \ {x}) = Bytes(S) - Payload(x)
<1>1. IsFiniteSet(S)
  BY PacketsAre, FS_Subset
<1>2. /\ Cardinality(S) \in Nat
      /\ Cardinality(S \ {x}) = Cardinality(S) - 1
  BY <1>1, FS_CardinalityType, FS_RemoveElement
<1> DEFINE n == Cardinality(S)
<1> HIDE DEF n
<1>3. n \in Nat /\ Cardinality(S \ {x}) = n - 1
  BY <1>2 DEF n
<1>4. n * Mtu = (n - 1) * Mtu + Mtu
  <2>1. Mtu * ((n - 1) + 1) = Mtu * (n - 1) + Mtu
    BY <1>3, Sizes, Distribute
  <2> QED BY <2>1, <1>3, Sizes
<1>5. /\ x \in Packets /\ Payload(x) \in Nat /\ (x # LastPacket => Payload(x) = Mtu)
      /\ Payload(LastPacket) \in Nat
  BY PayloadIs, LastIs
<1>6. /\ Bytes(S) = n * Mtu - IF LastPacket \in S THEN Mtu - Payload(LastPacket) ELSE 0
      /\ Bytes(S \ {x}) = (n - 1) * Mtu
                          - IF LastPacket \in S \ {x} THEN Mtu - Payload(LastPacket) ELSE 0
  BY <1>3 DEF Bytes, n
<1>7. n * Mtu \in Int /\ (n - 1) * Mtu \in Int
  BY <1>3, Sizes
<1>8. CASE x = LastPacket
  BY <1>4, <1>5, <1>6, <1>7, <1>8, Sizes
<1>9. CASE x # LastPacket
  BY <1>4, <1>5, <1>6, <1>7, <1>9, Sizes
<1> QED BY <1>8, <1>9

LEMMA BytesWith ==
  ASSUME NEW S \in SUBSET Packets, NEW x \in Packets, x \notin S
  PROVE  Bytes(S \cup {x}) = Bytes(S) + Payload(x)
<1>1. (S \cup {x}) \ {x} = S /\ S \cup {x} \in SUBSET Packets
  OBVIOUS
<1>2. Bytes(S) = Bytes(S \cup {x}) - Payload(x)
  BY <1>1, BytesWithout
<1>3. Bytes(S \cup {x}) \in Nat /\ Payload(x) \in Nat
  BY <1>1, BytesAre, PayloadIs
<1> QED BY <1>2, <1>3

(* A set of packets that is not empty has a first one.                         *)
LEMMA FirstPacket ==
  ASSUME NEW S \in SUBSET Packets, S # {}
  PROVE  Min(S) \in S
<1> DEFINE R == OpToRel(<, Nat)
<1>1. IsWellFoundedOn(R, Nat)
  BY NatLessThanWellFounded
<1>2. \A x, y \in Nat : x < y => <<x, y>> \in R
  BY DEF OpToRel
<1>3. S \subseteq Nat
  BY PacketsAre
<1> HIDE DEF R
<1>4. PICK x \in S : \A y \in S : ~ (<<y, x>> \in R)
  BY <1>1, <1>3, WFMin
<1>5. ASSUME NEW y \in S PROVE x <= y
  <2>1. x \in Nat /\ y \in Nat /\ ~(y < x)
    BY <1>2, <1>3, <1>4
  <2> QED BY <2>1
<1> QED BY <1>5 DEF Min

(* The tag goes out only when nothing is missing.                              *)
LEMMA ReceivedAllIs ==
  ASSUME NEW S \in SUBSET Packets, ReceivedAll(S)
  PROVE  S = Packets
<1>1. LastPacket \in S /\ \A s \in Packets : s < Max(S) => s \in S
  BY DEF ReceivedAll
<1>2. \A s \in S : s \in Nat /\ s <= LastPacket
  BY PacketsAre, LastIs
<1>3. Max(S) \in S /\ \A s \in S : Max(S) >= s
  <2>1. \A s \in S : LastPacket >= s
    BY <1>1, <1>2
  <2> QED BY <1>1, <2>1 DEF Max
<1>4. Max(S) = LastPacket
  BY <1>1, <1>2, <1>3
<1>5. ASSUME NEW s \in Packets PROVE s \in S
  <2>1. s \in Nat /\ LastPacket \in Nat /\ s <= LastPacket
    BY <1>1, <1>2, PacketsAre, LastIs
  <2> QED BY <2>1, <1>1, <1>4
<1> QED BY <1>5
------------------------------------------------------------------------------
(* The sender has sent the packets below snd_nxt, which is a packet or the end;
   what it does not miss any more has arrived, unless chunks are acknowledged,
   and so has every packet of which an ACK is under way. Completion has been
   reported when the last ACK has come.                                        *)
Unsent == snd_nxt \in Packets \/ snd_nxt = Size

Acked == {s \in Packets : s < snd_nxt} \ sent

OnlySentMissing == \A s \in sent : s < snd_nxt

AckedHasArrived ==
  /\ ~BackTo0 => Acked \subseteq received
  /\ \A a \in Ack : acks[a] > 0 => a.psn \in received

Reported == completed > 0 <=> received_last_ack

PacketInv ==
  /\ TypeOK /\ Unsent /\ OnlySentMissing
  /\ RetransmitsOutstanding /\ LastAckMeansAll /\ WinBoundsOnTheFly /\ TailIsTimed
  /\ AckedHasArrived /\ Reported
  /\ ~BackTo0 => OutstandingUnderWay

LEMMA InitPacket == Init => PacketInv
<1> SUFFICES ASSUME Init PROVE PacketInv
  OBVIOUS
<1>1. TypeOK
  <2>1. /\ data \in [Packets -> 0..MaxCopies] /\ acks \in [Ack -> 0..MaxCopies]
        /\ lost \in 0..MaxLoss
    BY PacketLevelAssumption DEF PacketLevelAssumption, Init
  <2>2. snd_una \in 0..Size /\ snd_nxt \in 0..Size
    BY Sizes DEF Init
  <2>3. timeouted \in BOOLEAN /\ received_last_ack \in BOOLEAN /\ rto \in BOOLEAN
    BY Zenon DEF Init
  <2>5. completed \in Nat
    BY DEF Init
  <2>4. sent \subseteq Packets /\ timeout_psn \subseteq Packets /\ received \subseteq Packets
    BY DEF Init
  <2> QED BY <2>1, <2>2, <2>3, <2>4, <2>5 DEF TypeOK
<1>2. Unsent /\ OnlySentMissing /\ RetransmitsOutstanding
  BY PacketsAre DEF Init, Unsent, OnlySentMissing, RetransmitsOutstanding
<1>3. \A a \in Ack : ~(acks[a] > 0)
  BY DEF Init
<1>4. LastAckMeansAll
  BY <1>3 DEF LastAckMeansAll, Init
<1>5. WinBoundsOnTheFly
  <2>1. GetOnTheFly(sent, timeout_psn) = 0
    <3>1. Bytes({}) = 0
      BY BytesAre
    <3> QED BY <3>1 DEF Init, GetOnTheFly
  <2> QED BY <2>1, Sizes DEF WinBoundsOnTheFly
<1>6. TailIsTimed
  BY DEF TailIsTimed, Init
<1>7. AckedHasArrived
  <2>1. Acked = {}
    BY PacketsAre DEF Acked, Init
  <2> QED BY <2>1, <1>3 DEF AckedHasArrived
<1>8. Reported
  BY DEF Reported, Init
<1>9. OutstandingUnderWay
  BY DEF OutstandingUnderWay, Init
<1> QED BY <1>1, <1>2, <1>4, <1>5, <1>6, <1>7, <1>8, <1>9 DEF PacketInv

(* Nothing left to send and something missing: the timer is scheduled.         *)
LEMMA TailArmed ==
  ASSUME NEW nxt, NEW out \in SUBSET Packets, NEW again \in SUBSET Packets,
         UseRTO, GetBytesLeft(nxt, again) = 0, out # {}
  PROVE  ArmsRTO(nxt, out, again)
<1>1. Bytes(out) \in Nat /\ Bytes(out) > 0 /\ Bytes(again) \in Nat
      /\ (again # {} => Bytes(again) > 0) /\ (again = {} => Bytes(again) = 0)
  BY BytesAre
<1>2. timeouted => again = {}
  BY <1>1 DEF GetBytesLeft
<1>3. GetOnTheFly(out, again) > 0
  BY <1>1, <1>2 DEF GetOnTheFly
<1> QED BY <1>3 DEF ArmsRTO

LEMMA OnTheFlyIs ==
  ASSUME NEW out \in SUBSET Packets, NEW again \in SUBSET Packets
  PROVE  GetOnTheFly(out, again) \in Int
  BY BytesAre DEF GetOnTheFly

LEMMA SendNewPacket ==
  ASSUME PacketInv, Send, SendNew
  PROVE  /\ snd_nxt' \in 0..Size /\ Unsent' /\ OnlySentMissing'
         /\ sent' \subseteq Packets /\ RetransmitsOutstanding'
         /\ WinBoundsOnTheFly' /\ Acked' = Acked
<1>0. /\ snd_nxt \in Nat /\ sent \in SUBSET Packets /\ timeout_psn \in SUBSET Packets
      /\ Unsent /\ OnlySentMissing
      /\ snd_nxt' = snd_nxt + Payload(snd_nxt)
      /\ sent' = sent \cup {snd_nxt} /\ timeout_psn' = timeout_psn
      /\ timeouted' = timeouted
  BY Sizes DEF PacketInv, TypeOK, Send, SendNew
<1>1. snd_nxt \in Packets
  <2>1. CASE timeouted /\ timeout_psn # {}
    BY <2>1, <1>0, Sizes DEF SendNew, Unsent
  <2>2. CASE ~(timeouted /\ timeout_psn # {})
    <3>1. Size - snd_nxt > 0
      BY <2>2 DEF Send, GetBytesLeft
    <3> QED BY <3>1, <1>0, Sizes DEF Unsent
  <2> QED BY <2>1, <2>2
<1>2. /\ Payload(snd_nxt) \in Nat /\ Payload(snd_nxt) > 0 /\ Payload(snd_nxt) <= Mtu
      /\ snd_nxt' \in Packets \/ snd_nxt' = Size
  BY <1>0, <1>1, PayloadIs
<1>3. snd_nxt' \in 0..Size /\ snd_nxt' > snd_nxt /\ snd_nxt' <= snd_nxt + Mtu
  BY <1>0, <1>2, PacketsAre, Sizes
<1>4. \A s \in Packets : s < snd_nxt' /\ s # snd_nxt => s < snd_nxt
  <2> SUFFICES ASSUME NEW s \in Packets, s < snd_nxt', s # snd_nxt, ~(s < snd_nxt)
               PROVE  FALSE
    OBVIOUS
  <2>1. s \in Nat /\ s % Mtu = 0 /\ snd_nxt % Mtu = 0 /\ s > snd_nxt
    BY <1>0, <1>1, PacketsAre
  <2>2. s >= snd_nxt + Mtu
    BY <2>1, <1>0, Sizes, MultiplesApart
  <2> QED BY <2>1, <2>2, <1>0, <1>3, Sizes
<1>5. OnlySentMissing'
  <2> SUFFICES ASSUME NEW s \in sent' PROVE s < snd_nxt'
    BY DEF OnlySentMissing
  <2>1. s \in Nat
    BY <1>0, <1>1, PacketsAre
  <2>2. s = snd_nxt \/ s < snd_nxt
    BY <1>0 DEF OnlySentMissing
  <2> QED BY <2>1, <2>2, <1>0, <1>3
<1>6. Acked' = Acked
  <2>1. \A s \in Packets : s < snd_nxt => s < snd_nxt' /\ s # snd_nxt
    BY <1>0, <1>3, PacketsAre
  <2> QED BY <2>1, <1>0, <1>4 DEF Acked
<1>7. WinBoundsOnTheFly'
  <2> SUFFICES ASSUME Win # 0 PROVE GetOnTheFly(sent, timeout_psn)' < Win + Mtu
    BY DEF WinBoundsOnTheFly
  <2>1. snd_nxt \notin sent
    BY <1>0 DEF OnlySentMissing
  <2>2. Bytes(sent') = Bytes(sent) + Payload(snd_nxt)
    BY <2>1, <1>0, <1>1, BytesWith
  <2>3. ~(GetOnTheFly(sent, timeout_psn) >= Win)
    BY DEF Send, IsWinBound
  <2>4. Bytes(sent) \in Nat /\ Bytes(timeout_psn) \in Nat
    BY <1>0, BytesAre
  <2>5. GetOnTheFly(sent, timeout_psn)'
        = Bytes(sent') - IF timeouted THEN Bytes(timeout_psn) ELSE 0
    BY <1>0 DEF GetOnTheFly
  <2> QED BY <2>2, <2>3, <2>4, <2>5, <1>2, Sizes DEF GetOnTheFly
<1>8. RetransmitsOutstanding'
  BY <1>0 DEF RetransmitsOutstanding, PacketInv
<1> QED BY <1>0, <1>1, <1>2, <1>3, <1>5, <1>6, <1>7, <1>8 DEF Unsent

LEMMA SendAgainPacket ==
  ASSUME PacketInv, Send, SendAgain
  PROVE  /\ snd_nxt' \in 0..Size /\ Unsent' /\ OnlySentMissing'
         /\ sent' \subseteq Packets /\ RetransmitsOutstanding'
         /\ WinBoundsOnTheFly' /\ Acked' = Acked
<1> DEFINE psn == Min(timeout_psn)
<1>0. /\ sent \in SUBSET Packets /\ timeout_psn \in SUBSET Packets /\ psn \in timeout_psn
      /\ timeout_psn' = timeout_psn \ {psn} /\ snd_nxt' = snd_nxt /\ sent' = sent
      /\ timeouted /\ timeouted' = timeouted
  BY FirstPacket DEF PacketInv, TypeOK, Send, SendAgain
<1> HIDE DEF psn
<1>1. /\ snd_nxt' \in 0..Size /\ Unsent' /\ OnlySentMissing' /\ sent' \subseteq Packets
      /\ Acked' = Acked
  BY <1>0 DEF PacketInv, TypeOK, Unsent, OnlySentMissing, Acked
<1>2. RetransmitsOutstanding'
  BY <1>0 DEF PacketInv, RetransmitsOutstanding
<1>3. WinBoundsOnTheFly'
  <2> SUFFICES ASSUME Win # 0 PROVE GetOnTheFly(sent, timeout_psn)' < Win + Mtu
    BY DEF WinBoundsOnTheFly
  <2>1. /\ Bytes(timeout_psn') = Bytes(timeout_psn) - Payload(psn)
        /\ Payload(psn) \in Nat /\ Payload(psn) <= Mtu
    BY <1>0, BytesWithout, PayloadIs
  <2>2. ~(GetOnTheFly(sent, timeout_psn) >= Win)
    BY DEF Send, IsWinBound
  <2>3. Bytes(sent) \in Nat /\ Bytes(timeout_psn) \in Nat
    BY <1>0, BytesAre
  <2>4. /\ GetOnTheFly(sent, timeout_psn) = Bytes(sent) - Bytes(timeout_psn)
        /\ GetOnTheFly(sent, timeout_psn)' = Bytes(sent) - Bytes(timeout_psn')
    BY <1>0 DEF GetOnTheFly
  <2> QED BY <2>1, <2>2, <2>3, <2>4, Sizes
<1> QED BY <1>1, <1>2, <1>3

LEMMA SendPacket ==
  ASSUME PacketInv, Send
  PROVE  PacketInv' /\ Acked' = Acked
<1>1. /\ snd_nxt' \in 0..Size /\ Unsent' /\ OnlySentMissing'
      /\ sent' \subseteq Packets /\ RetransmitsOutstanding'
      /\ WinBoundsOnTheFly' /\ Acked' = Acked
  <2>1. SendNew \/ SendAgain
    BY DEF Send
  <2> QED BY <2>1, SendNewPacket, SendAgainPacket
<1>2. timeout_psn' \subseteq Packets
  BY <1>1 DEF RetransmitsOutstanding
<1>3. TypeOK'
  <2>1. rto' \in BOOLEAN
    BY Zenon DEF Send, PacketInv, TypeOK, ArmsRTO
  <2> QED BY <1>1, <1>2, <2>1 DEF PacketInv, TypeOK, Send
<1>4. TailIsTimed'
  <2> SUFFICES ASSUME UseRTO, GetBytesLeft(snd_nxt, timeout_psn)' = 0, sent' # {}
               PROVE  rto'
    BY DEF TailIsTimed
  <2>1. GetBytesLeft(snd_nxt', timeout_psn') = 0
    BY DEF GetBytesLeft, Send
  <2>2. ArmsRTO(snd_nxt', sent', timeout_psn')
    BY <1>1, <1>2, <2>1, TailArmed
  <2> QED BY <2>2 DEF Send
<1>5. LastAckMeansAll' /\ AckedHasArrived'
  BY <1>1 DEF PacketInv, LastAckMeansAll, AckedHasArrived, Send
<1>6. Reported'
  BY DEF PacketInv, Reported, Send
<1>7. ASSUME ~BackTo0 PROVE OutstandingUnderWay'
  <2>1. /\ data \in [Packets -> 0..MaxCopies] /\ acks' = acks /\ lost' = lost
        /\ sent \subseteq Packets
    BY DEF PacketInv, TypeOK, Send
  <2>2. OutstandingUnderWay
    BY <1>7 DEF PacketInv
  <2>3. \A s \in sent' : data'[s] > 0 \/ (s \in sent /\ data'[s] >= data[s])
    <3>1. CASE SendNew
      <4>1. /\ sent' = sent \cup {snd_nxt} /\ sent' \subseteq Packets
            /\ data' = [data EXCEPT ![snd_nxt] = @ + 1]
        BY <1>1, <3>1 DEF SendNew
      <4> QED BY <2>1, <4>1
    <3>2. CASE SendAgain
      <4>1. PICK psn : data' = [data EXCEPT ![psn] = @ + 1] /\ sent' = sent
        BY <3>2 DEF SendAgain
      <4> QED BY <2>1, <4>1
    <3> QED BY <3>1, <3>2 DEF Send
  <2>4. \A s \in sent : data[s] \in Nat /\ (s \in sent' => data'[s] \in Nat)
    <3>1. data' \in [Packets -> 0..MaxCopies]
      BY DEF Send
    <3>2. 0..MaxCopies \subseteq Nat
      BY PacketLevelAssumption DEF PacketLevelAssumption
    <3> QED BY <2>1, <3>1, <3>2
  <2> QED BY <2>1, <2>2, <2>3, <2>4 DEF OutstandingUnderWay
<1> QED BY <1>1, <1>3, <1>4, <1>5, <1>6, <1>7 DEF PacketInv

LEMMA TimeoutPacket ==
  ASSUME PacketInv, Timeout
  PROVE  PacketInv' /\ Acked' = Acked
<1>0. /\ sent \in SUBSET Packets /\ sent' = sent /\ timeout_psn' = sent
      /\ snd_nxt' = snd_nxt /\ timeouted' = TRUE
  BY DEF PacketInv, TypeOK, Timeout
<1>1. TypeOK' /\ Unsent' /\ OnlySentMissing' /\ RetransmitsOutstanding' /\ Acked' = Acked
  BY <1>0 DEF PacketInv, TypeOK, Unsent, OnlySentMissing, RetransmitsOutstanding, Acked, Timeout
<1>2. /\ Bytes(sent) \in Nat
      /\ sent # {} => Bytes(sent) > 0
  BY <1>0, BytesAre
<1>3. WinBoundsOnTheFly'
  <2>1. GetOnTheFly(sent, timeout_psn)' = Bytes(sent) - Bytes(sent)
    BY <1>0 DEF GetOnTheFly
  <2> QED BY <1>2, <2>1, Sizes DEF WinBoundsOnTheFly
<1>4. TailIsTimed'
  <2>1. sent' # {} => GetBytesLeft(snd_nxt, timeout_psn)' = Bytes(sent)
    BY <1>0 DEF GetBytesLeft
  <2> QED BY <1>0, <1>2, <2>1 DEF TailIsTimed
<1>5. LastAckMeansAll' /\ AckedHasArrived'
  BY <1>1 DEF PacketInv, LastAckMeansAll, AckedHasArrived, Timeout
<1>6. Reported' /\ (~BackTo0 => OutstandingUnderWay')
  BY <1>0 DEF PacketInv, Reported, OutstandingUnderWay, Timeout
<1> QED BY <1>1, <1>3, <1>4, <1>5, <1>6 DEF PacketInv

LEMMA ReceiveAckPacket ==
  ASSUME PacketInv, NEW a \in Ack, ReceiveAck(a)
  PROVE  /\ PacketInv'
         /\ Acked \subseteq Acked' /\ (~BackTo0 => Acked' \subseteq received)
         /\ a.last => received = Packets
<1> DEFINE g == GoBack(a.psn)
<1>0. /\ sent \in SUBSET Packets /\ timeout_psn \in SUBSET Packets
      /\ timeout_psn \subseteq sent
      /\ acks[a] > 0 /\ a.psn \in Packets /\ acks \in [Ack -> 0..MaxCopies]
      /\ acks' = [acks EXCEPT ![a] = @ - 1]
      /\ sent' = sent \ {g} /\ timeout_psn' = timeout_psn \ {g}
      /\ (~BackTo0 => g = a.psn)
      /\ snd_nxt' = snd_nxt /\ timeouted' = timeouted /\ received' = received
      /\ received_last_ack' = (received_last_ack \/ a.last)
      /\ completed' = completed + IF received_last_ack' THEN 1 ELSE 0
      /\ data' = data /\ lost' = lost
  <2>1. ~BackTo0 => g = a.psn
    BY DEF GoBack
  <2> HIDE DEF g
  <2>2. Acknowledge(g)
    BY DEF ReceiveAck, g
  <2> QED BY <2>1, <2>2 DEF PacketInv, TypeOK, RetransmitsOutstanding, ReceiveAck, Acknowledge, Ack
<1> HIDE DEF g
<1>1. RetransmitsOutstanding' /\ OnlySentMissing' /\ Unsent'
  BY <1>0 DEF PacketInv, RetransmitsOutstanding, OnlySentMissing, Unsent
<1>2. acks' \in [Ack -> 0..MaxCopies] /\ \A b \in Ack : acks'[b] > 0 => acks[b] > 0
  <2>1. acks[a] \in 0..MaxCopies /\ MaxCopies \in Nat
    BY <1>0, PacketLevelAssumption DEF PacketLevelAssumption
  <2>2. acks[a] - 1 \in 0..MaxCopies
    BY <1>0, <2>1
  <2> QED BY <1>0, <2>2
<1>3. snd_una' \in 0..Size
  <2>1. sent' # {} => Min(sent') \in Packets
    BY <1>0, FirstPacket
  <2>2. Packets \subseteq 0..Size
    BY PacketsAre, Sizes
  <2>3. snd_una \in 0..Size /\ snd_nxt \in 0..Size
    BY DEF PacketInv, TypeOK
  <2> QED BY <1>0, <2>1, <2>2, <2>3 DEF ReceiveAck, Acknowledge, g
<1>4. received_last_ack' \in BOOLEAN /\ rto' \in BOOLEAN
  <2>1. rto' \in BOOLEAN
    BY Zenon DEF ReceiveAck
  <2>2. received_last_ack' \in BOOLEAN
    BY Zenon, <1>0
  <2> QED BY <2>1, <2>2
<1>5. TypeOK' /\ Reported'
  <2>1. completed \in Nat /\ (completed > 0 <=> received_last_ack)
    BY DEF PacketInv, TypeOK, Reported
  <2>2. CASE received_last_ack'
    <3>1. completed' = completed + 1
      BY <1>0, <2>2
    <3>2. Reported' /\ completed' \in Nat
      BY <2>1, <2>2, <3>1 DEF Reported
    <3> QED BY <1>0, <1>2, <1>3, <1>4, <3>2 DEF PacketInv, TypeOK, ReceiveAck
  <2>3. CASE ~received_last_ack'
    <3>1. ~received_last_ack
      BY Zenon, <1>0, <2>3
    <3>2. Reported' /\ completed' \in Nat
      <4>1. completed' = completed + 0
        BY <1>0, <2>3
      <4> QED BY <2>1, <2>3, <3>1, <4>1 DEF Reported
    <3> QED BY <1>0, <1>2, <1>3, <1>4, <3>2 DEF PacketInv, TypeOK, ReceiveAck
  <2> QED BY <2>2, <2>3
<1>6. a.last => received = Packets
  BY <1>0 DEF PacketInv, LastAckMeansAll
<1>7. LastAckMeansAll'
  BY <1>0, <1>2, <1>6 DEF PacketInv, LastAckMeansAll
<1>8. /\ Acked \subseteq Acked' /\ Acked' \subseteq Acked \cup {g}
      /\ a.psn \in received
  BY <1>0 DEF PacketInv, AckedHasArrived, Acked
<1>9. (~BackTo0 => Acked' \subseteq received) /\ AckedHasArrived'
  BY <1>0, <1>2, <1>8 DEF PacketInv, AckedHasArrived
<1>10. WinBoundsOnTheFly'
  <2> SUFFICES ASSUME Win # 0 PROVE GetOnTheFly(sent, timeout_psn)' < Win + Mtu
    BY DEF WinBoundsOnTheFly
  <2>1. GetOnTheFly(sent, timeout_psn) < Win + Mtu
    BY DEF PacketInv, WinBoundsOnTheFly
  <2>2. /\ GetOnTheFly(sent, timeout_psn)
           = Bytes(sent) - IF timeouted THEN Bytes(timeout_psn) ELSE 0
        /\ GetOnTheFly(sent, timeout_psn)'
           = Bytes(sent') - IF timeouted THEN Bytes(timeout_psn') ELSE 0
    BY <1>0 DEF GetOnTheFly
  <2>3. /\ Bytes(sent) \in Nat /\ Bytes(timeout_psn) \in Nat
        /\ g \in sent => Payload(g) \in Nat
    BY <1>0, BytesAre, PayloadIs
  <2>4. CASE g \notin sent
    <3>1. sent' = sent /\ timeout_psn' = timeout_psn
      BY <1>0, <2>4
    <3> QED BY <2>1, <2>2, <3>1
  <2>5. CASE g \in timeout_psn
    <3>1. /\ Bytes(sent') = Bytes(sent) - Payload(g)
          /\ Bytes(timeout_psn') = Bytes(timeout_psn) - Payload(g)
      BY <1>0, <2>5, BytesWithout
    <3>2. Payload(g) \in Nat
      BY <1>0, <2>3, <2>5
    <3> QED BY <2>1, <2>2, <2>3, <3>1, <3>2, Sizes
  <2>6. CASE g \in sent /\ g \notin timeout_psn
    <3>1. Bytes(sent') = Bytes(sent) - Payload(g)
      BY <1>0, <2>6, BytesWithout
    <3>2. timeout_psn' = timeout_psn
      BY <1>0, <2>6
    <3>3. Payload(g) \in Nat
      BY <2>3, <2>6
    <3> QED BY <2>1, <2>2, <2>3, <3>1, <3>2, <3>3, Sizes
  <2> QED BY <2>4, <2>5, <2>6
<1>11. TailIsTimed'
  <2> SUFFICES ASSUME UseRTO, GetBytesLeft(snd_nxt, timeout_psn)' = 0, sent' # {}
               PROVE  rto'
    BY DEF TailIsTimed
  <2>1. GetBytesLeft(snd_nxt', timeout_psn') = 0
    BY <1>0 DEF GetBytesLeft
  <2>2. sent' \in SUBSET Packets /\ timeout_psn' \in SUBSET Packets
    BY <1>0
  <2>3. ArmsRTO(snd_nxt', sent', timeout_psn')
    BY <2>1, <2>2, TailArmed
  <2> QED BY <2>3 DEF ReceiveAck
<1>12. ASSUME ~BackTo0 PROVE OutstandingUnderWay'
  <2> SUFFICES ASSUME lost = 0, NEW s \in sent'
               PROVE  data'[s] > 0 \/ \E c \in Ack : c.psn = s /\ acks'[c] > 0
    BY <1>0 DEF OutstandingUnderWay
  <2>1. s \in sent /\ s # a.psn
    BY <1>0, <1>12
  <2>2. data[s] > 0 \/ \E c \in Ack : c.psn = s /\ acks[c] > 0
    BY <1>12, <2>1 DEF PacketInv, OutstandingUnderWay
  <2>3. ASSUME NEW c \in Ack, c.psn = s PROVE acks'[c] = acks[c]
    BY <1>0, <2>1, <2>3
  <2> QED BY <1>0, <2>2, <2>3
<1> QED BY <1>1, <1>5, <1>6, <1>7, <1>8, <1>9, <1>10, <1>11, <1>12 DEF PacketInv

LEMMA ReceiveUdpPacket ==
  ASSUME PacketInv, NEW s \in Packets, ReceiveUdp(s)
  PROVE  PacketInv'
<1> DEFINE b == [psn |-> s, last |-> ReceivedAll(received')]
<1>0. /\ received' = received \cup {s} /\ received \in SUBSET Packets
      /\ data' = [data EXCEPT ![s] = @ - 1] /\ data[s] > 0 /\ data \in [Packets -> 0..MaxCopies]
      /\ acks' = [acks EXCEPT ![b] = @ + 1] /\ acks' \in [Ack -> 0..MaxCopies]
      /\ acks \in [Ack -> 0..MaxCopies]
      /\ UNCHANGED sender /\ lost' = lost
  BY DEF PacketInv, TypeOK, ReceiveUdp
<1>1. b.psn = s /\ b.last = ReceivedAll(received')
  OBVIOUS
<1> HIDE DEF b
<1>2. data' \in [Packets -> 0..MaxCopies]
  <2>1. data[s] \in 0..MaxCopies /\ MaxCopies \in Nat
    BY <1>0, PacketLevelAssumption DEF PacketLevelAssumption
  <2>2. data[s] - 1 \in 0..MaxCopies
    BY <1>0, <2>1
  <2> QED BY <1>0, <2>2
<1>3. TypeOK'
  BY <1>0, <1>2 DEF PacketInv, TypeOK, sender
<1>4. Unsent' /\ OnlySentMissing' /\ RetransmitsOutstanding'
  BY <1>0 DEF PacketInv, Unsent, OnlySentMissing, RetransmitsOutstanding, sender
<1>5. WinBoundsOnTheFly' /\ TailIsTimed'
  BY <1>0 DEF PacketInv, WinBoundsOnTheFly, TailIsTimed, GetOnTheFly, GetBytesLeft, sender
<1>6. \A a \in Ack : acks'[a] > 0 => acks[a] > 0 \/ a = b
  BY <1>0
<1>7. AckedHasArrived'
  BY <1>0, <1>1, <1>6 DEF PacketInv, AckedHasArrived, Acked, sender
<1>8. LastAckMeansAll'
  <2> SUFFICES ASSUME received_last_ack \/ (\E a \in Ack : acks'[a] > 0 /\ a.last)
               PROVE  received' = Packets
    BY <1>0 DEF LastAckMeansAll, sender
  <2>1. received = Packets => received' = Packets
    BY <1>0
  <2>2. ReceivedAll(received') => received' = Packets
    BY <1>0, ReceivedAllIs
  <2> QED BY <1>1, <1>6, <2>1, <2>2 DEF PacketInv, LastAckMeansAll
<1>9. Reported'
  BY <1>0 DEF PacketInv, Reported, sender
<1>10. ASSUME ~BackTo0 PROVE OutstandingUnderWay'
  <2> SUFFICES ASSUME lost = 0, NEW t \in sent
               PROVE  data'[t] > 0 \/ \E c \in Ack : c.psn = t /\ acks'[c] > 0
    BY <1>0 DEF OutstandingUnderWay, sender
  <2>1. data[t] > 0 \/ \E c \in Ack : c.psn = t /\ acks[c] > 0
    BY <1>10 DEF PacketInv, OutstandingUnderWay
  <2>2. b \in Ack /\ (received' \subseteq Packets)
    BY <1>0 DEF b, Ack, ReceivedAll
  <2>3. \A c \in Ack : acks[c] \in Nat
    <3>1. 0..MaxCopies \subseteq Nat
      BY PacketLevelAssumption DEF PacketLevelAssumption
    <3> QED BY <1>0, <3>1
  <2>4. CASE t = s
    BY <1>0, <1>1, <2>2, <2>3, <2>4
  <2>5. CASE t # s
    <3>1. t \in Packets
      BY DEF PacketInv, TypeOK
    <3>2. data'[t] = data[t]
      BY <1>0, <2>5, <3>1
    <3>3. \A c \in Ack : acks[c] > 0 => acks'[c] > 0
      BY <1>0, <2>2, <2>3
    <3> QED BY <2>1, <3>2, <3>3
  <2> QED BY <2>4, <2>5
<1> QED BY <1>3, <1>4, <1>5, <1>7, <1>8, <1>9, <1>10 DEF PacketInv

LEMMA DropPacket ==
  ASSUME PacketInv,
         (\E s \in Packets : DropData(s)) \/ (\E a \in Ack : DropAck(a))
  PROVE  PacketInv' /\ UNCHANGED <<sender, received>>
<1>1. /\ lost' = lost + 1 /\ lost < MaxLoss
      /\ UNCHANGED <<sender, received>>
  BY DEF DropData, DropAck
<1>2. lost' \in 0..MaxLoss
  BY <1>1, PacketLevelAssumption DEF PacketLevelAssumption, PacketInv, TypeOK
<1>3. /\ data' \in [Packets -> 0..MaxCopies] /\ acks' \in [Ack -> 0..MaxCopies]
      /\ \A a \in Ack : acks'[a] > 0 => acks[a] > 0
  <2>1. /\ data \in [Packets -> 0..MaxCopies] /\ acks \in [Ack -> 0..MaxCopies]
        /\ MaxCopies \in Nat
    BY PacketLevelAssumption DEF PacketLevelAssumption, PacketInv, TypeOK
  <2>2. ASSUME NEW s \in Packets, DropData(s)
        PROVE  data' \in [Packets -> 0..MaxCopies] /\ acks' = acks
    <3>1. data[s] \in 0..MaxCopies /\ data[s] > 0
      BY <2>1, <2>2 DEF DropData
    <3>2. data[s] - 1 \in 0..MaxCopies
      BY <2>1, <3>1
    <3> QED BY <2>1, <2>2, <3>2 DEF DropData
  <2>3. ASSUME NEW a \in Ack, DropAck(a)
        PROVE  /\ data' = data /\ acks' \in [Ack -> 0..MaxCopies]
               /\ \A c \in Ack : acks'[c] > 0 => acks[c] > 0
    <3>1. acks[a] \in 0..MaxCopies /\ acks[a] > 0
      BY <2>1, <2>3 DEF DropAck
    <3>2. acks[a] - 1 \in 0..MaxCopies /\ acks' = [acks EXCEPT ![a] = @ - 1] /\ data' = data
      BY <2>1, <2>3, <3>1 DEF DropAck
    <3> QED BY <2>1, <3>1, <3>2
  <2> QED BY <2>1, <2>2, <2>3
<1>4. TypeOK'
  BY <1>1, <1>2, <1>3 DEF PacketInv, TypeOK, sender
<1>5. /\ Unsent' /\ OnlySentMissing' /\ RetransmitsOutstanding'
      /\ WinBoundsOnTheFly' /\ TailIsTimed'
  BY <1>1 DEF PacketInv, Unsent, OnlySentMissing, RetransmitsOutstanding,
              WinBoundsOnTheFly, TailIsTimed, GetOnTheFly, GetBytesLeft, sender
<1>6. AckedHasArrived' /\ LastAckMeansAll'
  BY <1>1, <1>3 DEF PacketInv, AckedHasArrived, LastAckMeansAll, Acked, sender
<1>7. Reported' /\ OutstandingUnderWay'
  <2>1. lost' # 0
    BY <1>1, PacketLevelAssumption DEF PacketLevelAssumption, PacketInv, TypeOK
  <2> QED BY <1>1, <2>1 DEF PacketInv, Reported, OutstandingUnderWay, sender
<1> QED BY <1>1, <1>4, <1>5, <1>6, <1>7 DEF PacketInv

LEMMA NextPacket == PacketInv /\ [Next]_vars => PacketInv'
<1> SUFFICES ASSUME PacketInv, [Next]_vars PROVE PacketInv'
  OBVIOUS
<1>1. CASE UNCHANGED vars
  <2>1. UNCHANGED <<sender, received, data, acks, lost>>
    BY <1>1 DEF vars
  <2> QED BY <2>1 DEF PacketInv, TypeOK, Unsent, OnlySentMissing, RetransmitsOutstanding,
             WinBoundsOnTheFly, TailIsTimed, GetOnTheFly, GetBytesLeft,
             AckedHasArrived, LastAckMeansAll, Acked, Reported, OutstandingUnderWay, sender
<1>2. CASE Next
  BY <1>2, SendPacket, TimeoutPacket, ReceiveAckPacket, ReceiveUdpPacket, DropPacket DEF Next
<1> QED BY <1>1, <1>2
------------------------------------------------------------------------------
(* The sender, the receiver and the counts of what is under way keep their
   types.                                                                      *)
THEOREM TypeCorrect == Spec => []TypeOK
<1>1. PacketInv => TypeOK
  BY DEF PacketInv
<1> QED BY InitPacket, NextPacket, <1>1, PTL DEF Spec

(* Whatever order packets and ACKs arrive in, what is to be sent again is
   outstanding, so GetOnTheFly does not go below zero and its assert holds.     *)
THEOREM RetransmitsAreOutstanding == Spec => []RetransmitsOutstanding
<1>1. PacketInv => RetransmitsOutstanding
  BY DEF PacketInv
<1> QED BY InitPacket, NextPacket, <1>1, PTL DEF Spec

(* What is under way stays below the window, but for the packet that reaches
   it, through timeouts and late ACKs (GetOnTheFly, IsWinBound).                *)
THEOREM WindowHolds == Spec => []WinBoundsOnTheFly
<1>1. PacketInv => WinBoundsOnTheFly
  BY DEF PacketInv
<1> QED BY InitPacket, NextPacket, <1>1, PTL DEF Spec

(* The tag of the last packet is put on an ACK, and believed by the sender, only
   when the receiver has the whole flow (ReceivedAll, IsFinished).              *)
THEOREM LastAckIsTrue == Spec => []LastAckMeansAll
<1>1. PacketInv => LastAckMeansAll
  BY DEF PacketInv
<1> QED BY InitPacket, NextPacket, <1>1, PTL DEF Spec

(* With nothing left to send and something not acknowledged the timeout is
   scheduled, whichever of GetNxtPacket and ReceiveAck came last.               *)
THEOREM TailAlwaysTimed == Spec => []TailIsTimed
<1>1. PacketInv => TailIsTimed
  BY DEF PacketInv
<1> QED BY InitPacket, NextPacket, <1>1, PTL DEF Spec

(* Every packet that counts against the window is on its way or its ACK is,
   unless something was lost, when each ACK takes its own packet off; a sender
   that takes off the start of the chunk loses this (rdma-hw.cc:589).           *)
THEOREM OutstandingIsUnderWay == ~BackTo0 => (Spec => []OutstandingUnderWay)
<1> SUFFICES ASSUME ~BackTo0 PROVE Spec => []OutstandingUnderWay
  OBVIOUS
<1>1. PacketInv => OutstandingUnderWay
  BY DEF PacketInv
<1> QED BY InitPacket, NextPacket, <1>1, PTL DEF Spec
------------------------------------------------------------------------------
(* The bytes of a set grow with it, and those of all packets are the flow.     *)
LEMMA BytesGrow ==
  ASSUME NEW B \in SUBSET Packets, NEW S \in SUBSET B
  PROVE  Bytes(S) <= Bytes(B)
<1>1. IsFiniteSet(B)
  BY PacketsAre, FS_Subset
<1>2. /\ Cardinality(B) \in Nat /\ Cardinality(S) \in Nat
      /\ Cardinality(S) <= Cardinality(B)
      /\ Cardinality(S) = Cardinality(B) => S = B
  BY <1>1, FS_Subset, FS_CardinalityType
<1> DEFINE n == Cardinality(B)
           k == Cardinality(S)
<1> HIDE DEF n, k
<1>3. n \in Nat /\ k \in Nat /\ k <= n /\ (k = n => S = B)
  BY <1>2 DEF n, k
<1>4. /\ Bytes(B) = n * Mtu - IF LastPacket \in B THEN Mtu - Payload(LastPacket) ELSE 0
      /\ Bytes(S) = k * Mtu - IF LastPacket \in S THEN Mtu - Payload(LastPacket) ELSE 0
  BY DEF Bytes, n, k
<1>5. CASE k = n
  <2>1. Bytes(B) \in Nat
    BY BytesAre
  <2> QED BY <1>3, <1>5, <2>1
<1>6. CASE k < n
  <2>1. Mtu * n >= Mtu * (k + 1) /\ Mtu * (k + 1) = Mtu * k + Mtu
    BY <1>3, <1>6, Sizes, ScaleOrder, Distribute
  <2>2. n * Mtu = Mtu * n /\ k * Mtu = Mtu * k /\ Mtu * n \in Nat /\ Mtu * k \in Nat
    BY <1>3, Sizes
  <2>3. Payload(LastPacket) \in Nat /\ Payload(LastPacket) <= Mtu
    BY PayloadIs, LastIs
  <2>4. n * Mtu >= k * Mtu + Mtu /\ n * Mtu \in Nat /\ k * Mtu \in Nat
    BY <2>1, <2>2, Sizes
  <2>5. Bytes(B) >= n * Mtu - Mtu
    BY <1>4, <2>3, <2>4, Sizes
  <2>6. Bytes(S) <= k * Mtu
    BY <1>4, <2>3, <2>4, Sizes
  <2>7. Bytes(B) \in Nat /\ Bytes(S) \in Nat
    BY BytesAre
  <2> QED BY <2>4, <2>5, <2>6, <2>7, Sizes
<1> QED BY <1>3, <1>5, <1>6

LEMMA BytesOfFlow == Bytes(Packets) = Size
<1>1. /\ LastPacket \in Nat /\ LastPacket < Size /\ LastPacket % Mtu = 0
      /\ LastPacket + Mtu >= Size /\ LastPacket \in Packets
  BY LastIs, PacketsAre
<1> DEFINE k == LastPacket \div Mtu
<1>2. k \in Nat /\ LastPacket = Mtu * k + 0 /\ Mtu * k \in Nat
  BY <1>1, Sizes, Euclid
<1> HIDE DEF k
<1>3. LastPacket = Mtu * k
  BY <1>2
<1> DEFINE f == [i \in 0..k |-> Mtu * i]
<1>4. f \in [0..k -> Packets]
  <2> SUFFICES ASSUME NEW i \in 0..k PROVE Mtu * i \in Packets
    BY DEF f
  <2>1. i \in Nat /\ Mtu * i \in Nat /\ (Mtu * i) % Mtu = 0
    BY <1>2, Sizes, MultipleMod
  <2>2. Mtu * k >= Mtu * i
    BY <1>2, <2>1, Sizes, ScaleOrder
  <2>3. Mtu * i < Size
    BY <1>1, <1>3, <2>1, <2>2, Sizes
  <2> QED BY <2>1, <2>3, PacketsAre
<1>5. \A i, j \in 0..k : f[i] = f[j] => i = j
  <2> SUFFICES ASSUME NEW i \in 0..k, NEW j \in 0..k, i < j PROVE f[i] # f[j]
    BY <1>2
  <2>1. Mtu * j >= Mtu * (i + 1) /\ Mtu * (i + 1) = Mtu * i + Mtu
    BY <1>2, Sizes, ScaleOrder, Distribute
  <2>2. Mtu * i \in Nat /\ Mtu * j \in Nat
    BY <1>2, Sizes
  <2>3. Mtu * i # Mtu * j
    BY <2>1, <2>2, Sizes
  <2> QED BY <2>3
<1>6. \A s \in Packets : \E i \in 0..k : f[i] = s
  <2> SUFFICES ASSUME NEW s \in Packets PROVE \E i \in 0..k : Mtu * i = s
    OBVIOUS
  <2>1. s \in Nat /\ s % Mtu = 0 /\ s <= LastPacket
    BY PacketsAre, LastIs
  <2> DEFINE i == s \div Mtu
  <2>2. i \in Nat /\ s = Mtu * i + 0 /\ Mtu * i \in Nat
    BY <2>1, Sizes, Euclid
  <2> HIDE DEF i
  <2>3. ~(i >= k + 1)
    <3> SUFFICES ASSUME i >= k + 1 PROVE FALSE
      OBVIOUS
    <3>1. Mtu * i >= Mtu * (k + 1) /\ Mtu * (k + 1) = Mtu * k + Mtu
      BY <1>2, <2>2, Sizes, ScaleOrder, Distribute
    <3> QED BY <3>1, <1>2, <1>3, <2>1, <2>2, Sizes
  <2>4. i \in 0..k
    BY <1>2, <2>2, <2>3
  <2> QED BY <2>2, <2>4
<1> HIDE DEF f
<1>7. f \in Bijection(0..k, Packets)
  BY <1>4, <1>5, <1>6 DEF Bijection, Injection, Surjection, IsInjective
<1>8. Cardinality(Packets) = k + 1
  <2>1. IsFiniteSet(0..k) /\ Cardinality(0..k) = k + 1
    <3>1. ~(0 > k) /\ k - 0 + 1 = k + 1 /\ k \in Int /\ 0 \in Int
      BY <1>2
    <3> QED BY <3>1, FS_Interval
  <2>2. ExistsBijection(0..k, Packets)
    BY <1>7 DEF ExistsBijection
  <2> QED BY <2>1, <2>2, FS_Bijection
<1>9. Payload(LastPacket) = Size - LastPacket
  BY <1>1, PayloadIs
<1>10. Bytes(Packets) = (k + 1) * Mtu - (Mtu - (Size - LastPacket))
  BY <1>1, <1>8, <1>9 DEF Bytes
<1>11. (k + 1) * Mtu = LastPacket + Mtu
  <2>1. Mtu * (k + 1) = Mtu * k + Mtu
    BY <1>2, Sizes, Distribute
  <2> QED BY <2>1, <1>2, <1>3, Sizes
<1> QED BY <1>1, <1>10, <1>11, Sizes
------------------------------------------------------------------------------
(* Every step of the flow is one of Transfer, or none.                         *)
LEMMA TransferInit == Init => T!Init
<1> SUFFICES ASSUME Init PROVE T!Init
  OBVIOUS
<1>1. received = {} /\ {s \in Packets : s < snd_nxt} \ sent = {} /\ completed = 0
  BY PacketsAre DEF Init
<1>2. Bytes({}) = 0
  BY BytesAre
<1> QED BY <1>1, <1>2 DEF T!Init

LEMMA TransferStutter ==
  ASSUME received' = received, Acked' = Acked, completed' = completed
  PROVE  UNCHANGED T!vars
  BY DEF T!vars, Acked, Bytes

LEMMA TransferAck ==
  ASSUME PacketInv, ~BackTo0, NEW a \in Ack, ReceiveAck(a)
  PROVE  T!Next
<1>1. /\ Acked \subseteq Acked' /\ Acked' \subseteq received
      /\ a.last => received = Packets
  BY ReceiveAckPacket
<1>2. /\ received' = received /\ received \in SUBSET Packets
      /\ received_last_ack' = (received_last_ack \/ a.last)
      /\ completed' = completed + IF received_last_ack' THEN 1 ELSE 0
      /\ completed \in Nat /\ (completed > 0 <=> received_last_ack)
  BY DEF PacketInv, TypeOK, Reported, ReceiveAck, Ack
<1>3. Acked \in SUBSET Packets /\ Acked' \in SUBSET Packets
  BY <1>1, <1>2
<1>4. Bytes(Acked) <= Bytes(Acked') /\ Bytes(Acked') <= Bytes(received)
  <2>1. Acked \in SUBSET (Acked') /\ Acked' \in SUBSET received
    BY <1>1
  <2> QED BY <2>1, <1>2, <1>3, BytesGrow
<1>5. Bytes(Acked) \in Nat /\ Bytes(Acked') \in Nat /\ Bytes(received) \in Nat
  BY <1>2, <1>3, BytesAre
<1>6. Bytes(Acked') \in Bytes(Acked) .. Bytes(received)
  BY <1>4, <1>5
<1>7. \/ (completed > 0)' = (completed > 0)
      \/ Bytes(received) = Size /\ (completed > 0)' = TRUE
  <2>1. CASE a.last
    <3>1. Bytes(received) = Size
      BY <1>1, <2>1, BytesOfFlow
    <3>2. completed' > 0
      <4>1. received_last_ack'
        BY Zenon, <1>2, <2>1
      <4> QED BY <1>2, <4>1
    <3> QED BY <3>1, <3>2
  <2>2. CASE received_last_ack
    <3>1. received_last_ack'
      BY Zenon, <1>2, <2>2
    <3> QED BY <1>2, <2>2, <3>1
  <2>3. CASE ~received_last_ack /\ ~a.last
    <3>1. ~received_last_ack'
      BY Zenon, <1>2, <2>3
    <3>2. completed' = completed + 0
      BY <1>2, <3>1
    <3> QED BY <1>2, <3>2
  <2> QED BY <2>1, <2>2, <2>3
<1>8. Bytes(received)' = Bytes(received) /\ Bytes(Acked)' = Bytes(Acked')
  BY <1>2 DEF Bytes
<1>9. T!Acknowledge
  BY <1>6, <1>7, <1>8 DEF T!Acknowledge, Acked
<1> QED BY <1>9 DEF T!Next

LEMMA TransferUdp ==
  ASSUME PacketInv, NEW s \in Packets, ReceiveUdp(s)
  PROVE  [T!Next]_(T!vars)
<1>1. /\ received' = received \cup {s} /\ received \in SUBSET Packets
      /\ Acked' = Acked /\ completed' = completed
  BY DEF PacketInv, TypeOK, ReceiveUdp, sender, Acked
<1>2. CASE s \in received
  <2>1. received' = received
    BY <1>1, <1>2
  <2> QED BY <2>1, <1>1, TransferStutter
<1>3. CASE s \notin received
  <2>1. /\ Bytes(received') = Bytes(received) + Payload(s)
        /\ Payload(s) \in Nat /\ Payload(s) > 0
    BY <1>1, <1>3, BytesWith, PayloadIs
  <2>2. received' \in SUBSET Packets
    BY <1>1
  <2>3. Bytes(received') <= Size
    BY <2>2, BytesGrow, BytesOfFlow
  <2>4. Bytes(received) \in Nat /\ Bytes(received') \in Nat
    BY <1>1, <2>2, BytesAre
  <2>5. Bytes(received') \in Bytes(received) + 1 .. Size
    BY <2>1, <2>3, <2>4, Sizes
  <2>6. Bytes(received)' = Bytes(received') /\ Bytes(Acked)' = Bytes(Acked)
    BY <1>1 DEF Bytes
  <2>7. T!Deliver
    BY <1>1, <2>5, <2>6 DEF T!Deliver, Acked
  <2> QED BY <2>7 DEF T!Next
<1> QED BY <1>2, <1>3

LEMMA TransferNext == ~BackTo0 /\ PacketInv /\ [Next]_vars => [T!Next]_(T!vars)
<1> SUFFICES ASSUME ~BackTo0, PacketInv, [Next]_vars PROVE [T!Next]_(T!vars)
  OBVIOUS
<1>1. CASE UNCHANGED vars
  BY <1>1, TransferStutter DEF vars, sender, Acked
<1>2. CASE Send
  <2>1. received' = received /\ completed' = completed
    BY <1>2 DEF Send
  <2> QED BY <1>2, <2>1, SendPacket, TransferStutter
<1>3. CASE Timeout
  <2>1. received' = received /\ completed' = completed
    BY <1>3 DEF Timeout
  <2> QED BY <1>3, <2>1, TimeoutPacket, TransferStutter
<1>4. CASE \E a \in Ack : ReceiveAck(a)
  BY <1>4, TransferAck
<1>5. CASE \E s \in Packets : ReceiveUdp(s)
  BY <1>5, TransferUdp
<1>6. CASE (\E s \in Packets : DropData(s)) \/ (\E a \in Ack : DropAck(a))
  <2>1. UNCHANGED <<sender, received>>
    BY <1>6, DropPacket
  <2> QED BY <2>1, TransferStutter DEF sender, Acked
<1> QED BY <1>1, <1>2, <1>3, <1>4, <1>5, <1>6 DEF Next

(* A flow over many paths is a Transfer too, although its packets and ACKs
   overtake each other: the bytes of what the sender does not miss any more are
   below the bytes received, and it reports completion when all has been
   received (UpdateReceivedACK, IsFinished). It is not one when chunks are
   acknowledged: the ACK of a packet then takes off an earlier one that may
   still be on its way.                                                        *)
THEOREM PacketLevelIsTransfer == ~BackTo0 => (Spec => ImplementsTransfer)
<1> SUFFICES ASSUME ~BackTo0 PROVE Spec => ImplementsTransfer
  OBVIOUS
<1>1. PacketInv /\ [Next]_vars => [T!Next]_(T!vars)
  BY TransferNext
<1> QED
  BY InitPacket, NextPacket, TransferInit, <1>1, PTL
  DEF Spec, ImplementsTransfer, T!Spec
==============================================================================
