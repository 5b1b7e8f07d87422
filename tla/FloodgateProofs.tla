----------------------------- MODULE FloodgateProofs -----------------------------
(*****************************************************************************)
(* Theorems about Floodgate, for every network, routing without self-loops,    *)
(* windows, packet sizes, VOQ configuration, K and mode of the SwitchACKs.     *)
(*****************************************************************************)
EXTENDS Floodgate, SumLemmas

All == Switch \cup {Ports}

(* What the sums of a queue are made of.                                       *)
LEMMA SizesPositive ==
  \A p \in Packet : p.size \in Nat /\ p.size > 0 /\ p.dst \in Dst /\ p.in \in All
<1> TAKE p \in Packet
<1>1. p.size \in Sizes /\ p.dst \in Dst /\ p.in \in All
  BY DEF Packet, All
<1>2. Sizes \subseteq Nat \ {0}
  BY FloodgateAssumption DEF FloodgateAssumption
<1>3. p.size \in Nat /\ p.size # 0
  BY <1>1, <1>2
<1> QED BY <1>1, <1>3

LEMMA CountedIs ==
  ASSUME NEW p \in Packet, NEW d, NEW ins
  PROVE  /\ Counted(p, d, ins) \in Nat /\ Counted(p, d, ins) <= p.size
         /\ p.dst = d /\ p.in \in ins => Counted(p, d, ins) = p.size
         /\ ~(p.dst = d /\ p.in \in ins) => Counted(p, d, ins) = 0
  BY SizesPositive DEF Counted

Weights(q, d, ins) == [i \in DOMAIN q |-> Counted(q[i], d, ins)]

LEMMA WeightsAre ==
  ASSUME NEW q \in Seq(Packet), NEW d, NEW ins
  PROVE  /\ Weights(q, d, ins) \in Seq(Int) /\ Len(Weights(q, d, ins)) = Len(q)
         /\ \A i \in 1..Len(q) : Weights(q, d, ins)[i] = Counted(q[i], d, ins)
         /\ \A i \in 1..Len(q) : Weights(q, d, ins)[i] \in Nat
         /\ Bytes(q, d, ins) = SumFunction(Weights(q, d, ins))
<1>1. DOMAIN q = 1..Len(q) /\ Len(q) \in Nat /\ \A i \in 1..Len(q) : q[i] \in Packet
  OBVIOUS
<1>2. \A i \in 1..Len(q) : Counted(q[i], d, ins) \in Nat
  BY <1>1, CountedIs
<1>3. Weights(q, d, ins) = [i \in 1..Len(q) |-> Counted(q[i], d, ins)]
  BY <1>1 DEF Weights
<1>4. \A i \in 1..Len(q) : Counted(q[i], d, ins) \in Int
  BY <1>2
<1>5. Weights(q, d, ins) \in Seq(Int) /\ Len(Weights(q, d, ins)) = Len(q)
  BY <1>1, <1>3, <1>4
<1> QED BY <1>2, <1>3, <1>5 DEF Bytes, Weights

LEMMA BytesNone == \A d, ins : Bytes(<<>>, d, ins) = 0
<1> TAKE d, ins
<1>1. Weights(<<>>, d, ins) = <<>>
  BY DEF Weights
<1>2. <<>> \in Seq(Packet)
  OBVIOUS
<1>3. Bytes(<<>>, d, ins) = SumFunction(Weights(<<>>, d, ins))
  BY <1>2, WeightsAre
<1> QED BY <1>1, <1>3, SumOfNone

LEMMA BytesAppend ==
  ASSUME NEW q \in Seq(Packet), NEW p \in Packet, NEW d, NEW ins
  PROVE  Bytes(Append(q, p), d, ins) = Bytes(q, d, ins) + Counted(p, d, ins)
<1> DEFINE u == Append(q, p)
<1>1. u \in Seq(Packet) /\ Len(u) = Len(q) + 1 /\ Len(q) \in Nat
      /\ (\A i \in 1..Len(q) : u[i] = q[i]) /\ u[Len(q) + 1] = p
  OBVIOUS
<1> HIDE DEF u
<1> DEFINE w == Weights(q, d, ins)
           x == Weights(u, d, ins)
           c == Counted(p, d, ins)
<1>2. /\ w \in Seq(Int) /\ Len(w) = Len(q) /\ x \in Seq(Int) /\ Len(x) = Len(q) + 1
      /\ \A i \in 1..Len(q) : w[i] = Counted(q[i], d, ins)
      /\ \A i \in 1..(Len(q) + 1) : x[i] = Counted(u[i], d, ins)
  BY <1>1, WeightsAre
<1>3. c \in Int
  BY CountedIs
<1>4. \A i \in 1..Len(q) : x[i] = w[i]
  BY <1>1, <1>2
<1>5. x[Len(q) + 1] = c
  BY <1>1, <1>2
<1>6. Bytes(u, d, ins) = SumFunction(x) /\ Bytes(q, d, ins) = SumFunction(w)
  BY <1>1, WeightsAre
<1> HIDE DEF w, x, c
<1>7. x = Append(w, c)
  <2>1. /\ Append(w, c) \in Seq(Int) /\ Len(Append(w, c)) = Len(q) + 1
        /\ \A i \in 1..Len(q) : Append(w, c)[i] = w[i]
        /\ Append(w, c)[Len(q) + 1] = c
    BY <1>2, <1>3
  <2>2. \A i \in 1..(Len(q) + 1) : x[i] = Append(w, c)[i]
    BY <1>1, <1>4, <1>5, <2>1
  <2> HIDE DEF w, x, c
  <2> QED BY <1>2, <2>1, <2>2
<1>8. SumFunction(x) = SumFunction(w) + c
  BY <1>2, <1>3, <1>7, SumOfAppend
<1> QED BY <1>6, <1>8 DEF u, c

LEMMA BytesTail ==
  ASSUME NEW q \in Seq(Packet), q # <<>>, NEW d, NEW ins
  PROVE  /\ Head(q) \in Packet /\ Tail(q) \in Seq(Packet)
         /\ Bytes(q, d, ins) = Counted(Head(q), d, ins) + Bytes(Tail(q), d, ins)
<1> DEFINE u == Tail(q)
           k == Len(u)
<1>1. u \in Seq(Packet) /\ k \in Nat /\ Len(q) = k + 1 /\ Head(q) = q[1]
      /\ (\A i \in 1..k : u[i] = q[i + 1]) /\ Head(q) \in Packet
  OBVIOUS
<1> HIDE DEF u, k
<1> DEFINE w == Weights(q, d, ins)
           x == Weights(u, d, ins)
<1>2. /\ w \in Seq(Int) /\ Len(w) = k + 1 /\ x \in Seq(Int) /\ Len(x) = k
      /\ \A i \in 1..(k + 1) : w[i] = Counted(q[i], d, ins)
      /\ \A i \in 1..k : x[i] = Counted(u[i], d, ins)
  BY <1>1, WeightsAre DEF k
<1>3. Bytes(u, d, ins) = SumFunction(x) /\ Bytes(q, d, ins) = SumFunction(w)
  BY <1>1, WeightsAre
<1>4. \A i \in 1..k : x[i] = w[i + 1]
  <2> TAKE i \in 1..k
  <2>1. i + 1 \in 1..(k + 1)
    BY <1>1
  <2> QED BY <2>1, <1>1, <1>2
<1>5. w[1] = Counted(Head(q), d, ins)
  BY <1>1, <1>2
<1> HIDE DEF w, x
<1>6. w # <<>> /\ x = Tail(w) /\ Head(w) = w[1]
  <2>1. w # <<>> /\ Tail(w) \in Seq(Int) /\ Len(Tail(w)) = k /\ Head(w) = w[1]
        /\ \A i \in 1..k : Tail(w)[i] = w[i + 1]
    BY <1>1, <1>2
  <2> QED BY <1>2, <1>4, <2>1
<1>7. SumFunction(w) = w[1] + SumFunction(x)
  BY <1>2, <1>6, SumOfTail
<1> QED BY <1>1, <1>3, <1>5, <1>7 DEF u

LEMMA BytesAre ==
  ASSUME NEW q \in Seq(Packet), NEW d, NEW ins
  PROVE  /\ Bytes(q, d, ins) \in Nat
         /\ \A i \in 1..Len(q) : Counted(q[i], d, ins) <= Bytes(q, d, ins)
         /\ (\A i \in 1..Len(q) : Counted(q[i], d, ins) = 0) => Bytes(q, d, ins) = 0
<1> DEFINE w == Weights(q, d, ins)
           D == 1..Len(q)
<1>1. /\ w \in Seq(Int) /\ Len(w) = Len(q) /\ Bytes(q, d, ins) = SumFunction(w)
      /\ \A i \in D : w[i] = Counted(q[i], d, ins) /\ w[i] \in Nat
  BY WeightsAre
<1>2. Len(q) \in Nat /\ IsFiniteSet(D)
  BY RangeOne
<1> HIDE DEF w
<1>3. Bytes(q, d, ins) = SumFunctionOnSet(w, D)
  BY <1>1, SumOfSequence
<1> HIDE DEF D
<1>4. SumFunctionOnSet(w, D) \in Nat /\ \A i \in D : w[i] <= SumFunctionOnSet(w, D)
  BY <1>1, <1>2, SumNat
<1>5. (\A i \in D : w[i] = 0) => SumFunctionOnSet(w, D) = 0
  BY <1>2, SumZero
<1> QED BY <1>1, <1>3, <1>4, <1>5 DEF D
------------------------------------------------------------------------------
(* One VOQ group: W are the packets that may be in it, buf is m_buffering.     *)
Loads(g, d, ins) == [v \in DOMAIN g.voqs |-> Bytes(g.voqs[v], d, ins)]

GroupBytes(g, d, ins) == SumFunction(Loads(g, d, ins))

QueuesOk(g, W) ==
  /\ IsFiniteSet(DOMAIN g.voqs) /\ DOMAIN g.voqs \subseteq Nat
  /\ VoqLimit > 0 => DOMAIN g.voqs \subseteq 0..(VoqLimit - 1)
  /\ \A v \in DOMAIN g.voqs : g.voqs[v] \in Seq(W)

Located(g) ==
  \A v \in DOMAIN g.voqs : \A i \in DOMAIN g.voqs[v] : FindVOQId(g, g.voqs[v][i].dst) = v

BindingsOk(g, buf) ==
  /\ DOMAIN g.dst2voq \subseteq Dst
  /\ DynamicHash => /\ DOMAIN g.dst2voq = {d \in Dst : buf[d] > 0}
                    /\ \A d \in DOMAIN g.dst2voq : g.dst2voq[d] \in 0..(VoqLimit - 1)
                    /\ \A v \in DOMAIN g.voqs : g.voqs[v] # <<>>

GroupOk(g, buf, W) ==
  /\ buf \in [Dst -> Nat]
  /\ QueuesOk(g, W) /\ Located(g) /\ BindingsOk(g, buf)
  /\ \A d \in Dst : buf[d] = GroupBytes(g, d, All)

(* A sum over the queues is one of natural numbers.                            *)
LEMMA LoadsAre ==
  ASSUME NEW W \in SUBSET Packet, NEW g, QueuesOk(g, W), NEW d, NEW ins
  PROVE  /\ SumHas(Loads(g, d, ins), DOMAIN g.voqs)
         /\ GroupBytes(g, d, ins) = SumFunctionOnSet(Loads(g, d, ins), DOMAIN g.voqs)
         /\ GroupBytes(g, d, ins) \in Nat
         /\ \A v \in DOMAIN g.voqs : /\ Loads(g, d, ins)[v] = Bytes(g.voqs[v], d, ins)
                                     /\ Bytes(g.voqs[v], d, ins) \in Nat
                                     /\ Bytes(g.voqs[v], d, ins) <= GroupBytes(g, d, ins)
         /\ (\A v \in DOMAIN g.voqs : Bytes(g.voqs[v], d, ins) = 0)
              => GroupBytes(g, d, ins) = 0
<1> DEFINE D == DOMAIN g.voqs
           f == Loads(g, d, ins)
<1>1. IsFiniteSet(D) /\ \A v \in D : g.voqs[v] \in Seq(Packet)
  BY DEF QueuesOk
<1>2. \A v \in D : Bytes(g.voqs[v], d, ins) \in Nat
  BY <1>1, BytesAre
<1>3. DOMAIN f = D /\ \A v \in D : f[v] = Bytes(g.voqs[v], d, ins)
  BY DEF Loads
<1>4. GroupBytes(g, d, ins) = SumFunctionOnSet(f, D)
  BY <1>3 DEF GroupBytes, SumFunction
<1> HIDE DEF f, D
<1>5. \A v \in D : f[v] \in Nat
  BY <1>2, <1>3
<1>6. SumHas(f, D)
  BY <1>1, <1>5 DEF SumHas
<1>7. SumFunctionOnSet(f, D) \in Nat /\ \A v \in D : f[v] <= SumFunctionOnSet(f, D)
  BY <1>1, <1>5, SumNat
<1>8. (\A v \in D : f[v] = 0) => SumFunctionOnSet(f, D) = 0
  BY <1>1, SumZero
<1> QED BY <1>2, <1>3, <1>4, <1>6, <1>7, <1>8 DEF f, D

(* What is in a queue is counted: a destination of a waiting packet has bytes
   in the group, and one with bytes there has a packet in a queue.             *)
HasPacket(g, d) ==
  \E v \in DOMAIN g.voqs : \E i \in DOMAIN g.voqs[v] : g.voqs[v][i].dst = d

LEMMA Present ==
  ASSUME NEW W \in SUBSET Packet, NEW g, QueuesOk(g, W), NEW d \in Dst
  PROVE  GroupBytes(g, d, All) # 0 <=> HasPacket(g, d)
<1>1. \A v \in DOMAIN g.voqs : g.voqs[v] \in Seq(Packet)
  BY DEF QueuesOk
<1>2. ASSUME GroupBytes(g, d, All) = 0, NEW v \in DOMAIN g.voqs, NEW i \in DOMAIN g.voqs[v],
             g.voqs[v][i].dst = d
      PROVE  FALSE
  <2> DEFINE q == g.voqs[v]
  <2>1. q \in Seq(Packet) /\ i \in 1..Len(q) /\ q[i] \in Packet /\ q[i].dst = d
    BY <1>1, <1>2
  <2>2. Bytes(q, d, All) \in Nat /\ Bytes(q, d, All) <= GroupBytes(g, d, All)
    BY LoadsAre
  <2> HIDE DEF q
  <2>3. q[i].in \in All /\ q[i].size \in Nat /\ q[i].size > 0
    BY <2>1, SizesPositive
  <2>4. Counted(q[i], d, All) = q[i].size
    BY <2>1, <2>3, CountedIs
  <2>5. Counted(q[i], d, All) <= Bytes(q, d, All)
    BY <2>1, BytesAre
  <2> QED BY <1>2, <2>2, <2>3, <2>4, <2>5
<1>3. ASSUME GroupBytes(g, d, All) # 0
      PROVE  \E v \in DOMAIN g.voqs : \E i \in DOMAIN g.voqs[v] : g.voqs[v][i].dst = d
  <2>1. PICK v \in DOMAIN g.voqs : Bytes(g.voqs[v], d, All) # 0
    BY <1>3, LoadsAre
  <2> DEFINE q == g.voqs[v]
  <2>2. q \in Seq(Packet)
    BY <1>1
  <2> HIDE DEF q
  <2>3. PICK i \in 1..Len(q) : Counted(q[i], d, All) # 0
    BY <2>1, <2>2, BytesAre DEF q
  <2>4. q[i].dst = d /\ i \in DOMAIN q
    BY <2>2, <2>3 DEF Counted
  <2> QED BY <2>4 DEF q
<1> QED BY <1>2, <1>3 DEF HasPacket

(* In a group whose m_buffering agrees, the packet is in the destination's own
   queue.                                                                      *)
LEMMA Buffered ==
  ASSUME NEW W \in SUBSET Packet, NEW g, NEW buf, GroupOk(g, buf, W), NEW d \in Dst
  PROVE  /\ buf[d] = 0 => \A v \in DOMAIN g.voqs : \A i \in DOMAIN g.voqs[v] :
                            g.voqs[v][i].dst # d
         /\ buf[d] # 0 => /\ FindVOQId(g, d) \in DOMAIN g.voqs
                          /\ g.voqs[FindVOQId(g, d)] # <<>>
<1>1. QueuesOk(g, W) /\ buf[d] = GroupBytes(g, d, All)
  BY DEF GroupOk
<1>2. ASSUME buf[d] # 0
      PROVE  FindVOQId(g, d) \in DOMAIN g.voqs /\ g.voqs[FindVOQId(g, d)] # <<>>
  <2>1. PICK v \in DOMAIN g.voqs : \E i \in DOMAIN g.voqs[v] : g.voqs[v][i].dst = d
    BY <1>1, <1>2, Present DEF HasPacket
  <2>2. FindVOQId(g, d) = v
    BY <2>1 DEF GroupOk, Located
  <2>3. g.voqs[v] # <<>>
    BY <2>1
  <2> QED BY <2>1, <2>2, <2>3
<1> QED BY <1>1, <1>2, Present DEF HasPacket

(* GetVOQ finds the queue of a destination that has one; any other queue it
   picks is within the limit.                                                  *)
LEMMA GetVOQIdIs ==
  ASSUME NEW W \in SUBSET Packet, NEW g, NEW buf, GroupOk(g, buf, W), NEW d \in Dst
  PROVE  /\ GetVOQId(g, d) \in Nat
         /\ VoqLimit > 0 => GetVOQId(g, d) \in 0..(VoqLimit - 1)
         /\ VoqLimit = 0 \/ ~DynamicHash \/ d \in DOMAIN g.dst2voq
              => GetVOQId(g, d) = FindVOQId(g, d)
<1>1. /\ Dst \subseteq Nat /\ VoqLimit \in Nat /\ d \in Nat
      /\ VoqLimit > 0 => Hash[d] \in 0..(VoqLimit - 1)
  BY GroupAssumption DEF GroupAssumption
<1>2. DynamicHash => \A e \in DOMAIN g.dst2voq : g.dst2voq[e] \in 0..(VoqLimit - 1)
  BY DEF GroupOk, BindingsOk
<1>3. VoqLimit = 0 => FindVOQId(g, d) = d /\ GetVOQId(g, d) = d
  BY <1>1 DEF FindVOQId, GetVOQId, NoVOQ
<1>4. VoqLimit > 0 /\ ~DynamicHash => FindVOQId(g, d) = Hash[d] /\ GetVOQId(g, d) = Hash[d]
  BY <1>1 DEF FindVOQId, GetVOQId, NoVOQ
<1>5. VoqLimit > 0 /\ DynamicHash /\ d \in DOMAIN g.dst2voq
        => FindVOQId(g, d) = g.dst2voq[d] /\ GetVOQId(g, d) = g.dst2voq[d]
  BY <1>1, <1>2 DEF FindVOQId, GetVOQId, NoVOQ
<1>6. ASSUME VoqLimit > 0, DynamicHash, d \notin DOMAIN g.dst2voq
      PROVE  GetVOQId(g, d) \in 0..(VoqLimit - 1)
  <2> DEFINE free == (0..(VoqLimit - 1)) \ DOMAIN g.voqs
             neg == {VoqLimit - x : x \in free}
  <2>1. GetVOQId(g, d) = IF free # {} THEN Max(free) ELSE Hash[d]
    BY <1>1, <1>6 DEF FindVOQId, GetVOQId, NoVOQ
  <2>2. ASSUME free # {} PROVE Max(free) \in free
    <3>1. neg \in SUBSET Nat /\ neg # {}
      BY <1>1, <2>2
    <3> HIDE DEF neg
    <3>2. PICK x \in neg : \A y \in neg : x <= y
      BY <3>1, LeastNumber
    <3>3. PICK m \in free : x = VoqLimit - m
      BY <3>2 DEF neg
    <3>4. \A y \in free : m >= y
      <4> TAKE y \in free
      <4>1. x <= VoqLimit - y
        BY <3>2 DEF neg
      <4>2. m \in Int /\ y \in Int
        BY <1>1
      <4> QED BY <1>1, <3>3, <4>1, <4>2
    <3> HIDE DEF free
    <3>5. \E z \in free : \A y \in free : z >= y
      BY <3>4
    <3> QED BY <3>5, Zenon DEF Max
  <2> QED BY <1>1, <1>6, <2>1, <2>2
<1>7. VoqLimit > 0 /\ d \in DOMAIN g.dst2voq /\ DynamicHash => g.dst2voq[d] \in 0..(VoqLimit - 1)
  BY <1>2
<1>8. VoqLimit = 0 \/ VoqLimit > 0
  BY <1>1
<1>9. VoqLimit > 0 => GetVOQId(g, d) \in 0..(VoqLimit - 1)
  BY <1>1, <1>4, <1>5, <1>6, <1>7
<1>10. GetVOQId(g, d) \in Nat
  BY <1>1, <1>3, <1>8, <1>9
<1>11. VoqLimit = 0 => ~DynamicHash
  BY GroupAssumption DEF GroupAssumption
<1> QED BY <1>3, <1>4, <1>5, <1>8, <1>9, <1>10, <1>11

(* What Enqueue adds to the queues: p to one of them, and p becomes the head
   of it only if nothing of its destination was buffered.                      *)
LEMMA EnqueueShape ==
  ASSUME NEW W \in SUBSET Packet, NEW g, NEW buf, GroupOk(g, buf, W), NEW p \in W
  PROVE  LET h == Enqueue(g, p.dst, p)
             v == GetVOQId(g, p.dst)
             old == IF v \in DOMAIN g.voqs THEN g.voqs[v] ELSE <<>>
         IN  /\ DOMAIN h.voqs = DOMAIN g.voqs \cup {v}
             /\ old \in Seq(W) /\ h.voqs[v] = Append(old, p)
             /\ \A w \in DOMAIN g.voqs \ {v} : h.voqs[w] = g.voqs[w]
             /\ QueuesOk(h, W)
             /\ \A d, ins : GroupBytes(h, d, ins) = GroupBytes(g, d, ins) + Counted(p, d, ins)
             /\ \A w \in DOMAIN h.voqs : h.voqs[w] # <<>> =>
                  \/ w \in DOMAIN g.voqs /\ g.voqs[w] # <<>> /\ Head(h.voqs[w]) = Head(g.voqs[w])
                  \/ buf[p.dst] = 0 /\ Head(h.voqs[w]) = p
<1> DEFINE h == Enqueue(g, p.dst, p)
           v == GetVOQId(g, p.dst)
           old == IF v \in DOMAIN g.voqs THEN g.voqs[v] ELSE <<>>
           D == DOMAIN g.voqs
<1>1. p \in Packet /\ p.dst \in Dst
  BY SizesPositive
<1>2. v \in Nat /\ (VoqLimit > 0 => v \in 0..(VoqLimit - 1))
  BY <1>1, GetVOQIdIs
<1>3. h.voqs = [i \in D \cup {v} |-> IF i = v THEN Append(old, p) ELSE g.voqs[i]]
  BY DEF Enqueue
<1>4. QueuesOk(g, W)
  BY DEF GroupOk
<1>5. old \in Seq(W)
  BY <1>4 DEF QueuesOk
<1> HIDE DEF h, v, old
<1>6. DOMAIN h.voqs = D \cup {v} /\ h.voqs[v] = Append(old, p)
      /\ \A w \in D \ {v} : h.voqs[w] = g.voqs[w]
  BY <1>3
<1>7. Append(old, p) \in Seq(W)
  BY <1>5
<1>8. QueuesOk(h, W)
  <2>1. IsFiniteSet(D \cup {v})
    BY <1>4, FS_AddElement DEF QueuesOk
  <2>2. \A w \in D \cup {v} : h.voqs[w] \in Seq(W)
    BY <1>4, <1>6, <1>7 DEF QueuesOk
  <2> QED BY <1>2, <1>4, <1>6, <2>1, <2>2 DEF QueuesOk
<1>9. ASSUME NEW d, NEW ins
      PROVE  GroupBytes(h, d, ins) = GroupBytes(g, d, ins) + Counted(p, d, ins)
  <2> DEFINE f == Loads(g, d, ins)
             k == Loads(h, d, ins)
             c == Counted(p, d, ins)
  <2>1. /\ SumHas(f, D) /\ GroupBytes(g, d, ins) = SumFunctionOnSet(f, D)
        /\ GroupBytes(g, d, ins) \in Nat
        /\ \A w \in D : f[w] = Bytes(g.voqs[w], d, ins)
    BY <1>4, LoadsAre
  <2>2. /\ SumHas(k, D \cup {v}) /\ GroupBytes(h, d, ins) = SumFunctionOnSet(k, D \cup {v})
        /\ \A w \in D \cup {v} : k[w] = Bytes(h.voqs[w], d, ins) /\ Bytes(h.voqs[w], d, ins) \in Nat
    <3>1. /\ SumHas(k, DOMAIN h.voqs)
          /\ GroupBytes(h, d, ins) = SumFunctionOnSet(k, DOMAIN h.voqs)
          /\ \A w \in DOMAIN h.voqs : k[w] = Bytes(h.voqs[w], d, ins)
                                      /\ Bytes(h.voqs[w], d, ins) \in Nat
      BY <1>8, LoadsAre
    <3>2. DOMAIN h.voqs = D \cup {v}
      BY <1>6
    <3> HIDE DEF k, D
    <3> QED BY <3>1, <3>2
  <2>3. k[v] = Bytes(old, d, ins) + c /\ c \in Nat /\ Bytes(old, d, ins) \in Nat
    <3>1. old \in Seq(Packet)
      BY <1>5
    <3>2. Bytes(Append(old, p), d, ins) = Bytes(old, d, ins) + c
      BY <1>1, <3>1, BytesAppend
    <3>3. c \in Nat /\ Bytes(old, d, ins) \in Nat
      BY <1>1, <3>1, BytesAre, CountedIs
    <3>4. k[v] = Bytes(Append(old, p), d, ins)
      BY <1>6, <2>2
    <3> QED BY <3>2, <3>3, <3>4
  <2>4. \A w \in D \ {v} : k[w] = f[w]
    BY <1>6, <2>1, <2>2
  <2>5. (v \in D => f[v] = Bytes(old, d, ins)) /\ (v \notin D => Bytes(old, d, ins) = 0)
    BY <2>1, BytesNone DEF old
  <2> HIDE DEF f, k, c, D
  <2>6. CASE v \in D
    <3>1. D \cup {v} = D
      BY <2>6
    <3>2. k[v] \in Int
      BY <2>3
    <3>3. SumFunctionOnSet(k, D) = SumFunctionOnSet(f, D) - f[v] + k[v]
      BY <2>1, <2>4, <2>6, <3>2, SumChange
    <3>4. f[v] = Bytes(old, d, ins) /\ GroupBytes(h, d, ins) = SumFunctionOnSet(k, D)
      BY <2>2, <2>5, <2>6, <3>1
    <3> QED BY <2>1, <2>3, <3>3, <3>4 DEF c
  <2>7. CASE v \notin D
    <3>1. IsFiniteSet(D) /\ (\A w \in D : f[w] \in Int)
      BY <2>1 DEF SumHas
    <3>2. k[v] \in Int /\ \A w \in D : k[w] \in Int
      BY <2>2 DEF SumHas
    <3>3. SumFunctionOnSet(k, D \cup {v}) = SumFunctionOnSet(k, D) + k[v]
      BY <2>7, <3>1, <3>2, SumWith
    <3>4. SumFunctionOnSet(k, D) = SumFunctionOnSet(f, D)
      <4>1. \A w \in D : k[w] = f[w]
        BY <2>4, <2>7
      <4> QED BY <3>1, <4>1, SumSame
    <3> QED BY <2>1, <2>2, <2>3, <2>5, <2>7, <3>3, <3>4 DEF c
  <2> QED BY <2>6, <2>7
<1>10. ASSUME NEW w \in DOMAIN h.voqs, h.voqs[w] # <<>>
       PROVE  \/ w \in D /\ g.voqs[w] # <<>> /\ Head(h.voqs[w]) = Head(g.voqs[w])
              \/ buf[p.dst] = 0 /\ Head(h.voqs[w]) = p
  <2>1. CASE w # v
    <3>1. w \in D /\ h.voqs[w] = g.voqs[w]
      BY <1>6, <2>1
    <3> QED BY <1>10, <3>1
  <2>2. CASE w = v /\ old = <<>>
    <3>1. Head(h.voqs[w]) = p
      BY <1>6, <2>2
    <3>2. buf[p.dst] = 0
      <4> SUFFICES ASSUME buf[p.dst] # 0 PROVE FALSE
        OBVIOUS
      <4>1. FindVOQId(g, p.dst) \in D /\ g.voqs[FindVOQId(g, p.dst)] # <<>>
        BY <1>1, Buffered
      <4>2. DynamicHash => p.dst \in DOMAIN g.dst2voq
        BY <1>1 DEF GroupOk, BindingsOk
      <4>3. v = FindVOQId(g, p.dst)
        BY <1>1, <4>2, GetVOQIdIs DEF v
      <4> QED BY <2>2, <4>1, <4>3 DEF old
    <3> QED BY <3>1, <3>2
  <2>3. CASE w = v /\ old # <<>>
    <3>1. v \in D /\ old = g.voqs[v]
      BY <2>3 DEF old
    <3>2. Head(Append(old, p)) = Head(old)
      BY <1>5, <2>3
    <3> QED BY <1>6, <2>3, <3>1, <3>2
  <2> QED BY <2>1, <2>2, <2>3
<1> QED BY <1>5, <1>6, <1>8, <1>9, <1>10 DEF h, v, old

LEMMA EnqueueBytes ==
  ASSUME NEW W \in SUBSET Packet, NEW g, NEW buf, GroupOk(g, buf, W), NEW p \in W
  PROVE  \A d, ins : GroupBytes(Enqueue(g, p.dst, p), d, ins) =
                       GroupBytes(g, d, ins) + Counted(p, d, ins)
<1> DEFINE h == Enqueue(g, p.dst, p)
<1> DEFINE v == GetVOQId(g, p.dst)
           old == IF v \in DOMAIN g.voqs THEN g.voqs[v] ELSE <<>>
<1>1. /\ DOMAIN h.voqs = DOMAIN g.voqs \cup {v}
      /\ old \in Seq(W) /\ h.voqs[v] = Append(old, p)
      /\ QueuesOk(h, W)
      /\ \A d, ins : GroupBytes(h, d, ins) = GroupBytes(g, d, ins) + Counted(p, d, ins)
  BY EnqueueShape
<1> QED BY <1>1

LEMMA EnqueueOk ==
  ASSUME NEW W \in SUBSET Packet, NEW g, NEW buf, GroupOk(g, buf, W), NEW p \in W
  PROVE  GroupOk(Enqueue(g, p.dst, p), [buf EXCEPT ![p.dst] = @ + p.size], W)
<1> DEFINE h == Enqueue(g, p.dst, p)
           v == GetVOQId(g, p.dst)
           old == IF v \in DOMAIN g.voqs THEN g.voqs[v] ELSE <<>>
           D == DOMAIN g.voqs
           b == [buf EXCEPT ![p.dst] = @ + p.size]
<1>1. p \in Packet /\ p.dst \in Dst /\ p.in \in All /\ p.size \in Nat /\ p.size > 0
  BY SizesPositive
<1>2. buf \in [Dst -> Nat]
  BY DEF GroupOk
<1>3. b \in [Dst -> Nat] /\ b[p.dst] = buf[p.dst] + p.size
      /\ \A e \in Dst : e # p.dst => b[e] = buf[e]
  BY <1>1, <1>2
<1>4. /\ DOMAIN h.voqs = D \cup {v}
      /\ old \in Seq(W) /\ h.voqs[v] = Append(old, p)
      /\ \A w \in D \ {v} : h.voqs[w] = g.voqs[w]
      /\ QueuesOk(h, W)
      /\ \A d, ins : GroupBytes(h, d, ins) = GroupBytes(g, d, ins) + Counted(p, d, ins)
  BY EnqueueShape
<1>5. h.dst2voq = IF DynamicHash THEN [e \in DOMAIN g.dst2voq \cup {p.dst} |->
                                         IF e = p.dst THEN v ELSE g.dst2voq[e]]
                  ELSE g.dst2voq
  BY DEF Enqueue
<1>6. /\ DOMAIN g.dst2voq \subseteq Dst
      /\ DynamicHash => /\ DOMAIN g.dst2voq = {d \in Dst : buf[d] > 0}
                        /\ \A d \in DOMAIN g.dst2voq : g.dst2voq[d] \in 0..(VoqLimit - 1)
                        /\ \A w \in D : g.voqs[w] # <<>>
  BY DEF GroupOk, BindingsOk
<1>7. /\ VoqLimit \in Nat /\ (VoqLimit = 0 => ~DynamicHash)
      /\ VoqLimit > 0 => v \in 0..(VoqLimit - 1)
      /\ VoqLimit = 0 \/ ~DynamicHash \/ p.dst \in DOMAIN g.dst2voq
           => v = FindVOQId(g, p.dst)
  BY <1>1, GetVOQIdIs, GroupAssumption DEF GroupAssumption
<1> HIDE DEF h, v, b
<1>8. \A d \in Dst : b[d] = GroupBytes(h, d, All)
  <2> TAKE d \in Dst
  <2>1. buf[d] = GroupBytes(g, d, All)
    BY DEF GroupOk
  <2>2. Counted(p, d, All) = IF d = p.dst THEN p.size ELSE 0
    BY <1>1, CountedIs
  <2> QED BY <1>2, <1>3, <1>4, <2>1, <2>2
<1>9. \A e : FindVOQId(h, e) = IF e = p.dst THEN v ELSE FindVOQId(g, e)
  <2> TAKE e
  <2>1. CASE ~DynamicHash \/ VoqLimit = 0
    <3>1. FindVOQId(h, e) = FindVOQId(g, e)
      BY <2>1, <1>7 DEF FindVOQId
    <3> QED BY <2>1, <3>1, <1>7
  <2>2. CASE DynamicHash
    BY <1>5, <1>7, <2>2 DEF FindVOQId
  <2> QED BY <2>1, <2>2
<1>10. Located(h)
  <2> SUFFICES ASSUME NEW w \in D \cup {v}, NEW i \in DOMAIN h.voqs[w]
               PROVE  FindVOQId(h, h.voqs[w][i].dst) = w
    BY <1>4 DEF Located
  <2>1. CASE w \in D /\ i \in DOMAIN g.voqs[w] /\ h.voqs[w][i] = g.voqs[w][i]
    <3>1. FindVOQId(g, g.voqs[w][i].dst) = w
      BY <2>1 DEF GroupOk, Located
    <3>2. CASE g.voqs[w][i].dst = p.dst
      <4>1. buf[p.dst] # 0
        BY <1>1, <2>1, <3>2, Buffered
      <4>2. DynamicHash => p.dst \in DOMAIN g.dst2voq
        BY <1>1, <1>2, <1>6, <4>1
      <4> QED BY <1>7, <1>9, <2>1, <3>1, <3>2, <4>2
    <3>3. CASE g.voqs[w][i].dst # p.dst
      BY <1>9, <2>1, <3>1, <3>3
    <3> QED BY <3>2, <3>3
  <2>2. CASE w = v /\ h.voqs[w][i] = p
    BY <1>9, <2>2
  <2>3. CASE w = v
    <3>1. DOMAIN h.voqs[w] = 1..(Len(old) + 1) /\ h.voqs[w][Len(old) + 1] = p
          /\ \A j \in 1..Len(old) : h.voqs[w][j] = old[j]
      BY <1>4, <2>3
    <3>2. CASE i = Len(old) + 1
      BY <2>2, <2>3, <3>1, <3>2
    <3>3. CASE i # Len(old) + 1
      <4>1. i \in 1..Len(old) /\ DOMAIN old = 1..Len(old)
        BY <1>4, <3>1, <3>3
      <4>2. w \in D /\ old = g.voqs[w]
        BY <2>3, <4>1
      <4> QED BY <2>1, <3>1, <4>1, <4>2
    <3> QED BY <3>2, <3>3
  <2>4. CASE w # v
    BY <1>4, <2>1, <2>4
  <2> QED BY <2>3, <2>4
<1>11. BindingsOk(h, b)
  <2>1. DOMAIN h.dst2voq \subseteq Dst
    BY <1>1, <1>5, <1>6
  <2>2. ASSUME DynamicHash
        PROVE  /\ DOMAIN h.dst2voq = {d \in Dst : b[d] > 0}
               /\ \A d \in DOMAIN h.dst2voq : h.dst2voq[d] \in 0..(VoqLimit - 1)
               /\ \A w \in DOMAIN h.voqs : h.voqs[w] # <<>>
    <3>1. DOMAIN h.dst2voq = DOMAIN g.dst2voq \cup {p.dst}
          /\ \A d \in DOMAIN h.dst2voq :
               h.dst2voq[d] = IF d = p.dst THEN v ELSE g.dst2voq[d]
      BY <1>5, <2>2
    <3>2. \A d \in Dst : b[d] > 0 <=> (buf[d] > 0 \/ d = p.dst)
      BY <1>1, <1>2, <1>3
    <3>3. DOMAIN h.dst2voq = {d \in Dst : b[d] > 0}
      BY <1>1, <1>6, <2>2, <3>1, <3>2
    <3>4. v \in 0..(VoqLimit - 1)
      BY <1>7, <2>2
    <3>5. \A d \in DOMAIN h.dst2voq : h.dst2voq[d] \in 0..(VoqLimit - 1)
      BY <1>6, <2>2, <3>1, <3>4
    <3>6. Append(old, p) # <<>>
      BY <1>4
    <3>7. \A w \in DOMAIN h.voqs : h.voqs[w] # <<>>
      BY <1>4, <1>6, <2>2, <3>6
    <3> QED BY <3>3, <3>5, <3>7
  <2> QED BY <2>1, <2>2 DEF BindingsOk
<1> QED BY <1>3, <1>4, <1>8, <1>10, <1>11 DEF GroupOk, h, b

(* What Dequeue takes from the queues: the head of v, and v itself when it is
   released.                                                                   *)
LEMMA DequeueShape ==
  ASSUME NEW W \in SUBSET Packet, NEW g, NEW buf, GroupOk(g, buf, W),
         NEW v \in DOMAIN g.voqs, g.voqs[v] # <<>>, NEW still
  PROVE  LET h == Dequeue(g, v, still)
             p == Head1(g, v)
             rest == Tail(g.voqs[v])
         IN  /\ p \in W /\ rest \in Seq(W) /\ FindVOQId(g, p.dst) = v
             /\ DOMAIN h.voqs = IF DynamicHash /\ ~still /\ rest = <<>>
                                THEN DOMAIN g.voqs \ {v} ELSE DOMAIN g.voqs
             /\ v \in DOMAIN h.voqs => h.voqs[v] = rest
             /\ \A w \in DOMAIN h.voqs \ {v} : h.voqs[w] = g.voqs[w]
             /\ QueuesOk(h, W)
             /\ \A d, ins : /\ GroupBytes(g, d, ins) = GroupBytes(h, d, ins) + Counted(p, d, ins)
                            /\ GroupBytes(h, d, ins) \in Nat
<1> DEFINE h == Dequeue(g, v, still)
           p == Head1(g, v)
           rest == Tail(g.voqs[v])
           D == DOMAIN g.voqs
           q == g.voqs[v]
<1>1. QueuesOk(g, W)
  BY DEF GroupOk
<1>2. q \in Seq(W) /\ q # <<>>
  BY <1>1 DEF QueuesOk
<1>3. p \in W /\ p = Head(q) /\ p = q[1] /\ 1 \in DOMAIN q /\ rest \in Seq(W)
  BY <1>2 DEF Head1
<1>4. FindVOQId(g, p.dst) = v
  BY <1>3 DEF GroupOk, Located
<1>5. h.voqs = IF DynamicHash /\ ~still /\ rest = <<>>
               THEN Restrict(g.voqs, D \ {v}) ELSE [g.voqs EXCEPT ![v] = rest]
  BY DEF Dequeue, Unbinds
<1>6. /\ DOMAIN h.voqs = IF DynamicHash /\ ~still /\ rest = <<>> THEN D \ {v} ELSE D
      /\ v \in DOMAIN h.voqs => h.voqs[v] = rest
      /\ \A w \in DOMAIN h.voqs \ {v} : h.voqs[w] = g.voqs[w]
  BY <1>5 DEF Restrict
<1> HIDE DEF h, rest
<1>7. QueuesOk(h, W)
  <2>1. DOMAIN h.voqs \subseteq D
    BY <1>6
  <2>2. IsFiniteSet(DOMAIN h.voqs)
    BY <1>1, <2>1, FS_Subset DEF QueuesOk
  <2>3. \A w \in DOMAIN h.voqs : h.voqs[w] \in Seq(W)
    BY <1>1, <1>3, <1>6, <2>1 DEF QueuesOk
  <2> QED BY <1>1, <2>1, <2>2, <2>3 DEF QueuesOk
<1>8. ASSUME NEW d, NEW ins
      PROVE  /\ GroupBytes(g, d, ins) = GroupBytes(h, d, ins) + Counted(p, d, ins)
             /\ GroupBytes(h, d, ins) \in Nat
  <2> DEFINE f == Loads(g, d, ins)
             k == Loads(h, d, ins)
             c == Counted(p, d, ins)
             H == DOMAIN h.voqs
  <2>1. /\ SumHas(f, D) /\ GroupBytes(g, d, ins) = SumFunctionOnSet(f, D)
        /\ \A w \in D : f[w] = Bytes(g.voqs[w], d, ins)
    BY <1>1, LoadsAre, ZenonT(60)
  <2>2. /\ SumHas(k, H) /\ GroupBytes(h, d, ins) = SumFunctionOnSet(k, H)
        /\ GroupBytes(h, d, ins) \in Nat
        /\ \A w \in H : k[w] = Bytes(h.voqs[w], d, ins)
    BY <1>7, LoadsAre
  <2>3. f[v] = c + Bytes(rest, d, ins) /\ c \in Nat /\ Bytes(rest, d, ins) \in Nat
    <3>1. q \in Seq(Packet) /\ rest \in Seq(Packet) /\ p \in Packet
      BY <1>2, <1>3
    <3>2. Bytes(q, d, ins) = c + Bytes(rest, d, ins)
      BY <1>2, <1>3, <3>1, BytesTail DEF rest
    <3>3. c \in Nat /\ Bytes(rest, d, ins) \in Nat
      BY <3>1, CountedIs, BytesAre
    <3>4. f[v] = Bytes(q, d, ins)
      BY <2>1
    <3> QED BY <3>2, <3>3, <3>4
  <2>4. \A w \in H \ {v} : k[w] = f[w]
    BY <1>6, <2>1, <2>2
  <2>5. v \in H => k[v] = Bytes(rest, d, ins)
    BY <1>6, <2>2
  <2>6. (H = D) \/ (H = D \ {v} /\ Bytes(rest, d, ins) = 0)
    BY <1>6, BytesNone
  <2> HIDE DEF f, k, c, D, H, q
  <2>7. CASE H = D
    <3>1. v \in D /\ k[v] \in Int
      BY <2>3, <2>5, <2>7 DEF D
    <3>2. SumFunctionOnSet(k, D) = SumFunctionOnSet(f, D) - f[v] + k[v]
      BY <2>1, <2>4, <2>7, <3>1, SumChange
    <3>3. SumFunctionOnSet(f, D) \in Int /\ k[v] = Bytes(rest, d, ins)
          /\ GroupBytes(h, d, ins) = SumFunctionOnSet(k, D)
      BY <2>1, <2>2, <2>5, <2>7, <3>1, SumInt
    <3> QED BY <2>1, <2>2, <2>3, <3>2, <3>3 DEF c
  <2>8. CASE H = D \ {v} /\ Bytes(rest, d, ins) = 0
    <3>1. SumFunctionOnSet(f, D) = f[v] + SumFunctionOnSet(f, D \ {v})
      BY <2>1, SumWithout DEF D
    <3>2. IsFiniteSet(H) /\ \A w \in H : k[w] = f[w]
      BY <2>2, <2>4, <2>8 DEF SumHas
    <3>3. SumFunctionOnSet(k, H) = SumFunctionOnSet(f, H)
      BY <3>2, SumSame
    <3> QED BY <2>1, <2>2, <2>3, <2>8, <3>1, <3>3 DEF c
  <2> QED BY <2>6, <2>7, <2>8
<1> QED BY <1>3, <1>4, <1>6, <1>7, <1>8 DEF h, rest

LEMMA DequeueOk ==
  ASSUME NEW W \in SUBSET Packet, NEW g, NEW buf, GroupOk(g, buf, W),
         NEW v \in DOMAIN g.voqs, g.voqs[v] # <<>>,
         NEW b, b = [buf EXCEPT ![Head1(g, v).dst] = @ - Head1(g, v).size]
  PROVE  GroupOk(Dequeue(g, v, b[Head1(g, v).dst] > 0), b, W)
<1> DEFINE p == Head1(g, v)
           still == b[p.dst] > 0
           h == Dequeue(g, v, still)
           rest == Tail(g.voqs[v])
           D == DOMAIN g.voqs
<1>1. /\ p \in W /\ rest \in Seq(W) /\ FindVOQId(g, p.dst) = v
      /\ DOMAIN h.voqs = IF DynamicHash /\ ~still /\ rest = <<>> THEN D \ {v} ELSE D
      /\ v \in DOMAIN h.voqs => h.voqs[v] = rest
      /\ \A w \in DOMAIN h.voqs \ {v} : h.voqs[w] = g.voqs[w]
      /\ QueuesOk(h, W)
      /\ \A d, ins : /\ GroupBytes(g, d, ins) = GroupBytes(h, d, ins) + Counted(p, d, ins)
                     /\ GroupBytes(h, d, ins) \in Nat
  BY DequeueShape
<1>2. h.dst2voq = IF DynamicHash /\ ~still
                  THEN [e \in DOMAIN g.dst2voq \ {p.dst} |-> g.dst2voq[e]] ELSE g.dst2voq
  BY DEF Dequeue, Unbinds, Restrict
<1>3. p \in Packet /\ p.dst \in Dst /\ p.in \in All /\ p.size \in Nat /\ p.size > 0
  BY <1>1, SizesPositive
<1>4. buf \in [Dst -> Nat] /\ \A d \in Dst : buf[d] = GroupBytes(g, d, All)
  BY DEF GroupOk
<1>5. /\ DOMAIN g.dst2voq \subseteq Dst
      /\ DynamicHash => /\ DOMAIN g.dst2voq = {d \in Dst : buf[d] > 0}
                        /\ \A d \in DOMAIN g.dst2voq : g.dst2voq[d] \in 0..(VoqLimit - 1)
                        /\ \A w \in D : g.voqs[w] # <<>>
  BY DEF GroupOk, BindingsOk
<1> HIDE DEF h, rest, p
<1>6. \A d \in Dst : b[d] = IF d = p.dst THEN buf[d] - p.size ELSE buf[d]
  BY <1>4 DEF p
<1>7. DOMAIN b = Dst /\ b = [d \in Dst |-> b[d]]
  BY <1>4
<1>8. \A d \in Dst : b[d] = GroupBytes(h, d, All) /\ b[d] \in Nat
  <2> TAKE d \in Dst
  <2>1. Counted(p, d, All) = IF d = p.dst THEN p.size ELSE 0
    BY <1>3, CountedIs
  <2> QED BY <1>1, <1>3, <1>4, <1>6, <2>1
<1>9. b \in [Dst -> Nat]
  BY <1>7, <1>8
<1>10. \A w \in DOMAIN h.voqs : \A i \in DOMAIN h.voqs[w] :
         FindVOQId(g, h.voqs[w][i].dst) = w
  <2> TAKE w \in DOMAIN h.voqs
  <2> TAKE i \in DOMAIN h.voqs[w]
  <2>1. CASE w # v
    BY <1>1, <2>1 DEF GroupOk, Located
  <2>2. CASE w = v
    <3> DEFINE q == g.voqs[v]
    <3>1. q \in Seq(W) /\ q # <<>>
      BY DEF GroupOk, QueuesOk
    <3>2. h.voqs[w] = Tail(q)
      BY <1>1, <2>2 DEF rest
    <3>3. i + 1 \in DOMAIN q /\ h.voqs[w][i] = q[i + 1]
      BY <3>1, <3>2
    <3> QED BY <2>2, <3>3 DEF GroupOk, Located
  <2> QED BY <2>1, <2>2
<1>11. still <=> HasPacket(h, p.dst)
  <2>1. still <=> GroupBytes(h, p.dst, All) # 0
    BY <1>3, <1>8
  <2> HIDE DEF still
  <2> QED BY <1>1, <1>3, <2>1, Present
<1> HIDE DEF still
<1>12. Located(h)
  <2> SUFFICES ASSUME NEW w \in DOMAIN h.voqs, NEW i \in DOMAIN h.voqs[w]
               PROVE  FindVOQId(h, h.voqs[w][i].dst) = w
    BY DEF Located
  <2>1. FindVOQId(h, h.voqs[w][i].dst) = FindVOQId(g, h.voqs[w][i].dst)
    BY <1>2, <1>11 DEF FindVOQId, HasPacket
  <2> QED BY <1>10, <2>1
<1>13. BindingsOk(h, b)
  <2>1. DOMAIN h.dst2voq \subseteq Dst
    BY <1>2, <1>5
  <2>2. ASSUME DynamicHash
        PROVE  /\ DOMAIN h.dst2voq = {d \in Dst : b[d] > 0}
               /\ \A d \in DOMAIN h.dst2voq : h.dst2voq[d] \in 0..(VoqLimit - 1)
               /\ \A w \in DOMAIN h.voqs : h.voqs[w] # <<>>
    <3>1. \A d \in DOMAIN h.dst2voq : h.dst2voq[d] \in 0..(VoqLimit - 1)
      BY <1>2, <1>5, <2>2
    <3>2. ASSUME still PROVE DOMAIN h.dst2voq = {d \in Dst : b[d] > 0}
      <4>1. \A d \in Dst : b[d] > 0 <=> buf[d] > 0
        BY <1>3, <1>4, <1>6, <1>9, <3>2 DEF still
      <4> QED BY <1>2, <1>5, <2>2, <3>2, <4>1
    <3>3. ASSUME ~still PROVE DOMAIN h.dst2voq = {d \in Dst : b[d] > 0}
      <4>1. \A d \in Dst : b[d] > 0 <=> (buf[d] > 0 /\ d # p.dst)
        BY <1>3, <1>4, <1>6, <1>9, <3>3 DEF still
      <4> QED BY <1>2, <1>5, <2>2, <3>3, <4>1
    <3>4. ASSUME NEW w \in DOMAIN h.voqs, h.voqs[w] = <<>> PROVE FALSE
      <4>1. w \in D /\ w = v /\ rest = <<>>
        BY <1>1, <1>5, <2>2, <3>4
      <4>2. still
        BY <1>1, <2>2, <3>4, <4>1
      <4>4. PICK x \in DOMAIN h.voqs : \E i \in DOMAIN h.voqs[x] : h.voqs[x][i].dst = p.dst
        BY <1>11, <4>2 DEF HasPacket
      <4>5. x # w
        BY <3>4, <4>4
      <4> QED BY <1>1, <1>10, <4>1, <4>4, <4>5
    <3> QED BY <3>1, <3>2, <3>3, <3>4
  <2> QED BY <2>1, <2>2 DEF BindingsOk
<1> QED BY <1>1, <1>8, <1>9, <1>12, <1>13 DEF GroupOk, h, p, still
------------------------------------------------------------------------------
(* The bytes of a destination in a sequence of SwitchACKs.                     *)
AckBytes(q, d) == SumFunction([i \in DOMAIN q |-> q[i][d]])

Shares(q, d) == [i \in DOMAIN q |-> q[i][d]]

LEMMA SharesAre ==
  ASSUME NEW q \in Seq([Dst -> Nat]), NEW d \in Dst
  PROVE  /\ Shares(q, d) \in Seq(Int) /\ Len(Shares(q, d)) = Len(q)
         /\ \A i \in 1..Len(q) : Shares(q, d)[i] = q[i][d] /\ Shares(q, d)[i] \in Nat
         /\ AckBytes(q, d) = SumFunction(Shares(q, d))
         /\ AckBytes(q, d) \in Nat
         /\ \A i \in 1..Len(q) : q[i][d] <= AckBytes(q, d)
<1>1. DOMAIN q = 1..Len(q) /\ Len(q) \in Nat /\ \A i \in 1..Len(q) : q[i] \in [Dst -> Nat]
  OBVIOUS
<1>2. \A i \in 1..Len(q) : q[i][d] \in Nat
  BY <1>1
<1>3. Shares(q, d) = [i \in 1..Len(q) |-> q[i][d]]
  BY <1>1 DEF Shares
<1>4. Shares(q, d) \in Seq(Int) /\ Len(Shares(q, d)) = Len(q)
  <2>1. \A i \in 1..Len(q) : q[i][d] \in Int
    BY <1>2
  <2> QED BY <1>1, <1>3, <2>1
<1>5. AckBytes(q, d) = SumFunction(Shares(q, d))
  BY DEF AckBytes, Shares
<1> DEFINE w == Shares(q, d)
           D == 1..Len(q)
<1>6. \A i \in D : w[i] = q[i][d] /\ w[i] \in Nat
  BY <1>2, <1>3
<1> HIDE DEF w
<1>7. IsFiniteSet(D)
  BY <1>1, RangeOne
<1>8. SumFunction(w) = SumFunctionOnSet(w, D)
  BY <1>4, SumOfSequence DEF w
<1> HIDE DEF D
<1>9. SumFunctionOnSet(w, D) \in Nat /\ \A i \in D : w[i] <= SumFunctionOnSet(w, D)
  BY <1>6, <1>7, SumNat
<1> QED BY <1>4, <1>5, <1>6, <1>8, <1>9 DEF w, D

LEMMA AckBytesNone == \A d : AckBytes(<<>>, d) = 0
<1> TAKE d
<1>1. [i \in DOMAIN <<>> |-> <<>>[i][d]] = <<>>
  OBVIOUS
<1> QED BY <1>1, SumOfNone DEF AckBytes

LEMMA AckBytesAppend ==
  ASSUME NEW q \in Seq([Dst -> Nat]), NEW t \in [Dst -> Nat], NEW d \in Dst
  PROVE  AckBytes(Append(q, t), d) = AckBytes(q, d) + t[d]
<1> DEFINE u == Append(q, t)
           w == Shares(q, d)
           x == Shares(u, d)
           c == t[d]
<1>1. u \in Seq([Dst -> Nat]) /\ Len(u) = Len(q) + 1 /\ Len(q) \in Nat
      /\ (\A i \in 1..Len(q) : u[i] = q[i]) /\ u[Len(q) + 1] = t
  OBVIOUS
<1> HIDE DEF u
<1>2. /\ w \in Seq(Int) /\ Len(w) = Len(q) /\ x \in Seq(Int) /\ Len(x) = Len(q) + 1
      /\ \A i \in 1..Len(q) : w[i] = q[i][d]
      /\ \A i \in 1..(Len(q) + 1) : x[i] = u[i][d]
      /\ AckBytes(u, d) = SumFunction(x) /\ AckBytes(q, d) = SumFunction(w)
  BY <1>1, SharesAre
<1>3. c \in Int
  OBVIOUS
<1>4. (\A i \in 1..Len(q) : x[i] = w[i]) /\ x[Len(q) + 1] = c
  BY <1>1, <1>2
<1> HIDE DEF w, x, c
<1>5. x = Append(w, c)
  <2>1. /\ Append(w, c) \in Seq(Int) /\ Len(Append(w, c)) = Len(q) + 1
        /\ \A i \in 1..Len(q) : Append(w, c)[i] = w[i]
        /\ Append(w, c)[Len(q) + 1] = c
    BY <1>2, <1>3
  <2>2. \A i \in 1..(Len(q) + 1) : x[i] = Append(w, c)[i]
    BY <1>1, <1>4, <2>1
  <2> QED BY <1>2, <2>1, <2>2
<1>6. SumFunction(x) = SumFunction(w) + c
  BY <1>2, <1>3, <1>5, SumOfAppend
<1> QED BY <1>2, <1>6 DEF u, c

LEMMA AckBytesTail ==
  ASSUME NEW q \in Seq([Dst -> Nat]), q # <<>>, NEW d \in Dst
  PROVE  AckBytes(q, d) = Head(q)[d] + AckBytes(Tail(q), d)
<1> DEFINE u == Tail(q)
           k == Len(u)
           w == Shares(q, d)
           x == Shares(u, d)
<1>1. u \in Seq([Dst -> Nat]) /\ k \in Nat /\ Len(q) = k + 1 /\ Head(q) = q[1]
      /\ (\A i \in 1..k : u[i] = q[i + 1])
  OBVIOUS
<1> HIDE DEF u
<1>2. /\ w \in Seq(Int) /\ Len(w) = k + 1 /\ x \in Seq(Int) /\ Len(x) = k
      /\ \A i \in 1..(k + 1) : w[i] = q[i][d]
      /\ \A i \in 1..k : x[i] = u[i][d]
      /\ AckBytes(u, d) = SumFunction(x) /\ AckBytes(q, d) = SumFunction(w)
  BY <1>1, SharesAre
<1> HIDE DEF k
<1>3. \A i \in 1..k : x[i] = w[i + 1]
  <2> TAKE i \in 1..k
  <2>1. i + 1 \in 1..(k + 1)
    BY <1>1
  <2> QED BY <2>1, <1>1, <1>2
<1>4. w[1] = Head(q)[d]
  BY <1>1, <1>2
<1> HIDE DEF w, x
<1>5. w # <<>> /\ x = Tail(w) /\ Head(w) = w[1]
  <2>1. w # <<>> /\ Tail(w) \in Seq(Int) /\ Len(Tail(w)) = k /\ Head(w) = w[1]
        /\ \A i \in 1..k : Tail(w)[i] = w[i + 1]
    BY <1>1, <1>2
  <2> QED BY <1>2, <1>3, <2>1
<1>6. SumFunction(w) = w[1] + SumFunction(x)
  BY <1>2, <1>5, SumOfTail
<1> QED BY <1>2, <1>4, <1>6 DEF u
------------------------------------------------------------------------------
(* The packets that may be in a switch, wait there, be in the queue of one of
   its ports, and be on a wire; the SwitchACKs that may travel on a link.      *)
At(s) == {p \in Packet : IF p.in = Ports THEN <<s, p.dst>> \in Flow ELSE NextHop[p.in][p.dst] = s}
Waiting(s) == {p \in At(s) : ~ShouldIgnore(s, p.dst)}
Leaving(port) == {p \in At(port[1]) : NextHop[port[1]][p.dst] = port[2]}
OnWire(l) == {p \in Packet : NextHop[l[1]][p.dst] = l[2]}
Tags(l) == {t \in [Dst -> Nat] : \A d \in Dst : NextHop[l[1]][d] # l[2] => t[d] = 0}

Typed ==
  /\ wins \in [Switch -> [Dst -> Nat]]
  /\ \A s \in Switch, d \in Dst : ShouldIgnore(s, d) => wins[s][d] = Win[s][d]
  /\ DOMAIN group = Switch
  /\ buffering \in [Switch -> [Dst -> Nat]]
  /\ \A s \in Switch : GroupOk(group[s], buffering[s], Waiting(s))
  /\ egress \in [Port -> Seq(Packet)] /\ \A o \in Port : egress[o] \in Seq(Leaving(o))
  /\ wire \in [Link -> Seq(Packet)] /\ \A l \in Link : wire[l] \in Seq(OnWire(l))
  /\ credits \in [Link -> [Dst -> Nat]] /\ \A l \in Link : credits[l] \in Tags(l)
  /\ acks \in [Link -> Seq([Dst -> Nat])] /\ \A l \in Link : acks[l] \in Seq(Tags(l))
  /\ drain = NotDraining \/ drain.sw \in Switch
  /\ sent \in [Flow -> 0..MaxPkts] /\ rcvd \in [Flow -> 0..MaxPkts]

(* No head fits its window, but in the queues that are being drained.          *)
Blocked ==
  \A s \in Switch : \A v \in DOMAIN group[s].voqs :
    group[s].voqs[v] # <<>> /\ ~(s = drain.sw /\ v \in drain.voqs) =>
      Head1(group[s], v).size > wins[s][Head1(group[s], v).dst]

Conserved(l, d) ==
  wins[l[1]][d] + InFlight(l, d) + Held(l[2], d, {l[1]}) + credits[l][d] + InAcks(l, d)
    = Win[l[1]][d]

AllConserved == \A h \in Hops : Conserved(h[1], h[2])

FloodInv == Typed /\ Blocked /\ AllConserved

(* The sums of the specification are those of the lemmas.                      *)
LEMMA SumsAre ==
  /\ \A s, d, ins : VOQBytes(s, d, ins) = GroupBytes(group[s], d, ins)
  /\ \A l, d : InAcks(l, d) = AckBytes(acks[l], d)
  /\ \A l, d : InFlight(l, d) = Bytes(egress[l], d, All) + Bytes(wire[l], d, All)
  /\ \A s, d, ins : Held(s, d, ins) = GroupBytes(group[s], d, ins)
                                       + Bytes(egress[<<s, NextHop[s][d]>>], d, ins)
<1>1. \A s, d, ins : VOQBytes(s, d, ins) = GroupBytes(group[s], d, ins)
  BY DEF VOQBytes, GroupBytes, Loads
<1>2. \A l, d : InAcks(l, d) = AckBytes(acks[l], d)
  BY DEF InAcks, AckBytes
<1>3. \A l, d : InFlight(l, d) = Bytes(egress[l], d, All) + Bytes(wire[l], d, All)
  BY DEF InFlight, All
<1> QED BY <1>1, <1>2, <1>3 DEF Held

(* A hop joins two different switches.                                         *)
LEMMA HopIs ==
  ASSUME NEW l \in Link, NEW d \in Dst, NextHop[l[1]][d] = l[2]
  PROVE  /\ l[1] \in Switch /\ l[2] \in Switch /\ l[1] # l[2] /\ l = <<l[1], l[2]>>
         /\ l \in Port /\ ~ShouldIgnore(l[1], d)
         /\ <<l[2], NextHop[l[2]][d]>> \in Port /\ <<l[2], NextHop[l[2]][d]>> # l
<1>1. l \in Switch \X Switch
  BY DEF Link
<1>2. l[1] \in Switch /\ l[2] \in Switch /\ l = <<l[1], l[2]>>
  BY <1>1
<1>3. l[1] # l[2]
  BY <1>2, FloodgateAssumption DEF FloodgateAssumption
<1>4. \A s \in Switch : <<s, NextHop[s][d]>> \in Port
  BY DEF Port
<1> QED BY <1>2, <1>3, <1>4 DEF ShouldIgnore

LEMMA LinkIs ==
  \A l \in Link : l[1] \in Switch /\ l[2] \in Switch /\ l = <<l[1], l[2]>> /\ l \in Port
<1> TAKE l \in Link
<1>1. l \in Switch \X Switch
  BY DEF Link
<1> QED BY <1>1 DEF Link, Port

LEMMA PortsAre ==
  /\ Ports \notin Switch /\ Ports \notin Dst
  /\ \A s \in Switch, d \in Dst : <<s, NextHop[s][d]>> \in Port
  /\ \A o \in Port : o[1] \in Switch /\ o = <<o[1], o[2]>>
<1>1. \A o \in Port : o[1] \in Switch /\ o = <<o[1], o[2]>>
  BY DEF Port
<1> QED BY <1>1, FloodgateAssumption DEF FloodgateAssumption, Port

LEMMA SetsOfPackets ==
  /\ \A s : At(s) \in SUBSET Packet /\ Waiting(s) \in SUBSET Packet /\ Waiting(s) \in SUBSET At(s)
  /\ \A o : Leaving(o) \in SUBSET Packet /\ Leaving(o) \in SUBSET At(o[1])
  /\ \A l : OnWire(l) \in SUBSET Packet
  BY DEF At, Waiting, Leaving, OnWire
------------------------------------------------------------------------------
LEMMA EmptyGroupOk ==
  ASSUME NEW W \in SUBSET Packet
  PROVE  /\ GroupOk(EmptyGroup, [d \in Dst |-> 0], W)
         /\ \A d, ins : GroupBytes(EmptyGroup, d, ins) = 0
<1>1. DOMAIN EmptyGroup.voqs = {} /\ DOMAIN EmptyGroup.dst2voq = {}
  BY DEF EmptyGroup
<1>2. QueuesOk(EmptyGroup, W)
  BY <1>1, FS_EmptySet DEF QueuesOk
<1>3. \A d, ins : GroupBytes(EmptyGroup, d, ins) = 0
  BY <1>1, <1>2, LoadsAre
<1>4. Located(EmptyGroup)
  BY <1>1 DEF Located
<1>5. BindingsOk(EmptyGroup, [d \in Dst |-> 0])
  BY <1>1 DEF BindingsOk
<1> QED BY <1>2, <1>3, <1>4, <1>5 DEF GroupOk

(* Everything starts empty and the windows full.                               *)
LEMMA InitFloodInv == Init => FloodInv
<1> SUFFICES ASSUME Init PROVE FloodInv
  OBVIOUS
<1>1. Typed
  <2>1. wins \in [Switch -> [Dst -> Nat]] /\ wins = Win
    BY FloodgateAssumption DEF FloodgateAssumption, Init
  <2>2. \A s \in Switch : group[s] = EmptyGroup /\ buffering[s] = [d \in Dst |-> 0]
    BY DEF Init
  <2>3. \A s \in Switch : GroupOk(group[s], buffering[s], Waiting(s))
    BY <2>2, EmptyGroupOk, SetsOfPackets
  <2>4. /\ egress \in [Port -> Seq(Packet)] /\ \A o \in Port : egress[o] \in Seq(Leaving(o))
        /\ wire \in [Link -> Seq(Packet)] /\ \A l \in Link : wire[l] \in Seq(OnWire(l))
        /\ acks \in [Link -> Seq([Dst -> Nat])] /\ \A l \in Link : acks[l] \in Seq(Tags(l))
    BY DEF Init
  <2>5. credits \in [Link -> [Dst -> Nat]] /\ \A l \in Link : credits[l] \in Tags(l)
    BY DEF Init, Tags
  <2>6. /\ DOMAIN group = Switch /\ buffering \in [Switch -> [Dst -> Nat]]
        /\ drain = NotDraining
    BY DEF Init
  <2>7. sent \in [Flow -> 0..MaxPkts] /\ rcvd \in [Flow -> 0..MaxPkts]
    BY FloodgateAssumption DEF FloodgateAssumption, Init
  <2> QED BY <2>1, <2>3, <2>4, <2>5, <2>6, <2>7 DEF Typed
<1>2. Blocked
  BY DEF Init, Blocked, EmptyGroup
<1>3. AllConserved
  <2> SUFFICES ASSUME NEW l \in Link, NEW d \in Dst, NextHop[l[1]][d] = l[2]
               PROVE  Conserved(l, d)
    BY DEF AllConserved, Hops
  <2>1. /\ l[1] \in Switch /\ l[2] \in Switch /\ l \in Port
        /\ <<l[2], NextHop[l[2]][d]>> \in Port
    BY HopIs
  <2>2. /\ wins = Win /\ group[l[2]] = EmptyGroup /\ egress[l] = <<>> /\ wire[l] = <<>>
        /\ egress[<<l[2], NextHop[l[2]][d]>>] = <<>> /\ credits[l][d] = 0 /\ acks[l] = <<>>
    BY <2>1 DEF Init
  <2>3. Win[l[1]][d] \in Nat
    BY <2>1, FloodgateAssumption DEF FloodgateAssumption
  <2>4. \A ins : GroupBytes(EmptyGroup, d, ins) = 0
    BY EmptyGroupOk
  <2>5. /\ InFlight(l, d) = 0 /\ Held(l[2], d, {l[1]}) = 0 /\ InAcks(l, d) = 0
    BY <2>2, <2>4, SumsAre, BytesNone, AckBytesNone
  <2> QED BY <2>2, <2>3, <2>5 DEF Conserved
<1> QED BY <1>1, <1>2, <1>3 DEF FloodInv
------------------------------------------------------------------------------
(* The parts of Typed and Blocked that SendToDev and DrainOne can change.      *)
WinsOk ==
  /\ wins \in [Switch -> [Dst -> Nat]]
  /\ \A s \in Switch, d \in Dst : ShouldIgnore(s, d) => wins[s][d] = Win[s][d]

GroupsOk ==
  /\ DOMAIN group = Switch
  /\ buffering \in [Switch -> [Dst -> Nat]]
  /\ \A s \in Switch : GroupOk(group[s], buffering[s], Waiting(s))

EgressOk == egress \in [Port -> Seq(Packet)] /\ \A o \in Port : egress[o] \in Seq(Leaving(o))

WireOk == wire \in [Link -> Seq(Packet)] /\ \A l \in Link : wire[l] \in Seq(OnWire(l))

CreditsOk ==
  /\ credits \in [Link -> [Dst -> Nat]] /\ \A l \in Link : credits[l] \in Tags(l)
  /\ acks \in [Link -> Seq([Dst -> Nat])] /\ \A l \in Link : acks[l] \in Seq(Tags(l))

CountsOk == sent \in [Flow -> 0..MaxPkts] /\ rcvd \in [Flow -> 0..MaxPkts]

DrainOk == drain = NotDraining \/ drain.sw \in Switch

LEMMA TypedIs ==
  Typed <=> WinsOk /\ GroupsOk /\ EgressOk /\ WireOk /\ CreditsOk /\ DrainOk /\ CountsOk
  BY DEF Typed, WinsOk, GroupsOk, EgressOk, WireOk, CreditsOk, CountsOk, DrainOk

LEMMA GroupsOkNext ==
  ASSUME DOMAIN group' = Switch, buffering' \in [Switch -> [Dst -> Nat]],
         \A s \in Switch : GroupOk(group'[s], buffering'[s], Waiting(s))
  PROVE  GroupsOk'
  BY DEF GroupsOk

(* A head of a queue is a packet that waits at the switch.                     *)
LEMMA HeadIs ==
  ASSUME GroupsOk, NEW s \in Switch, NEW v \in DOMAIN group[s].voqs, group[s].voqs[v] # <<>>
  PROVE  /\ Head1(group[s], v) \in Waiting(s)
         /\ FindVOQId(group[s], Head1(group[s], v).dst) = v
<1>1. GroupOk(group[s], buffering[s], Waiting(s))
  BY DEF GroupsOk
<1>2. Waiting(s) \in SUBSET Packet
  BY SetsOfPackets
<1> QED BY <1>1, <1>2, DequeueShape

(* Taking n from a window leaves the windows well-typed.                       *)
LEMMA TakeFromWindow ==
  ASSUME WinsOk, NEW s \in Switch, NEW d \in Dst, ~ShouldIgnore(s, d),
         NEW n \in Nat, n <= wins[s][d], wins' = [wins EXCEPT ![s][d] = @ - n]
  PROVE  /\ WinsOk'
         /\ wins'[s][d] = wins[s][d] - n
         /\ \A t \in Switch, e \in Dst : <<t, e>> # <<s, d>> => wins'[t][e] = wins[t][e]
         /\ \A t \in Switch, e \in Dst : wins'[t][e] <= wins[t][e]
<1>1. wins[s][d] \in Nat /\ wins[s][d] - n \in Nat /\ wins \in [Switch -> [Dst -> Nat]]
  BY DEF WinsOk
<1>2. wins' \in [Switch -> [Dst -> Nat]]
  BY <1>1
<1>3. wins'[s][d] = wins[s][d] - n
      /\ \A t \in Switch, e \in Dst : <<t, e>> # <<s, d>> => wins'[t][e] = wins[t][e]
  BY <1>1
<1>4. \A t \in Switch, e \in Dst : wins'[t][e] <= wins[t][e]
  <2> TAKE t \in Switch, e \in Dst
  <2>1. wins[t][e] \in Nat
    BY <1>1
  <2> QED BY <1>1, <1>3, <2>1
<1>5. \A t \in Switch, e \in Dst : ShouldIgnore(t, e) => wins'[t][e] = Win[t][e]
  BY <1>3 DEF WinsOk
<1>6. (\A t \in Switch, e \in Dst : ShouldIgnore(t, e) => wins[t][e] = Win[t][e])'
  BY <1>5 DEF ShouldIgnore
<1> QED BY <1>2, <1>3, <1>4, <1>6 DEF WinsOk

(* Appending a packet to the port it leaves by.                                *)
LEMMA AppendToPort ==
  ASSUME EgressOk, NEW s \in Switch, NEW p \in At(s),
         egress' = [egress EXCEPT ![<<s, NextHop[s][p.dst]>>] = Append(@, p)]
  PROVE  /\ EgressOk' /\ <<s, NextHop[s][p.dst]>> \in Port
         /\ \A o \in Port : \A d, ins :
              Bytes(egress'[o], d, ins) =
                Bytes(egress[o], d, ins)
                  + (IF o = <<s, NextHop[s][p.dst]>> THEN Counted(p, d, ins) ELSE 0)
<1> DEFINE port == <<s, NextHop[s][p.dst]>>
<1>1. p \in Packet /\ p.dst \in Dst
  BY SetsOfPackets, SizesPositive
<1>2. port \in Port
  BY <1>1, PortsAre
<1>3. p \in Leaving(port)
  BY <1>1 DEF Leaving
<1> HIDE DEF port
<1>4. egress' = [egress EXCEPT ![port] = Append(@, p)]
  BY DEF port
<1>5. \A o \in Port : egress[o] \in Seq(Packet) /\ egress[o] \in Seq(Leaving(o))
  BY DEF EgressOk
<1>6. \A o \in Port : egress'[o] = IF o = port THEN Append(egress[o], p) ELSE egress[o]
  BY <1>4 DEF EgressOk
<1>7. egress' \in [Port -> Seq(Packet)]
  <2>1. Append(egress[port], p) \in Seq(Packet)
    BY <1>1, <1>2, <1>5
  <2> QED BY <1>4, <2>1 DEF EgressOk
<1>8. \A o \in Port : egress'[o] \in Seq(Leaving(o))
  <2>1. Append(egress[port], p) \in Seq(Leaving(port))
    BY <1>2, <1>3, <1>5
  <2> QED BY <1>5, <1>6, <2>1
<1>9. EgressOk'
  BY <1>7, <1>8 DEF EgressOk, Leaving, At
<1>10. ASSUME NEW o \in Port, NEW d, NEW ins
       PROVE  Bytes(egress'[o], d, ins) =
                Bytes(egress[o], d, ins) + (IF o = port THEN Counted(p, d, ins) ELSE 0)
  <2>1. Bytes(egress[o], d, ins) \in Nat
    BY <1>5, BytesAre
  <2>2. Bytes(Append(egress[o], p), d, ins) = Bytes(egress[o], d, ins) + Counted(p, d, ins)
    BY <1>1, <1>5, BytesAppend
  <2> QED BY <1>6, <2>1, <2>2
<1> QED BY <1>2, <1>9, <1>10 DEF port

(* SendToDev keeps the types, and puts no packet that fits its window at the
   head of a VOQ.                                                              *)
LEMMA SendToDevOk ==
  ASSUME WinsOk, GroupsOk, EgressOk, Blocked, drain = NotDraining, drain' = drain,
         NEW s \in Switch, NEW p \in At(s), SendToDev(s, p)
  PROVE  WinsOk' /\ GroupsOk' /\ EgressOk' /\ Blocked'
<1> DEFINE port == <<s, NextHop[s][p.dst]>>
<1>1. p \in Packet /\ p.dst \in Dst /\ p.size \in Nat /\ p.size > 0
  BY SetsOfPackets, SizesPositive
<1>2. drain.voqs = {} /\ drain'.voqs = {}
  BY DEF NotDraining
<1>3. \A t \in Switch : \A v \in DOMAIN group[t].voqs : group[t].voqs[v] # <<>> =>
        Head1(group[t], v).size > wins[t][Head1(group[t], v).dst]
  BY <1>2 DEF Blocked
<1>4. CASE PassesGate(s, p)
  <2>1. /\ wins' = IF ShouldIgnore(s, p.dst) THEN wins
                   ELSE [wins EXCEPT ![s][p.dst] = @ - p.size]
        /\ egress' = [egress EXCEPT ![port] = Append(@, p)]
        /\ UNCHANGED <<group, buffering>>
    BY <1>4 DEF SendToDev
  <2>2. ~ShouldIgnore(s, p.dst) => p.size <= wins[s][p.dst]
    BY <1>4 DEF PassesGate, CheckDstWin
  <2>3. WinsOk' /\ \A t \in Switch, e \in Dst : wins'[t][e] <= wins[t][e]
    <3>1. CASE ShouldIgnore(s, p.dst)
      <4>1. wins' = wins
        BY <2>1, <3>1
      <4>2. \A t \in Switch, e \in Dst : wins[t][e] \in Nat
        BY DEF WinsOk
      <4> QED BY <4>1, <4>2 DEF WinsOk, ShouldIgnore
    <3>2. CASE ~ShouldIgnore(s, p.dst)
      <4>1. wins' = [wins EXCEPT ![s][p.dst] = @ - p.size]
        BY <2>1, <3>2
      <4> QED BY <1>1, <2>2, <3>2, <4>1, TakeFromWindow
    <3> QED BY <3>1, <3>2
  <2>4. GroupsOk'
    <3>1. group' = group /\ buffering' = buffering
      BY <2>1
    <3> QED BY <3>1, GroupsOkNext DEF GroupsOk
  <2>5. EgressOk'
    BY <2>1, AppendToPort
  <2>6. Blocked'
    <3> SUFFICES ASSUME NEW t \in Switch, NEW v \in DOMAIN group[t].voqs, group[t].voqs[v] # <<>>
                 PROVE  Head1(group[t], v).size > wins'[t][Head1(group[t], v).dst]
      BY <2>1 DEF Blocked, Head1
    <3> DEFINE x == Head1(group[t], v)
    <3>1. x \in Waiting(t)
      BY HeadIs
    <3>2. x \in Packet
      BY <3>1, SetsOfPackets
    <3>3. x.dst \in Dst /\ x.size \in Nat
      BY <3>2, SizesPositive
    <3>4. x.size > wins[t][x.dst]
      BY <1>3
    <3> HIDE DEF x
    <3>5. wins[t][x.dst] \in Nat /\ wins'[t][x.dst] \in Nat /\ wins'[t][x.dst] <= wins[t][x.dst]
      BY <2>3, <3>3 DEF WinsOk
    <3>6. x.size > wins'[t][x.dst]
      BY <3>3, <3>4, <3>5
    <3> QED BY <3>6 DEF x
  <2> QED BY <2>3, <2>4, <2>5, <2>6
<1>5. CASE ~PassesGate(s, p)
  <2> DEFINE g == group[s]
             h == Enqueue(g, p.dst, p)
             b == [buffering[s] EXCEPT ![p.dst] = @ + p.size]
             W == Waiting(s)
  <2>1. /\ group' = [group EXCEPT ![s] = h]
        /\ buffering' = [buffering EXCEPT ![s][p.dst] = @ + p.size]
        /\ UNCHANGED <<wins, egress>>
    BY <1>5 DEF SendToDev
  <2>2. p \in W /\ W \in SUBSET Packet
    BY <1>5, SetsOfPackets DEF PassesGate, Waiting
  <2>3. GroupOk(g, buffering[s], W)
    BY DEF GroupsOk
  <2> HIDE DEF W
  <2>4. GroupOk(h, b, W)
    BY <2>2, <2>3, EnqueueOk
  <2>5. \A v \in DOMAIN h.voqs : h.voqs[v] # <<>> =>
          \/ v \in DOMAIN g.voqs /\ g.voqs[v] # <<>> /\ Head(h.voqs[v]) = Head(g.voqs[v])
          \/ buffering[s][p.dst] = 0 /\ Head(h.voqs[v]) = p
    BY <2>2, <2>3, EnqueueShape
  <2> HIDE DEF h, b
  <2>6. /\ DOMAIN group' = Switch /\ group'[s] = h
        /\ \A t \in Switch : t # s => group'[t] = group[t]
    BY <2>1 DEF GroupsOk
  <2>7. /\ buffering' \in [Switch -> [Dst -> Nat]] /\ buffering'[s] = b
        /\ \A t \in Switch : t # s => buffering'[t] = buffering[t]
    <3>1. buffering \in [Switch -> [Dst -> Nat]]
      BY DEF GroupsOk
    <3>2. b \in [Dst -> Nat]
      BY <2>4 DEF GroupOk
    <3>3. buffering' = [buffering EXCEPT ![s] = b]
      BY <2>1 DEF b
    <3> QED BY <3>1, <3>2, <3>3
  <2>8. \A t \in Switch : GroupOk(group'[t], buffering'[t], Waiting(t))
    <3> TAKE t \in Switch
    <3>1. CASE t = s
      BY <2>4, <2>6, <2>7, <3>1 DEF W
    <3>2. CASE t # s
      BY <2>6, <2>7, <3>2 DEF GroupsOk
    <3> QED BY <3>1, <3>2
  <2>9. GroupsOk'
    BY <2>6, <2>7, <2>8, GroupsOkNext
  <2>10. WinsOk' /\ EgressOk'
    BY <2>1 DEF WinsOk, EgressOk, ShouldIgnore, Leaving, At
  <2>11. Blocked'
    <3> SUFFICES ASSUME NEW t \in Switch, NEW v \in DOMAIN group'[t].voqs, group'[t].voqs[v] # <<>>
                 PROVE  Head(group'[t].voqs[v]).size > wins[t][Head(group'[t].voqs[v]).dst]
      BY <2>1 DEF Blocked, Head1
    <3>1. CASE t # s
      BY <1>3, <2>6, <3>1 DEF Head1
    <3>2. CASE t = s /\ v \in DOMAIN g.voqs /\ g.voqs[v] # <<>> /\ Head(h.voqs[v]) = Head(g.voqs[v])
      BY <1>3, <2>6, <3>2 DEF Head1
    <3>3. CASE t = s /\ buffering[s][p.dst] = 0 /\ Head(h.voqs[v]) = p
      <4>1. ~(p.size <= wins[s][p.dst])
        BY <1>5, <3>3 DEF PassesGate, CheckDstWin
      <4>2. wins[s][p.dst] \in Nat
        BY <1>1 DEF WinsOk
      <4> QED BY <1>1, <2>6, <3>3, <4>1, <4>2
    <3> QED BY <2>5, <2>6, <3>1, <3>2, <3>3
  <2> QED BY <2>9, <2>10, <2>11
<1> QED BY <1>4, <1>5
------------------------------------------------------------------------------
(* The sums of one hop, before and after a step.                               *)
LEMMA SumsAreNext ==
  ASSUME NEW l, NEW d
  PROVE  /\ InFlight(l, d)' = Bytes(egress'[l], d, All) + Bytes(wire'[l], d, All)
         /\ Held(l[2], d, {l[1]})' = GroupBytes(group'[l[2]], d, {l[1]})
                                       + Bytes(egress'[<<l[2], NextHop[l[2]][d]>>], d, {l[1]})
         /\ InAcks(l, d)' = AckBytes(acks'[l], d)
<1>1. InFlight(l, d)' = Bytes(egress'[l], d, All) + Bytes(wire'[l], d, All)
  BY DEF InFlight, All
<1>2. InAcks(l, d)' = AckBytes(acks'[l], d)
  BY DEF InAcks, AckBytes
<1>3. VOQBytes(l[2], d, {l[1]})' = GroupBytes(group'[l[2]], d, {l[1]})
  BY DEF VOQBytes, GroupBytes, Loads
<1> QED BY <1>1, <1>2, <1>3 DEF Held

LEMMA SumsTyped ==
  /\ GroupsOk => \A s \in Switch : \A d, ins : GroupBytes(group[s], d, ins) \in Nat
  /\ EgressOk => \A o \in Port : \A d, ins : Bytes(egress[o], d, ins) \in Nat
  /\ WireOk => \A l \in Link : \A d, ins : Bytes(wire[l], d, ins) \in Nat
  /\ CreditsOk => \A l \in Link, d \in Dst : AckBytes(acks[l], d) \in Nat /\ credits[l][d] \in Nat
<1>1. ASSUME GroupsOk, NEW s \in Switch, NEW d, NEW ins
      PROVE  GroupBytes(group[s], d, ins) \in Nat
  <2>1. QueuesOk(group[s], Waiting(s)) /\ Waiting(s) \in SUBSET Packet
    BY <1>1, SetsOfPackets DEF GroupsOk, GroupOk
  <2> QED BY <2>1, LoadsAre
<1>2. EgressOk => \A o \in Port : \A d, ins : Bytes(egress[o], d, ins) \in Nat
  BY BytesAre DEF EgressOk
<1>3. WireOk => \A l \in Link : \A d, ins : Bytes(wire[l], d, ins) \in Nat
  BY BytesAre DEF WireOk
<1>4. CreditsOk => \A l \in Link, d \in Dst : AckBytes(acks[l], d) \in Nat /\ credits[l][d] \in Nat
  BY SharesAre DEF CreditsOk
<1> QED BY <1>1, <1>2, <1>3, <1>4

LEMMA HopTyped ==
  ASSUME WinsOk, GroupsOk, EgressOk, WireOk, CreditsOk,
         NEW l \in Link, NEW d \in Dst, NextHop[l[1]][d] = l[2]
  PROVE  /\ wins[l[1]][d] \in Nat /\ InFlight(l, d) \in Nat /\ Held(l[2], d, {l[1]}) \in Nat
         /\ credits[l][d] \in Nat /\ InAcks(l, d) \in Nat
         /\ InFlight(l, d) = Bytes(egress[l], d, All) + Bytes(wire[l], d, All)
         /\ InFlight(l, d)' = Bytes(egress'[l], d, All) + Bytes(wire'[l], d, All)
         /\ Bytes(egress[l], d, All) \in Nat /\ Bytes(wire[l], d, All) \in Nat
<1> DEFINE next == <<l[2], NextHop[l[2]][d]>>
<1>1. l[1] \in Switch /\ l[2] \in Switch /\ l \in Port /\ next \in Port
  BY HopIs
<1>2. wins[l[1]][d] \in Nat
  BY <1>1 DEF WinsOk
<1>3. /\ GroupBytes(group[l[2]], d, {l[1]}) \in Nat /\ Bytes(egress[next], d, {l[1]}) \in Nat
      /\ Bytes(egress[l], d, All) \in Nat /\ Bytes(wire[l], d, All) \in Nat
      /\ AckBytes(acks[l], d) \in Nat /\ credits[l][d] \in Nat
  BY <1>1, SumsTyped
<1>4. /\ Held(l[2], d, {l[1]}) = GroupBytes(group[l[2]], d, {l[1]}) + Bytes(egress[next], d, {l[1]})
      /\ InAcks(l, d) = AckBytes(acks[l], d)
      /\ InFlight(l, d) = Bytes(egress[l], d, All) + Bytes(wire[l], d, All)
  BY SumsAre
<1>5. InFlight(l, d)' = Bytes(egress'[l], d, All) + Bytes(wire'[l], d, All)
  BY SumsAreNext
<1> QED BY <1>2, <1>3, <1>4, <1>5

(* What SendToDev does to a hop: the upstream spends its window on a packet it
   sends, and a packet that came by the hop is held.                           *)
LEMMA SendToDevMoves ==
  ASSUME WinsOk, GroupsOk, EgressOk, NEW s \in Switch, NEW p \in At(s), SendToDev(s, p),
         NEW l \in Link, NEW d \in Dst, NextHop[l[1]][d] = l[2]
  PROVE  /\ Held(l[2], d, {l[1]})' =
              Held(l[2], d, {l[1]}) + (IF s = l[2] THEN Counted(p, d, {l[1]}) ELSE 0)
         /\ \/ /\ wins'[l[1]][d] = wins[l[1]][d]
               /\ Bytes(egress'[l], d, All) = Bytes(egress[l], d, All)
            \/ /\ s = l[1] /\ p.dst = d /\ p.size <= wins[l[1]][d]
               /\ wins'[l[1]][d] = wins[l[1]][d] - p.size
               /\ Bytes(egress'[l], d, All) = Bytes(egress[l], d, All) + p.size
<1> DEFINE port == <<s, NextHop[s][p.dst]>>
           next == <<l[2], NextHop[l[2]][d]>>
           c == Counted(p, d, {l[1]})
           G == GroupBytes(group[l[2]], d, {l[1]})
           E == Bytes(egress[next], d, {l[1]})
           B == Bytes(egress[l], d, All)
<1>1. p \in Packet /\ p.dst \in Dst /\ p.size \in Nat /\ p.size > 0 /\ p.in \in All
  BY SetsOfPackets, SizesPositive
<1>2. /\ l[1] \in Switch /\ l[2] \in Switch /\ l[1] # l[2] /\ l = <<l[1], l[2]>>
      /\ l \in Port /\ ~ShouldIgnore(l[1], d) /\ next \in Port /\ next # l
  BY HopIs
<1>3. c \in Nat /\ G \in Nat /\ E \in Nat /\ B \in Nat
  BY <1>1, <1>2, CountedIs, SumsTyped
<1>4. /\ Held(l[2], d, {l[1]}) = G + E
      /\ Held(l[2], d, {l[1]})' = GroupBytes(group'[l[2]], d, {l[1]})
                                    + Bytes(egress'[next], d, {l[1]})
  BY SumsAre, SumsAreNext
<1>5. /\ p.dst # d => c = 0 /\ Counted(p, d, All) = 0
      /\ p.dst = d => Counted(p, d, All) = p.size
  BY <1>1, CountedIs
<1> HIDE DEF c, G, E, B, next
<1>6. CASE PassesGate(s, p)
  <2>1. /\ wins' = IF ShouldIgnore(s, p.dst) THEN wins
                   ELSE [wins EXCEPT ![s][p.dst] = @ - p.size]
        /\ egress' = [egress EXCEPT ![port] = Append(@, p)]
        /\ group' = group
    BY <1>6 DEF SendToDev
  <2>2. \A o \in Port : \A e, ins :
          Bytes(egress'[o], e, ins) =
            Bytes(egress[o], e, ins) + (IF o = port THEN Counted(p, e, ins) ELSE 0)
    BY <2>1, AppendToPort
  <2>3. Bytes(egress'[next], d, {l[1]}) = E + (IF s = l[2] THEN c ELSE 0)
    <3>1. Bytes(egress'[next], d, {l[1]}) = E + (IF next = port THEN c ELSE 0)
      BY <1>2, <2>2 DEF c, E
    <3>2. CASE s = l[2]
      <4>1. p.dst = d => next = port
        BY <3>2 DEF next
      <4> QED BY <1>3, <1>5, <3>1, <3>2, <4>1
    <3>3. CASE s # l[2]
      <4>1. next # port
        BY <3>3 DEF next
      <4> QED BY <1>3, <3>1, <3>3, <4>1
    <3> QED BY <3>2, <3>3
  <2>4. Bytes(egress'[l], d, All) = B + (IF l = port THEN Counted(p, d, All) ELSE 0)
    BY <1>2, <2>2 DEF B
  <2>5. CASE s = l[1] /\ p.dst = d
    <3>1. l = port
      BY <1>2, <2>5
    <3>2. ~ShouldIgnore(s, p.dst)
      BY <1>2, <2>5
    <3>3. p.size <= wins[s][p.dst]
      BY <1>6, <3>2 DEF PassesGate, CheckDstWin
    <3>4. wins' = [wins EXCEPT ![s][p.dst] = @ - p.size]
      BY <2>1, <3>2
    <3>5. wins'[s][p.dst] = wins[s][p.dst] - p.size
      BY <1>1, <3>2, <3>3, <3>4, TakeFromWindow
    <3>6. Bytes(egress'[l], d, All) = B + p.size
      BY <1>5, <2>4, <2>5, <3>1
    <3> QED BY <1>3, <1>4, <2>1, <2>3, <2>5, <3>3, <3>5, <3>6 DEF G, B, c
  <2>6. CASE ~(s = l[1] /\ p.dst = d)
    <3>1. Bytes(egress'[l], d, All) = B
      <4>1. l = port => s = l[1]
        BY <1>2
      <4> QED BY <1>3, <1>5, <2>4, <2>6, <4>1
    <3>2. wins'[l[1]][d] = wins[l[1]][d]
      <4>1. wins \in [Switch -> [Dst -> Nat]]
        BY DEF WinsOk
      <4>2. CASE s # l[1]
        BY <1>1, <1>2, <2>1, <4>1, <4>2
      <4>3. CASE s = l[1] /\ p.dst # d
        BY <1>1, <1>2, <2>1, <4>1, <4>3
      <4> QED BY <2>6, <4>2, <4>3
    <3> QED BY <1>3, <1>4, <2>1, <2>3, <3>1, <3>2 DEF G, B, c
  <2> QED BY <2>5, <2>6
<1>7. CASE ~PassesGate(s, p)
  <2>1. /\ group' = [group EXCEPT ![s] = Enqueue(@, p.dst, p)]
        /\ wins' = wins /\ egress' = egress
    BY <1>7 DEF SendToDev
  <2>2. p \in Waiting(s) /\ Waiting(s) \in SUBSET Packet
    BY <1>7, SetsOfPackets DEF PassesGate, Waiting
  <2>3. GroupOk(group[s], buffering[s], Waiting(s)) /\ DOMAIN group = Switch
    BY DEF GroupsOk
  <2>4. GroupBytes(Enqueue(group[s], p.dst, p), d, {l[1]}) =
          GroupBytes(group[s], d, {l[1]}) + c
    <3> DEFINE W == Waiting(s)
               g == group[s]
    <3>1. W \in SUBSET Packet /\ GroupOk(g, buffering[s], W) /\ p \in W
      BY <2>2, <2>3
    <3> HIDE DEF W, g
    <3>2. \A e, ins : GroupBytes(Enqueue(g, p.dst, p), e, ins) =
                        GroupBytes(g, e, ins) + Counted(p, e, ins)
      BY <3>1, EnqueueBytes
    <3> QED BY <3>2 DEF c, g
  <2>5. GroupBytes(group'[l[2]], d, {l[1]}) = G + (IF s = l[2] THEN c ELSE 0)
    <3>1. CASE s = l[2]
      BY <2>1, <2>3, <2>4, <3>1 DEF G
    <3>2. CASE s # l[2]
      BY <1>2, <1>3, <2>1, <2>3, <3>2 DEF G
    <3> QED BY <3>1, <3>2
  <2>6. Bytes(egress'[next], d, {l[1]}) = E /\ Bytes(egress'[l], d, All) = B
    BY <2>1 DEF E, B
  <2> QED BY <1>3, <1>4, <2>1, <2>5, <2>6 DEF B, c
<1> QED BY <1>6, <1>7
------------------------------------------------------------------------------
(* The counters of a link after AddCreditCounter.                              *)
LEMMA AddedCredits ==
  ASSUME CreditsOk, NEW s \in Switch, NEW p \in At(s),
         NEW c, c = AddCreditCounter(s, p)
  PROVE  /\ c \in [Link -> [Dst -> Nat]] /\ \A l \in Link : c[l] \in Tags(l)
         /\ \A l \in Link, d \in Dst :
              c[l][d] = credits[l][d] + (IF s = l[2] THEN Counted(p, d, {l[1]}) ELSE 0)
<1>1. p \in Packet /\ p.dst \in Dst /\ p.size \in Nat /\ p.in \in All
  BY SetsOfPackets, SizesPositive
<1>2. credits \in [Link -> [Dst -> Nat]] /\ \A l \in Link : credits[l] \in Tags(l)
  BY DEF CreditsOk
<1>3. CASE p.in = Ports
  <2>1. c = credits
    BY <1>3 DEF AddCreditCounter
  <2>2. \A l \in Link, d \in Dst : Counted(p, d, {l[1]}) = 0
    BY <1>3, LinkIs, PortsAre DEF Counted
  <2>3. \A l \in Link, d \in Dst : credits[l][d] \in Nat
    BY <1>2
  <2> QED BY <1>2, <2>1, <2>2, <2>3
<1>4. CASE p.in # Ports
  <2> DEFINE k == <<p.in, s>>
             e == p.dst
             n == p.size
  <2>1. p.in \in Switch /\ NextHop[p.in][e] = s
    BY <1>1, <1>4 DEF All, At
  <2>2. k \in Link /\ k[1] = p.in /\ k[2] = s
    BY <1>1, <2>1 DEF Link
  <2>3. c = [credits EXCEPT ![k][e] = @ + n]
    BY <1>4 DEF AddCreditCounter
  <2>4. e \in Dst /\ n \in Nat
    BY <1>1
  <2>5. \A l \in Link, d \in Dst :
          (IF s = l[2] THEN Counted(p, d, {l[1]}) ELSE 0) = IF l = k /\ d = e THEN n ELSE 0
    <3> TAKE l \in Link, d \in Dst
    <3>1. l = <<l[1], l[2]>>
      BY LinkIs
    <3> QED BY <2>2, <3>1 DEF Counted
  <2> HIDE DEF k, e, n
  <2>6. \A l \in Link, d \in Dst : credits[l][d] \in Nat
    BY <1>2
  <2>7. \A l \in Link, d \in Dst : c[l][d] = credits[l][d] + (IF l = k /\ d = e THEN n ELSE 0)
    BY <1>2, <2>2, <2>3, <2>4, <2>6
  <2>8. c \in [Link -> [Dst -> Nat]]
    BY <1>2, <2>2, <2>3, <2>4
  <2>9. \A l \in Link : c[l] \in Tags(l)
    <3> TAKE l \in Link
    <3>1. ASSUME NEW d \in Dst, NextHop[l[1]][d] # l[2] PROVE c[l][d] = 0
      <4>1. credits[l][d] = 0
        BY <1>2, <3>1 DEF Tags
      <4>2. ~(l = k /\ d = e)
        BY <2>1, <2>2, <3>1
      <4> QED BY <2>7, <4>1, <4>2
    <3> QED BY <2>8, <3>1 DEF Tags
  <2> QED BY <2>5, <2>7, <2>8, <2>9
<1> QED BY <1>3, <1>4

(* What a SwitchACK takes from the counters of a link is a tag of the link.    *)
LEMMA TagIs ==
  ASSUME NEW c \in [Link -> [Dst -> Nat]], \A l \in Link : c[l] \in Tags(l),
         NEW l \in Link, NEW e, NEW buf
  PROVE  /\ SwitchACK(c, l, e, buf) \in Tags(l)
         /\ \A d \in Dst : \/ SwitchACK(c, l, e, buf)[d] = 0
                           \/ /\ SwitchACK(c, l, e, buf)[d] = c[l][d]
                              /\ ~(DelayAck /\ buf[d] > ThAck)
         /\ CleanCreditCounter(c[l], SwitchACK(c, l, e, buf)) \in Tags(l)
         /\ \A d \in Dst : CleanCreditCounter(c[l], SwitchACK(c, l, e, buf))[d] =
                             c[l][d] - SwitchACK(c, l, e, buf)[d]
<1> DEFINE t == SwitchACK(c, l, e, buf)
           r == CleanCreditCounter(c[l], t)
<1>1. t = [d \in Dst |-> IF (IngressMode \/ d = e) /\ ~(DelayAck /\ buf[d] > ThAck)
                         THEN c[l][d] ELSE 0]
  BY DEF SwitchACK, Owed
<1>2. c[l] \in [Dst -> Nat] /\ \A d \in Dst : NextHop[l[1]][d] # l[2] => c[l][d] = 0
  BY DEF Tags
<1> HIDE DEF t
<1>3. t \in Tags(l)
  BY <1>1, <1>2 DEF Tags
<1>4. \A d \in Dst : t[d] = 0 \/ (t[d] = c[l][d] /\ ~(DelayAck /\ buf[d] > ThAck))
  BY <1>1
<1>5. r = [d \in Dst |-> c[l][d] - t[d]]
  BY DEF CleanCreditCounter
<1> HIDE DEF r
<1>6. \A d \in Dst : r[d] = 0 \/ r[d] = c[l][d]
  BY <1>2, <1>4, <1>5
<1>7. r \in Tags(l)
  BY <1>2, <1>5, <1>6 DEF Tags
<1> QED BY <1>3, <1>4, <1>5, <1>7 DEF t, r

(* What SwitchNotifyDequeue does to the links: a packet adds to the counter of
   the link it came by, and a counter goes back as a whole or not at all, never
   while too much of its destination is buffered.                              *)
LEMMA NotifyMoves ==
  ASSUME CreditsOk, NEW s \in Switch, NEW p \in At(s), NEW buf, SwitchNotifyDequeue(s, p, buf)
  PROVE  /\ CreditsOk'
         /\ \A l \in Link, d \in Dst :
              LET c == credits[l][d] + (IF s = l[2] THEN Counted(p, d, {l[1]}) ELSE 0)
              IN  \/ credits'[l][d] = c /\ AckBytes(acks'[l], d) = AckBytes(acks[l], d)
                  \/ /\ s = l[2] /\ ~(DelayAck /\ buf[d] > ThAck)
                     /\ credits'[l][d] = 0
                     /\ AckBytes(acks'[l], d) = AckBytes(acks[l], d) + c
<1> DEFINE c == AddCreditCounter(s, p)
           tag(l) == SwitchACK(c, l, p.dst, buf)
           x(l, d) == IF s = l[2] THEN Counted(p, d, {l[1]}) ELSE 0
<1>1. /\ c \in [Link -> [Dst -> Nat]] /\ \A l \in Link : c[l] \in Tags(l)
      /\ \A l \in Link, d \in Dst : c[l][d] = credits[l][d] + x(l, d)
  BY AddedCredits
<1>2. acks \in [Link -> Seq([Dst -> Nat])] /\ \A l \in Link : acks[l] \in Seq(Tags(l))
  BY DEF CreditsOk
<1>3. CASE p.in = Ports
  <2>1. c = credits
    BY <1>3 DEF AddCreditCounter
  <2>2. credits' = credits /\ acks' = acks
    BY <1>3 DEF SwitchNotifyDequeue, creditVars
  <2>3. CreditsOk'
    BY <2>2 DEF CreditsOk, Tags
  <2> HIDE DEF c
  <2> QED BY <1>1, <2>1, <2>2, <2>3
<1>4. CASE p.in # Ports
  <2> DEFINE back == ToReturn(s, c, p, buf)
  <2>1. /\ credits' = [l \in Link |-> IF l \in back THEN CleanCreditCounter(c[l], tag(l)) ELSE c[l]]
        /\ acks' = [l \in Link |-> IF l \in back THEN Append(acks[l], tag(l)) ELSE acks[l]]
    BY <1>4 DEF SwitchNotifyDequeue
  <2>2. \A l \in back : l[2] = s
    BY DEF ToReturn, Checked, Upstreams
  <2> HIDE DEF c, back
  <2>3. \A l \in Link :
          /\ tag(l) \in Tags(l)
          /\ \A d \in Dst : tag(l)[d] = 0 \/ (tag(l)[d] = c[l][d] /\ ~(DelayAck /\ buf[d] > ThAck))
          /\ CleanCreditCounter(c[l], tag(l)) \in Tags(l)
          /\ \A d \in Dst : CleanCreditCounter(c[l], tag(l))[d] = c[l][d] - tag(l)[d]
    BY <1>1, TagIs
  <2> HIDE DEF tag, x
  <2>4. \A l \in Link : credits'[l] \in Tags(l) /\ acks'[l] \in Seq(Tags(l))
    BY <1>1, <1>2, <2>1, <2>3
  <2>5. \A l \in Link : credits'[l] \in [Dst -> Nat] /\ acks'[l] \in Seq([Dst -> Nat])
    <3> TAKE l \in Link
    <3>1. credits'[l] \in [Dst -> Nat] /\ tag(l) \in [Dst -> Nat]
      BY <2>3, <2>4 DEF Tags
    <3>2. acks[l] \in Seq([Dst -> Nat])
      BY <1>2
    <3>3. acks'[l] = Append(acks[l], tag(l)) \/ acks'[l] = acks[l]
      BY <2>1
    <3>4. Append(acks[l], tag(l)) \in Seq([Dst -> Nat])
      <4> DEFINE S == [Dst -> Nat]
      <4>1. acks[l] \in Seq(S) /\ tag(l) \in S
        BY <3>1, <3>2
      <4> HIDE DEF S
      <4>2. Append(acks[l], tag(l)) \in Seq(S)
        BY <4>1
      <4> QED BY <4>2 DEF S
    <3>5. acks'[l] \in Seq([Dst -> Nat])
      BY <3>2, <3>3, <3>4, Zenon
    <3> QED BY <3>1, <3>5
  <2>6. credits' \in [Link -> [Dst -> Nat]] /\ acks' \in [Link -> Seq([Dst -> Nat])]
    BY <2>1, <2>5
  <2>7. CreditsOk'
    BY <2>4, <2>6 DEF CreditsOk, Tags
  <2>8. ASSUME NEW l \in Link, NEW d \in Dst
        PROVE  \/ /\ credits'[l][d] = credits[l][d] + x(l, d)
                  /\ AckBytes(acks'[l], d) = AckBytes(acks[l], d)
               \/ /\ s = l[2] /\ ~(DelayAck /\ buf[d] > ThAck)
                  /\ credits'[l][d] = 0
                  /\ AckBytes(acks'[l], d) = AckBytes(acks[l], d) + (credits[l][d] + x(l, d))
    <3>1. c[l][d] = credits[l][d] + x(l, d) /\ c[l][d] \in Nat
      BY <1>1
    <3>2. CASE l \notin back
      BY <2>1, <3>1, <3>2
    <3>3. CASE l \in back
      <4>1. credits'[l][d] = c[l][d] - tag(l)[d] /\ acks'[l] = Append(acks[l], tag(l))
        BY <2>1, <2>3, <3>3
      <4>2. tag(l) \in [Dst -> Nat] /\ acks[l] \in Seq([Dst -> Nat])
        BY <1>2, <2>3 DEF Tags
      <4>3. AckBytes(acks'[l], d) = AckBytes(acks[l], d) + tag(l)[d]
            /\ AckBytes(acks[l], d) \in Nat
        BY <4>1, <4>2, AckBytesAppend, SharesAre
      <4>4. CASE tag(l)[d] = 0
        BY <3>1, <4>1, <4>3, <4>4
      <4>5. CASE tag(l)[d] = c[l][d] /\ ~(DelayAck /\ buf[d] > ThAck)
        BY <2>2, <3>1, <3>3, <4>1, <4>3, <4>5
      <4> QED BY <2>3, <4>4, <4>5
    <3> QED BY <3>2, <3>3
  <2> QED BY <2>7, <2>8 DEF x
<1> QED BY <1>3, <1>4
------------------------------------------------------------------------------
(* A packet on the wire stays on its route; one at its host is counted.        *)
LEMMA PutOnWireMoves ==
  ASSUME WireOk, CountsOk, sent' = sent, NEW o \in Port, NEW p \in Leaving(o), PutOnWire(o, p)
  PROVE  /\ WireOk' /\ CountsOk'
         /\ \A l \in Link : \A d, ins :
              Bytes(wire'[l], d, ins) =
                Bytes(wire[l], d, ins) + (IF l = o THEN Counted(p, d, ins) ELSE 0)
<1>1. p \in Packet /\ p \in OnWire(o) /\ p.seq \in 0..MaxPkts
  BY FloodgateAssumption DEF Leaving, At, OnWire, Packet, FloodgateAssumption
<1>2. wire \in [Link -> Seq(Packet)] /\ \A l \in Link : wire[l] \in Seq(OnWire(l))
  BY DEF WireOk
<1>3. CASE o \in Link
  <2>1. wire' = [wire EXCEPT ![o] = Append(@, p)] /\ rcvd' = rcvd
    BY <1>3 DEF PutOnWire
  <2>2. Append(wire[o], p) \in Seq(Packet) /\ Append(wire[o], p) \in Seq(OnWire(o))
    <3>1. wire[o] \in Seq(Packet) /\ wire[o] \in Seq(OnWire(o))
      BY <1>2, <1>3
    <3> QED BY <1>1, <3>1
  <2>3. \A l \in Link : wire'[l] = IF l = o THEN Append(wire[o], p) ELSE wire[l]
    BY <1>2, <2>1
  <2>4. wire' \in [Link -> Seq(Packet)] /\ \A l \in Link : wire'[l] \in Seq(OnWire(l))
    BY <1>2, <2>1, <2>2, <2>3
  <2>5. WireOk' /\ CountsOk'
    BY <2>1, <2>4 DEF WireOk, OnWire, CountsOk
  <2>6. ASSUME NEW l \in Link, NEW d, NEW ins
        PROVE  Bytes(wire'[l], d, ins) =
                 Bytes(wire[l], d, ins) + (IF l = o THEN Counted(p, d, ins) ELSE 0)
    <3>1. wire[l] \in Seq(Packet)
      BY <1>2
    <3>2. Bytes(wire[l], d, ins) \in Nat
          /\ Bytes(Append(wire[l], p), d, ins) = Bytes(wire[l], d, ins) + Counted(p, d, ins)
      BY <1>1, <3>1, BytesAre, BytesAppend
    <3> QED BY <2>3, <3>2
  <2> QED BY <2>5, <2>6
<1>4. CASE o \notin Link
  <2>1. wire' = wire /\ rcvd' = [rcvd EXCEPT ![<<p.src, p.dst>>] = p.seq]
    BY <1>4 DEF PutOnWire
  <2>2. CountsOk'
    BY <1>1, <2>1 DEF CountsOk
  <2>3. WireOk'
    BY <2>1 DEF WireOk, OnWire
  <2>4. \A l \in Link : \A d, ins : l # o /\ Bytes(wire[l], d, ins) \in Nat
    BY <1>4, SumsTyped
  <2> QED BY <2>1, <2>2, <2>3, <2>4
<1> QED BY <1>3, <1>4

(* The step of the abstract loop that a change of a hop is.                    *)
LoopStep(l, d) == [Hop(l, d)!Next]_(Hop(l, d)!vars)

LEMMA Stutters ==
  ASSUME NEW l \in Link, NEW d \in Dst,
         wins'[l[1]][d] = wins[l[1]][d], InFlight(l, d)' = InFlight(l, d),
         Held(l[2], d, {l[1]})' = Held(l[2], d, {l[1]}),
         credits'[l][d] = credits[l][d], InAcks(l, d)' = InAcks(l, d)
  PROVE  LoopStep(l, d)
  BY DEF LoopStep, Hop!vars

LEMMA Sends ==
  ASSUME NEW l \in Link, NEW d \in Dst, NEW n \in Sizes, n <= wins[l[1]][d],
         wins'[l[1]][d] = wins[l[1]][d] - n, InFlight(l, d)' = InFlight(l, d) + n,
         Held(l[2], d, {l[1]})' = Held(l[2], d, {l[1]}),
         credits'[l][d] = credits[l][d], InAcks(l, d)' = InAcks(l, d)
  PROVE  LoopStep(l, d)
<1>1. Hop(l, d)!Send(n)
  BY DEF Hop!Send
<1> QED BY <1>1 DEF LoopStep, Hop!Next

LEMMA Arrives ==
  ASSUME NEW l \in Link, NEW d \in Dst, NEW n \in Sizes, n <= InFlight(l, d),
         wins'[l[1]][d] = wins[l[1]][d], InFlight(l, d)' = InFlight(l, d) - n,
         Held(l[2], d, {l[1]})' = Held(l[2], d, {l[1]}) + n,
         credits'[l][d] = credits[l][d], InAcks(l, d)' = InAcks(l, d)
  PROVE  LoopStep(l, d)
<1>1. Hop(l, d)!Arrive(n)
  BY DEF Hop!Arrive
<1> QED BY <1>1 DEF LoopStep, Hop!Next

LEMMA Releases ==
  ASSUME NEW l \in Link, NEW d \in Dst, NEW n \in Sizes, n <= Held(l[2], d, {l[1]}),
         wins'[l[1]][d] = wins[l[1]][d], InFlight(l, d)' = InFlight(l, d),
         Held(l[2], d, {l[1]})' = Held(l[2], d, {l[1]}) - n,
         \/ credits'[l][d] = credits[l][d] + n /\ InAcks(l, d)' = InAcks(l, d)
         \/ credits'[l][d] = 0 /\ InAcks(l, d)' = InAcks(l, d) + credits[l][d] + n
  PROVE  LoopStep(l, d)
<1>1. Hop(l, d)!Release(n) \/ Hop(l, d)!ReleaseAndReturn(n)
  BY DEF Hop!Release, Hop!ReleaseAndReturn
<1> QED BY <1>1 DEF LoopStep, Hop!Next

LEMMA Returns ==
  ASSUME NEW l \in Link, NEW d \in Dst, credits[l][d] > 0,
         wins'[l[1]][d] = wins[l[1]][d], InFlight(l, d)' = InFlight(l, d),
         Held(l[2], d, {l[1]})' = Held(l[2], d, {l[1]}),
         credits'[l][d] = 0, InAcks(l, d)' = InAcks(l, d) + credits[l][d]
  PROVE  LoopStep(l, d)
<1>1. Hop(l, d)!Return
  BY DEF Hop!Return
<1> QED BY <1>1 DEF LoopStep, Hop!Next

LEMMA Restores ==
  ASSUME NEW l \in Link, NEW d \in Dst, NEW n \in 1..Win[l[1]][d], n <= InAcks(l, d),
         wins'[l[1]][d] = wins[l[1]][d] + n, InFlight(l, d)' = InFlight(l, d),
         Held(l[2], d, {l[1]})' = Held(l[2], d, {l[1]}),
         credits'[l][d] = credits[l][d], InAcks(l, d)' = InAcks(l, d) - n
  PROVE  LoopStep(l, d)
<1>1. Hop(l, d)!Restore(n)
  BY DEF Hop!Restore
<1> QED BY <1>1 DEF LoopStep, Hop!Next
------------------------------------------------------------------------------
(* Every action keeps the types, leaves no head behind that its window would
   let go, and is a step of the loop of every hop.                             *)
LoopSteps == \A l \in Link, d \in Dst : NextHop[l[1]][d] = l[2] => LoopStep(l, d)

StepOk == Typed' /\ Blocked' /\ LoopSteps

LEMMA TypedNext ==
  ASSUME WinsOk', GroupsOk', EgressOk', WireOk', CreditsOk', DrainOk', CountsOk'
  PROVE  Typed'
  BY DEF Typed, WinsOk, GroupsOk, EgressOk, WireOk, CreditsOk, CountsOk, DrainOk

(* A hop whose upstream may have sent p while nothing else of it changed.      *)
LEMMA SendOrStutter ==
  ASSUME Typed, NEW p \in Packet, NEW l \in Link, NEW d \in Dst, NextHop[l[1]][d] = l[2],
         Held(l[2], d, {l[1]})' = Held(l[2], d, {l[1]}),
         credits'[l][d] = credits[l][d], InAcks(l, d)' = InAcks(l, d),
         Bytes(wire'[l], d, All) = Bytes(wire[l], d, All),
         \/ /\ wins'[l[1]][d] = wins[l[1]][d]
            /\ Bytes(egress'[l], d, All) = Bytes(egress[l], d, All)
         \/ /\ p.size <= wins[l[1]][d]
            /\ wins'[l[1]][d] = wins[l[1]][d] - p.size
            /\ Bytes(egress'[l], d, All) = Bytes(egress[l], d, All) + p.size
  PROVE  LoopStep(l, d)
<1>1. p.size \in Sizes /\ p.size \in Nat
  BY SizesPositive DEF Packet
<1>2. /\ InFlight(l, d) = Bytes(egress[l], d, All) + Bytes(wire[l], d, All)
      /\ InFlight(l, d)' = Bytes(egress'[l], d, All) + Bytes(wire'[l], d, All)
      /\ Bytes(egress[l], d, All) \in Nat /\ Bytes(wire[l], d, All) \in Nat
  BY TypedIs, HopTyped
<1>3. CASE Bytes(egress'[l], d, All) = Bytes(egress[l], d, All)
           /\ wins'[l[1]][d] = wins[l[1]][d]
  <2>1. InFlight(l, d)' = InFlight(l, d)
    BY <1>2, <1>3
  <2> QED BY <1>3, <2>1, Stutters
<1>4. CASE /\ p.size <= wins[l[1]][d] /\ wins'[l[1]][d] = wins[l[1]][d] - p.size
           /\ Bytes(egress'[l], d, All) = Bytes(egress[l], d, All) + p.size
  <2>1. InFlight(l, d)' = InFlight(l, d) + p.size
    BY <1>1, <1>2, <1>4
  <2> QED BY <1>1, <1>4, <2>1, Sends
<1> QED BY <1>3, <1>4

LEMMA HostSendOk ==
  ASSUME Typed, Blocked, NEW f \in Flow, NEW n \in Sizes, HostSend(f, n)
  PROVE  StepOk
<1> DEFINE p == [src |-> f[1], dst |-> f[2], seq |-> sent[f] + 1, size |-> n, in |-> Ports]
           s == f[1]
<1>1. WinsOk /\ GroupsOk /\ EgressOk /\ WireOk /\ CreditsOk /\ DrainOk /\ CountsOk
  BY TypedIs
<1>2. /\ drain = NotDraining /\ sent[f] < MaxPkts /\ SendToDev(s, p)
      /\ sent' = [sent EXCEPT ![f] = @ + 1]
      /\ wire' = wire /\ credits' = credits /\ acks' = acks /\ drain' = drain /\ rcvd' = rcvd
  BY DEF HostSend
<1>3. s \in Switch /\ f[2] \in Dst /\ <<s, f[2]>> \in Flow /\ sent[f] + 1 \in 1..MaxPkts
  <2>1. f \in Switch \X Dst /\ MaxPkts \in Nat
    BY FloodgateAssumption DEF FloodgateAssumption
  <2>2. sent[f] \in 0..MaxPkts
    BY <1>1 DEF CountsOk
  <2> QED BY <1>2, <2>1, <2>2
<1>4. p \in At(s) /\ p.in = Ports
  BY <1>3 DEF At, Packet
<1> HIDE DEF p, s
<1>5. WinsOk' /\ GroupsOk' /\ EgressOk' /\ Blocked'
  BY <1>1, <1>2, <1>3, <1>4, SendToDevOk
<1>6. WireOk' /\ CreditsOk' /\ DrainOk'
  BY <1>1, <1>2 DEF WireOk, OnWire, CreditsOk, Tags, DrainOk, NotDraining
<1>7. CountsOk'
  BY <1>1, <1>2, <1>3 DEF CountsOk
<1>8. ASSUME NEW l \in Link, NEW d \in Dst, NextHop[l[1]][d] = l[2] PROVE LoopStep(l, d)
  <2>1. l \in Port /\ l[1] \in Switch /\ l[2] \in Switch
    BY LinkIs
  <2>2. Counted(p, d, {l[1]}) = 0
    BY <1>4, <2>1, PortsAre DEF Counted
  <2>3. Held(l[2], d, {l[1]}) \in Nat
    BY <1>1, <1>8, HopTyped
  <2>4. /\ Held(l[2], d, {l[1]})' =
             Held(l[2], d, {l[1]}) + (IF s = l[2] THEN Counted(p, d, {l[1]}) ELSE 0)
        /\ \/ /\ wins'[l[1]][d] = wins[l[1]][d]
              /\ Bytes(egress'[l], d, All) = Bytes(egress[l], d, All)
           \/ /\ s = l[1] /\ p.dst = d /\ p.size <= wins[l[1]][d]
              /\ wins'[l[1]][d] = wins[l[1]][d] - p.size
              /\ Bytes(egress'[l], d, All) = Bytes(egress[l], d, All) + p.size
    BY <1>1, <1>2, <1>3, <1>4, <1>8, SendToDevMoves
  <2>5. Held(l[2], d, {l[1]})' = Held(l[2], d, {l[1]})
    BY <2>2, <2>3, <2>4
  <2>6. InAcks(l, d)' = InAcks(l, d) /\ credits'[l][d] = credits[l][d]
    BY <1>2, SumsAre, SumsAreNext
  <2>7. p \in Packet
    BY <1>4, SetsOfPackets
  <2> QED BY <1>2, <1>8, <2>4, <2>5, <2>6, <2>7, SendOrStutter
<1> QED BY <1>5, <1>6, <1>7, <1>8, TypedNext DEF StepOk, LoopSteps

LEMMA ReceiveOk ==
  ASSUME Typed, Blocked, NEW k \in Link, Receive(k)
  PROVE  StepOk
<1> DEFINE q == Head(wire[k])
           p == [Head(wire[k]) EXCEPT !.in = k[1]]
           s == k[2]
<1>1. WinsOk /\ GroupsOk /\ EgressOk /\ WireOk /\ CreditsOk /\ DrainOk /\ CountsOk
  BY TypedIs
<1>2. /\ drain = NotDraining /\ wire[k] # <<>> /\ SendToDev(s, p)
      /\ wire' = [wire EXCEPT ![k] = Tail(@)]
      /\ credits' = credits /\ acks' = acks /\ drain' = drain
      /\ sent' = sent /\ rcvd' = rcvd
  BY DEF Receive
<1>3. k[1] \in Switch /\ s \in Switch /\ k = <<k[1], s>> /\ k[1] # Ports
  BY LinkIs, PortsAre
<1>4. wire \in [Link -> Seq(Packet)] /\ wire[k] \in Seq(Packet) /\ wire[k] \in Seq(OnWire(k))
  BY <1>1 DEF WireOk
<1>5. q \in Packet /\ q \in OnWire(k) /\ Tail(wire[k]) \in Seq(Packet)
      /\ Tail(wire[k]) \in Seq(OnWire(k))
  BY <1>2, <1>4
<1>6. /\ p \in At(s) /\ p.dst = q.dst /\ p.size = q.size /\ p.in = k[1]
      /\ NextHop[k[1]][p.dst] = s /\ p \in Packet
  BY <1>3, <1>5 DEF At, OnWire, Packet
<1>7. q.dst \in Dst /\ q.size \in Nat /\ q.size > 0 /\ q.in \in All
  BY <1>5, SizesPositive
<1>8. \A l \in Link : wire'[l] = IF l = k THEN Tail(wire[k]) ELSE wire[l]
  BY <1>2, <1>4
<1>9. \A l \in Link, d \in Dst :
         Bytes(wire[l], d, All) =
           Bytes(wire'[l], d, All) + (IF l = k /\ q.dst = d THEN q.size ELSE 0)
  <2> TAKE l \in Link, d \in Dst
  <2>1. Bytes(wire[l], d, All) \in Nat
    BY <1>1, SumsTyped
  <2>2. Bytes(Tail(wire[k]), d, All) \in Nat
    BY <1>5, BytesAre
  <2>3. Counted(q, d, All) = IF q.dst = d THEN q.size ELSE 0
    BY <1>5, <1>7, CountedIs
  <2>4. Bytes(wire[k], d, All) = Counted(q, d, All) + Bytes(Tail(wire[k]), d, All)
    BY <1>2, <1>4, BytesTail
  <2> HIDE DEF q
  <2> QED BY <1>7, <1>8, <2>1, <2>2, <2>3, <2>4
<1> HIDE DEF p, q, s
<1>10. WinsOk' /\ GroupsOk' /\ EgressOk' /\ Blocked'
  BY <1>1, <1>2, <1>3, <1>6, SendToDevOk
<1>11. WireOk'
  <2>1. wire' \in [Link -> Seq(Packet)] /\ \A l \in Link : wire'[l] \in Seq(OnWire(l))
    BY <1>1, <1>2, <1>4, <1>5, <1>8 DEF WireOk
  <2> QED BY <2>1 DEF WireOk, OnWire
<1>12. CreditsOk' /\ DrainOk' /\ CountsOk'
  BY <1>1, <1>2 DEF CreditsOk, Tags, DrainOk, NotDraining, CountsOk
<1>13. ASSUME NEW l \in Link, NEW d \in Dst, NextHop[l[1]][d] = l[2] PROVE LoopStep(l, d)
  <2>1. /\ l[1] \in Switch /\ l[1] # l[2] /\ l = <<l[1], l[2]>>
    BY <1>13, HopIs
  <2>2. /\ wins[l[1]][d] \in Nat /\ InFlight(l, d) \in Nat /\ Held(l[2], d, {l[1]}) \in Nat
        /\ InFlight(l, d) = Bytes(egress[l], d, All) + Bytes(wire[l], d, All)
        /\ InFlight(l, d)' = Bytes(egress'[l], d, All) + Bytes(wire'[l], d, All)
        /\ Bytes(egress[l], d, All) \in Nat /\ Bytes(wire[l], d, All) \in Nat
    BY <1>1, <1>13, HopTyped
  <2>3. /\ Held(l[2], d, {l[1]})' =
             Held(l[2], d, {l[1]}) + (IF s = l[2] THEN Counted(p, d, {l[1]}) ELSE 0)
        /\ \/ /\ wins'[l[1]][d] = wins[l[1]][d]
              /\ Bytes(egress'[l], d, All) = Bytes(egress[l], d, All)
           \/ /\ s = l[1] /\ p.dst = d /\ p.size <= wins[l[1]][d]
              /\ wins'[l[1]][d] = wins[l[1]][d] - p.size
              /\ Bytes(egress'[l], d, All) = Bytes(egress[l], d, All) + p.size
    BY <1>1, <1>2, <1>3, <1>6, <1>13, SendToDevMoves
  <2>4. InAcks(l, d)' = InAcks(l, d) /\ credits'[l][d] = credits[l][d]
    BY <1>2, SumsAre, SumsAreNext
  <2>5. Bytes(wire[l], d, All) = Bytes(wire'[l], d, All) + (IF l = k /\ q.dst = d THEN q.size ELSE 0)
    BY <1>9
  <2>6. CASE l = k /\ p.dst = d
    <3>1. wins'[l[1]][d] = wins[l[1]][d] /\ Bytes(egress'[l], d, All) = Bytes(egress[l], d, All)
      BY <2>1, <2>3, <2>6 DEF s
    <3>2. Counted(p, d, {l[1]}) = p.size
      BY <1>6, <2>6, CountedIs
    <3>3. Held(l[2], d, {l[1]})' = Held(l[2], d, {l[1]}) + p.size
      BY <2>3, <2>6, <3>2 DEF s
    <3>4. p.size \in Nat /\ p.size \in Sizes
      BY <1>6, <1>7 DEF Packet
    <3>5. Bytes(wire[l], d, All) = Bytes(wire'[l], d, All) + p.size
      BY <1>6, <2>5, <2>6
    <3>6. /\ InFlight(l, d)' = InFlight(l, d) - p.size
          /\ p.size <= InFlight(l, d)
      <4>1. Bytes(wire'[l], d, All) \in Nat
        <5>1. wire'[l] \in Seq(Packet)
          BY <1>5, <1>8, <2>6
        <5> QED BY <5>1, BytesAre
      <4> QED BY <2>2, <3>1, <3>4, <3>5, <4>1
    <3> QED BY <2>4, <3>1, <3>3, <3>4, <3>6, Arrives
  <2>7. CASE ~(l = k /\ p.dst = d)
    <3>1. Bytes(wire'[l], d, All) = Bytes(wire[l], d, All)
      <4>1. Bytes(wire'[l], d, All) \in Nat
        <5>1. wire'[l] \in Seq(Packet)
          BY <1>4, <1>5, <1>8
        <5> QED BY <5>1, BytesAre
      <4> QED BY <1>6, <2>5, <2>7, <4>1
    <3>2. s = l[2] => Counted(p, d, {l[1]}) = 0
      <4>1. s = l[2] => ~(p.dst = d /\ p.in \in {l[1]})
        BY <1>3, <1>6, <2>1, <2>7
      <4> QED BY <1>6, <4>1, CountedIs
    <3>3. Held(l[2], d, {l[1]})' = Held(l[2], d, {l[1]})
      BY <2>2, <2>3, <3>2
    <3> QED BY <1>6, <1>13, <2>3, <2>4, <3>1, <3>3, SendOrStutter
  <2> QED BY <2>6, <2>7
<1> QED BY <1>10, <1>11, <1>12, <1>13, TypedNext DEF StepOk, LoopSteps

(* A hop whose downstream may have sent x bytes and returned its counter, while
   nothing else of it changed.                                                 *)
LEMMA ReleaseOrReturn ==
  ASSUME Typed, NEW p \in Packet, NEW l \in Link, NEW d \in Dst, NextHop[l[1]][d] = l[2],
         NEW x, x = 0 \/ x = p.size, x <= Held(l[2], d, {l[1]}),
         Held(l[2], d, {l[1]})' = Held(l[2], d, {l[1]}) - x,
         wins'[l[1]][d] = wins[l[1]][d], InFlight(l, d)' = InFlight(l, d),
         \/ credits'[l][d] = credits[l][d] + x /\ InAcks(l, d)' = InAcks(l, d)
         \/ credits'[l][d] = 0 /\ InAcks(l, d)' = InAcks(l, d) + (credits[l][d] + x)
  PROVE  LoopStep(l, d)
<1>1. p.size \in Sizes /\ p.size \in Nat
  BY SizesPositive DEF Packet
<1>2. credits[l][d] \in Nat /\ Held(l[2], d, {l[1]}) \in Nat /\ InAcks(l, d) \in Nat
  BY TypedIs, HopTyped
<1>3. CASE x = p.size
  <2>1. \/ credits'[l][d] = credits[l][d] + p.size /\ InAcks(l, d)' = InAcks(l, d)
        \/ credits'[l][d] = 0 /\ InAcks(l, d)' = InAcks(l, d) + credits[l][d] + p.size
    BY <1>1, <1>2, <1>3
  <2> QED BY <1>1, <1>3, <2>1, Releases
<1>4. CASE x = 0
  <2>1. Held(l[2], d, {l[1]})' = Held(l[2], d, {l[1]})
    BY <1>2, <1>4
  <2>2. CASE credits'[l][d] = credits[l][d] /\ InAcks(l, d)' = InAcks(l, d)
    BY <2>1, <2>2, Stutters
  <2>3. CASE /\ credits[l][d] > 0 /\ credits'[l][d] = 0
             /\ InAcks(l, d)' = InAcks(l, d) + credits[l][d]
    BY <2>1, <2>3, Returns
  <2> QED BY <1>2, <1>4, <2>2, <2>3
<1> QED BY <1>3, <1>4

LEMMA QueuesUnchanged ==
  ASSUME UNCHANGED queueVars
  PROVE  (WinsOk => WinsOk') /\ (GroupsOk => GroupsOk')
<1>1. wins' = wins /\ group' = group /\ buffering' = buffering
  BY DEF queueVars
<1>2. WinsOk => WinsOk'
  BY <1>1 DEF WinsOk, ShouldIgnore
<1>3. GroupsOk => GroupsOk'
  BY <1>1, GroupsOkNext DEF GroupsOk
<1> QED BY <1>2, <1>3

LEMMA TransmitOk ==
  ASSUME Typed, Blocked, NEW o \in Port, Transmit(o)
  PROVE  StepOk
<1> DEFINE p == Head(egress[o])
           s == o[1]
<1>1. WinsOk /\ GroupsOk /\ EgressOk /\ WireOk /\ CreditsOk /\ DrainOk /\ CountsOk
  BY TypedIs
<1>2. /\ drain = NotDraining /\ egress[o] # <<>>
      /\ egress' = [egress EXCEPT ![o] = Tail(@)]
      /\ PutOnWire(o, p) /\ SwitchNotifyDequeue(s, p, buffering[s])
      /\ wins' = wins /\ group' = group /\ buffering' = buffering
      /\ drain' = drain /\ sent' = sent
  BY DEF Transmit
<1>3. s \in Switch /\ o = <<s, o[2]>>
  BY PortsAre
<1>4. egress \in [Port -> Seq(Packet)] /\ egress[o] \in Seq(Packet) /\ egress[o] \in Seq(Leaving(o))
  BY <1>1 DEF EgressOk
<1>5. p \in Leaving(o) /\ Tail(egress[o]) \in Seq(Packet) /\ Tail(egress[o]) \in Seq(Leaving(o))
  BY <1>2, <1>4
<1>6. p \in At(s) /\ p \in Packet /\ NextHop[s][p.dst] = o[2]
  BY <1>5 DEF Leaving, At
<1>7. \A r \in Port : egress'[r] = IF r = o THEN Tail(egress[o]) ELSE egress[r]
  BY <1>2, <1>4
<1>8. \A r \in Port : \A d, ins :
        /\ Bytes(egress'[r], d, ins) \in Nat
        /\ Bytes(egress[r], d, ins) =
             Bytes(egress'[r], d, ins) + (IF r = o THEN Counted(p, d, ins) ELSE 0)
  <2> TAKE r \in Port
  <2> TAKE d, ins
  <2>1. Bytes(egress[r], d, ins) \in Nat
    BY <1>1, SumsTyped
  <2>2. Bytes(Tail(egress[o]), d, ins) \in Nat /\ Counted(p, d, ins) \in Nat
    BY <1>5, <1>6, BytesAre, CountedIs
  <2>3. Bytes(egress[o], d, ins) = Counted(p, d, ins) + Bytes(Tail(egress[o]), d, ins)
    BY <1>2, <1>4, BytesTail
  <2> HIDE DEF p
  <2> QED BY <1>7, <2>1, <2>2, <2>3
<1> HIDE DEF p, s
<1>9. WinsOk' /\ GroupsOk' /\ DrainOk' /\ Blocked'
  <2>1. WinsOk' /\ GroupsOk'
    BY <1>1, <1>2, QueuesUnchanged DEF queueVars
  <2>2. Blocked' /\ DrainOk'
    BY <1>1, <1>2 DEF Blocked, Head1, DrainOk, NotDraining
  <2> QED BY <2>1, <2>2
<1>10. EgressOk'
  <2>1. egress' \in [Port -> Seq(Packet)] /\ \A r \in Port : egress'[r] \in Seq(Leaving(r))
    BY <1>1, <1>2, <1>4, <1>5, <1>7 DEF EgressOk
  <2> QED BY <2>1 DEF EgressOk, Leaving, At
<1>11. /\ WireOk' /\ CountsOk'
       /\ \A l \in Link : \A d, ins :
            Bytes(wire'[l], d, ins) =
              Bytes(wire[l], d, ins) + (IF l = o THEN Counted(p, d, ins) ELSE 0)
  BY <1>1, <1>2, <1>5, PutOnWireMoves DEF p
<1>12. /\ CreditsOk'
       /\ \A l \in Link, d \in Dst :
            LET c == credits[l][d] + (IF s = l[2] THEN Counted(p, d, {l[1]}) ELSE 0)
            IN  \/ credits'[l][d] = c /\ AckBytes(acks'[l], d) = AckBytes(acks[l], d)
                \/ /\ s = l[2] /\ ~(DelayAck /\ buffering[s][d] > ThAck)
                   /\ credits'[l][d] = 0
                   /\ AckBytes(acks'[l], d) = AckBytes(acks[l], d) + c
  BY <1>1, <1>2, <1>3, <1>6, NotifyMoves
<1>13. ASSUME NEW l \in Link, NEW d \in Dst, NextHop[l[1]][d] = l[2] PROVE LoopStep(l, d)
  <2> DEFINE next == <<l[2], NextHop[l[2]][d]>>
             x == IF s = l[2] THEN Counted(p, d, {l[1]}) ELSE 0
             E == Bytes(egress[next], d, {l[1]})
             F == Bytes(egress'[next], d, {l[1]})
             G == GroupBytes(group[l[2]], d, {l[1]})
  <2>1. l[2] \in Switch /\ l \in Port /\ next \in Port
    BY <1>13, HopIs
  <2>2. /\ InFlight(l, d) = Bytes(egress[l], d, All) + Bytes(wire[l], d, All)
        /\ InFlight(l, d)' = Bytes(egress'[l], d, All) + Bytes(wire'[l], d, All)
        /\ Bytes(egress[l], d, All) \in Nat /\ Bytes(wire[l], d, All) \in Nat
    BY <1>1, <1>13, HopTyped
  <2>3. InFlight(l, d)' = InFlight(l, d)
    <3>1. /\ Bytes(egress'[l], d, All) \in Nat
          /\ Bytes(egress[l], d, All) =
               Bytes(egress'[l], d, All) + (IF l = o THEN Counted(p, d, All) ELSE 0)
      BY <1>8, <2>1
    <3>2. Bytes(wire'[l], d, All) =
            Bytes(wire[l], d, All) + (IF l = o THEN Counted(p, d, All) ELSE 0)
      BY <1>11
    <3>3. Counted(p, d, All) \in Nat
      BY <1>6, CountedIs
    <3> QED BY <2>2, <3>1, <3>2, <3>3
  <2>4. x = 0 \/ (x = p.size /\ s = l[2] /\ p.dst = d /\ next = o)
    <3>1. ~(p.dst = d /\ p.in \in {l[1]}) => Counted(p, d, {l[1]}) = 0
      BY <1>6, CountedIs
    <3>2. p.dst = d /\ p.in \in {l[1]} => Counted(p, d, {l[1]}) = p.size
      BY <1>6, CountedIs
    <3>3. p.dst = d /\ s = l[2] => next = o
      BY <1>3, <1>6
    <3> QED BY <3>1, <3>2, <3>3
  <2>5. next = o => x = Counted(p, d, {l[1]})
    BY <1>3
  <2>6. F \in Nat /\ G \in Nat /\ E = F + x /\ x \in Nat
    <3>1. F \in Nat /\ E = F + (IF next = o THEN Counted(p, d, {l[1]}) ELSE 0)
      BY <1>8, <2>1
    <3>2. x \in Nat
      BY <1>6, CountedIs
    <3>3. G \in Nat
      BY <1>1, <2>1, SumsTyped
    <3> HIDE DEF F, E, G, next
    <3> QED BY <2>4, <2>5, <3>1, <3>2, <3>3
  <2>7. /\ Held(l[2], d, {l[1]}) = G + E
        /\ Held(l[2], d, {l[1]})' = G + F
    BY <1>2, SumsAre, SumsAreNext
  <2>8. \/ credits'[l][d] = credits[l][d] + x /\ InAcks(l, d)' = InAcks(l, d)
        \/ credits'[l][d] = 0 /\ InAcks(l, d)' = InAcks(l, d) + (credits[l][d] + x)
    BY <1>12, SumsAre, SumsAreNext
  <2> HIDE DEF x, E, F, G
  <2>9. x <= Held(l[2], d, {l[1]}) /\ Held(l[2], d, {l[1]})' = Held(l[2], d, {l[1]}) - x
    BY <2>6, <2>7
  <2> QED BY <1>2, <1>6, <1>13, <2>3, <2>4, <2>8, <2>9, ReleaseOrReturn
<1> QED BY <1>9, <1>10, <1>11, <1>12, <1>13, TypedNext DEF StepOk, LoopSteps

(* A drain that starts or goes on covers the queues it turns to; one that ends
   leaves none of them with a head that fits.                                  *)
LEMMA DrainingIs ==
  ASSUME NEW s \in Switch, NEW vs, NEW idle, NEW g, NEW w,
         NEW dr, dr = Draining(s, vs, idle, g, w),
         NEW v \in vs, v \in DOMAIN g[s].voqs, g[s].voqs[v] # <<>>,
         ~(s = dr.sw /\ v \in dr.voqs)
  PROVE  ~(Head1(g[s], v).size <= w[s][Head1(g[s], v).dst])
<1>1. ~Sendable(s, v, g, w)
  BY DEF Draining
<1> QED BY <1>1 DEF Sendable, CheckDstWin

LEMMA ResumeOk ==
  ASSUME FloodInv, NEW k \in Link, ResumeVOQWin(k)
  PROVE  StepOk
<1> DEFINE u == k[1]
           tag == Head(acks[k])
           ds == {d \in Dst : ~ShouldIgnore(u, d)
                    /\ IF IngressMode THEN wins'[u][d] > 0 ELSE tag[d] > 0}
           vs == FindVOQs(group[u], ds)
           idle == {p \in Port : p[1] = u /\ egress[p] = <<>>}
<1>1. /\ WinsOk /\ GroupsOk /\ EgressOk /\ WireOk /\ CreditsOk /\ DrainOk /\ CountsOk
      /\ Typed /\ Blocked /\ AllConserved
  BY TypedIs DEF FloodInv
<1>2. /\ drain = NotDraining /\ acks[k] # <<>>
      /\ acks' = [acks EXCEPT ![k] = Tail(@)]
      /\ wins' = [wins EXCEPT ![u] = RecoverWin(u, tag)]
      /\ drain' = Draining(u, vs, idle, group, wins')
      /\ group' = group /\ buffering' = buffering /\ egress' = egress /\ wire' = wire
      /\ credits' = credits /\ sent' = sent /\ rcvd' = rcvd
  BY DEF ResumeVOQWin
<1>3. k[1] \in Switch /\ u \in Switch /\ k[2] \in Switch /\ k = <<k[1], k[2]>>
  BY LinkIs
<1>4. acks \in [Link -> Seq([Dst -> Nat])] /\ acks[k] \in Seq(Tags(k))
      /\ acks[k] \in Seq([Dst -> Nat])
  BY <1>1 DEF CreditsOk
<1>5. tag \in Tags(k) /\ Tail(acks[k]) \in Seq(Tags(k))
  BY <1>2, <1>4
<1>6. Tail(acks[k]) \in Seq([Dst -> Nat])
  BY <1>2, <1>4
<1> HIDE DEF tag, vs, idle
<1>7. tag \in [Dst -> Nat] /\ \A d \in Dst : NextHop[u][d] # k[2] => tag[d] = 0
  BY <1>5 DEF Tags
<1>8. \A l \in Link : acks'[l] = IF l = k THEN Tail(acks[k]) ELSE acks[l]
  BY <1>2, <1>4
<1> HIDE DEF u
<1>9. /\ wins' \in [Switch -> [Dst -> Nat]]
      /\ \A s \in Switch, d \in Dst :
           wins'[s][d] = IF s = u /\ ~ShouldIgnore(s, d) THEN wins[s][d] + tag[d] ELSE wins[s][d]
  <2> DEFINE r == RecoverWin(u, tag)
  <2>1. wins \in [Switch -> [Dst -> Nat]]
    BY <1>1 DEF WinsOk
  <2>2. r = [d \in Dst |-> IF ShouldIgnore(u, d) THEN wins[u][d] ELSE wins[u][d] + tag[d]]
    BY DEF RecoverWin
  <2>3. wins' = [wins EXCEPT ![u] = r]
    BY <1>2
  <2> HIDE DEF r
  <2>4. \A d \in Dst : r[d] \in Nat
    BY <1>3, <1>7, <2>1, <2>2
  <2>5. r \in [Dst -> Nat]
    BY <2>2, <2>4
  <2> QED BY <1>3, <2>1, <2>2, <2>3, <2>5
<1>10. WinsOk'
  BY <1>1, <1>9 DEF WinsOk, ShouldIgnore
<1>11. GroupsOk' /\ EgressOk' /\ WireOk' /\ CountsOk'
  <2>1. GroupsOk'
    BY <1>1, <1>2, GroupsOkNext DEF GroupsOk
  <2> QED BY <1>1, <1>2, <2>1 DEF EgressOk, Leaving, At, WireOk, OnWire, CountsOk
<1>12. CreditsOk'
  <2>1. acks' \in [Link -> Seq([Dst -> Nat])]
    BY <1>2, <1>4, <1>6
  <2>2. \A l \in Link : acks'[l] \in Seq(Tags(l))
    BY <1>1, <1>5, <1>8 DEF CreditsOk
  <2> QED BY <1>1, <1>2, <2>1, <2>2 DEF CreditsOk, Tags
<1>13. DrainOk'
  BY <1>2, <1>3 DEF Draining, DrainOk, NotDraining
<1>14. Blocked'
  <2> SUFFICES ASSUME NEW s \in Switch, NEW v \in DOMAIN group[s].voqs, group[s].voqs[v] # <<>>,
                      ~(s = drain'.sw /\ v \in drain'.voqs)
               PROVE  Head1(group[s], v).size > wins'[s][Head1(group[s], v).dst]
    BY <1>2 DEF Blocked, Head1
  <2> DEFINE x == Head1(group[s], v)
  <2>1. x \in Waiting(s) /\ FindVOQId(group[s], x.dst) = v
    BY <1>1, HeadIs
  <2>2. x \in Packet /\ ~ShouldIgnore(s, x.dst)
    BY <2>1, SetsOfPackets DEF Waiting
  <2>3. x.dst \in Dst /\ x.size \in Nat /\ x.size > 0
    BY <2>2, SizesPositive
  <2>4. x.size > wins[s][x.dst]
    BY <1>1, <1>2 DEF Blocked, NotDraining
  <2>5. wins[s][x.dst] \in Nat /\ wins'[s][x.dst] \in Nat
    BY <1>1, <1>9, <2>3 DEF WinsOk
  <2> HIDE DEF x
  <2>6. CASE s # u
    <3>1. wins'[s][x.dst] = wins[s][x.dst]
      BY <1>9, <2>3, <2>6
    <3>2. x.size > wins'[s][x.dst]
      BY <2>4, <3>1
    <3> QED BY <3>2 DEF x
  <2>7. CASE s = u /\ v \in vs
    <3>1. ~(x.size <= wins'[s][x.dst])
      BY <1>2, <1>3, <2>7, DrainingIs DEF x
    <3>2. x.size > wins'[s][x.dst]
      BY <2>3, <2>5, <3>1
    <3> QED BY <3>2 DEF x
  <2>8. CASE s = u /\ v \notin vs
    <3>1. x.dst \notin ds
      BY <2>1, <2>8 DEF vs, FindVOQs
    <3>2. IF IngressMode THEN ~(wins'[u][x.dst] > 0) ELSE ~(tag[x.dst] > 0)
      BY <2>2, <2>3, <2>8, <3>1
    <3>3. tag[x.dst] \in Nat /\ wins'[s][x.dst] = wins[s][x.dst] + tag[x.dst]
      BY <1>7, <1>9, <2>2, <2>3, <2>8
    <3>4. x.size > wins'[s][x.dst]
      <4>1. CASE IngressMode
        BY <2>3, <2>5, <2>8, <3>2, <4>1
      <4>2. CASE ~IngressMode
        <5>1. tag[x.dst] = 0
          BY <3>2, <3>3, <4>2
        <5> QED BY <2>3, <2>4, <2>5, <3>3, <5>1
      <4> QED BY <4>1, <4>2
    <3> QED BY <3>4 DEF x
  <2> QED BY <2>6, <2>7, <2>8
<1>15. ASSUME NEW l \in Link, NEW d \in Dst, NextHop[l[1]][d] = l[2] PROVE LoopStep(l, d)
  <2>1. /\ l[1] \in Switch /\ l[2] \in Switch /\ l = <<l[1], l[2]>> /\ ~ShouldIgnore(l[1], d)
    BY <1>15, HopIs
  <2>2. /\ wins[l[1]][d] \in Nat /\ InFlight(l, d) \in Nat /\ Held(l[2], d, {l[1]}) \in Nat
        /\ credits[l][d] \in Nat /\ InAcks(l, d) \in Nat
    BY <1>1, <1>15, HopTyped
  <2>3. InFlight(l, d)' = InFlight(l, d) /\ Held(l[2], d, {l[1]})' = Held(l[2], d, {l[1]})
    BY <1>2, SumsAre, SumsAreNext
  <2>4. CASE l = k
    <3>1. InAcks(l, d) = tag[d] + InAcks(l, d)'
      <4>1. AckBytes(acks[k], d) = tag[d] + AckBytes(Tail(acks[k]), d)
        BY <1>2, <1>4, AckBytesTail DEF tag
      <4>2. InAcks(l, d) = AckBytes(acks[k], d) /\ InAcks(l, d)' = AckBytes(acks'[k], d)
        BY <2>4, SumsAre, SumsAreNext
      <4> QED BY <1>8, <2>4, <4>1, <4>2
    <3>2. InAcks(l, d)' \in Nat
      <4>1. InAcks(l, d)' = AckBytes(Tail(acks[k]), d)
        BY <1>8, <2>4, SumsAreNext
      <4> QED BY <1>6, <4>1, SharesAre
    <3>3. tag[d] \in Nat /\ wins'[l[1]][d] = wins[l[1]][d] + tag[d]
      BY <1>7, <1>9, <2>1, <2>4 DEF u
    <3>4. CASE tag[d] = 0
      <4>1. wins'[l[1]][d] = wins[l[1]][d] /\ InAcks(l, d)' = InAcks(l, d)
        BY <2>2, <3>1, <3>2, <3>3, <3>4
      <4> QED BY <1>2, <2>3, <4>1, Stutters
    <3>5. CASE tag[d] # 0
      <4>1. Conserved(l, d) /\ Win[l[1]][d] \in Nat
        <5>1. <<l, d>> \in Hops
          BY <1>15 DEF Hops
        <5> QED BY <1>1, <2>1, <5>1, FloodgateAssumption DEF AllConserved, FloodgateAssumption
      <4>2. tag[d] <= InAcks(l, d) /\ InAcks(l, d)' = InAcks(l, d) - tag[d]
        BY <2>2, <3>1, <3>2, <3>3
      <4>3. tag[d] \in 1..Win[l[1]][d]
        BY <2>2, <3>3, <3>5, <4>1, <4>2 DEF Conserved
      <4> QED BY <1>2, <2>3, <3>3, <4>2, <4>3, Restores
    <3> QED BY <3>4, <3>5
  <2>5. CASE l # k
    <3>1. InAcks(l, d)' = InAcks(l, d)
      BY <1>8, <2>5, SumsAre, SumsAreNext
    <3>2. wins'[l[1]][d] = wins[l[1]][d]
      <4>1. CASE l[1] # u
        BY <1>9, <2>1, <4>1
      <4>2. CASE l[1] = u
        <5>1. NextHop[u][d] # k[2]
          BY <1>3, <1>15, <2>1, <2>5, <4>2 DEF u
        <5>2. wins'[l[1]][d] = wins[l[1]][d] + tag[d] /\ tag[d] = 0
          BY <1>7, <1>9, <2>1, <4>2, <5>1
        <5> QED BY <2>2, <5>2
      <4> QED BY <4>1, <4>2
    <3> QED BY <1>2, <2>3, <3>1, <3>2, Stutters
  <2> QED BY <2>4, <2>5
<1> QED BY <1>10, <1>11, <1>12, <1>13, <1>14, <1>15, TypedNext DEF StepOk, LoopSteps

LEMMA HeadOfGroup ==
  ASSUME NEW W \in SUBSET Packet, NEW g, NEW buf, GroupOk(g, buf, W),
         NEW v \in DOMAIN g.voqs, g.voqs[v] # <<>>
  PROVE  Head1(g, v) \in W
<1>1. g.voqs[v] \in Seq(W)
  BY DEF GroupOk, QueuesOk
<1> QED BY <1>1 DEF Head1

(* The part of DrainOne that both its outcomes share.                          *)
LEMMA DrainOneQueues ==
  ASSUME Typed, Blocked, NEW v \in drain.voqs, DrainOne(v)
  PROVE  LET s == drain.sw
             p == Head1(group[s], v)
         IN  /\ s \in Switch /\ p \in Waiting(s) /\ p.size <= wins[s][p.dst]
             /\ WinsOk' /\ GroupsOk' /\ DrainOk' /\ Blocked'
             /\ wins'[s][p.dst] = wins[s][p.dst] - p.size
             /\ \A t \in Switch, e \in Dst : <<t, e>> # <<s, p.dst>> => wins'[t][e] = wins[t][e]
             /\ \A t \in Switch : \A d, ins :
                  /\ GroupBytes(group'[t], d, ins) \in Nat
                  /\ GroupBytes(group[t], d, ins) = GroupBytes(group'[t], d, ins)
                                                      + (IF t = s THEN Counted(p, d, ins) ELSE 0)
<1> DEFINE s == drain.sw
           p == Head1(group[s], v)
           g == group[s]
           b == [buffering[s] EXCEPT ![p.dst] = @ - p.size]
           h == Dequeue(g, v, b[p.dst] > 0)
           W == Waiting(s)
<1>1. WinsOk /\ GroupsOk /\ EgressOk /\ WireOk /\ CreditsOk /\ DrainOk /\ CountsOk
  BY TypedIs
<1>2. /\ v \in drain.voqs /\ Sendable(s, v, group, wins)
      /\ wins' = [wins EXCEPT ![s][p.dst] = @ - p.size]
      /\ buffering' = [buffering EXCEPT ![s][p.dst] = @ - p.size]
      /\ group' = [group EXCEPT ![s] = Dequeue(@, v, buffering'[s][p.dst] > 0)]
      /\ \E idle : drain' = Draining(s, drain.voqs, idle, group', wins')
  BY DEF DrainOne
<1>3. s \in Switch
  BY <1>1 DEF DrainOk, NotDraining
<1>4. v \in DOMAIN g.voqs /\ g.voqs[v] # <<>> /\ p.size <= wins[s][p.dst]
  BY <1>2 DEF Sendable, CheckDstWin
<1>5. p \in W /\ W \in SUBSET Packet /\ ~ShouldIgnore(s, p.dst)
  BY <1>1, <1>3, <1>4, HeadIs, SetsOfPackets DEF Waiting
<1>6. p \in Packet /\ p.dst \in Dst /\ p.size \in Nat
  BY <1>5, SizesPositive
<1>7. GroupOk(g, buffering[s], W) /\ DOMAIN group = Switch /\ buffering \in [Switch -> [Dst -> Nat]]
  BY <1>1, <1>3 DEF GroupsOk
<1> HIDE DEF W
<1>8. GroupOk(h, b, W)
  BY <1>4, <1>5, <1>7, DequeueOk
<1>9. DOMAIN h.voqs \subseteq DOMAIN g.voqs /\ \A w \in DOMAIN h.voqs \ {v} : h.voqs[w] = g.voqs[w]
  <2> DEFINE D == DOMAIN g.voqs
  <2>1. h.voqs = Restrict(g.voqs, D \ {v}) \/ h.voqs = [g.voqs EXCEPT ![v] = Tail(g.voqs[v])]
    BY DEF Dequeue
  <2> HIDE DEF h, g
  <2> QED BY <2>1 DEF Restrict
<1>10. \A d, ins : /\ GroupBytes(g, d, ins) = GroupBytes(h, d, ins) + Counted(p, d, ins)
                   /\ GroupBytes(h, d, ins) \in Nat
  <2> DEFINE still == b[p.dst] > 0
  <2> HIDE DEF still, b
  <2>1. \A d, ins : /\ GroupBytes(g, d, ins) = GroupBytes(Dequeue(g, v, still), d, ins)
                                                 + Counted(p, d, ins)
                    /\ GroupBytes(Dequeue(g, v, still), d, ins) \in Nat
    BY <1>4, <1>5, <1>7, DequeueShape
  <2> QED BY <2>1 DEF still
<1>11. buffering' = [buffering EXCEPT ![s] = b] /\ buffering'[s] = b
  BY <1>2, <1>3, <1>7
<1>12. group' = [group EXCEPT ![s] = h]
  BY <1>2, <1>11
<1> HIDE DEF g, h, b, s, p
<1>13. group'[s] = h /\ DOMAIN group' = Switch /\ \A t \in Switch : t # s => group'[t] = group[t]
  BY <1>3, <1>7, <1>12
<1>14. GroupsOk'
  <2>1. b \in [Dst -> Nat]
    BY <1>8 DEF GroupOk
  <2>2. buffering' \in [Switch -> [Dst -> Nat]]
        /\ \A t \in Switch : t # s => buffering'[t] = buffering[t]
    BY <1>3, <1>7, <1>11, <2>1
  <2>3. \A t \in Switch : GroupOk(group'[t], buffering'[t], Waiting(t))
    <3> TAKE t \in Switch
    <3>1. CASE t = s
      BY <1>8, <1>11, <1>13, <3>1 DEF W
    <3>2. CASE t # s
      BY <1>1, <1>13, <2>2, <3>2 DEF GroupsOk
    <3> QED BY <3>1, <3>2
  <2> QED BY <1>13, <2>2, <2>3, GroupsOkNext
<1>15. /\ WinsOk' /\ wins'[s][p.dst] = wins[s][p.dst] - p.size
       /\ \A t \in Switch, e \in Dst : <<t, e>> # <<s, p.dst>> => wins'[t][e] = wins[t][e]
       /\ \A t \in Switch, e \in Dst : wins'[t][e] <= wins[t][e]
  <2>1. wins' = [wins EXCEPT ![s][p.dst] = @ - p.size]
    BY <1>2 DEF s, p
  <2> QED BY <1>1, <1>3, <1>4, <1>5, <1>6, <2>1, TakeFromWindow
<1>16. DrainOk'
  <2>1. PICK idle : drain' = Draining(s, drain.voqs, idle, group', wins')
    BY <1>2 DEF s
  <2>2. drain' = NotDraining \/ drain'.sw = s
    BY <2>1 DEF Draining
  <2> QED BY <1>3, <2>2 DEF DrainOk, NotDraining
<1>17. Blocked'
  <2> SUFFICES ASSUME NEW t \in Switch, NEW w \in DOMAIN group'[t].voqs, group'[t].voqs[w] # <<>>,
                      ~(t = drain'.sw /\ w \in drain'.voqs)
               PROVE  Head(group'[t].voqs[w]).size > wins'[t][Head(group'[t].voqs[w]).dst]
    BY DEF Blocked, Head1
  <2> DEFINE x == Head(group'[t].voqs[w])
  <2>1. x \in Packet
    <3>1. GroupOk(group'[t], buffering'[t], Waiting(t)) /\ Waiting(t) \in SUBSET Packet
      BY <1>14, SetsOfPackets DEF GroupsOk
    <3>2. Head1(group'[t], w) \in Waiting(t)
      BY <3>1, HeadOfGroup
    <3> QED BY <3>1, <3>2 DEF Head1
  <2>2. x.dst \in Dst /\ x.size \in Nat
    BY <2>1, SizesPositive
  <2>3. wins'[t][x.dst] \in Nat /\ wins[t][x.dst] \in Nat /\ wins'[t][x.dst] <= wins[t][x.dst]
    <3>1. wins' \in [Switch -> [Dst -> Nat]] /\ wins \in [Switch -> [Dst -> Nat]]
      BY <1>1, <1>15 DEF WinsOk
    <3> HIDE DEF x
    <3> QED BY <1>15, <2>2, <3>1
  <2>4. CASE t # s
    <3>1. group'[t] = group[t]
      BY <1>13, <2>4
    <3>2. x.size > wins[t][x.dst]
      BY <1>1, <2>4, <3>1 DEF Blocked, Head1, s
    <3> HIDE DEF x
    <3>3. x.size > wins'[t][x.dst]
      BY <2>2, <2>3, <3>2
    <3> QED BY <3>3 DEF x
  <2>5. CASE t = s /\ w \in drain.voqs
    <3>1. PICK idle : drain' = Draining(s, drain.voqs, idle, group', wins')
      BY <1>2 DEF s
    <3>2. ~(Head1(group'[s], w).size <= wins'[s][Head1(group'[s], w).dst])
      BY <1>3, <2>5, <3>1, DrainingIs
    <3>3. ~(x.size <= wins'[t][x.dst])
      BY <2>5, <3>2 DEF Head1
    <3> HIDE DEF x
    <3>4. x.size > wins'[t][x.dst]
      BY <2>2, <2>3, <3>3
    <3> QED BY <3>4 DEF x
  <2>6. CASE t = s /\ w \notin drain.voqs
    <3>1. w # v /\ w \in DOMAIN g.voqs /\ group'[t].voqs[w] = g.voqs[w]
      BY <1>2, <1>9, <1>13, <2>6
    <3>2. x.size > wins[t][x.dst]
      BY <1>1, <2>6, <3>1 DEF Blocked, Head1, g
    <3> HIDE DEF x
    <3>3. x.size > wins'[t][x.dst]
      BY <2>2, <2>3, <3>2
    <3> QED BY <3>3 DEF x
  <2> QED BY <2>4, <2>5, <2>6
<1>18. \A t \in Switch : \A d, ins :
         /\ GroupBytes(group'[t], d, ins) \in Nat
         /\ GroupBytes(group[t], d, ins) = GroupBytes(group'[t], d, ins)
                                             + (IF t = s THEN Counted(p, d, ins) ELSE 0)
  <2> TAKE t \in Switch
  <2> TAKE d, ins
  <2>1. CASE t = s
    BY <1>10, <1>13, <2>1 DEF g
  <2>2. CASE t # s
    <3>1. GroupBytes(group[t], d, ins) \in Nat
      BY <1>1, SumsTyped
    <3> QED BY <1>13, <2>2, <3>1
  <2> QED BY <2>1, <2>2
<1> QED BY <1>3, <1>4, <1>5, <1>14, <1>15, <1>16, <1>17, <1>18 DEF s, p, W

LEMMA DrainOneOk ==
  ASSUME Typed, Blocked, NEW v \in drain.voqs, DrainOne(v)
  PROVE  StepOk
<1> DEFINE s == drain.sw
           p == Head1(group[s], v)
           port == <<s, NextHop[s][p.dst]>>
<1>1. WinsOk /\ GroupsOk /\ EgressOk /\ WireOk /\ CreditsOk /\ DrainOk /\ CountsOk
  BY TypedIs
<1>2. /\ s \in Switch /\ p \in Waiting(s) /\ p.size <= wins[s][p.dst]
      /\ WinsOk' /\ GroupsOk' /\ DrainOk' /\ Blocked'
      /\ wins'[s][p.dst] = wins[s][p.dst] - p.size
      /\ \A t \in Switch, e \in Dst : <<t, e>> # <<s, p.dst>> => wins'[t][e] = wins[t][e]
      /\ \A t \in Switch : \A d, ins :
           /\ GroupBytes(group'[t], d, ins) \in Nat
           /\ GroupBytes(group[t], d, ins) = GroupBytes(group'[t], d, ins)
                                               + (IF t = s THEN Counted(p, d, ins) ELSE 0)
  BY DrainOneQueues
<1>3. /\ sent' = sent
      /\ \/ /\ egress' = [egress EXCEPT ![port] = Append(@, p)]
            /\ wire' = wire /\ credits' = credits /\ acks' = acks /\ rcvd' = rcvd
         \/ /\ PutOnWire(port, p) /\ SwitchNotifyDequeue(s, p, buffering'[s])
            /\ egress' = egress
  BY DEF DrainOne
<1> HIDE DEF s, p
<1>4. p \in At(s) /\ p \in Packet
  BY <1>2, SetsOfPackets
<1>5. p.dst \in Dst /\ p.size \in Nat /\ p.size \in Sizes /\ p.in \in All
  BY <1>4, SizesPositive DEF Packet
<1>6. port \in Port /\ p \in Leaving(port)
  BY <1>2, <1>4, <1>5, PortsAre DEF Leaving
<1> DEFINE x(l, d) == IF s = l[2] THEN Counted(p, d, {l[1]}) ELSE 0
           y(l, d) == IF s = l[1] /\ p.dst = d THEN p.size ELSE 0
           next(l, d) == <<l[2], NextHop[l[2]][d]>>
(* What every outcome has in common for a hop: the window pays for p, and the
   VOQ no longer holds it.                                                     *)
<1>7. ASSUME NEW l \in Link, NEW d \in Dst, NextHop[l[1]][d] = l[2]
      PROVE  /\ l[1] \in Switch /\ l[2] \in Switch /\ l[1] # l[2] /\ l \in Port
             /\ next(l, d) \in Port /\ next(l, d) # l /\ l = <<l[1], l[2]>>
             /\ wins'[l[1]][d] = wins[l[1]][d] - y(l, d) /\ y(l, d) <= wins[l[1]][d]
             /\ x(l, d) = 0 \/ (x(l, d) = p.size /\ s = l[2] /\ p.dst = d)
             /\ x(l, d) \in Nat /\ y(l, d) \in Nat
             /\ GroupBytes(group[l[2]], d, {l[1]}) =
                  GroupBytes(group'[l[2]], d, {l[1]}) + x(l, d)
             /\ GroupBytes(group'[l[2]], d, {l[1]}) \in Nat
             /\ Bytes(egress[next(l, d)], d, {l[1]}) \in Nat
             /\ wins[l[1]][d] \in Nat /\ InFlight(l, d) \in Nat
             /\ credits[l][d] \in Nat /\ InAcks(l, d) \in Nat
             /\ InFlight(l, d) = Bytes(egress[l], d, All) + Bytes(wire[l], d, All)
             /\ InFlight(l, d)' = Bytes(egress'[l], d, All) + Bytes(wire'[l], d, All)
             /\ Bytes(egress[l], d, All) \in Nat /\ Bytes(wire[l], d, All) \in Nat
             /\ (IF l = port THEN Counted(p, d, All) ELSE 0) = y(l, d)
  <2>1. /\ l[1] \in Switch /\ l[2] \in Switch /\ l[1] # l[2] /\ l \in Port
        /\ next(l, d) \in Port /\ next(l, d) # l /\ l = <<l[1], l[2]>>
    BY <1>7, HopIs
  <2>2. /\ wins[l[1]][d] \in Nat /\ InFlight(l, d) \in Nat
        /\ credits[l][d] \in Nat /\ InAcks(l, d) \in Nat
        /\ InFlight(l, d) = Bytes(egress[l], d, All) + Bytes(wire[l], d, All)
        /\ InFlight(l, d)' = Bytes(egress'[l], d, All) + Bytes(wire'[l], d, All)
        /\ Bytes(egress[l], d, All) \in Nat /\ Bytes(wire[l], d, All) \in Nat
    BY <1>1, <1>7, HopTyped
  <2>3. wins'[l[1]][d] = wins[l[1]][d] - y(l, d) /\ y(l, d) <= wins[l[1]][d] /\ y(l, d) \in Nat
    <3>1. CASE s = l[1] /\ p.dst = d
      BY <1>2, <1>5, <3>1
    <3>2. CASE ~(s = l[1] /\ p.dst = d)
      BY <1>2, <2>1, <2>2, <3>2
    <3> QED BY <3>1, <3>2
  <2>4. /\ x(l, d) = 0 \/ (x(l, d) = p.size /\ s = l[2] /\ p.dst = d)
        /\ x(l, d) \in Nat
    BY <1>4, <1>5, CountedIs
  <2>5. /\ GroupBytes(group[l[2]], d, {l[1]}) = GroupBytes(group'[l[2]], d, {l[1]}) + x(l, d)
        /\ GroupBytes(group'[l[2]], d, {l[1]}) \in Nat
    BY <1>2, <2>1
  <2>6. Bytes(egress[next(l, d)], d, {l[1]}) \in Nat
    BY <1>1, <2>1, SumsTyped
  <2>7. (IF l = port THEN Counted(p, d, All) ELSE 0) = y(l, d)
    <3>1. Counted(p, d, All) = IF p.dst = d THEN p.size ELSE 0
      BY <1>4, <1>5, CountedIs
    <3>2. (l = port /\ p.dst = d) <=> (s = l[1] /\ p.dst = d)
      BY <1>7, <2>1
    <3> QED BY <3>1, <3>2
  <2> HIDE DEF x, y, next
  <2> QED BY <2>1, <2>2, <2>3, <2>4, <2>5, <2>6, <2>7
<1> HIDE DEF port
<1>8. CASE /\ egress' = [egress EXCEPT ![port] = Append(@, p)]
           /\ wire' = wire /\ credits' = credits /\ acks' = acks /\ rcvd' = rcvd
  <2>1. /\ EgressOk'
        /\ \A o \in Port : \A d, ins :
             Bytes(egress'[o], d, ins) =
               Bytes(egress[o], d, ins) + (IF o = port THEN Counted(p, d, ins) ELSE 0)
    BY <1>1, <1>2, <1>4, <1>8, AppendToPort DEF port
  <2>2. WireOk' /\ CreditsOk' /\ CountsOk'
    BY <1>1, <1>3, <1>8 DEF WireOk, OnWire, CreditsOk, Tags, CountsOk
  <2>3. ASSUME NEW l \in Link, NEW d \in Dst, NextHop[l[1]][d] = l[2] PROVE LoopStep(l, d)
    <3> DEFINE nx == next(l, d)
    <3>1. Held(l[2], d, {l[1]})' = Held(l[2], d, {l[1]})
      <4>1. /\ Held(l[2], d, {l[1]}) = GroupBytes(group[l[2]], d, {l[1]})
                                         + Bytes(egress[nx], d, {l[1]})
            /\ Held(l[2], d, {l[1]})' = GroupBytes(group'[l[2]], d, {l[1]})
                                          + Bytes(egress'[nx], d, {l[1]})
        BY SumsAre, SumsAreNext
      <4>2. Bytes(egress'[nx], d, {l[1]}) = Bytes(egress[nx], d, {l[1]}) + x(l, d)
        <5>1. Bytes(egress'[nx], d, {l[1]}) =
                Bytes(egress[nx], d, {l[1]}) + (IF nx = port THEN Counted(p, d, {l[1]}) ELSE 0)
          <6>1. nx \in Port
            BY <2>3, HopIs
          <6> HIDE DEF nx
          <6> QED BY <2>1, <6>1
        <5>2. nx = port => s = l[2]
          BY DEF port
        <5>3. s = l[2] /\ p.dst = d => nx = port
          BY DEF port
        <5>4. p.dst # d => Counted(p, d, {l[1]}) = 0
          BY <1>4, CountedIs
        <5> QED BY <1>7, <2>3, <5>1, <5>2, <5>3, <5>4
      <4> HIDE DEF x, y, next
      <4>3. /\ GroupBytes(group[l[2]], d, {l[1]}) = GroupBytes(group'[l[2]], d, {l[1]}) + x(l, d)
            /\ GroupBytes(group'[l[2]], d, {l[1]}) \in Nat /\ x(l, d) \in Nat
            /\ Bytes(egress[nx], d, {l[1]}) \in Nat
        BY <1>7, <2>3
      <4> HIDE DEF nx
      <4> QED BY <4>1, <4>2, <4>3
    <3>2. InAcks(l, d)' = InAcks(l, d) /\ credits'[l][d] = credits[l][d]
          /\ Bytes(wire'[l], d, All) = Bytes(wire[l], d, All)
      BY <1>8, SumsAre, SumsAreNext
    <3>3. Bytes(egress'[l], d, All) = Bytes(egress[l], d, All) + y(l, d)
      <4>1. Bytes(egress'[l], d, All) =
              Bytes(egress[l], d, All) + (IF l = port THEN Counted(p, d, All) ELSE 0)
        <5>1. l \in Port
          BY LinkIs
        <5> QED BY <2>1, <5>1
      <4> HIDE DEF x, y, next
      <4> QED BY <1>7, <2>3, <4>1
    <3>4. /\ wins'[l[1]][d] = wins[l[1]][d] - y(l, d) /\ y(l, d) <= wins[l[1]][d]
          /\ Bytes(egress[l], d, All) \in Nat /\ wins[l[1]][d] \in Nat
      BY <1>7, <2>3
    <3>5. y(l, d) = 0 \/ y(l, d) = p.size
      OBVIOUS
    <3> HIDE DEF y
    <3>6. \/ /\ wins'[l[1]][d] = wins[l[1]][d]
             /\ Bytes(egress'[l], d, All) = Bytes(egress[l], d, All)
          \/ /\ p.size <= wins[l[1]][d]
             /\ wins'[l[1]][d] = wins[l[1]][d] - p.size
             /\ Bytes(egress'[l], d, All) = Bytes(egress[l], d, All) + p.size
      BY <3>3, <3>4, <3>5
    <3> QED BY <1>4, <2>3, <3>1, <3>2, <3>6, SendOrStutter
  <2> QED BY <1>2, <2>1, <2>2, <2>3, TypedNext DEF StepOk, LoopSteps
<1>9. CASE /\ PutOnWire(port, p) /\ SwitchNotifyDequeue(s, p, buffering'[s])
           /\ egress' = egress
  <2>1. EgressOk'
    BY <1>1, <1>9 DEF EgressOk, Leaving, At
  <2>2. /\ WireOk' /\ CountsOk'
        /\ \A l \in Link : \A d, ins :
             Bytes(wire'[l], d, ins) =
               Bytes(wire[l], d, ins) + (IF l = port THEN Counted(p, d, ins) ELSE 0)
    BY <1>1, <1>3, <1>6, <1>9, PutOnWireMoves
  <2>3. /\ CreditsOk'
        /\ \A l \in Link, d \in Dst :
             LET c == credits[l][d] + (IF s = l[2] THEN Counted(p, d, {l[1]}) ELSE 0)
             IN  \/ credits'[l][d] = c /\ AckBytes(acks'[l], d) = AckBytes(acks[l], d)
                 \/ /\ s = l[2] /\ ~(DelayAck /\ buffering'[s][d] > ThAck)
                    /\ credits'[l][d] = 0
                    /\ AckBytes(acks'[l], d) = AckBytes(acks[l], d) + c
    BY <1>1, <1>2, <1>4, <1>9, NotifyMoves
  <2>4. ASSUME NEW l \in Link, NEW d \in Dst, NextHop[l[1]][d] = l[2] PROVE LoopStep(l, d)
    <3> DEFINE nx == next(l, d)
               G == GroupBytes(group[l[2]], d, {l[1]})
               H == GroupBytes(group'[l[2]], d, {l[1]})
               E == Bytes(egress[nx], d, {l[1]})
    <3>1. /\ G = H + x(l, d) /\ H \in Nat /\ E \in Nat /\ x(l, d) \in Nat
          /\ l[1] # l[2] /\ wins[l[1]][d] \in Nat
          /\ wins'[l[1]][d] = wins[l[1]][d] - y(l, d) /\ y(l, d) <= wins[l[1]][d]
          /\ x(l, d) = 0 \/ (x(l, d) = p.size /\ s = l[2] /\ p.dst = d)
          /\ (IF l = port THEN Counted(p, d, All) ELSE 0) = y(l, d) /\ y(l, d) \in Nat
          /\ InFlight(l, d) = Bytes(egress[l], d, All) + Bytes(wire[l], d, All)
          /\ InFlight(l, d)' = Bytes(egress'[l], d, All) + Bytes(wire'[l], d, All)
          /\ Bytes(egress[l], d, All) \in Nat /\ Bytes(wire[l], d, All) \in Nat
          /\ credits[l][d] \in Nat /\ InAcks(l, d) \in Nat
      <4> HIDE DEF x, y, next
      <4> QED BY <1>7, <2>4
    <3>2. Held(l[2], d, {l[1]}) = G + E /\ Held(l[2], d, {l[1]})' = H + E
      BY <1>9, SumsAre, SumsAreNext
    <3>3. InFlight(l, d)' = InFlight(l, d) + y(l, d)
      <4>1. Bytes(wire'[l], d, All) = Bytes(wire[l], d, All) + y(l, d)
        BY <2>2, <3>1
      <4> HIDE DEF y
      <4> QED BY <1>9, <3>1, <4>1
    <3>4. \/ credits'[l][d] = credits[l][d] + x(l, d) /\ InAcks(l, d)' = InAcks(l, d)
          \/ s = l[2] /\ credits'[l][d] = 0
                      /\ InAcks(l, d)' = InAcks(l, d) + (credits[l][d] + x(l, d))
      BY <2>3, SumsAre, SumsAreNext
    <3>5. s # l[2] => x(l, d) = 0
      OBVIOUS
    <3>6. s = l[1] /\ p.dst = d => y(l, d) = p.size
      OBVIOUS
    <3>7. ~(s = l[1] /\ p.dst = d) => y(l, d) = 0
      OBVIOUS
    <3> HIDE DEF x, y, G, H, E
    <3>8. CASE s = l[1] /\ p.dst = d
      <4>1. x(l, d) = 0 /\ y(l, d) = p.size /\ s # l[2]
        BY <3>1, <3>5, <3>6, <3>8
      <4>2. /\ Held(l[2], d, {l[1]})' = Held(l[2], d, {l[1]})
            /\ credits'[l][d] = credits[l][d] /\ InAcks(l, d)' = InAcks(l, d)
        BY <3>1, <3>2, <3>4, <4>1
      <4> QED BY <1>5, <3>1, <3>3, <4>1, <4>2, Sends
    <3>9. CASE ~(s = l[1] /\ p.dst = d)
      <4>1. y(l, d) = 0
        BY <3>7, <3>9
      <4>2. wins'[l[1]][d] = wins[l[1]][d] /\ InFlight(l, d)' = InFlight(l, d)
        BY <3>1, <3>3, <4>1
      <4>3. /\ x(l, d) <= Held(l[2], d, {l[1]})
            /\ Held(l[2], d, {l[1]})' = Held(l[2], d, {l[1]}) - x(l, d)
        BY <3>1, <3>2
      <4>4. \/ credits'[l][d] = credits[l][d] + x(l, d) /\ InAcks(l, d)' = InAcks(l, d)
            \/ credits'[l][d] = 0 /\ InAcks(l, d)' = InAcks(l, d) + (credits[l][d] + x(l, d))
        BY <3>4
      <4>5. x(l, d) = 0 \/ x(l, d) = p.size
        BY <3>1
      <4> QED BY <1>4, <2>4, <4>2, <4>3, <4>4, <4>5, ReleaseOrReturn
    <3> QED BY <3>8, <3>9
  <2> QED BY <1>2, <2>1, <2>2, <2>3, <2>4, TypedNext DEF StepOk, LoopSteps
<1> QED BY <1>3, <1>8, <1>9
------------------------------------------------------------------------------
(* A step of the loop moves the bytes of a window, and neither makes nor loses
   any.                                                                        *)
LEMMA LoopConserves ==
  ASSUME Typed, NEW l \in Link, NEW d \in Dst, NextHop[l[1]][d] = l[2],
         Conserved(l, d), LoopStep(l, d)
  PROVE  Conserved(l, d)'
<1>1. /\ wins[l[1]][d] \in Nat /\ InFlight(l, d) \in Nat /\ Held(l[2], d, {l[1]}) \in Nat
      /\ credits[l][d] \in Nat /\ InAcks(l, d) \in Nat
  BY TypedIs, HopTyped
<1>2. \A n \in Sizes : n \in Nat
  BY FloodgateAssumption DEF FloodgateAssumption
<1>3. Win[l[1]][d] \in Nat
  <2>1. l[1] \in Switch
    BY HopIs
  <2> QED BY <2>1, FloodgateAssumption DEF FloodgateAssumption
<1>4. ASSUME NEW n \in Sizes, Hop(l, d)!Send(n) PROVE Conserved(l, d)'
  BY <1>1, <1>2, <1>4 DEF Hop!Send, Conserved
<1>5. ASSUME NEW n \in Sizes, Hop(l, d)!Arrive(n) PROVE Conserved(l, d)'
  BY <1>1, <1>2, <1>5 DEF Hop!Arrive, Conserved
<1>6. ASSUME NEW n \in Sizes, Hop(l, d)!Release(n) PROVE Conserved(l, d)'
  BY <1>1, <1>2, <1>6 DEF Hop!Release, Conserved
<1>7. ASSUME NEW n \in Sizes, Hop(l, d)!ReleaseAndReturn(n) PROVE Conserved(l, d)'
  BY <1>1, <1>2, <1>7 DEF Hop!ReleaseAndReturn, Conserved
<1>8. ASSUME Hop(l, d)!Return PROVE Conserved(l, d)'
  BY <1>1, <1>8 DEF Hop!Return, Conserved
<1>9. ASSUME NEW n \in 1..Win[l[1]][d], Hop(l, d)!Restore(n) PROVE Conserved(l, d)'
  BY <1>1, <1>3, <1>9 DEF Hop!Restore, Conserved
<1>10. ASSUME UNCHANGED Hop(l, d)!vars PROVE Conserved(l, d)'
  BY <1>10 DEF Hop!vars, Conserved
<1> QED BY <1>4, <1>5, <1>6, <1>7, <1>8, <1>9, <1>10 DEF LoopStep, Hop!Next

(* Each action by its lemma.                                                   *)
LEMMA StepsOk == FloodInv /\ [Next]_vars => StepOk
<1> SUFFICES ASSUME FloodInv, [Next]_vars PROVE StepOk
  OBVIOUS
<1>1. Typed /\ Blocked
  BY DEF FloodInv
<1>2. ASSUME NEW f \in Flow, NEW n \in Sizes, HostSend(f, n) PROVE StepOk
  BY <1>1, <1>2, HostSendOk
<1>3. ASSUME NEW l \in Link, Receive(l) PROVE StepOk
  BY <1>1, <1>3, ReceiveOk
<1>4. ASSUME NEW o \in Port, Transmit(o) PROVE StepOk
  BY <1>1, <1>4, TransmitOk
<1>5. ASSUME NEW l \in Link, ResumeVOQWin(l) PROVE StepOk
  BY <1>5, ResumeOk
<1>6. ASSUME NEW v \in drain.voqs, DrainOne(v) PROVE StepOk
  BY <1>1, <1>6, DrainOneOk
<1>7. CASE UNCHANGED vars
  <2>1. /\ wins' = wins /\ group' = group /\ buffering' = buffering /\ egress' = egress
        /\ wire' = wire /\ credits' = credits /\ acks' = acks /\ drain' = drain
        /\ sent' = sent /\ rcvd' = rcvd
    BY <1>7 DEF vars
  <2>2. WinsOk /\ GroupsOk /\ EgressOk /\ WireOk /\ CreditsOk /\ DrainOk /\ CountsOk
    BY <1>1, TypedIs
  <2>3. WinsOk' /\ GroupsOk'
    BY <2>1, <2>2, QueuesUnchanged DEF queueVars
  <2>4. EgressOk' /\ WireOk' /\ CreditsOk' /\ DrainOk' /\ CountsOk'
    BY <2>1, <2>2 DEF EgressOk, Leaving, At, WireOk, OnWire, CreditsOk, Tags, DrainOk,
                      NotDraining, CountsOk
  <2>5. Blocked'
    BY <1>1, <2>1 DEF Blocked, Head1
  <2>6. ASSUME NEW l \in Link, NEW d \in Dst, NextHop[l[1]][d] = l[2] PROVE LoopStep(l, d)
    BY <2>1, SumsAre, SumsAreNext, Stutters
  <2> QED BY <2>3, <2>4, <2>5, <2>6, TypedNext DEF StepOk, LoopSteps
<1> QED BY <1>2, <1>3, <1>4, <1>5, <1>6, <1>7 DEF Next

LEMMA NextFloodInv == FloodInv /\ [Next]_vars => FloodInv'
<1> SUFFICES ASSUME FloodInv, [Next]_vars PROVE FloodInv'
  OBVIOUS
<1>1. StepOk /\ Typed /\ AllConserved
  BY StepsOk DEF FloodInv
<1>2. AllConserved'
  <2> SUFFICES ASSUME NEW l \in Link, NEW d \in Dst, NextHop[l[1]][d] = l[2]
               PROVE  Conserved(l, d)'
    BY DEF AllConserved, Hops
  <2>1. <<l, d>> \in Hops
    BY DEF Hops
  <2>2. Conserved(l, d) /\ LoopStep(l, d)
    BY <1>1, <2>1 DEF AllConserved, StepOk, LoopSteps
  <2> QED BY <1>1, <2>2, LoopConserves
<1> QED BY <1>1, <1>2 DEF StepOk, FloodInv

LEMMA Floods == Spec => []FloodInv
<1>1. Init => FloodInv
  BY InitFloodInv
<1>2. FloodInv /\ [Next]_vars => FloodInv'
  BY NextFloodInv
<1> QED BY <1>1, <1>2, PTL DEF Spec
------------------------------------------------------------------------------
(* The window and credit tables, the VOQs and the queues keep their types: no
   uint32_t window of SwitchMmu goes below zero or above what BDPMAP gave it.  *)
THEOREM TypeCorrect == Spec => []TypeOK
<1>1. FloodInv => TypeOK
  <2> SUFFICES ASSUME FloodInv PROVE TypeOK
    OBVIOUS
  <2>1. /\ Typed /\ AllConserved
        /\ WinsOk /\ GroupsOk /\ EgressOk /\ WireOk /\ CreditsOk /\ CountsOk
    BY TypedIs DEF FloodInv
  <2>2. ASSUME NEW s \in Switch, NEW d \in Dst PROVE wins[s][d] \in 0..Win[s][d]
    <3> DEFINE l == <<s, NextHop[s][d]>>
    <3>1. wins[s][d] \in Nat /\ Win[s][d] \in Nat
      BY <2>1, FloodgateAssumption DEF WinsOk, FloodgateAssumption
    <3>2. CASE ShouldIgnore(s, d)
      BY <2>1, <3>1, <3>2 DEF WinsOk
    <3>3. CASE ~ShouldIgnore(s, d)
      <4>1. l \in Link /\ l[1] = s /\ NextHop[l[1]][d] = l[2]
        BY <3>3 DEF Link, ShouldIgnore
      <4>2. <<l, d>> \in Hops
        BY <4>1 DEF Hops
      <4> HIDE DEF l
      <4>3. Conserved(l, d)
        BY <2>1, <4>2 DEF AllConserved
      <4>4. /\ wins[l[1]][d] \in Nat /\ InFlight(l, d) \in Nat /\ Held(l[2], d, {l[1]}) \in Nat
            /\ credits[l][d] \in Nat /\ InAcks(l, d) \in Nat
        BY <2>1, <4>1, HopTyped
      <4>5. wins[l[1]][d] <= Win[l[1]][d]
        BY <3>1, <4>1, <4>3, <4>4 DEF Conserved
      <4> QED BY <3>1, <4>1, <4>5
    <3> QED BY <3>2, <3>3
  <2>3. ASSUME NEW s \in Switch
        PROVE  Range(group[s].voqs) \subseteq Seq(Packet) /\ DOMAIN group[s].dst2voq \subseteq Dst
    <3>1. GroupOk(group[s], buffering[s], Waiting(s)) /\ Waiting(s) \in SUBSET Packet
      BY <2>1, SetsOfPackets DEF GroupsOk
    <3>2. \A v \in DOMAIN group[s].voqs : group[s].voqs[v] \in Seq(Packet)
      BY <3>1 DEF GroupOk, QueuesOk
    <3> QED BY <3>1, <3>2 DEF Range, GroupOk, BindingsOk
  <2> QED BY <2>1, <2>2, <2>3 DEF TypeOK, GroupsOk, EgressOk, WireOk, CreditsOk, CountsOk
<1> QED BY <1>1, Floods, PTL

(* The assert of VOQDequeueCallback never fails, m_buffering counts what the
   VOQs hold, and no VOQ id or binding leaks.                                  *)
THEOREM GroupsAreConsistent == Spec => []VOQsConsistent
<1>1. FloodInv => VOQsConsistent
  <2> SUFFICES ASSUME FloodInv, NEW s \in Switch
               PROVE  LET g == group[s]
                      IN  /\ \A v \in DOMAIN g.voqs : \A i \in DOMAIN g.voqs[v] :
                                FindVOQId(g, g.voqs[v][i].dst) = v
                          /\ \A d \in Dst : buffering[s][d] = VOQBytes(s, d, Switch \cup {Ports})
                          /\ VoqLimit > 0 => DOMAIN g.voqs \subseteq 0..(VoqLimit - 1)
                          /\ DynamicHash => /\ DOMAIN g.dst2voq = {d \in Dst : buffering[s][d] > 0}
                                            /\ \A v \in DOMAIN g.voqs : g.voqs[v] # <<>>
    BY DEF VOQsConsistent
  <2>1. GroupOk(group[s], buffering[s], Waiting(s))
    BY DEF FloodInv, Typed
  <2>2. \A d \in Dst : buffering[s][d] = VOQBytes(s, d, Switch \cup {Ports})
    BY <2>1, SumsAre DEF GroupOk, All
  <2> QED BY <2>1, <2>2 DEF GroupOk, QueuesOk, Located, BindingsOk
<1> QED BY <1>1, Floods, PTL

(* Between two events no VOQ of any switch has a head its window would let go. *)
THEOREM NoHeadForgotten == Spec => []HeadsBlocked
<1>1. FloodInv => HeadsBlocked
  BY DEF FloodInv, Blocked, HeadsBlocked, NotDraining
<1> QED BY <1>1, Floods, PTL

(* Every step of the network is, for every hop of every destination at once, a
   step of its credit loop or none.                                            *)
THEOREM EveryHopIsALoop == Spec => HopsImplementLoop
<1>1. Init => \A h \in Hops : Hop(h[1], h[2])!Init
  <2> SUFFICES ASSUME Init, NEW l \in Link, NEW d \in Dst, NextHop[l[1]][d] = l[2]
               PROVE  Hop(l, d)!Init
    BY DEF Hops
  <2>1. /\ l[1] \in Switch /\ l[2] \in Switch /\ l \in Port
        /\ <<l[2], NextHop[l[2]][d]>> \in Port
    BY HopIs
  <2>2. /\ wins = Win /\ group[l[2]] = EmptyGroup /\ egress[l] = <<>> /\ wire[l] = <<>>
        /\ egress[<<l[2], NextHop[l[2]][d]>>] = <<>> /\ credits[l][d] = 0 /\ acks[l] = <<>>
    BY <2>1 DEF Init
  <2>3. \A ins : GroupBytes(EmptyGroup, d, ins) = 0
    BY EmptyGroupOk
  <2>4. /\ InFlight(l, d) = 0 /\ Held(l[2], d, {l[1]}) = 0 /\ InAcks(l, d) = 0
    BY <2>2, <2>3, SumsAre, BytesNone, AckBytesNone
  <2> QED BY <2>2, <2>4 DEF Hop!Init
<1>2. FloodInv /\ [Next]_vars =>
        [\A h \in Hops : [Hop(h[1], h[2])!Next]_(Hop(h[1], h[2])!vars)]_vars
  <2>1. FloodInv /\ [Next]_vars => LoopSteps
    BY StepsOk DEF StepOk
  <2>2. LoopSteps => \A h \in Hops : [Hop(h[1], h[2])!Next]_(Hop(h[1], h[2])!vars)
    BY DEF LoopSteps, LoopStep, Hops
  <2> QED BY <2>1, <2>2
<1> QED BY <1>1, <1>2, Floods, PTL DEF Spec, HopsImplementLoop

(* What a destination has outstanding from one switch to the next, on the way
   and in VOQs and queues there, is bounded by the window of that switch.      *)
THEOREM BacklogOfHopBounded ==
  Spec => [](\A h \in Hops : InFlight(h[1], h[2]) + Held(h[1][2], h[2], {h[1][1]})
                               <= Win[h[1][1]][h[2]])
<1>1. FloodInv => \A h \in Hops : InFlight(h[1], h[2]) + Held(h[1][2], h[2], {h[1][1]})
                                    <= Win[h[1][1]][h[2]]
  <2> SUFFICES ASSUME FloodInv, NEW l \in Link, NEW d \in Dst, NextHop[l[1]][d] = l[2]
               PROVE  InFlight(l, d) + Held(l[2], d, {l[1]}) <= Win[l[1]][d]
    BY DEF Hops
  <2>1. /\ wins[l[1]][d] \in Nat /\ InFlight(l, d) \in Nat /\ Held(l[2], d, {l[1]}) \in Nat
        /\ credits[l][d] \in Nat /\ InAcks(l, d) \in Nat
    BY TypedIs, HopTyped DEF FloodInv
  <2>2. <<l, d>> \in Hops
    BY DEF Hops
  <2>3. Conserved(l, d)
    BY <2>2 DEF FloodInv, AllConserved
  <2>4. l[1] \in Switch
    BY HopIs
  <2>5. Win[l[1]][d] \in Nat
    BY <2>4, FloodgateAssumption DEF FloodgateAssumption
  <2> QED BY <2>1, <2>3, <2>5 DEF Conserved
<1> QED BY <1>1, Floods, PTL

(* A switch that has sent a packet returns no credits for a destination of which
   too much is buffered.                                                       *)
LEMMA ReturnsNothing ==
  ASSUME CreditsOk, NEW s \in Switch, NEW p \in At(s), NEW buf, SwitchNotifyDequeue(s, p, buf),
         NEW l \in Link, NEW d \in Dst, s = l[2] => DelayAck /\ buf[d] > ThAck
  PROVE  InAcks(l, d)' = InAcks(l, d)
<1>1. \A k \in Link, e \in Dst :
        LET c == credits[k][e] + (IF s = k[2] THEN Counted(p, e, {k[1]}) ELSE 0)
        IN  \/ credits'[k][e] = c /\ AckBytes(acks'[k], e) = AckBytes(acks[k], e)
            \/ /\ s = k[2] /\ ~(DelayAck /\ buf[e] > ThAck)
               /\ credits'[k][e] = 0
               /\ AckBytes(acks'[k], e) = AckBytes(acks[k], e) + c
  BY NotifyMoves
<1>2. AckBytes(acks'[l], d) = AckBytes(acks[l], d)
  BY <1>1
<1> QED BY <1>2, SumsAre, SumsAreNext

LEMMA StepHoldsBack ==
  ASSUME Typed, Blocked, [Next]_vars, NEW l \in Link, NEW d \in Dst,
         DelayAck, buffering[l[2]][d] > ThAck, buffering'[l[2]][d] > ThAck
  PROVE  InAcks(l, d)' <= InAcks(l, d)
<1>1. EgressOk /\ CreditsOk /\ acks \in [Link -> Seq([Dst -> Nat])]
  BY TypedIs DEF CreditsOk
<1>2. InAcks(l, d) \in Nat
  <2>1. acks[l] \in Seq([Dst -> Nat])
    BY <1>1
  <2> QED BY <2>1, SharesAre, SumsAre
<1>3. ASSUME acks' = acks PROVE InAcks(l, d)' = InAcks(l, d)
  BY <1>3, SumsAre, SumsAreNext
<1>4. ASSUME NEW f \in Flow, NEW n \in Sizes, HostSend(f, n) PROVE InAcks(l, d)' <= InAcks(l, d)
  BY <1>2, <1>3, <1>4 DEF HostSend
<1>5. ASSUME NEW k \in Link, Receive(k) PROVE InAcks(l, d)' <= InAcks(l, d)
  BY <1>2, <1>3, <1>5 DEF Receive
<1>6. ASSUME NEW o \in Port, Transmit(o) PROVE InAcks(l, d)' <= InAcks(l, d)
  <2> DEFINE p == Head(egress[o])
  <2>1. /\ egress[o] # <<>> /\ egress[o] \in Seq(Leaving(o)) /\ o[1] \in Switch
        /\ SwitchNotifyDequeue(o[1], p, buffering[o[1]])
    BY <1>1, <1>6, PortsAre DEF Transmit, EgressOk
  <2>2. p \in Leaving(o)
    BY <2>1
  <2>3. p \in At(o[1])
    BY <2>2 DEF Leaving
  <2> HIDE DEF p
  <2>4. InAcks(l, d)' = InAcks(l, d)
    BY <1>1, <2>1, <2>3, ReturnsNothing
  <2> QED BY <1>2, <2>4
<1>7. ASSUME NEW k \in Link, ResumeVOQWin(k) PROVE InAcks(l, d)' <= InAcks(l, d)
  <2>1. acks[k] # <<>> /\ acks' = [acks EXCEPT ![k] = Tail(@)]
    BY <1>7 DEF ResumeVOQWin
  <2>2. CASE l = k
    <3>1. /\ acks[l] \in Seq([Dst -> Nat]) /\ acks[l] # <<>> /\ acks'[l] = Tail(acks[l])
      BY <1>1, <2>1, <2>2
    <3>2. Head(acks[l]) \in [Dst -> Nat] /\ Tail(acks[l]) \in Seq([Dst -> Nat])
      BY <3>1
    <3>3. AckBytes(acks[l], d) = Head(acks[l])[d] + AckBytes(Tail(acks[l]), d)
      BY <3>1, AckBytesTail
    <3>4. AckBytes(Tail(acks[l]), d) \in Nat
      BY <3>2, SharesAre
    <3>5. Head(acks[l])[d] \in Nat
      BY <3>2
    <3>6. InAcks(l, d)' = AckBytes(Tail(acks[l]), d) /\ InAcks(l, d) = AckBytes(acks[l], d)
      BY <3>1, SumsAre, SumsAreNext
    <3> QED BY <3>3, <3>4, <3>5, <3>6
  <2>3. CASE l # k
    <3>1. acks'[l] = acks[l]
      BY <1>1, <2>1, <2>3
    <3>2. InAcks(l, d)' = InAcks(l, d)
      BY <3>1, SumsAre, SumsAreNext
    <3> QED BY <1>2, <3>2
  <2> QED BY <2>2, <2>3
<1>8. ASSUME NEW v \in drain.voqs, DrainOne(v) PROVE InAcks(l, d)' <= InAcks(l, d)
  <2> DEFINE s == drain.sw
             p == Head1(group[s], v)
  <2>1. s \in Switch /\ p \in At(s)
    <3>1. s \in Switch /\ p \in Waiting(s)
      BY <1>8, DrainOneQueues
    <3> HIDE DEF p, s
    <3> QED BY <3>1 DEF Waiting
  <2>2. CASE acks' = acks
    BY <1>2, <1>3, <2>2
  <2>3. CASE SwitchNotifyDequeue(s, p, buffering'[s])
    <3> HIDE DEF p, s
    <3>1. InAcks(l, d)' = InAcks(l, d)
      BY <1>1, <2>1, <2>3, ReturnsNothing
    <3> QED BY <1>2, <3>1
  <2> QED BY <1>8, <2>2, <2>3 DEF DrainOne
<1>9. CASE UNCHANGED vars
  BY <1>2, <1>3, <1>9 DEF vars
<1> QED BY <1>4, <1>5, <1>6, <1>7, <1>8, <1>9 DEF Next

(* Under delayed ACKs no SwitchACK, whatever triggers it, returns credits for a
   destination of which the switch buffers more than m_th_ack.                 *)
THEOREM CreditsAreHeldBack == Spec => HoldBack
<1>1. FloodInv /\ [Next]_vars =>
        [\A l \in Link, d \in Dst :
           DelayAck /\ buffering[l[2]][d] > ThAck /\ buffering'[l[2]][d] > ThAck
             => InAcks(l, d)' <= InAcks(l, d)]_vars
  <2> SUFFICES ASSUME FloodInv, [Next]_vars, NEW l \in Link, NEW d \in Dst,
                      DelayAck, buffering[l[2]][d] > ThAck, buffering'[l[2]][d] > ThAck
               PROVE  InAcks(l, d)' <= InAcks(l, d)
    OBVIOUS
  <2> QED BY StepHoldsBack DEF FloodInv
<1> QED BY <1>1, Floods, PTL DEF Spec, HoldBack
------------------------------------------------------------------------------
(* A counter that has reached K is only left alone while it is held back, and
   then a packet that will look at it again is still in the switch.            *)
Passing(s, d) ==
  \E o \in Port : o[1] = s /\ \E i \in DOMAIN egress[o] :
                                egress[o][i].dst = d /\ egress[o][i].in # Ports

Owing ==
  \A l \in Link, d \in Dst :
    credits[l][d] >= K => DelayAck /\ (buffering[l[2]][d] > ThAck \/ Passing(l[2], d))

LEMMA TotalIs ==
  ASSUME NEW f \in [Dst -> Nat], NEW d \in Dst
  PROVE  SumFunction(f) \in Nat /\ f[d] <= SumFunction(f)
<1>1. IsFiniteSet(Dst)
  BY GroupAssumption DEF GroupAssumption
<1>2. \A x \in Dst : f[x] \in Nat
  OBVIOUS
<1>3. DOMAIN f = Dst
  OBVIOUS
<1>4. SumFunctionOnSet(f, Dst) \in Nat /\ \A x \in Dst : f[x] <= SumFunctionOnSet(f, Dst)
  BY <1>1, <1>2, SumNat
<1> QED BY <1>3, <1>4 DEF SumFunction

(* A packet that leaves has its own counter compared with K.                   *)
LEMMA NotifyCompares ==
  ASSUME CreditsOk, NEW s \in Switch, NEW p \in At(s), NEW buf, SwitchNotifyDequeue(s, p, buf),
         NEW l \in Link, NEW d \in Dst, credits'[l][d] >= K
  PROVE  IF p.in # Ports /\ p.dst = d /\ s = l[2]
         THEN (DelayAck /\ buf[d] > ThAck) \/ (~DelayAck /\ credits[l][d] >= K)
         ELSE credits[l][d] >= K
<1> DEFINE c == AddCreditCounter(s, p)
           tag(k) == SwitchACK(c, k, p.dst, buf)
           x == IF s = l[2] THEN Counted(p, d, {l[1]}) ELSE 0
<1>1. /\ c \in [Link -> [Dst -> Nat]] /\ \A k \in Link : c[k] \in Tags(k)
      /\ c[l][d] = credits[l][d] + x
  <2>1. /\ c \in [Link -> [Dst -> Nat]] /\ \A k \in Link : c[k] \in Tags(k)
        /\ \A k \in Link, e \in Dst :
             c[k][e] = credits[k][e] + (IF s = k[2] THEN Counted(p, e, {k[1]}) ELSE 0)
    BY AddedCredits
  <2> HIDE DEF c
  <2> QED BY <2>1
<1>2. K \in Nat /\ K > 0
  BY FloodgateAssumption DEF FloodgateAssumption
<1>3. credits'[l][d] = c[l][d]
  <2>1. \A k \in Link, e \in Dst :
          LET r == credits[k][e] + (IF s = k[2] THEN Counted(p, e, {k[1]}) ELSE 0)
          IN  \/ credits'[k][e] = r /\ AckBytes(acks'[k], e) = AckBytes(acks[k], e)
              \/ /\ s = k[2] /\ ~(DelayAck /\ buf[e] > ThAck)
                 /\ credits'[k][e] = 0
                 /\ AckBytes(acks'[k], e) = AckBytes(acks[k], e) + r
    BY NotifyMoves
  <2>2. credits'[l][d] = credits[l][d] + x \/ credits'[l][d] = 0
    BY <2>1
  <2> HIDE DEF c, x
  <2> QED BY <1>1, <1>2, <2>2
<1>4. p \in Packet /\ p.dst \in Dst
  BY SetsOfPackets, SizesPositive
<1>5. l[1] \in Switch /\ l[2] \in Switch /\ l = <<l[1], l[2]>> /\ l[1] # Ports
  BY LinkIs, PortsAre
<1>6. CASE ~(p.in # Ports /\ p.dst = d /\ s = l[2])
  <2>1. x = 0
    BY <1>4, <1>5, <1>6 DEF Counted
  <2>2. credits[l][d] \in Nat
    BY DEF CreditsOk
  <2> HIDE DEF c, x
  <2>3. credits[l][d] >= K
    BY <1>1, <1>3, <2>1, <2>2
  <2> QED BY <1>6, <2>3
<1>7. CASE p.in # Ports /\ p.dst = d /\ s = l[2] /\ ~(DelayAck /\ buf[d] > ThAck)
  <2> DEFINE back == ToReturn(s, c, p, buf)
             due == {k \in Checked(s, p) : CheckCreditCounter(c, k, p.dst, buf, K)}
  <2>1. credits' = [k \in Link |-> IF k \in back THEN CleanCreditCounter(c[k], tag(k)) ELSE c[k]]
    BY <1>7 DEF SwitchNotifyDequeue
  <2>2. due # {} => back = due
    BY DEF ToReturn
  <2> HIDE DEF back
  <2>3. tag(l) \in [Dst -> Nat] /\ tag(l)[d] = c[l][d]
    <3> HIDE DEF c
    <3>1. tag(l) = [e \in Dst |-> IF IngressMode \/ e = d THEN Owed(c, l, e, buf) ELSE 0]
      BY <1>7 DEF SwitchACK
    <3>2. Owed(c, l, d, buf) = c[l][d]
      BY <1>7 DEF Owed
    <3>3. tag(l)[d] = c[l][d]
      BY <3>1, <3>2
    <3>4. SwitchACK(c, l, p.dst, buf) \in Tags(l)
      BY <1>1, TagIs
    <3> HIDE DEF tag
    <3> QED BY <3>3, <3>4 DEF Tags, tag
  <2>4. CheckCreditCounter(c, l, p.dst, buf, K)
    <3> DEFINE t == tag(l)
    <3> HIDE DEF c, tag
    <3>1. SumFunction(t) \in Nat /\ t[d] <= SumFunction(t)
      BY <2>3, TotalIs
    <3>2. c[l][d] \in Nat
      BY <1>1
    <3>3. SumFunction(t) >= K
      BY <1>2, <1>3, <2>3, <3>1, <3>2
    <3> QED BY <3>3 DEF CheckCreditCounter, tag
  <2>5. CASE l \in Checked(s, p)
    <3>1. l \in back
      BY <2>2, <2>4, <2>5
    <3>2. credits'[l][d] = c[l][d] - tag(l)[d]
      <4> HIDE DEF c, tag
      <4> QED BY <2>1, <3>1 DEF CleanCreditCounter
    <3>3. c[l][d] \in Nat
      BY <1>1
    <3> HIDE DEF c, tag
    <3> QED BY <1>2, <2>3, <3>2, <3>3
  <2>6. CASE l \notin Checked(s, p)
    <3>1. ~DelayAck /\ p.in # l[1]
      BY <1>5, <1>7, <2>6 DEF Checked, Upstreams
    <3>2. x = 0
      BY <3>1 DEF Counted
    <3>3. credits[l][d] \in Nat
      BY DEF CreditsOk
    <3> HIDE DEF c, x
    <3>4. credits[l][d] >= K
      BY <1>1, <1>3, <3>2, <3>3
    <3> QED BY <1>7, <3>1, <3>4
  <2> QED BY <2>5, <2>6
<1> QED BY <1>6, <1>7

LEMMA PassingAppend ==
  ASSUME EgressOk, NEW port \in Port, NEW p \in Packet,
         egress' = [egress EXCEPT ![port] = Append(@, p)]
  PROVE  \A s, d : Passing(s, d) \/ (s = port[1] /\ d = p.dst /\ p.in # Ports)
                   => Passing(s, d)'
<1>1. egress \in [Port -> Seq(Packet)]
  BY DEF EgressOk
<1>2. /\ egress'[port] = Append(egress[port], p) /\ egress[port] \in Seq(Packet)
      /\ \A o \in Port \ {port} : egress'[o] = egress[o]
  BY <1>1
<1>3. ASSUME NEW s, NEW d, Passing(s, d) PROVE Passing(s, d)'
  <2>1. PICK o \in Port : o[1] = s /\ \E i \in DOMAIN egress[o] :
                            egress[o][i].dst = d /\ egress[o][i].in # Ports
    BY <1>3 DEF Passing
  <2>2. PICK i \in DOMAIN egress[o] : egress[o][i].dst = d /\ egress[o][i].in # Ports
    BY <2>1
  <2>3. i \in DOMAIN egress'[o] /\ egress'[o][i] = egress[o][i]
    BY <1>2, <2>2
  <2> QED BY <2>1, <2>2, <2>3 DEF Passing
<1>4. ASSUME NEW s, NEW d, s = port[1], d = p.dst, p.in # Ports PROVE Passing(s, d)'
  <2> DEFINE i == Len(egress[port]) + 1
  <2>1. i \in DOMAIN egress'[port] /\ egress'[port][i] = p
    BY <1>2
  <2> HIDE DEF i
  <2> QED BY <1>4, <2>1 DEF Passing
<1> QED BY <1>3, <1>4

(* A packet from a host waits in no VOQ of a switch that owes credits for its
   destination.                                                                *)
LEMMA OwedForTransit ==
  ASSUME CreditsOk, SourcesAtEdge, NEW l \in Link, NEW d \in Dst, credits[l][d] >= K,
         NEW p \in Waiting(l[2]), p.dst = d
  PROVE  p.in # Ports
<1>1. K \in Nat /\ K > 0
  BY FloodgateAssumption DEF FloodgateAssumption
<1>2. credits[l] \in Tags(l)
  BY DEF CreditsOk
<1>3. NextHop[l[1]][d] = l[2]
  BY <1>1, <1>2 DEF Tags
<1>4. ASSUME p.in = Ports PROVE FALSE
  <2>1. <<l[2], d>> \in Flow /\ ~ShouldIgnore(l[2], d)
    BY <1>4 DEF Waiting, At
  <2> DEFINE f == <<l[2], d>>
  <2>2. l[2] = f[1] /\ NextHop[l[1]][f[2]] = l[2] => ShouldIgnore(f[1], f[2])
    BY <2>1 DEF SourcesAtEdge
  <2> QED BY <1>3, <2>1, <2>2
<1> QED BY <1>4

LEMMA TransmitOwing ==
  ASSUME Typed, Owing, NEW o \in Port, Transmit(o),
         NEW l \in Link, NEW d \in Dst, credits'[l][d] >= K
  PROVE  DelayAck /\ (buffering[l[2]][d] > ThAck \/ Passing(l[2], d)')
<1> DEFINE p == Head(egress[o])
           s == o[1]
<1>1. CreditsOk /\ EgressOk
  BY TypedIs
<1>2. /\ egress[o] # <<>> /\ egress' = [egress EXCEPT ![o] = Tail(@)]
      /\ SwitchNotifyDequeue(s, p, buffering[s])
  BY DEF Transmit
<1>3. s \in Switch
  BY PortsAre
<1>4. egress \in [Port -> Seq(Packet)] /\ egress[o] \in Seq(Packet) /\ egress[o] \in Seq(Leaving(o))
  BY <1>1 DEF EgressOk
<1>5. p \in Leaving(o) /\ p = egress[o][1]
  BY <1>2, <1>4
<1>6. p \in At(s)
  BY <1>5 DEF Leaving
<1>7. egress'[o] = Tail(egress[o]) /\ \A r \in Port \ {o} : egress'[r] = egress[r]
  BY <1>2, <1>4
<1>8. IF p.in # Ports /\ p.dst = d /\ s = l[2]
      THEN (DelayAck /\ buffering[s][d] > ThAck) \/ (~DelayAck /\ credits[l][d] >= K)
      ELSE credits[l][d] >= K
  <2> HIDE DEF p, s
  <2> QED BY <1>1, <1>2, <1>3, <1>6, NotifyCompares
<1>9. CASE p.in # Ports /\ p.dst = d /\ s = l[2]
  <2>1. ~(~DelayAck /\ credits[l][d] >= K)
    BY DEF Owing
  <2> HIDE DEF p, s
  <2> QED BY <1>8, <1>9, <2>1
<1>10. CASE ~(p.in # Ports /\ p.dst = d /\ s = l[2])
  <2>1. DelayAck /\ (buffering[l[2]][d] > ThAck \/ Passing(l[2], d))
    <3> HIDE DEF p, s
    <3> QED BY <1>8, <1>10 DEF Owing
  <2>2. ASSUME Passing(l[2], d) PROVE Passing(l[2], d)'
    <3>1. PICK r \in Port : r[1] = l[2] /\ \E i \in DOMAIN egress[r] :
                              egress[r][i].dst = d /\ egress[r][i].in # Ports
      BY <2>2 DEF Passing
    <3>2. PICK i \in DOMAIN egress[r] : egress[r][i].dst = d /\ egress[r][i].in # Ports
      BY <3>1
    <3>3. CASE r # o
      BY <1>7, <3>1, <3>2, <3>3 DEF Passing
    <3>4. CASE r = o
      <4> DEFINE j == i - 1
      <4>1. i # 1
        BY <1>5, <1>10, <3>1, <3>2, <3>4
      <4>2. i \in 1..Len(egress[o]) /\ Len(egress[o]) \in Nat /\ Len(Tail(egress[o])) = Len(egress[o]) - 1
            /\ DOMAIN Tail(egress[o]) = 1..Len(Tail(egress[o]))
        BY <1>2, <1>4, <3>2, <3>4
      <4>3. j \in DOMAIN Tail(egress[o]) /\ Tail(egress[o])[j] = egress[o][i]
        BY <1>2, <1>4, <4>1, <4>2
      <4> HIDE DEF j, p, s
      <4>4. /\ o[1] = l[2] /\ j \in DOMAIN egress'[o]
            /\ egress'[o][j].dst = d /\ egress'[o][j].in # Ports
        BY <1>7, <3>1, <3>2, <3>4, <4>3
      <4> QED BY <4>4 DEF Passing
    <3> QED BY <3>3, <3>4
  <2> QED BY <2>1, <2>2
<1> QED BY <1>9, <1>10

LEMMA DrainOneOwing ==
  ASSUME Typed, Blocked, Owing, SourcesAtEdge, NEW v \in drain.voqs, DrainOne(v),
         NEW l \in Link, NEW d \in Dst, credits'[l][d] >= K
  PROVE  DelayAck /\ (buffering'[l[2]][d] > ThAck \/ Passing(l[2], d)')
<1> DEFINE s == drain.sw
           p == Head1(group[s], v)
           port == <<s, NextHop[s][p.dst]>>
<1>1. CreditsOk /\ EgressOk /\ buffering \in [Switch -> [Dst -> Nat]]
  BY TypedIs DEF Typed
<1>2. s \in Switch /\ p \in Waiting(s)
  BY DrainOneQueues
<1>3. /\ buffering' = [buffering EXCEPT ![s][p.dst] = @ - p.size]
      /\ \/ egress' = [egress EXCEPT ![port] = Append(@, p)] /\ credits' = credits
         \/ SwitchNotifyDequeue(s, p, buffering'[s]) /\ egress' = egress
  BY DEF DrainOne
<1> HIDE DEF s, p
<1>4. p \in At(s) /\ p \in Packet /\ p.dst \in Dst
  <2>1. p \in At(s) /\ p \in Packet
    BY <1>2, SetsOfPackets DEF Waiting
  <2> QED BY <2>1, SizesPositive
<1>5. port \in Port /\ port[1] = s
  BY <1>2, <1>4, PortsAre
<1>6. l[2] \in Switch
  BY LinkIs
<1>7. ~(s = l[2] /\ p.dst = d) => buffering'[l[2]][d] = buffering[l[2]][d]
  BY <1>1, <1>2, <1>3, <1>4, <1>6
<1> HIDE DEF port
<1>8. CASE egress' = [egress EXCEPT ![port] = Append(@, p)] /\ credits' = credits
  <2>1. credits[l][d] >= K
    BY <1>8
  <2>2. DelayAck /\ (buffering[l[2]][d] > ThAck \/ Passing(l[2], d))
    BY <2>1 DEF Owing
  <2>3. Passing(l[2], d) => Passing(l[2], d)'
    BY <1>1, <1>4, <1>5, <1>8, PassingAppend
  <2>4. CASE s = l[2] /\ p.dst = d
    <3>1. p.in # Ports
      BY <1>1, <1>2, <2>1, <2>4, OwedForTransit
    <3>2. l[2] = port[1] /\ d = p.dst
      BY <1>5, <2>4
    <3>3. Passing(l[2], d)'
      BY <1>1, <1>4, <1>5, <1>8, <3>1, <3>2, PassingAppend
    <3> QED BY <2>2, <3>3
  <2>5. CASE ~(s = l[2] /\ p.dst = d)
    BY <1>7, <2>2, <2>3, <2>5
  <2> QED BY <2>4, <2>5
<1>9. CASE SwitchNotifyDequeue(s, p, buffering'[s]) /\ egress' = egress
  <2>1. IF p.in # Ports /\ p.dst = d /\ s = l[2]
        THEN (DelayAck /\ buffering'[s][d] > ThAck) \/ (~DelayAck /\ credits[l][d] >= K)
        ELSE credits[l][d] >= K
    BY <1>1, <1>2, <1>4, <1>9, NotifyCompares
  <2>2. credits[l][d] >= K => DelayAck /\ (buffering[l[2]][d] > ThAck \/ Passing(l[2], d))
    BY DEF Owing
  <2>3. Passing(l[2], d) => Passing(l[2], d)'
    BY <1>9 DEF Passing
  <2>4. CASE p.in # Ports /\ p.dst = d /\ s = l[2]
    BY <2>1, <2>2, <2>4
  <2>5. CASE ~(p.in # Ports /\ p.dst = d /\ s = l[2])
    <3>1. credits[l][d] >= K
      BY <2>1, <2>5
    <3>2. ~(s = l[2] /\ p.dst = d)
      BY <1>1, <1>2, <2>5, <3>1, OwedForTransit
    <3> QED BY <1>7, <2>2, <2>3, <3>1, <3>2
  <2> QED BY <2>4, <2>5
<1> QED BY <1>3, <1>8, <1>9

LEMMA SendToDevOwing ==
  ASSUME EgressOk, Owing, buffering \in [Switch -> [Dst -> Nat]], credits' = credits,
         NEW s \in Switch, NEW p \in At(s), SendToDev(s, p)
  PROVE  Owing'
<1>1. p \in Packet /\ p.dst \in Dst /\ p.size \in Nat
  BY SetsOfPackets, SizesPositive
<1> SUFFICES ASSUME NEW l \in Link, NEW d \in Dst, credits[l][d] >= K
             PROVE  DelayAck /\ (buffering'[l[2]][d] > ThAck \/ Passing(l[2], d)')
  BY DEF Owing
<1>2. DelayAck /\ (buffering[l[2]][d] > ThAck \/ Passing(l[2], d))
  BY DEF Owing
<1>3. l[2] \in Switch /\ ThAck \in Nat
  BY LinkIs, FloodgateAssumption DEF FloodgateAssumption
<1> DEFINE port == <<s, NextHop[s][p.dst]>>
<1>4. port \in Port
  BY <1>1, PortsAre
<1> HIDE DEF port
<1>5. CASE buffering' = buffering /\ egress' = [egress EXCEPT ![port] = Append(@, p)]
  <2>1. Passing(l[2], d) => Passing(l[2], d)'
    BY <1>1, <1>4, <1>5, PassingAppend
  <2> QED BY <1>2, <1>5, <2>1
<1>6. CASE buffering' = [buffering EXCEPT ![s][p.dst] = @ + p.size] /\ egress' = egress
  <2>1. buffering'[l[2]][d] >= buffering[l[2]][d] /\ buffering'[l[2]][d] \in Nat
        /\ buffering[l[2]][d] \in Nat
    BY <1>1, <1>3, <1>6
  <2>2. Passing(l[2], d) => Passing(l[2], d)'
    BY <1>6 DEF Passing
  <2> QED BY <1>2, <1>3, <2>1, <2>2
<1> QED BY <1>5, <1>6 DEF SendToDev, port

(* The packets SendToDev is called with.                                       *)
LEMMA HostPacket ==
  ASSUME CountsOk, NEW f \in Flow, NEW n \in Sizes, HostSend(f, n)
  PROVE  /\ f[1] \in Switch
         /\ [src |-> f[1], dst |-> f[2], seq |-> sent[f] + 1, size |-> n, in |-> Ports] \in At(f[1])
<1>1. f \in Switch \X Dst /\ MaxPkts \in Nat
  BY FloodgateAssumption DEF FloodgateAssumption
<1>2. sent[f] \in 0..MaxPkts /\ sent[f] < MaxPkts
  BY DEF CountsOk, HostSend
<1>3. /\ f[1] \in Switch /\ f[2] \in Dst /\ <<f[1], f[2]>> \in Flow
      /\ sent[f] + 1 \in 1..MaxPkts
  BY <1>1, <1>2
<1> QED BY <1>3 DEF At, Packet

LEMMA ReceivedPacket ==
  ASSUME WireOk, NEW k \in Link, Receive(k)
  PROVE  k[2] \in Switch /\ [Head(wire[k]) EXCEPT !.in = k[1]] \in At(k[2])
<1>1. k[1] \in Switch /\ k[2] \in Switch /\ k[1] # Ports
  BY LinkIs, PortsAre
<1>2. wire[k] \in Seq(Packet) /\ wire[k] \in Seq(OnWire(k)) /\ wire[k] # <<>>
  BY DEF WireOk, Receive
<1>3. Head(wire[k]) \in Packet /\ Head(wire[k]) \in OnWire(k)
  BY <1>2
<1> QED BY <1>1, <1>3 DEF At, OnWire, Packet

LEMMA NextOwing == SourcesAtEdge /\ FloodInv /\ Owing /\ [Next]_vars => Owing'
<1> SUFFICES ASSUME SourcesAtEdge, FloodInv, Owing, [Next]_vars PROVE Owing'
  OBVIOUS
<1>1. /\ Typed /\ Blocked /\ EgressOk /\ WireOk /\ CreditsOk
      /\ buffering \in [Switch -> [Dst -> Nat]]
  BY TypedIs DEF FloodInv, Typed
<1>2. ASSUME egress' = egress, buffering' = buffering, credits' = credits PROVE Owing'
  BY <1>2 DEF Owing, Passing
<1>3. ASSUME NEW f \in Flow, NEW n \in Sizes, HostSend(f, n) PROVE Owing'
  <2> DEFINE p == [src |-> f[1], dst |-> f[2], seq |-> sent[f] + 1, size |-> n, in |-> Ports]
  <2>1. SendToDev(f[1], p) /\ credits' = credits
    BY <1>3 DEF HostSend
  <2>2. f[1] \in Switch /\ p \in At(f[1])
    BY <1>1, <1>3, TypedIs, HostPacket
  <2> HIDE DEF p
  <2> QED BY <1>1, <2>1, <2>2, SendToDevOwing
<1>4. ASSUME NEW k \in Link, Receive(k) PROVE Owing'
  <2> DEFINE p == [Head(wire[k]) EXCEPT !.in = k[1]]
  <2>1. SendToDev(k[2], p) /\ credits' = credits
    BY <1>4 DEF Receive
  <2>2. k[2] \in Switch /\ p \in At(k[2])
    BY <1>1, <1>4, ReceivedPacket
  <2> HIDE DEF p
  <2> QED BY <1>1, <2>1, <2>2, SendToDevOwing
<1>5. ASSUME NEW o \in Port, Transmit(o) PROVE Owing'
  <2>1. buffering' = buffering
    BY <1>5 DEF Transmit
  <2>2. ASSUME NEW l \in Link, NEW d \in Dst, credits'[l][d] >= K
        PROVE  DelayAck /\ (buffering'[l[2]][d] > ThAck \/ Passing(l[2], d)')
    BY <1>1, <1>5, <2>1, <2>2, TransmitOwing
  <2> QED BY <2>2 DEF Owing
<1>6. ASSUME NEW l \in Link, ResumeVOQWin(l) PROVE Owing'
  BY <1>2, <1>6 DEF ResumeVOQWin
<1>7. ASSUME NEW v \in drain.voqs, DrainOne(v) PROVE Owing'
  <2>1. ASSUME NEW l \in Link, NEW d \in Dst, credits'[l][d] >= K
        PROVE  DelayAck /\ (buffering'[l[2]][d] > ThAck \/ Passing(l[2], d)')
    BY <1>1, <1>7, <2>1, DrainOneOwing
  <2> QED BY <2>1 DEF Owing
<1>8. CASE UNCHANGED vars
  BY <1>2, <1>8 DEF vars
<1> QED BY <1>3, <1>4, <1>5, <1>6, <1>7, <1>8 DEF Next

(* The bytes of some upstreams are among those counted by m_buffering, and only
   packets that CheckVOQWin may hold back are.                                 *)
LEMMA BytesAreBuffered ==
  ASSUME NEW W \in SUBSET Packet, NEW g, NEW buf, GroupOk(g, buf, W), NEW d \in Dst, NEW ins,
         GroupBytes(g, d, ins) # 0
  PROVE  buf[d] # 0
<1>1. QueuesOk(g, W) /\ buf[d] = GroupBytes(g, d, All)
  BY DEF GroupOk
<1>2. PICK v \in DOMAIN g.voqs : Bytes(g.voqs[v], d, ins) # 0
  BY <1>1, LoadsAre
<1>3. g.voqs[v] \in Seq(Packet)
  BY <1>1 DEF QueuesOk
<1>4. \E i \in DOMAIN g.voqs[v] : g.voqs[v][i].dst = d
  <2> SUFFICES ASSUME \A i \in DOMAIN g.voqs[v] : g.voqs[v][i].dst # d PROVE FALSE
    OBVIOUS
  <2>1. \A i \in DOMAIN g.voqs[v] : Weights(g.voqs[v], d, ins)[i] = 0
    BY DEF Weights, Counted
  <2>2. IsFiniteSet(DOMAIN g.voqs[v]) /\ DOMAIN Weights(g.voqs[v], d, ins) = DOMAIN g.voqs[v]
    <3>1. DOMAIN g.voqs[v] = 1..Len(g.voqs[v]) /\ Len(g.voqs[v]) \in Nat
      BY <1>3
    <3> QED BY <3>1, FS_Interval DEF Weights
  <2>3. SumFunctionOnSet(Weights(g.voqs[v], d, ins), DOMAIN g.voqs[v]) = 0
    BY <2>1, <2>2, SumZero
  <2> QED BY <1>2, <2>2, <2>3 DEF Bytes, Weights, SumFunction
<1>5. HasPacket(g, d)
  BY <1>4 DEF HasPacket
<1> QED BY <1>1, <1>5, Present

LEMMA WaitersAreGated ==
  ASSUME NEW s \in Switch, GroupOk(group[s], buffering[s], Waiting(s)), NEW d \in Dst,
         buffering[s][d] # 0
  PROVE  ~ShouldIgnore(s, d)
<1>1. Waiting(s) \in SUBSET Packet /\ QueuesOk(group[s], Waiting(s))
      /\ buffering[s][d] = GroupBytes(group[s], d, All)
  BY SetsOfPackets DEF GroupOk
<1>2. HasPacket(group[s], d)
  BY <1>1, Present
<1>3. PICK v \in DOMAIN group[s].voqs : \E i \in DOMAIN group[s].voqs[v] :
                                          group[s].voqs[v][i].dst = d
  BY <1>2 DEF HasPacket
<1>4. PICK i \in DOMAIN group[s].voqs[v] : group[s].voqs[v][i].dst = d
  BY <1>3
<1>5. group[s].voqs[v] \in Seq(Waiting(s))
  BY <1>1 DEF QueuesOk
<1>6. group[s].voqs[v][i] \in Waiting(s)
  BY <1>5
<1> QED BY <1>4, <1>6 DEF Waiting

(* A packet that waits while nothing is on its way waits for one that waits at
   the next switch: only K - 1 bytes of its window can be elsewhere.           *)
LEMMA WaitsForNext ==
  ASSUME FloodInv, Owing, RoomToReturn, Quiet, NEW s \in Switch, NEW v \in DOMAIN group[s].voqs,
         group[s].voqs[v] # <<>>, NEW e, e = Head1(group[s], v).dst
  PROVE  /\ e \in Dst /\ ~ShouldIgnore(s, e)
         /\ NextHop[s][e] \in Switch /\ buffering[NextHop[s][e]][e] # 0
<1> DEFINE p == Head1(group[s], v)
           l == <<s, NextHop[s][e]>>
<1>1. /\ Typed /\ Blocked /\ AllConserved
      /\ WinsOk /\ GroupsOk /\ EgressOk /\ WireOk /\ CreditsOk
  BY TypedIs DEF FloodInv
<1>2. p \in Waiting(s)
  BY <1>1, HeadIs
<1>3. p \in Packet /\ ~ShouldIgnore(s, e)
  BY <1>2, SetsOfPackets DEF Waiting
<1>4. p.size > wins[s][e]
  BY <1>1 DEF Blocked, Quiet, NotDraining
<1> HIDE DEF p
<1>5. e \in Dst /\ p.size \in Nat /\ p.size \in Sizes
  BY <1>3, SizesPositive DEF Packet, p
<1>6. l \in Link /\ l[1] = s /\ l[2] = NextHop[s][e] /\ NextHop[s][e] \in Switch
  BY <1>3, <1>5 DEF Link, ShouldIgnore
<1> HIDE DEF l
<1>7. <<l, e>> \in Hops
  BY <1>5, <1>6 DEF Hops
<1>8. Conserved(l, e)
  BY <1>1, <1>7 DEF AllConserved
<1>9. l \in Port /\ <<l[2], NextHop[l[2]][e]>> \in Port
  BY <1>5, <1>6, HopIs
<1>10. /\ wins[s][e] \in Nat /\ credits[l][e] \in Nat /\ Held(l[2], e, {s}) \in Nat
  BY <1>1, <1>5, <1>6, HopTyped
<1>11. InFlight(l, e) = 0 /\ InAcks(l, e) = 0
       /\ Held(l[2], e, {s}) = GroupBytes(group[l[2]], e, {s})
  <2>1. egress[l] = <<>> /\ wire[l] = <<>> /\ acks[l] = <<>>
        /\ egress[<<l[2], NextHop[l[2]][e]>>] = <<>>
    BY <1>6, <1>9 DEF Quiet
  <2>2. GroupBytes(group[l[2]], e, {s}) \in Nat
    BY <1>1, <1>6, SumsTyped
  <2> QED BY <2>1, <2>2, SumsAre, BytesNone, AckBytesNone
<1>12. wins[s][e] + Held(l[2], e, {s}) + credits[l][e] = Win[s][e]
  BY <1>6, <1>8, <1>10, <1>11 DEF Conserved
<1>13. p.size + K - 1 <= Win[s][e] /\ K \in Nat /\ Win[s][e] \in Nat
  BY <1>3, <1>5, FloodgateAssumption DEF RoomToReturn, FloodgateAssumption
<1>14. CASE credits[l][e] >= K
  <2>1. buffering[l[2]][e] > ThAck \/ Passing(l[2], e)
    BY <1>5, <1>6, <1>14 DEF Owing
  <2>2. ~Passing(l[2], e)
    BY DEF Passing, Quiet
  <2>3. ThAck \in Nat
    BY FloodgateAssumption DEF FloodgateAssumption
  <2>4. buffering[l[2]][e] # 0
    BY <2>1, <2>2, <2>3
  <2> QED BY <1>3, <1>5, <1>6, <2>4
<1>15. CASE ~(credits[l][e] >= K)
  <2>1. Held(l[2], e, {s}) > 0
    BY <1>4, <1>5, <1>10, <1>12, <1>13, <1>15
  <2>2. GroupBytes(group[l[2]], e, {s}) # 0
    BY <1>11, <2>1
  <2>3. GroupOk(group[l[2]], buffering[l[2]], Waiting(l[2])) /\ Waiting(l[2]) \in SUBSET Packet
    BY <1>1, <1>6, SetsOfPackets DEF GroupsOk
  <2>4. buffering[l[2]][e] # 0
    BY <1>5, <2>2, <2>3, BytesAreBuffered
  <2> QED BY <1>3, <1>5, <1>6, <2>4
<1> QED BY <1>14, <1>15

(* The waiting packets' ranks would descend for ever.                          *)
LEMMA NoneWaits ==
  ASSUME NEW rank \in [Switch -> [Dst -> Nat]], Layered(rank), RoomToReturn,
         FloodInv, Owing
  PROVE  NothingStuck
<1> SUFFICES ASSUME Quiet, NEW s0 \in Switch, NEW d0 \in Dst, buffering[s0][d0] # 0
             PROVE  FALSE
  BY DEF NothingStuck
<1> DEFINE Waits(n) == \E s \in Switch, d \in Dst : buffering[s][d] # 0 /\ rank[s][d] = n
           Ranks == {n \in Nat : Waits(n)}
<1>1. Ranks # {}
  <2>1. rank[s0][d0] \in Nat
    OBVIOUS
  <2> QED BY <2>1
<1>2. PICK n \in Ranks : \A m \in Ranks : n <= m
  BY <1>1, LeastNumber
<1>3. PICK s \in Switch, d \in Dst : buffering[s][d] # 0 /\ rank[s][d] = n
  BY <1>2
<1> DEFINE v == FindVOQId(group[s], d)
           e == Head1(group[s], v).dst
           t == NextHop[s][e]
<1>4. GroupsOk /\ GroupOk(group[s], buffering[s], Waiting(s)) /\ Waiting(s) \in SUBSET Packet
  BY TypedIs, SetsOfPackets DEF FloodInv, GroupsOk
<1>5. v \in DOMAIN group[s].voqs /\ group[s].voqs[v] # <<>>
  <2> DEFINE g == group[s]
             buf == buffering[s]
             W == Waiting(s)
  <2>1. W \in SUBSET Packet /\ GroupOk(g, buf, W) /\ buf[d] # 0
    BY <1>3, <1>4
  <2>2. v = FindVOQId(g, d)
    OBVIOUS
  <2> HIDE DEF v, g, buf, W
  <2>3. FindVOQId(g, d) \in DOMAIN g.voqs /\ g.voqs[FindVOQId(g, d)] # <<>>
    BY <2>1, Buffered
  <2> QED BY <2>2, <2>3 DEF g
<1> HIDE DEF v
<1>6. FindVOQId(group[s], e) = v
  BY <1>4, <1>5, HeadIs
<1> HIDE DEF e
<1>7. e \in Dst /\ ~ShouldIgnore(s, e) /\ t \in Switch /\ buffering[t][e] # 0
  BY <1>5, WaitsForNext DEF e
<1> HIDE DEF t
<1>8. MayShareVOQ(d, e)
  <2>1. VoqLimit \in Nat /\ DynamicHash \in BOOLEAN
    BY GroupAssumption DEF GroupAssumption
  <2>2. FindVOQId(group[s], e) = FindVOQId(group[s], d)
    BY <1>6 DEF v
  <2> QED BY <2>1, <2>2 DEF FindVOQId, MayShareVOQ
<1>9. ~ShouldIgnore(s, d)
  BY <1>3, <1>4, WaitersAreGated
<1>10. ~ShouldIgnore(t, e)
  <2>1. GroupOk(group[t], buffering[t], Waiting(t))
    BY <1>4, <1>7 DEF GroupsOk
  <2> QED BY <1>7, <2>1, WaitersAreGated
<1>11. rank[t][e] < rank[s][d]
  BY <1>7, <1>8, <1>9, <1>10 DEF Layered, t
<1>12. rank[t][e] \in Nat /\ rank[s][d] \in Nat
  BY <1>7
<1>13. rank[t][e] \in Ranks
  BY <1>7, <1>12
<1> HIDE DEF Ranks
<1>14. n <= rank[t][e]
  BY <1>2, <1>13
<1> QED BY <1>3, <1>11, <1>12, <1>14

LEMMA Owes ==
  ASSUME SourcesAtEdge
  PROVE  Spec => []Owing
<1>1. Init => Owing
  <2> SUFFICES ASSUME Init, NEW l \in Link, NEW d \in Dst PROVE ~(credits[l][d] >= K)
    BY DEF Owing
  <2>1. credits[l][d] = 0 /\ K \in Nat /\ K > 0
    BY FloodgateAssumption DEF Init, FloodgateAssumption
  <2> QED BY <2>1
<1>2. FloodInv /\ Owing /\ [Next]_vars => Owing'
  BY NextOwing
<1> QED BY <1>1, <1>2, Floods, PTL DEF Spec

(* No deadlock of windows, VOQs and credits: on layered routes, with room in
   every window for a packet beside the K - 1 bytes CheckIngressCreditCounter
   may keep, the network comes to rest only with all VOQs empty.               *)
THEOREM NeverStuck ==
  ASSUME NEW rank \in [Switch -> [Dst -> Nat]], Layered(rank), RoomToReturn, SourcesAtEdge
  PROVE  Spec => []NothingStuck
<1>1. FloodInv /\ Owing => NothingStuck
  BY NoneWaits
<1>2. Spec => []Owing
  BY Owes
<1> QED BY <1>1, <1>2, Floods, PTL

(* With switch_byte_counter 1 every credit is returned, delayed or not, once the
   network is quiet.                                                           *)
THEOREM NoneStranded ==
  ASSUME NEW rank \in [Switch -> [Dst -> Nat]], Layered(rank), RoomToReturn, SourcesAtEdge,
         K = 1
  PROVE  Spec => []NoStrandedCredits
<1>1. FloodInv /\ Owing => NoStrandedCredits
  <2> SUFFICES ASSUME FloodInv, Owing, Quiet, NEW l \in Link, NEW d \in Dst
               PROVE  credits[l][d] = 0
    BY DEF NoStrandedCredits
  <2>1. l[2] \in Switch /\ credits[l][d] \in Nat /\ ThAck \in Nat
    BY LinkIs, TypedIs, FloodgateAssumption DEF FloodInv, CreditsOk, FloodgateAssumption
  <2>2. buffering[l[2]][d] = 0
    BY <2>1, NoneWaits DEF NothingStuck
  <2>3. ~Passing(l[2], d)
    BY DEF Passing, Quiet
  <2>4. ~(credits[l][d] >= K)
    BY <2>1, <2>2, <2>3 DEF Owing
  <2> QED BY <2>1, <2>4
<1>2. Spec => []Owing
  BY Owes
<1> QED BY <1>1, <1>2, Floods, PTL
------------------------------------------------------------------------------
(* The order of a flow.  Its packets may be at three places of a switch: on the
   wire to the next hop (0), in the egress queue (1) and in the VOQs (2).
   Route(s, d) are the switches a packet for d gets to from s, s included, and
   Beyond(s, d) those it gets to after it has left s; nothing is assumed of
   NextHop, so that s may be among them.                                       *)
Place == Switch \X (0..2)

Closed(S, d) == \A t \in S : NextHop[t][d] \in Switch => NextHop[t][d] \in S

Route(s, d) == {t \in Switch : \A S \in SUBSET Switch : s \in S /\ Closed(S, d) => t \in S}

Beyond(s, d) == IF NextHop[s][d] \in Switch THEN Route(NextHop[s][d], d) ELSE {}

Before(x, y, d) == x[1] \in Beyond(y[1], d) \/ (x[1] = y[1] /\ x[2] < y[2])

LEMMA RouteIs ==
  ASSUME NEW s \in Switch, NEW d \in Dst
  PROVE  /\ Route(s, d) \in SUBSET Switch /\ s \in Route(s, d) /\ Closed(Route(s, d), d)
         /\ \A S \in SUBSET Switch : s \in S /\ Closed(S, d) => Route(s, d) \subseteq S
  BY DEF Route, Closed

LEMMA BeyondIs ==
  ASSUME NEW s \in Switch, NEW d \in Dst
  PROVE  /\ Beyond(s, d) \in SUBSET Switch /\ Closed(Beyond(s, d), d)
         /\ NextHop[s][d] \in Switch => NextHop[s][d] \in Beyond(s, d)
         /\ \A t \in Route(s, d) : t = s \/ t \in Beyond(s, d)
<1> DEFINE S == {s} \cup Beyond(s, d)
<1>1. /\ Beyond(s, d) \in SUBSET Switch /\ Closed(Beyond(s, d), d)
      /\ NextHop[s][d] \in Switch => NextHop[s][d] \in Beyond(s, d)
  <2>1. CASE NextHop[s][d] \in Switch
    BY <2>1, RouteIs DEF Beyond
  <2>2. CASE NextHop[s][d] \notin Switch
    BY <2>2 DEF Beyond, Closed
  <2> QED BY <2>1, <2>2
<1>2. S \in SUBSET Switch /\ s \in S /\ Closed(S, d)
  BY <1>1 DEF Closed
<1>3. Route(s, d) \subseteq S
  BY <1>2, RouteIs
<1> QED BY <1>1, <1>3

(* S are the numbers of the packets of a flow at each place, R the places where
   they rise from head to tail.  Numbers are in the order of the places, unless
   packets pass one another on a loop; those sent and not delivered, from lo + 1
   to hi, are all somewhere.                                                   *)
InPlaceOrder(S, d) ==
  \A x, y \in Place : \A m \in S[x], n \in S[y] : x # y /\ m <= n => Before(x, y, d)

FlowOk(S, R, src, d, lo, hi) ==
  /\ S \in [Place -> SUBSET Int] /\ lo <= hi
  /\ InPlaceOrder(S, d)
  /\ \A x \in Place : x[1] \in Beyond(x[1], d) \/ x \in R
  /\ \A x \in Place : S[x] # {} => x[1] \in Route(src, d)
  /\ \A x \in Place : S[x] \subseteq (lo + 1)..hi
  /\ \A n \in (lo + 1)..hi : \E x \in Place : n \in S[x]

(* What a step does to the packets of a flow, from S and R to T and Q: packet n
   leaves place a at its head, or comes to place b at its tail.                *)
Pops(S, T, R, Q, a, n) ==
  S[a] = T[a] \cup {n} /\ (a \in R => a \in Q /\ \A m \in T[a] : n < m)

Pushes(S, T, R, Q, b, n) ==
  T[b] = S[b] \cup {n} /\ (b \in R /\ (\A m \in S[b] : m < n) => b \in Q)

Keeps(S, T, R, Q, X) ==
  \A x \in Place \ X : T[x] = S[x] /\ (x \in R => x \in Q)

(* The move of a packet is to the next place of its switch that is not empty
   or, from the wire, into the next switch.                                    *)
Forward(S, a, b, d) ==
  \/ /\ b[1] = a[1] /\ b[2] < a[2]
     /\ \A x \in Place : x[1] = a[1] /\ b[2] < x[2] /\ x[2] < a[2] => S[x] = {}
  \/ /\ a[2] = 0 /\ b[1] = NextHop[a[1]][d] /\ b[2] # 0
     /\ \A x \in Place : x[1] = b[1] /\ x[2] > b[2] => S[x] = {}

LEMMA PlaceIs ==
  \A x \in Place : x = <<x[1], x[2]>> /\ x[1] \in Switch /\ x[2] \in 0..2
  BY DEF Place

LEMMA KeepsFlow ==
  ASSUME NEW S, NEW R, NEW src, NEW d, NEW lo, NEW hi, FlowOk(S, R, src, d, lo, hi),
         NEW T, NEW Q, T \in [Place -> SUBSET Int], Keeps(S, T, R, Q, {})
  PROVE  FlowOk(T, Q, src, d, lo, hi)
<1>1. \A x \in Place : T[x] = S[x] /\ (x \in R => x \in Q)
  BY DEF Keeps
<1> QED BY <1>1 DEF FlowOk, InPlaceOrder

LEMMA ForwardIs ==
  ASSUME NEW S, NEW d \in Dst, NEW a \in Place, NEW b \in Place, Forward(S, a, b, d)
  PROVE  /\ a # b /\ Before(b, a, d) /\ ~(a[1] = b[1] /\ a[2] < b[2])
         /\ \A t \in Switch : a[1] \in Beyond(t, d) => b[1] \in Beyond(t, d)
         /\ \A y \in Place : Before(a, y, d) => Before(b, y, d)
         /\ \A x \in Place : S[x] # {} /\ x # b /\ Before(x, a, d) => Before(x, b, d)
         /\ \A t \in Switch : a[1] \in Route(t, d) => b[1] \in Route(t, d)
         /\ a[1] \in Beyond(a[1], d) => Before(a, b, d)
<1>1. /\ a = <<a[1], a[2]>> /\ a[1] \in Switch /\ a[2] \in 0..2
      /\ b = <<b[1], b[2]>> /\ b[1] \in Switch /\ b[2] \in 0..2
      /\ \A x \in Place : x = <<x[1], x[2]>> /\ x[1] \in Switch /\ x[2] \in 0..2
  BY PlaceIs
<1>2. CASE /\ b[1] = a[1] /\ b[2] < a[2]
           /\ \A x \in Place : x[1] = a[1] /\ b[2] < x[2] /\ x[2] < a[2] => S[x] = {}
  <2>1. a # b /\ Before(b, a, d) /\ ~(a[1] = b[1] /\ a[2] < b[2])
    BY <1>1, <1>2 DEF Before
  <2>2. \A y \in Place : Before(a, y, d) => Before(b, y, d)
    BY <1>1, <1>2 DEF Before
  <2>3. ASSUME NEW x \in Place, S[x] # {}, x # b, Before(x, a, d) PROVE Before(x, b, d)
    <3>1. CASE x[1] \in Beyond(a[1], d)
      BY <1>2, <3>1 DEF Before
    <3>2. CASE x[1] = a[1] /\ x[2] < a[2]
      <4>1. ~(b[2] < x[2]) /\ x[2] # b[2]
        BY <1>1, <1>2, <2>3, <3>2
      <4> QED BY <1>1, <1>2, <3>2, <4>1 DEF Before
    <3> QED BY <2>3, <3>1, <3>2 DEF Before
  <2> QED BY <1>2, <2>1, <2>2, <2>3 DEF Before
<1>3. CASE /\ a[2] = 0 /\ b[1] = NextHop[a[1]][d] /\ b[2] # 0
           /\ \A x \in Place : x[1] = b[1] /\ x[2] > b[2] => S[x] = {}
  <2>1. /\ b[1] \in Beyond(a[1], d) /\ b[1] # a[1]
        /\ \A t \in Switch : Closed(Beyond(t, d), d) /\ Closed(Route(t, d), d)
        /\ \A t \in Route(b[1], d) : t = b[1] \/ t \in Beyond(b[1], d)
        /\ Beyond(a[1], d) = Route(b[1], d)
    <3>1. b[1] # a[1]
      BY <1>1, <1>3, FloodgateAssumption DEF FloodgateAssumption
    <3>2. \A t \in Switch : Closed(Beyond(t, d), d) /\ Closed(Route(t, d), d)
      BY BeyondIs, RouteIs
    <3> QED BY <1>1, <1>3, <3>1, <3>2, BeyondIs DEF Beyond
  <2>2. \A t \in Switch : /\ a[1] \in Beyond(t, d) => b[1] \in Beyond(t, d)
                          /\ a[1] \in Route(t, d) => b[1] \in Route(t, d)
    BY <1>1, <1>3, <2>1 DEF Closed
  <2>3. \A y \in Place : Before(a, y, d) => Before(b, y, d)
    BY <1>1, <1>3, <2>1, <2>2 DEF Before
  <2>4. ASSUME NEW x \in Place, S[x] # {}, x # b, Before(x, a, d) PROVE Before(x, b, d)
    <3>1. x[1] \in Route(b[1], d)
      BY <1>1, <1>3, <2>1, <2>4 DEF Before
    <3>2. CASE x[1] = b[1]
      <4>1. x[2] # b[2] /\ ~(x[2] > b[2])
        BY <1>1, <1>3, <2>4, <3>2
      <4> QED BY <1>1, <3>2, <4>1 DEF Before
    <3>3. CASE x[1] # b[1]
      BY <2>1, <3>1, <3>3 DEF Before
    <3> QED BY <3>2, <3>3
  <2>5. a # b /\ Before(b, a, d) /\ ~(a[1] = b[1] /\ a[2] < b[2])
    BY <2>1 DEF Before
  <2>6. a[1] \in Beyond(a[1], d) => Before(a, b, d)
    BY <2>1 DEF Before
  <2> QED BY <2>2, <2>3, <2>4, <2>5, <2>6
<1> QED BY <1>2, <1>3 DEF Forward
------------------------------------------------------------------------------
(* A packet that moves forward keeps the order.                                *)
LEMMA MovesInOrder ==
  ASSUME NEW S, NEW R, NEW src \in Switch, NEW d \in Dst, NEW lo, NEW hi,
         FlowOk(S, R, src, d, lo, hi),
         NEW T, NEW Q, T \in [Place -> SUBSET Int], NEW n \in Int,
         NEW a \in Place, NEW b \in Place, Forward(S, a, b, d),
         Pops(S, T, R, Q, a, n), Pushes(S, T, R, Q, b, n), Keeps(S, T, R, Q, {a, b})
  PROVE  FlowOk(T, Q, src, d, lo, hi)
<1>1. /\ a # b /\ Before(b, a, d) /\ ~(a[1] = b[1] /\ a[2] < b[2])
      /\ \A t \in Switch : a[1] \in Beyond(t, d) => b[1] \in Beyond(t, d)
      /\ \A y \in Place : Before(a, y, d) => Before(b, y, d)
      /\ \A x \in Place : S[x] # {} /\ x # b /\ Before(x, a, d) => Before(x, b, d)
      /\ a[1] \in Route(src, d) => b[1] \in Route(src, d)
      /\ a[1] \in Beyond(a[1], d) => Before(a, b, d)
  BY ForwardIs
<1>2. /\ S[a] = T[a] \cup {n} /\ T[b] = S[b] \cup {n}
      /\ \A x \in Place \ {a, b} : T[x] = S[x] /\ (x \in R => x \in Q)
      /\ a \in R => a \in Q /\ \A m \in T[a] : n < m
      /\ b \in R /\ (\A m \in S[b] : m < n) => b \in Q
  BY DEF Pops, Pushes, Keeps
<1>3. /\ S \in [Place -> SUBSET Int] /\ InPlaceOrder(S, d)
      /\ \A x \in Place : x[1] \in Beyond(x[1], d) \/ x \in R
      /\ \A x \in Place : S[x] # {} => x[1] \in Route(src, d)
      /\ \A x \in Place : S[x] \subseteq (lo + 1)..hi
      /\ \A m \in (lo + 1)..hi : \E x \in Place : m \in S[x]
      /\ lo <= hi
  BY DEF FlowOk
<1>4. a[1] \in Switch /\ b[1] \in Switch
  BY PlaceIs
<1>5. \A x \in Place : \A m \in T[x] : m \in S[x] \/ (x = b /\ m = n)
  BY <1>2
<1>6. InPlaceOrder(T, d)
  <2> SUFFICES ASSUME NEW x \in Place, NEW y \in Place, NEW k \in T[x], NEW m \in T[y],
                      x # y, k <= m
               PROVE  Before(x, y, d)
    BY DEF InPlaceOrder
  <2>1. n \in S[a]
    BY <1>2
  <2>2. CASE k \in S[x] /\ m \in S[y]
    BY <1>3, <2>2 DEF InPlaceOrder
  <2>3. CASE x = b /\ k = n /\ m \in S[y]
    <3>1. CASE y = a
      BY <1>1, <2>3, <3>1
    <3>2. CASE y # a
      <4>1. Before(a, y, d)
        BY <1>3, <2>1, <2>3, <3>2 DEF InPlaceOrder
      <4> QED BY <1>1, <2>3, <4>1
    <3> QED BY <3>1, <3>2
  <2>4. CASE y = b /\ m = n /\ k \in S[x]
    <3>1. CASE x = a
      <4>1. ~(\A i \in T[a] : n < i)
        BY <1>2, <1>3, <2>4, <3>1
      <4>2. a[1] \in Beyond(a[1], d)
        BY <1>2, <1>3, <4>1
      <4> QED BY <1>1, <2>4, <3>1, <4>2
    <3>2. CASE x # a
      <4>1. Before(x, a, d)
        BY <1>3, <2>1, <2>4, <3>2 DEF InPlaceOrder
      <4> QED BY <1>1, <2>4, <4>1
    <3> QED BY <3>1, <3>2
  <2> QED BY <1>5, <2>2, <2>3, <2>4
<1>7. \A x \in Place : x[1] \in Beyond(x[1], d) \/ x \in Q
  <2> SUFFICES ASSUME b[1] \notin Beyond(b[1], d) PROVE b \in Q
    BY <1>2, <1>3
  <2>1. \A m \in S[b] : m < n
    <3> SUFFICES ASSUME NEW m \in S[b], ~(m < n) PROVE FALSE
      OBVIOUS
    <3>1. m \in Int /\ n <= m
      BY <1>3
    <3>2. Before(a, b, d)
      BY <1>1, <1>2, <1>3, <3>1 DEF InPlaceOrder
    <3> QED BY <1>1, <1>4, <3>2 DEF Before
  <2> QED BY <1>2, <1>3, <2>1
<1>8. \A x \in Place : T[x] # {} => x[1] \in Route(src, d)
  BY <1>1, <1>2, <1>3
<1>9. \A x \in Place : T[x] \subseteq (lo + 1)..hi
  BY <1>2, <1>3, <1>5
<1>10. \A m \in (lo + 1)..hi : \E x \in Place : m \in T[x]
  BY <1>1, <1>2, <1>3
<1> QED BY <1>3, <1>6, <1>7, <1>8, <1>9, <1>10 DEF FlowOk

(* So does one its host sends next.                                            *)
LEMMA EntersInOrder ==
  ASSUME NEW S, NEW R, NEW src \in Switch, NEW d \in Dst, NEW lo \in Int, NEW hi \in Int,
         FlowOk(S, R, src, d, lo, hi),
         NEW T, NEW Q, T \in [Place -> SUBSET Int],
         NEW b \in Place, b[1] = src, b[2] # 0,
         \A x \in Place : x[1] = src /\ x[2] > b[2] => S[x] = {},
         Pushes(S, T, R, Q, b, hi + 1), Keeps(S, T, R, Q, {b})
  PROVE  FlowOk(T, Q, src, d, lo, hi + 1)
<1>1. /\ T[b] = S[b] \cup {hi + 1}
      /\ \A x \in Place \ {b} : T[x] = S[x] /\ (x \in R => x \in Q)
      /\ b \in R /\ (\A m \in S[b] : m < hi + 1) => b \in Q
  BY DEF Pushes, Keeps
<1>2. /\ S \in [Place -> SUBSET Int] /\ InPlaceOrder(S, d)
      /\ \A x \in Place : x[1] \in Beyond(x[1], d) \/ x \in R
      /\ \A x \in Place : S[x] # {} => x[1] \in Route(src, d)
      /\ \A x \in Place : S[x] \subseteq (lo + 1)..hi
      /\ \A m \in (lo + 1)..hi : \E x \in Place : m \in S[x]
      /\ lo <= hi
  BY DEF FlowOk
<1>3. \A x \in Place : \A m \in T[x] : m \in S[x] \/ (x = b /\ m = hi + 1)
  BY <1>1
<1>4. \A x \in Place : \A m \in S[x] : m \in Int /\ m < hi + 1
  BY <1>2
<1>5. InPlaceOrder(T, d)
  <2> SUFFICES ASSUME NEW x \in Place, NEW y \in Place, NEW k \in T[x], NEW m \in T[y],
                      x # y, k <= m
               PROVE  Before(x, y, d)
    BY DEF InPlaceOrder
  <2>1. k \in S[x]
    BY <1>3, <1>4
  <2>2. CASE m \in S[y]
    BY <1>2, <2>1, <2>2 DEF InPlaceOrder
  <2>3. CASE y = b
    <3>1. x[1] \in Route(src, d) /\ ~(x[1] = src /\ x[2] > b[2])
      BY <1>2, <2>1
    <3>2. x = <<x[1], x[2]>> /\ b = <<b[1], b[2]>> /\ x[2] \in 0..2 /\ b[2] \in 0..2
      BY PlaceIs
    <3>3. CASE x[1] = src
      <4>1. x[2] < b[2]
        BY <2>3, <3>1, <3>2, <3>3
      <4> QED BY <2>3, <3>3, <4>1 DEF Before
    <3>4. CASE x[1] # src
      BY <2>3, <3>1, <3>4, BeyondIs DEF Before
    <3> QED BY <3>3, <3>4
  <2> QED BY <1>3, <2>2, <2>3
<1>6. \A x \in Place : x[1] \in Beyond(x[1], d) \/ x \in Q
  BY <1>1, <1>2, <1>4
<1>7. \A x \in Place : T[x] # {} => x[1] \in Route(src, d)
  BY <1>1, <1>2, RouteIs
<1>8. \A x \in Place : T[x] \subseteq (lo + 1)..(hi + 1)
  <2> SUFFICES ASSUME NEW x \in Place, NEW m \in T[x] PROVE m \in (lo + 1)..(hi + 1)
    OBVIOUS
  <2>1. m \in (lo + 1)..hi \/ m = hi + 1
    BY <1>2, <1>3
  <2> QED BY <1>2, <2>1
<1>9. ASSUME NEW m \in (lo + 1)..(hi + 1) PROVE \E x \in Place : m \in T[x]
  <2>1. m \in (lo + 1)..hi \/ m = hi + 1
    OBVIOUS
  <2> QED BY <1>1, <1>2, <2>1
<1>10. lo <= hi + 1
  BY <1>2
<1> QED BY <1>5, <1>6, <1>7, <1>8, <1>9, <1>10 DEF FlowOk

(* A packet that leaves its last switch is the next to be delivered.           *)
LEMMA LeavesInOrder ==
  ASSUME NEW S, NEW R, NEW src \in Switch, NEW d \in Dst, NEW lo \in Int, NEW hi \in Int,
         FlowOk(S, R, src, d, lo, hi),
         NEW T, NEW Q, T \in [Place -> SUBSET Int], NEW n \in Int,
         NEW a \in Place, NextHop[a[1]][d] \notin Switch,
         \A x \in Place : x[1] = a[1] /\ x[2] < a[2] => S[x] = {},
         Pops(S, T, R, Q, a, n), Keeps(S, T, R, Q, {a})
  PROVE  n = lo + 1 /\ FlowOk(T, Q, src, d, n, hi)
<1>1. /\ S[a] = T[a] \cup {n}
      /\ \A x \in Place \ {a} : T[x] = S[x] /\ (x \in R => x \in Q)
      /\ a \in R => a \in Q /\ \A m \in T[a] : n < m
  BY DEF Pops, Keeps
<1>2. /\ S \in [Place -> SUBSET Int] /\ InPlaceOrder(S, d)
      /\ \A x \in Place : x[1] \in Beyond(x[1], d) \/ x \in R
      /\ \A x \in Place : S[x] # {} => x[1] \in Route(src, d)
      /\ \A x \in Place : S[x] \subseteq (lo + 1)..hi
      /\ \A m \in (lo + 1)..hi : \E x \in Place : m \in S[x]
  BY DEF FlowOk
<1>3. Beyond(a[1], d) = {}
  BY DEF Beyond
<1>4. a \in R /\ a \in Q /\ \A m \in T[a] : n < m
  BY <1>1, <1>2, <1>3
<1>5. \A x \in Place : \A m \in T[x] : m \in S[x]
  BY <1>1
<1>6. \A x \in Place : S[x] # {} => ~Before(x, a, d)
  BY <1>3 DEF Before
<1>7. \A x \in Place : \A m \in T[x] : n < m
  <2> SUFFICES ASSUME NEW x \in Place, NEW m \in T[x], x # a, ~(n < m) PROVE FALSE
    BY <1>4
  <2>1. m \in Int /\ m <= n
    OBVIOUS
  <2>2. Before(x, a, d)
    BY <1>1, <1>2, <1>5, <2>1 DEF InPlaceOrder
  <2> QED BY <1>5, <1>6, <2>2
<1>8. n \in (lo + 1)..hi /\ n <= hi
  BY <1>1, <1>2
<1>9. n = lo + 1
  <2> SUFFICES ASSUME n # lo + 1 PROVE FALSE
    OBVIOUS
  <2>1. lo + 1 \in (lo + 1)..hi /\ lo + 1 < n
    BY <1>8
  <2>2. PICK x \in Place : lo + 1 \in S[x]
    BY <1>2, <2>1
  <2>3. lo + 1 \in T[x]
    BY <1>1, <2>1, <2>2
  <2> QED BY <1>7, <2>1, <2>3
<1>10. InPlaceOrder(T, d)
  BY <1>2, <1>5 DEF InPlaceOrder
<1>11. \A x \in Place : x[1] \in Beyond(x[1], d) \/ x \in Q
  BY <1>1, <1>2, <1>4
<1>12. \A x \in Place : T[x] # {} => x[1] \in Route(src, d)
  BY <1>2, <1>5
<1>13. \A x \in Place : T[x] \subseteq (n + 1)..hi
  <2> SUFFICES ASSUME NEW x \in Place, NEW m \in T[x] PROVE m \in (n + 1)..hi
    OBVIOUS
  <2>1. m \in (lo + 1)..hi /\ n < m
    BY <1>2, <1>5, <1>7
  <2> QED BY <2>1
<1>14. ASSUME NEW m \in (n + 1)..hi PROVE \E x \in Place : m \in T[x]
  <2>1. m \in (lo + 1)..hi /\ m # n
    BY <1>9
  <2> QED BY <1>1, <1>2, <2>1
<1> QED BY <1>8, <1>9, <1>10, <1>11, <1>12, <1>13, <1>14 DEF FlowOk
------------------------------------------------------------------------------
(* The packets of a flow in a queue and in a VOQ group.                        *)
OfFlow(p, f) == p.src = f[1] /\ p.dst = f[2]

Numbers(q, f) == {q[i].seq : i \in {j \in DOMAIN q : OfFlow(q[j], f)}}

Rising(q, f) ==
  \A i, j \in DOMAIN q :
    i < j /\ OfFlow(q[i], f) /\ OfFlow(q[j], f) => q[i].seq < q[j].seq

Own(p, f) == IF OfFlow(p, f) THEN {p.seq} ELSE {}

GroupNumbers(g, f) == UNION {Numbers(g.voqs[v], f) : v \in DOMAIN g.voqs}

GroupRising(g, f) == \A v \in DOMAIN g.voqs : Rising(g.voqs[v], f)

LEMMA NumbersNone == \A f : Numbers(<<>>, f) = {} /\ Rising(<<>>, f)
  BY DEF Numbers, Rising

LEMMA NumbersAre ==
  ASSUME NEW q \in Seq(Packet), NEW f
  PROVE  Numbers(q, f) \in SUBSET Int
<1>1. \A i \in DOMAIN q : q[i] \in Packet
  OBVIOUS
<1>2. \A p \in Packet : p.seq \in Int
  BY FloodgateAssumption DEF FloodgateAssumption, Packet
<1> QED BY <1>1, <1>2 DEF Numbers

LEMMA NumbersAppend ==
  ASSUME NEW q \in Seq(Packet), NEW p \in Packet, NEW f
  PROVE  /\ Numbers(Append(q, p), f) = Numbers(q, f) \cup Own(p, f)
         /\ Rising(q, f) /\ (OfFlow(p, f) => \A m \in Numbers(q, f) : m < p.seq)
              => Rising(Append(q, p), f)
<1> DEFINE r == Append(q, p)
           k == Len(q)
<1>1. /\ k \in Nat /\ DOMAIN q = 1..k /\ DOMAIN r = 1..(k + 1)
      /\ \A i \in 1..k : r[i] = q[i]
      /\ r[k + 1] = p
  OBVIOUS
<1> HIDE DEF r, k
<1>2. \A i \in DOMAIN r : i \in DOMAIN q \/ i = k + 1
  BY <1>1
<1>3. \A i \in DOMAIN q : i \in DOMAIN r /\ r[i] = q[i]
  BY <1>1
<1>4. k + 1 \in DOMAIN r
  BY <1>1
<1>5. Numbers(r, f) = Numbers(q, f) \cup Own(p, f)
  <2>1. \A x \in Numbers(r, f) : x \in Numbers(q, f) \/ x \in Own(p, f)
    BY <1>1, <1>2, <1>3 DEF Numbers, Own
  <2>2. Numbers(q, f) \subseteq Numbers(r, f)
    BY <1>3 DEF Numbers
  <2>3. Own(p, f) \subseteq Numbers(r, f)
    BY <1>1, <1>4 DEF Numbers, Own
  <2> QED BY <2>1, <2>2, <2>3
<1>6. ASSUME Rising(q, f), OfFlow(p, f) => \A m \in Numbers(q, f) : m < p.seq PROVE Rising(r, f)
  <2> SUFFICES ASSUME NEW i \in DOMAIN r, NEW j \in DOMAIN r, i < j,
                      OfFlow(r[i], f), OfFlow(r[j], f)
               PROVE  r[i].seq < r[j].seq
    BY DEF Rising
  <2>1. i \in DOMAIN q
    BY <1>1
  <2>2. CASE j \in DOMAIN q
    BY <1>3, <1>6, <2>1, <2>2 DEF Rising
  <2>3. CASE j = k + 1
    <3>1. q[i].seq \in Numbers(q, f)
      BY <1>3, <2>1 DEF Numbers
    <3> QED BY <1>1, <1>3, <1>6, <2>1, <2>3, <3>1
  <2> QED BY <1>2, <2>2, <2>3
<1> QED BY <1>5, <1>6 DEF r

LEMMA NumbersTail ==
  ASSUME NEW q \in Seq(Packet), q # <<>>, NEW f
  PROVE  /\ Numbers(q, f) = Numbers(Tail(q), f) \cup Own(Head(q), f)
         /\ Rising(q, f) => /\ Rising(Tail(q), f)
                            /\ OfFlow(Head(q), f) =>
                                 \A m \in Numbers(Tail(q), f) : Head(q).seq < m
<1> DEFINE r == Tail(q)
           p == Head(q)
           k == Len(q)
<1>1. /\ k \in Nat \ {0} /\ DOMAIN q = 1..k /\ DOMAIN r = 1..(k - 1)
      /\ \A i \in 1..(k - 1) : r[i] = q[i + 1]
      /\ p = q[1]
  OBVIOUS
<1> HIDE DEF r, p, k
<1>2. \A i \in DOMAIN r : i + 1 \in DOMAIN q /\ r[i] = q[i + 1] /\ 1 < i + 1
  BY <1>1
<1>3. \A i \in DOMAIN q : i = 1 \/ (i - 1 \in DOMAIN r /\ r[i - 1] = q[i])
  <2> SUFFICES ASSUME NEW i \in DOMAIN q, i # 1 PROVE i - 1 \in DOMAIN r /\ r[i - 1] = q[i]
    OBVIOUS
  <2>1. i - 1 \in 1..(k - 1) /\ (i - 1) + 1 = i
    BY <1>1
  <2> QED BY <1>1, <2>1
<1>4. 1 \in DOMAIN q
  BY <1>1
<1>5. Numbers(q, f) = Numbers(r, f) \cup Own(p, f)
  <2>1. \A x \in Numbers(q, f) : x \in Numbers(r, f) \/ x \in Own(p, f)
    BY <1>1, <1>3 DEF Numbers, Own
  <2>2. Numbers(r, f) \subseteq Numbers(q, f)
    BY <1>2 DEF Numbers
  <2>3. Own(p, f) \subseteq Numbers(q, f)
    BY <1>1, <1>4 DEF Numbers, Own
  <2> QED BY <2>1, <2>2, <2>3
<1>6. ASSUME Rising(q, f) PROVE Rising(r, f)
  <2> SUFFICES ASSUME NEW i \in DOMAIN r, NEW j \in DOMAIN r, i < j,
                      OfFlow(r[i], f), OfFlow(r[j], f)
               PROVE  r[i].seq < r[j].seq
    BY DEF Rising
  <2>1. i + 1 < j + 1
    BY <1>1
  <2> QED BY <1>2, <1>6, <2>1 DEF Rising
<1>7. ASSUME Rising(q, f), OfFlow(p, f), NEW m \in Numbers(r, f) PROVE p.seq < m
  <2>1. PICK i \in DOMAIN r : OfFlow(r[i], f) /\ m = r[i].seq
    BY DEF Numbers
  <2> QED BY <1>1, <1>2, <1>4, <1>7, <2>1 DEF Rising
<1> QED BY <1>5, <1>6, <1>7 DEF r, p

LEMMA GroupNumbersAre ==
  ASSUME NEW W \in SUBSET Packet, NEW g, NEW buf, GroupOk(g, buf, W), NEW f
  PROVE  /\ GroupNumbers(g, f) \in SUBSET Int
         /\ \A v \in DOMAIN g.voqs : g.voqs[v] \in Seq(Packet)
         /\ (f[2] \in Dst /\ buf[f[2]] = 0) \/ (\A p \in W : p.dst # f[2])
              => GroupNumbers(g, f) = {}
<1>1. \A v \in DOMAIN g.voqs : g.voqs[v] \in Seq(W) /\ g.voqs[v] \in Seq(Packet)
  BY DEF GroupOk, QueuesOk
<1>2. GroupNumbers(g, f) \in SUBSET Int
  BY <1>1, NumbersAre DEF GroupNumbers
<1>3. ASSUME (f[2] \in Dst /\ buf[f[2]] = 0) \/ (\A p \in W : p.dst # f[2])
      PROVE  GroupNumbers(g, f) = {}
  <2>1. \A v \in DOMAIN g.voqs : \A i \in DOMAIN g.voqs[v] : g.voqs[v][i].dst # f[2]
    <3>1. CASE f[2] \in Dst /\ buf[f[2]] = 0
      BY <3>1, Buffered
    <3>2. CASE \A p \in W : p.dst # f[2]
      BY <1>1, <3>2
    <3> QED BY <1>3, <3>1, <3>2
  <2> QED BY <2>1 DEF GroupNumbers, Numbers, OfFlow
<1> QED BY <1>1, <1>2, <1>3

LEMMA EnqueueNumbers ==
  ASSUME NEW W \in SUBSET Packet, NEW g, NEW buf, GroupOk(g, buf, W), NEW p \in W, NEW f
  PROVE  LET h == Enqueue(g, p.dst, p)
         IN  /\ GroupNumbers(h, f) = GroupNumbers(g, f) \cup Own(p, f)
             /\ GroupRising(g, f) /\ (OfFlow(p, f) => \A m \in GroupNumbers(g, f) : m < p.seq)
                  => GroupRising(h, f)
<1> DEFINE h == Enqueue(g, p.dst, p)
           v == GetVOQId(g, p.dst)
           old == IF v \in DOMAIN g.voqs THEN g.voqs[v] ELSE <<>>
           D == DOMAIN g.voqs
<1>1. /\ DOMAIN h.voqs = D \cup {v}
      /\ old \in Seq(W) /\ h.voqs[v] = Append(old, p)
      /\ \A w \in D \ {v} : h.voqs[w] = g.voqs[w]
      /\ QueuesOk(h, W)
      /\ \A d, ins : GroupBytes(h, d, ins) = GroupBytes(g, d, ins) + Counted(p, d, ins)
      /\ \A w \in DOMAIN h.voqs : h.voqs[w] # <<>> =>
           \/ w \in DOMAIN g.voqs /\ g.voqs[w] # <<>> /\ Head(h.voqs[w]) = Head(g.voqs[w])
           \/ buf[p.dst] = 0 /\ Head(h.voqs[w]) = p
  BY EnqueueShape
<1>2. old \in Seq(Packet) /\ p \in Packet
  BY <1>1
<1>3. v \notin D => Numbers(old, f) = {} /\ Rising(old, f)
  BY NumbersNone
<1>4. v \in D => old = g.voqs[v]
  OBVIOUS
<1> HIDE DEF h, v, old
<1>5. /\ Numbers(h.voqs[v], f) = Numbers(old, f) \cup Own(p, f)
      /\ Rising(old, f) /\ (OfFlow(p, f) => \A m \in Numbers(old, f) : m < p.seq)
           => Rising(h.voqs[v], f)
  BY <1>1, <1>2, NumbersAppend
<1>6. Numbers(old, f) \subseteq GroupNumbers(g, f)
  BY <1>3, <1>4 DEF GroupNumbers
<1>7. GroupNumbers(h, f) = GroupNumbers(g, f) \cup Own(p, f)
  <2>1. \A x \in GroupNumbers(h, f) : x \in GroupNumbers(g, f) \/ x \in Own(p, f)
    <3> SUFFICES ASSUME NEW x \in GroupNumbers(h, f) PROVE x \in GroupNumbers(g, f) \/ x \in Own(p, f)
      OBVIOUS
    <3>1. PICK w \in DOMAIN h.voqs : x \in Numbers(h.voqs[w], f)
      BY DEF GroupNumbers
    <3>2. CASE w = v
      BY <1>5, <1>6, <3>1, <3>2
    <3>3. CASE w # v
      <4>1. w \in D /\ h.voqs[w] = g.voqs[w]
        BY <1>1, <3>1, <3>3
      <4> QED BY <3>1, <4>1 DEF GroupNumbers
    <3> QED BY <3>2, <3>3
  <2>2. \A x \in GroupNumbers(g, f) : x \in GroupNumbers(h, f)
    <3> SUFFICES ASSUME NEW x \in GroupNumbers(g, f) PROVE x \in GroupNumbers(h, f)
      OBVIOUS
    <3>1. PICK w \in D : x \in Numbers(g.voqs[w], f)
      BY DEF GroupNumbers
    <3>2. w \in DOMAIN h.voqs /\ x \in Numbers(h.voqs[w], f)
      BY <1>1, <1>4, <1>5, <3>1
    <3> QED BY <3>2 DEF GroupNumbers
  <2>3. Own(p, f) \subseteq GroupNumbers(h, f)
    BY <1>1, <1>5 DEF GroupNumbers
  <2> QED BY <2>1, <2>2, <2>3
<1>8. ASSUME GroupRising(g, f), OfFlow(p, f) => \A m \in GroupNumbers(g, f) : m < p.seq
      PROVE  GroupRising(h, f)
  <2>1. Rising(old, f)
    BY <1>3, <1>4, <1>8 DEF GroupRising
  <2>2. Rising(h.voqs[v], f)
    BY <1>5, <1>6, <1>8, <2>1
  <2> QED BY <1>1, <1>8, <2>2 DEF GroupRising
<1> QED BY <1>7, <1>8 DEF h

LEMMA DequeueNumbers ==
  ASSUME NEW W \in SUBSET Packet, NEW g, NEW buf, GroupOk(g, buf, W),
         NEW v \in DOMAIN g.voqs, g.voqs[v] # <<>>, NEW still, NEW f
  PROVE  LET h == Dequeue(g, v, still)
             p == Head1(g, v)
         IN  /\ GroupNumbers(g, f) = GroupNumbers(h, f) \cup Own(p, f)
             /\ GroupRising(g, f) => /\ GroupRising(h, f)
                                     /\ OfFlow(p, f) => \A m \in GroupNumbers(h, f) : p.seq < m
<1> DEFINE h == Dequeue(g, v, still)
           p == Head1(g, v)
           rest == Tail(g.voqs[v])
           q == g.voqs[v]
           D == DOMAIN g.voqs
<1>1. /\ p \in W /\ rest \in Seq(W) /\ FindVOQId(g, p.dst) = v
      /\ DOMAIN h.voqs = IF DynamicHash /\ ~still /\ rest = <<>> THEN D \ {v} ELSE D
      /\ v \in DOMAIN h.voqs => h.voqs[v] = rest
      /\ \A w \in DOMAIN h.voqs \ {v} : h.voqs[w] = g.voqs[w]
      /\ QueuesOk(h, W)
      /\ \A d, ins : /\ GroupBytes(g, d, ins) = GroupBytes(h, d, ins) + Counted(p, d, ins)
                     /\ GroupBytes(h, d, ins) \in Nat
  BY DequeueShape
<1>2. q \in Seq(Packet) /\ q # <<>> /\ p = Head(q)
  BY GroupNumbersAre DEF Head1
<1>3. /\ Numbers(q, f) = Numbers(rest, f) \cup Own(p, f)
      /\ Rising(q, f) => /\ Rising(rest, f)
                         /\ OfFlow(p, f) => \A m \in Numbers(rest, f) : p.seq < m
  BY <1>2, NumbersTail
<1>4. v \notin DOMAIN h.voqs => Numbers(rest, f) = {}
  BY <1>1, NumbersNone
<1>5. DOMAIN h.voqs \subseteq D /\ D \ {v} \subseteq DOMAIN h.voqs
  BY <1>1
<1>6. OfFlow(p, f) => \A w \in D \ {v} : Numbers(g.voqs[w], f) = {}
  BY <1>1 DEF GroupOk, Located, Numbers, OfFlow
<1> HIDE DEF h, p, rest
<1>7. GroupNumbers(g, f) = GroupNumbers(h, f) \cup Own(p, f)
  <2>1. \A x \in GroupNumbers(g, f) : x \in GroupNumbers(h, f) \/ x \in Own(p, f)
    BY <1>1, <1>3, <1>4, <1>5 DEF GroupNumbers
  <2>2. \A x \in GroupNumbers(h, f) : x \in GroupNumbers(g, f)
    BY <1>1, <1>3, <1>5 DEF GroupNumbers
  <2>3. Own(p, f) \subseteq GroupNumbers(g, f)
    BY <1>3 DEF GroupNumbers
  <2> QED BY <2>1, <2>2, <2>3
<1>8. ASSUME GroupRising(g, f) PROVE GroupRising(h, f)
  BY <1>1, <1>3, <1>5, <1>8 DEF GroupRising
<1>9. ASSUME GroupRising(g, f), OfFlow(p, f), NEW m \in GroupNumbers(h, f) PROVE p.seq < m
  <2>1. PICK w \in DOMAIN h.voqs : m \in Numbers(h.voqs[w], f)
    BY DEF GroupNumbers
  <2>2. w = v
    BY <1>1, <1>5, <1>6, <1>9, <2>1
  <2> QED BY <1>1, <1>3, <1>9, <2>1, <2>2 DEF GroupRising
<1> QED BY <1>7, <1>8, <1>9 DEF h, p
------------------------------------------------------------------------------
(* The packets of flow f at each place of the network.                         *)
Towards(x, f) == <<x[1], NextHop[x[1]][f[2]]>>

NumbersOf(gr, eg, wi, f) ==
  [x \in Place |-> IF x[2] = 2 THEN GroupNumbers(gr[x[1]], f)
                   ELSE IF x[2] = 1 THEN Numbers(eg[Towards(x, f)], f)
                   ELSE IF Towards(x, f) \in Link THEN Numbers(wi[Towards(x, f)], f) ELSE {}]

RisingOf(gr, eg, wi, f) ==
  {x \in Place : IF x[2] = 2 THEN GroupRising(gr[x[1]], f)
                 ELSE IF x[2] = 1 THEN Rising(eg[Towards(x, f)], f)
                 ELSE Towards(x, f) \in Link => Rising(wi[Towards(x, f)], f)}

NumbersAt(f) == NumbersOf(group, egress, wire, f)

RisingAt(f) == RisingOf(group, egress, wire, f)

(* What a step does at one place: nothing, or packet n comes or goes.          *)
Same(f, x) == NumbersAt(f)'[x] = NumbersAt(f)[x] /\ (x \in RisingAt(f) => x \in RisingAt(f)')

Comes(f, x, n) == Pushes(NumbersAt(f), NumbersAt(f)', RisingAt(f), RisingAt(f)', x, n)

Goes(f, x, n) == Pops(NumbersAt(f), NumbersAt(f)', RisingAt(f), RisingAt(f)', x, n)

LEMMA FlowIs ==
  \A f \in Flow : f[1] \in Switch /\ f[2] \in Dst /\ f = <<f[1], f[2]>>
<1>1. \A f \in Flow : f \in Switch \X Dst
  BY FloodgateAssumption DEF FloodgateAssumption
<1> QED BY <1>1

LEMMA TowardsIs ==
  ASSUME NEW f \in Flow, NEW x \in Place
  PROVE  /\ Towards(x, f) \in Port
         /\ Towards(x, f) \in Link <=> NextHop[x[1]][f[2]] \in Switch
<1>1. x[1] \in Switch /\ f[2] \in Dst
  BY PlaceIs, FlowIs
<1> QED BY <1>1, PortsAre DEF Towards, Link

LEMMA NumbersOfTyped ==
  ASSUME NEW gr, \A s \in Switch : \A v \in DOMAIN gr[s].voqs : gr[s].voqs[v] \in Seq(Packet),
         NEW eg \in [Port -> Seq(Packet)], NEW wi \in [Link -> Seq(Packet)], NEW f \in Flow
  PROVE  NumbersOf(gr, eg, wi, f) \in [Place -> SUBSET Int]
<1> SUFFICES ASSUME NEW x \in Place PROVE NumbersOf(gr, eg, wi, f)[x] \in SUBSET Int
  BY DEF NumbersOf
<1>1. GroupNumbers(gr[x[1]], f) \in SUBSET Int
  <2>1. \A v \in DOMAIN gr[x[1]].voqs : gr[x[1]].voqs[v] \in Seq(Packet)
    BY PlaceIs
  <2> QED BY <2>1, NumbersAre DEF GroupNumbers
<1>2. Numbers(eg[Towards(x, f)], f) \in SUBSET Int
  BY TowardsIs, NumbersAre
<1>3. Towards(x, f) \in Link => Numbers(wi[Towards(x, f)], f) \in SUBSET Int
  BY NumbersAre
<1> QED BY <1>1, <1>2, <1>3 DEF NumbersOf

LEMMA QueuesArePackets ==
  ASSUME GroupsOk, NEW s \in Switch, NEW v \in DOMAIN group[s].voqs
  PROVE  group[s].voqs[v] \in Seq(Packet)
<1>1. GroupOk(group[s], buffering[s], Waiting(s)) /\ Waiting(s) \in SUBSET Packet
  BY SetsOfPackets DEF GroupsOk
<1> QED BY <1>1, GroupNumbersAre

LEMMA NumbersTyped ==
  ASSUME GroupsOk, EgressOk, WireOk, GroupsOk', EgressOk', WireOk', NEW f \in Flow
  PROVE  NumbersAt(f) \in [Place -> SUBSET Int] /\ NumbersAt(f)' \in [Place -> SUBSET Int]
<1>1. NumbersAt(f) \in [Place -> SUBSET Int]
  BY QueuesArePackets, NumbersOfTyped DEF NumbersAt, EgressOk, WireOk
<1>2. \A s \in Switch : \A v \in DOMAIN group'[s].voqs : group'[s].voqs[v] \in Seq(Packet)
  <2> TAKE s \in Switch
  <2>1. GroupOk(group'[s], buffering'[s], Waiting(s)) /\ Waiting(s) \in SUBSET Packet
    BY SetsOfPackets DEF GroupsOk, Waiting, At, ShouldIgnore
  <2> QED BY <2>1, GroupNumbersAre
<1>3. NumbersAt(f)' \in [Place -> SUBSET Int]
  BY <1>2, NumbersOfTyped DEF NumbersAt, EgressOk, WireOk
<1> QED BY <1>1, <1>3

LEMMA SamePlaces ==
  ASSUME NEW f, NEW x \in Place,
         \/ x[2] = 2 /\ group'[x[1]] = group[x[1]]
         \/ x[2] = 1 /\ egress'[Towards(x, f)] = egress[Towards(x, f)]
         \/ x[2] = 0 /\ (Towards(x, f) \in Link => wire'[Towards(x, f)] = wire[Towards(x, f)])
  PROVE  Same(f, x)
  BY DEF Same, NumbersAt, RisingAt, NumbersOf, RisingOf

(* Only the place of the switch that a port or link leaves can have changed, and
   only if the packet is of the flow.                                          *)
LEMMA EgressComes ==
  ASSUME EgressOk, NEW o \in Port, NEW p \in Leaving(o), p \in Packet,
         egress' = [egress EXCEPT ![o] = Append(@, p)], NEW f \in Flow
  PROVE  /\ OfFlow(p, f) => Comes(f, <<o[1], 1>>, p.seq)
         /\ \A x \in Place : x[2] = 1 /\ (OfFlow(p, f) => x # <<o[1], 1>>) => Same(f, x)
<1>1. o[1] \in Switch /\ o = <<o[1], o[2]>> /\ egress[o] \in Seq(Packet)
  BY PortsAre DEF EgressOk
<1>2. \A u \in Port : egress'[u] = IF u = o THEN Append(egress[o], p) ELSE egress[u]
  BY DEF EgressOk
<1>3. /\ Numbers(Append(egress[o], p), f) = Numbers(egress[o], f) \cup Own(p, f)
      /\ Rising(egress[o], f) /\ (OfFlow(p, f) => \A m \in Numbers(egress[o], f) : m < p.seq)
              => Rising(Append(egress[o], p), f)
  BY <1>1, NumbersAppend
<1>4. ASSUME OfFlow(p, f) PROVE Comes(f, <<o[1], 1>>, p.seq)
  <2> DEFINE x == <<o[1], 1>>
  <2>1. x \in Place /\ x[1] = o[1] /\ x[2] = 1
    BY <1>1 DEF Place
  <2>2. Towards(x, f) = o
    BY <1>1, <1>4, <2>1 DEF Towards, Leaving, OfFlow
  <2>3. Own(p, f) = {p.seq}
    BY <1>4 DEF Own
  <2> HIDE DEF x
  <2> QED BY <1>2, <1>3, <1>4, <2>1, <2>2, <2>3
          DEF x, Comes, Pushes, NumbersAt, RisingAt, NumbersOf, RisingOf
<1>5. ASSUME NEW x \in Place, x[2] = 1, OfFlow(p, f) => x # <<o[1], 1>> PROVE Same(f, x)
  <2>1. Towards(x, f) \in Port
    BY TowardsIs
  <2>2. CASE Towards(x, f) # o
    BY <1>2, <1>5, <2>1, <2>2, SamePlaces
  <2>3. CASE Towards(x, f) = o
    <3>1. ~OfFlow(p, f)
      BY <1>5, <2>3, PlaceIs DEF Towards
    <3>2. Own(p, f) = {}
      BY <3>1 DEF Own
    <3> QED BY <1>2, <1>3, <1>5, <2>1, <2>3, <3>1, <3>2
            DEF Same, NumbersAt, RisingAt, NumbersOf, RisingOf
  <2> QED BY <2>2, <2>3
<1> QED BY <1>4, <1>5

LEMMA EgressGoes ==
  ASSUME EgressOk, NEW o \in Port, egress[o] # <<>>,
         egress' = [egress EXCEPT ![o] = Tail(@)], NEW f \in Flow
  PROVE  /\ OfFlow(Head(egress[o]), f) => Goes(f, <<o[1], 1>>, Head(egress[o]).seq)
         /\ \A x \in Place : x[2] = 1 /\ (OfFlow(Head(egress[o]), f) => x # <<o[1], 1>>)
                               => Same(f, x)
<1> DEFINE p == Head(egress[o])
<1>1. /\ o[1] \in Switch /\ o = <<o[1], o[2]>> /\ egress[o] \in Seq(Packet)
      /\ p \in Leaving(o)
  BY PortsAre DEF EgressOk
<1>2. \A u \in Port : egress'[u] = IF u = o THEN Tail(egress[o]) ELSE egress[u]
  BY DEF EgressOk
<1>3. /\ Numbers(egress[o], f) = Numbers(Tail(egress[o]), f) \cup Own(p, f)
      /\ Rising(egress[o], f) =>
           /\ Rising(Tail(egress[o]), f)
           /\ OfFlow(p, f) => \A m \in Numbers(Tail(egress[o]), f) : p.seq < m
  BY <1>1, NumbersTail
<1> HIDE DEF p
<1>4. ASSUME OfFlow(p, f) PROVE Goes(f, <<o[1], 1>>, p.seq)
  <2> DEFINE x == <<o[1], 1>>
  <2>1. x \in Place /\ x[1] = o[1] /\ x[2] = 1
    BY <1>1 DEF Place
  <2>2. Towards(x, f) = o
    BY <1>1, <1>4, <2>1 DEF Towards, Leaving, OfFlow
  <2>3. Own(p, f) = {p.seq}
    BY <1>4 DEF Own
  <2> HIDE DEF x
  <2> QED BY <1>2, <1>3, <1>4, <2>1, <2>2, <2>3
          DEF x, Goes, Pops, NumbersAt, RisingAt, NumbersOf, RisingOf
<1>5. ASSUME NEW x \in Place, x[2] = 1, OfFlow(p, f) => x # <<o[1], 1>> PROVE Same(f, x)
  <2>1. Towards(x, f) \in Port
    BY TowardsIs
  <2>2. CASE Towards(x, f) # o
    BY <1>2, <1>5, <2>1, <2>2, SamePlaces
  <2>3. CASE Towards(x, f) = o
    <3>1. ~OfFlow(p, f)
      BY <1>5, <2>3, PlaceIs DEF Towards
    <3>2. Own(p, f) = {}
      BY <3>1 DEF Own
    <3> QED BY <1>2, <1>3, <1>5, <2>1, <2>3, <3>1, <3>2
            DEF Same, NumbersAt, RisingAt, NumbersOf, RisingOf
  <2> QED BY <2>2, <2>3
<1> QED BY <1>4, <1>5 DEF p

LEMMA WireComes ==
  ASSUME WireOk, NEW l \in Link, NEW p \in OnWire(l),
         wire' = [wire EXCEPT ![l] = Append(@, p)], NEW f \in Flow
  PROVE  /\ OfFlow(p, f) => Comes(f, <<l[1], 0>>, p.seq)
         /\ \A x \in Place : x[2] = 0 /\ (OfFlow(p, f) => x # <<l[1], 0>>) => Same(f, x)
<1>1. /\ l[1] \in Switch /\ l = <<l[1], l[2]>> /\ wire[l] \in Seq(Packet)
      /\ p \in Packet /\ NextHop[l[1]][p.dst] = l[2]
  BY LinkIs DEF WireOk, OnWire
<1>2. \A u \in Link : wire'[u] = IF u = l THEN Append(wire[l], p) ELSE wire[u]
  BY DEF WireOk
<1>3. /\ Numbers(Append(wire[l], p), f) = Numbers(wire[l], f) \cup Own(p, f)
      /\ Rising(wire[l], f) /\ (OfFlow(p, f) => \A m \in Numbers(wire[l], f) : m < p.seq)
              => Rising(Append(wire[l], p), f)
  BY <1>1, NumbersAppend
<1>4. ASSUME OfFlow(p, f) PROVE Comes(f, <<l[1], 0>>, p.seq)
  <2> DEFINE x == <<l[1], 0>>
  <2>1. x \in Place /\ x[1] = l[1] /\ x[2] = 0
    BY <1>1 DEF Place
  <2>2. Towards(x, f) = l
    BY <1>1, <1>4, <2>1 DEF Towards, OfFlow
  <2>3. Own(p, f) = {p.seq}
    BY <1>4 DEF Own
  <2> HIDE DEF x
  <2> QED BY <1>2, <1>3, <1>4, <2>1, <2>2, <2>3
          DEF x, Comes, Pushes, NumbersAt, RisingAt, NumbersOf, RisingOf
<1>5. ASSUME NEW x \in Place, x[2] = 0, OfFlow(p, f) => x # <<l[1], 0>> PROVE Same(f, x)
  <2>1. CASE Towards(x, f) # l
    BY <1>2, <1>5, <2>1, SamePlaces
  <2>2. CASE Towards(x, f) = l
    <3>1. ~OfFlow(p, f)
      BY <1>5, <2>2, PlaceIs DEF Towards
    <3>2. Own(p, f) = {}
      BY <3>1 DEF Own
    <3> QED BY <1>2, <1>3, <1>5, <2>2, <3>1, <3>2
            DEF Same, NumbersAt, RisingAt, NumbersOf, RisingOf
  <2> QED BY <2>1, <2>2
<1> QED BY <1>4, <1>5

LEMMA WireGoes ==
  ASSUME WireOk, NEW l \in Link, wire[l] # <<>>,
         wire' = [wire EXCEPT ![l] = Tail(@)], NEW f \in Flow
  PROVE  /\ Head(wire[l]) \in OnWire(l)
         /\ OfFlow(Head(wire[l]), f) => Goes(f, <<l[1], 0>>, Head(wire[l]).seq)
         /\ \A x \in Place : x[2] = 0 /\ (OfFlow(Head(wire[l]), f) => x # <<l[1], 0>>)
                               => Same(f, x)
<1> DEFINE p == Head(wire[l])
<1>1. /\ l[1] \in Switch /\ l = <<l[1], l[2]>> /\ wire[l] \in Seq(Packet)
      /\ p \in OnWire(l)
  BY LinkIs DEF WireOk
<1>2. \A u \in Link : wire'[u] = IF u = l THEN Tail(wire[l]) ELSE wire[u]
  BY DEF WireOk
<1>3. /\ Numbers(wire[l], f) = Numbers(Tail(wire[l]), f) \cup Own(p, f)
      /\ Rising(wire[l], f) =>
           /\ Rising(Tail(wire[l]), f)
           /\ OfFlow(p, f) => \A m \in Numbers(Tail(wire[l]), f) : p.seq < m
  BY <1>1, NumbersTail
<1> HIDE DEF p
<1>4. ASSUME OfFlow(p, f) PROVE Goes(f, <<l[1], 0>>, p.seq)
  <2> DEFINE x == <<l[1], 0>>
  <2>1. x \in Place /\ x[1] = l[1] /\ x[2] = 0
    BY <1>1 DEF Place
  <2>2. Towards(x, f) = l
    BY <1>1, <1>4, <2>1 DEF Towards, OnWire, OfFlow
  <2>3. Own(p, f) = {p.seq}
    BY <1>4 DEF Own
  <2> HIDE DEF x
  <2> QED BY <1>2, <1>3, <1>4, <2>1, <2>2, <2>3
          DEF x, Goes, Pops, NumbersAt, RisingAt, NumbersOf, RisingOf
<1>5. ASSUME NEW x \in Place, x[2] = 0, OfFlow(p, f) => x # <<l[1], 0>> PROVE Same(f, x)
  <2>1. CASE Towards(x, f) # l
    BY <1>2, <1>5, <2>1, SamePlaces
  <2>2. CASE Towards(x, f) = l
    <3>1. ~OfFlow(p, f)
      BY <1>5, <2>2, PlaceIs DEF Towards
    <3>2. Own(p, f) = {}
      BY <3>1 DEF Own
    <3> QED BY <1>2, <1>3, <1>5, <2>2, <3>1, <3>2
            DEF Same, NumbersAt, RisingAt, NumbersOf, RisingOf
  <2> QED BY <2>1, <2>2
<1> QED BY <1>1, <1>4, <1>5 DEF p

(* TransmitStart: onto the wire of the port, or to the host.                   *)
LEMMA PutOnWireComes ==
  ASSUME WireOk, CountsOk, NEW o \in Port, NEW p \in Leaving(o), PutOnWire(o, p), NEW f \in Flow
  PROVE  /\ o \in Link <=> o[2] \in Switch
         /\ o \in Link => /\ rcvd' = rcvd
                          /\ OfFlow(p, f) => Comes(f, <<o[1], 0>>, p.seq)
         /\ o \notin Link => rcvd'[f] = IF OfFlow(p, f) THEN p.seq ELSE rcvd[f]
         /\ \A x \in Place : x[2] = 0 /\ (OfFlow(p, f) /\ o \in Link => x # <<o[1], 0>>)
                               => Same(f, x)
<1>1. o[1] \in Switch /\ o = <<o[1], o[2]>> /\ p \in Packet /\ p.dst \in Dst
      /\ NextHop[o[1]][p.dst] = o[2]
  BY PortsAre, SizesPositive DEF Leaving, At
<1>2. o \in Link <=> o[2] \in Switch
  BY <1>1 DEF Link
<1>3. CASE o \in Link
  <2>1. wire' = [wire EXCEPT ![o] = Append(@, p)] /\ rcvd' = rcvd
    BY <1>3 DEF PutOnWire
  <2>2. p \in OnWire(o)
    BY <1>1 DEF OnWire
  <2>3. /\ OfFlow(p, f) => Comes(f, <<o[1], 0>>, p.seq)
        /\ \A x \in Place : x[2] = 0 /\ (OfFlow(p, f) => x # <<o[1], 0>>) => Same(f, x)
    BY <1>3, <2>1, <2>2, WireComes
  <2> QED BY <1>2, <1>3, <2>1, <2>3
<1>4. CASE o \notin Link
  <2>1. rcvd' = [rcvd EXCEPT ![<<p.src, p.dst>>] = p.seq] /\ wire' = wire
    BY <1>4 DEF PutOnWire
  <2>2. OfFlow(p, f) <=> f = <<p.src, p.dst>>
    BY FlowIs DEF OfFlow
  <2>3. \A x \in Place : x[2] = 0 => Same(f, x)
    BY <2>1, SamePlaces
  <2>4. rcvd'[f] = IF OfFlow(p, f) THEN p.seq ELSE rcvd[f]
    BY <2>1, <2>2 DEF CountsOk
  <2> QED BY <1>2, <1>4, <2>3, <2>4
<1> QED BY <1>3, <1>4

(* SendToDev: behind all packets of the flow in this switch and the next links. *)
LEMMA SendToDevComes ==
  ASSUME GroupsOk, EgressOk, NEW s \in Switch, NEW p \in At(s), SendToDev(s, p), NEW f \in Flow
  PROVE  LET k == IF PassesGate(s, p) THEN 1 ELSE 2
         IN  /\ OfFlow(p, f) => /\ Comes(f, <<s, k>>, p.seq)
                                /\ \A x \in Place : x[1] = s /\ x[2] > k => NumbersAt(f)[x] = {}
             /\ \A x \in Place : x[2] # 0 /\ (OfFlow(p, f) => x # <<s, k>>) => Same(f, x)
<1> DEFINE port == <<s, NextHop[s][p.dst]>>
<1>1. p \in Packet /\ p.dst \in Dst
  BY SetsOfPackets, SizesPositive
<1>2. GroupOk(group[s], buffering[s], Waiting(s)) /\ Waiting(s) \in SUBSET Packet
      /\ DOMAIN group = Switch
  BY SetsOfPackets DEF GroupsOk
<1>3. \A x \in Place : x[2] = 0 \/ x[2] = 1 \/ x[2] = 2
  BY PlaceIs
<1>4. CASE PassesGate(s, p)
  <2>1. /\ egress' = [egress EXCEPT ![port] = Append(@, p)] /\ group' = group
    BY <1>4 DEF SendToDev
  <2>2. port \in Port /\ port[1] = s /\ p \in Leaving(port)
    BY <1>1, PortsAre DEF Leaving
  <2>3. /\ OfFlow(p, f) => Comes(f, <<s, 1>>, p.seq)
        /\ \A x \in Place : x[2] = 1 /\ (OfFlow(p, f) => x # <<s, 1>>) => Same(f, x)
    <3> HIDE DEF port
    <3> QED BY <1>1, <2>1, <2>2, EgressComes
  <2>4. \A x \in Place : x[2] = 2 => Same(f, x)
    BY <2>1, SamePlaces
  <2>5. ASSUME OfFlow(p, f), NEW x \in Place, x[1] = s, x[2] > 1 PROVE NumbersAt(f)[x] = {}
    <3>1. p.dst = f[2]
      BY <2>5 DEF OfFlow
    <3>2. buffering[s][f[2]] = 0 \/ \A q \in Waiting(s) : q.dst # f[2]
      BY <1>4, <3>1 DEF PassesGate, Waiting
    <3>3. GroupNumbers(group[s], f) = {}
      BY <1>1, <1>2, <3>1, <3>2, GroupNumbersAre
    <3>4. x[2] = 2
      BY <1>3, <2>5
    <3> QED BY <2>5, <3>3, <3>4 DEF NumbersAt, NumbersOf
  <2> QED BY <1>3, <1>4, <2>3, <2>4, <2>5
<1>5. CASE ~PassesGate(s, p)
  <2>1. group' = [group EXCEPT ![s] = Enqueue(@, p.dst, p)] /\ egress' = egress
    BY <1>5 DEF SendToDev
  <2>2. p \in Waiting(s)
    BY <1>5 DEF PassesGate, Waiting
  <2>3. group'[s] = Enqueue(group[s], p.dst, p) /\ \A t \in Switch \ {s} : group'[t] = group[t]
    BY <1>2, <2>1
  <2>4. /\ GroupNumbers(group'[s], f) = GroupNumbers(group[s], f) \cup Own(p, f)
        /\ GroupRising(group[s], f) /\ (OfFlow(p, f) => \A m \in GroupNumbers(group[s], f) : m < p.seq)
             => GroupRising(group'[s], f)
    BY <1>2, <2>2, <2>3, EnqueueNumbers
  <2>5. <<s, 2>> \in Place
    BY DEF Place
  <2>6. ASSUME OfFlow(p, f) PROVE Comes(f, <<s, 2>>, p.seq)
    <3>1. Own(p, f) = {p.seq}
      BY <2>6 DEF Own
    <3> QED BY <2>4, <2>5, <2>6, <3>1
            DEF Comes, Pushes, NumbersAt, RisingAt, NumbersOf, RisingOf
  <2>7. ASSUME NEW x \in Place, x[2] = 2, OfFlow(p, f) => x # <<s, 2>> PROVE Same(f, x)
    <3>1. CASE x[1] # s
      BY <2>3, <2>7, <3>1, PlaceIs, SamePlaces
    <3>2. CASE x[1] = s
      <4>1. ~OfFlow(p, f)
        BY <2>7, <3>2, PlaceIs
      <4>2. Own(p, f) = {}
        BY <4>1 DEF Own
      <4> QED BY <2>4, <2>7, <3>2, <4>1, <4>2
              DEF Same, NumbersAt, RisingAt, NumbersOf, RisingOf
    <3> QED BY <3>1, <3>2
  <2>8. \A x \in Place : x[2] = 1 => Same(f, x)
    BY <2>1, SamePlaces
  <2>9. \A x \in Place : ~(x[2] > 2)
    BY <1>3
  <2> QED BY <1>3, <1>5, <2>6, <2>7, <2>8, <2>9
<1> QED BY <1>4, <1>5

(* CheckAndSendOne: the first packet of the flow in the VOQs of the switch.    *)
LEMMA DrainOneGoes ==
  ASSUME GroupsOk, DrainOk, NEW v \in drain.voqs, DrainOne(v), NEW f \in Flow
  PROVE  LET s == drain.sw
             p == Head1(group[s], v)
         IN  /\ s \in Switch /\ p \in Waiting(s)
             /\ OfFlow(p, f) => Goes(f, <<s, 2>>, p.seq)
             /\ \A x \in Place : x[2] = 2 /\ (OfFlow(p, f) => x # <<s, 2>>) => Same(f, x)
<1> DEFINE s == drain.sw
           p == Head1(group[s], v)
           still == buffering'[s][p.dst] > 0
<1>1. /\ v \in drain.voqs /\ Sendable(s, v, group, wins)
      /\ group' = [group EXCEPT ![s] = Dequeue(@, v, still)]
      /\ \E idle : drain' = Draining(s, drain.voqs, idle, group', wins')
  BY DEF DrainOne
<1>2. s \in Switch
  BY <1>1 DEF DrainOk, NotDraining
<1>3. /\ GroupOk(group[s], buffering[s], Waiting(s)) /\ Waiting(s) \in SUBSET Packet
      /\ DOMAIN group = Switch
  BY <1>2, SetsOfPackets DEF GroupsOk
<1>4. v \in DOMAIN group[s].voqs /\ group[s].voqs[v] # <<>>
  BY <1>1 DEF Sendable
<1>5. p \in Waiting(s)
  BY <1>2, <1>4, HeadIs
<1> HIDE DEF s, still
<1>6. group'[s] = Dequeue(group[s], v, still) /\ \A t \in Switch \ {s} : group'[t] = group[t]
  BY <1>1, <1>2, <1>3
<1>7. /\ GroupNumbers(group[s], f) = GroupNumbers(group'[s], f) \cup Own(p, f)
      /\ GroupRising(group[s], f) =>
           /\ GroupRising(group'[s], f)
           /\ OfFlow(p, f) => \A m \in GroupNumbers(group'[s], f) : p.seq < m
  <2> DEFINE g == group[s]
             buf == buffering[s]
             W == Waiting(s)
  <2>1. W \in SUBSET Packet /\ GroupOk(g, buf, W) /\ v \in DOMAIN g.voqs /\ g.voqs[v] # <<>>
    BY <1>3, <1>4
  <2> HIDE DEF g, buf, W
  <2>2. LET h == Dequeue(g, v, still)
            r == Head1(g, v)
        IN  /\ GroupNumbers(g, f) = GroupNumbers(h, f) \cup Own(r, f)
            /\ GroupRising(g, f) => /\ GroupRising(h, f)
                                    /\ OfFlow(r, f) => \A m \in GroupNumbers(h, f) : r.seq < m
    BY <2>1, DequeueNumbers
  <2>3. group'[s] = Dequeue(g, v, still) /\ p = Head1(g, v) /\ g = group[s]
    BY <1>6 DEF g
  <2> HIDE DEF p
  <2> QED BY <2>2, <2>3
<1> HIDE DEF p
<1>8. <<s, 2>> \in Place
  BY <1>2 DEF Place
<1>9. ASSUME OfFlow(p, f) PROVE Goes(f, <<s, 2>>, p.seq)
  <2>1. Own(p, f) = {p.seq}
    BY <1>9 DEF Own
  <2> QED BY <1>7, <1>8, <1>9, <2>1
          DEF Goes, Pops, NumbersAt, RisingAt, NumbersOf, RisingOf
<1>10. ASSUME NEW x \in Place, x[2] = 2, OfFlow(p, f) => x # <<s, 2>> PROVE Same(f, x)
  <2>1. CASE x[1] # s
    BY <1>6, <1>10, <2>1, PlaceIs, SamePlaces
  <2>2. CASE x[1] = s
    <3>1. ~OfFlow(p, f)
      BY <1>10, <2>2, PlaceIs
    <3>2. Own(p, f) = {}
      BY <3>1 DEF Own
    <3> QED BY <1>7, <1>10, <2>2, <3>1, <3>2
            DEF Same, NumbersAt, RisingAt, NumbersOf, RisingOf
  <2> QED BY <2>1, <2>2
<1> QED BY <1>2, <1>5, <1>9, <1>10 DEF p, s
------------------------------------------------------------------------------
(* The invariant: every flow is in order, and a port that CheckAndSendVOQ may find
   idle, so that a packet overtakes its egress queue, has nothing in it.       *)
FlowInOrder(f) == FlowOk(NumbersAt(f), RisingAt(f), f[1], f[2], rcvd[f], sent[f])

IdleEmpty == drain.idle \subseteq {o \in Port : egress[o] = <<>>}

OrderInv == IdleEmpty /\ \A f \in Flow : FlowInOrder(f)

OrderStep(f) == FlowInOrder(f)' /\ rcvd'[f] \in {rcvd[f], rcvd[f] + 1}

LEMMA FlowNumbers ==
  ASSUME Typed, Typed', NEW f \in Flow
  PROVE  /\ NumbersAt(f) \in [Place -> SUBSET Int] /\ NumbersAt(f)' \in [Place -> SUBSET Int]
         /\ f[1] \in Switch /\ f[2] \in Dst /\ rcvd[f] \in Int /\ sent[f] \in Int
<1>1. GroupsOk /\ EgressOk /\ WireOk /\ GroupsOk' /\ EgressOk' /\ WireOk'
  BY DEF Typed, GroupsOk, EgressOk, WireOk, Waiting, Leaving, OnWire, At, ShouldIgnore
<1>2. rcvd[f] \in Int /\ sent[f] \in Int
  BY FloodgateAssumption DEF FloodgateAssumption, Typed
<1> QED BY <1>1, <1>2, NumbersTyped, FlowIs

LEMMA FlowStays ==
  ASSUME Typed, Typed', NEW f \in Flow, FlowInOrder(f),
         \A x \in Place : Same(f, x), rcvd'[f] = rcvd[f], sent'[f] = sent[f]
  PROVE  OrderStep(f)
<1>1. Keeps(NumbersAt(f), NumbersAt(f)', RisingAt(f), RisingAt(f)', {})
  BY DEF Keeps, Same
<1>2. NumbersAt(f)' \in [Place -> SUBSET Int]
  BY FlowNumbers
<1>3. FlowOk(NumbersAt(f)', RisingAt(f)', f[1], f[2], rcvd[f], sent[f])
  BY <1>1, <1>2, KeepsFlow DEF FlowInOrder
<1> QED BY <1>3 DEF OrderStep, FlowInOrder

LEMMA FlowMoves ==
  ASSUME Typed, Typed', NEW f \in Flow, FlowInOrder(f), NEW n \in Int,
         NEW a \in Place, NEW b \in Place, Forward(NumbersAt(f), a, b, f[2]),
         Goes(f, a, n), Comes(f, b, n), \A x \in Place \ {a, b} : Same(f, x),
         rcvd'[f] = rcvd[f], sent'[f] = sent[f]
  PROVE  OrderStep(f)
<1>1. Keeps(NumbersAt(f), NumbersAt(f)', RisingAt(f), RisingAt(f)', {a, b})
  BY DEF Keeps, Same
<1>2. NumbersAt(f)' \in [Place -> SUBSET Int] /\ f[1] \in Switch /\ f[2] \in Dst
  BY FlowNumbers
<1>3. FlowOk(NumbersAt(f)', RisingAt(f)', f[1], f[2], rcvd[f], sent[f])
  BY <1>1, <1>2, MovesInOrder DEF FlowInOrder, Goes, Comes
<1> QED BY <1>3 DEF OrderStep, FlowInOrder

LEMMA FlowEnters ==
  ASSUME Typed, Typed', NEW f \in Flow, FlowInOrder(f),
         NEW b \in Place, b[1] = f[1], b[2] # 0,
         \A x \in Place : x[1] = f[1] /\ x[2] > b[2] => NumbersAt(f)[x] = {},
         Comes(f, b, sent[f] + 1), \A x \in Place \ {b} : Same(f, x),
         rcvd'[f] = rcvd[f], sent'[f] = sent[f] + 1
  PROVE  OrderStep(f)
<1>1. Keeps(NumbersAt(f), NumbersAt(f)', RisingAt(f), RisingAt(f)', {b})
  BY DEF Keeps, Same
<1>2. /\ NumbersAt(f)' \in [Place -> SUBSET Int] /\ f[1] \in Switch /\ f[2] \in Dst
      /\ rcvd[f] \in Int /\ sent[f] \in Int
  BY FlowNumbers
<1>3. FlowOk(NumbersAt(f)', RisingAt(f)', f[1], f[2], rcvd[f], sent[f] + 1)
  BY <1>1, <1>2, EntersInOrder DEF FlowInOrder, Comes
<1> QED BY <1>3 DEF OrderStep, FlowInOrder

LEMMA FlowLeaves ==
  ASSUME Typed, Typed', NEW f \in Flow, FlowInOrder(f), NEW n \in Int,
         NEW a \in Place, NextHop[a[1]][f[2]] \notin Switch,
         \A x \in Place : x[1] = a[1] /\ x[2] < a[2] => NumbersAt(f)[x] = {},
         Goes(f, a, n), \A x \in Place \ {a} : Same(f, x),
         rcvd'[f] = n, sent'[f] = sent[f]
  PROVE  OrderStep(f)
<1>1. Keeps(NumbersAt(f), NumbersAt(f)', RisingAt(f), RisingAt(f)', {a})
  BY DEF Keeps, Same
<1>2. /\ NumbersAt(f)' \in [Place -> SUBSET Int] /\ f[1] \in Switch /\ f[2] \in Dst
      /\ rcvd[f] \in Int /\ sent[f] \in Int
  BY FlowNumbers
<1>3. n = rcvd[f] + 1 /\ FlowOk(NumbersAt(f)', RisingAt(f)', f[1], f[2], n, sent[f])
  BY <1>1, <1>2, LeavesInOrder DEF FlowInOrder, Goes
<1> QED BY <1>3 DEF OrderStep, FlowInOrder

LEMMA HostSendInOrder ==
  ASSUME Typed, Typed', NEW g \in Flow, NEW n \in Sizes, HostSend(g, n),
         NEW f \in Flow, FlowInOrder(f)
  PROVE  OrderStep(f)
<1> DEFINE p == [src |-> g[1], dst |-> g[2], seq |-> sent[g] + 1, size |-> n, in |-> Ports]
           k == IF PassesGate(g[1], p) THEN 1 ELSE 2
<1>1. /\ SendToDev(g[1], p) /\ wire' = wire /\ rcvd' = rcvd
      /\ sent' = [sent EXCEPT ![g] = @ + 1]
  BY DEF HostSend
<1>2. GroupsOk /\ EgressOk /\ CountsOk
  BY TypedIs
<1>3. g[1] \in Switch /\ p \in At(g[1])
  BY <1>2, HostPacket
<1>4. OfFlow(p, f) <=> f = g
  BY FlowIs DEF OfFlow
<1>5. p.seq = sent[g] + 1
  OBVIOUS
<1> HIDE DEF p
<1>6. /\ OfFlow(p, f) => /\ Comes(f, <<g[1], k>>, p.seq)
                         /\ \A x \in Place : x[1] = g[1] /\ x[2] > k => NumbersAt(f)[x] = {}
      /\ \A x \in Place : x[2] # 0 /\ (OfFlow(p, f) => x # <<g[1], k>>) => Same(f, x)
  BY <1>1, <1>2, <1>3, SendToDevComes
<1>7. \A x \in Place : x[2] = 0 => Same(f, x)
  BY <1>1, SamePlaces
<1>8. k \in {1, 2}
  OBVIOUS
<1> HIDE DEF k
<1>9. CASE f = g
  <2> DEFINE b == <<g[1], k>>
  <2>1. b \in Place /\ b[1] = f[1] /\ b[2] # 0 /\ b[2] = k
    BY <1>3, <1>8, <1>9 DEF Place
  <2>2. \A x \in Place \ {b} : Same(f, x)
    BY <1>6, <1>7
  <2>3. Comes(f, b, sent[f] + 1)
    BY <1>4, <1>5, <1>6, <1>9
  <2>4. \A x \in Place : x[1] = f[1] /\ x[2] > b[2] => NumbersAt(f)[x] = {}
    BY <1>4, <1>6, <1>9
  <2>5. rcvd'[f] = rcvd[f] /\ sent'[f] = sent[f] + 1
    BY <1>1, <1>2, <1>9 DEF CountsOk
  <2> HIDE DEF b
  <2> QED BY <2>1, <2>2, <2>3, <2>4, <2>5, FlowEnters
<1>10. CASE f # g
  <2>1. rcvd'[f] = rcvd[f] /\ sent'[f] = sent[f]
    BY <1>1, <1>2, <1>10 DEF CountsOk
  <2>2. \A x \in Place : Same(f, x)
    BY <1>4, <1>6, <1>7, <1>10
  <2> QED BY <2>1, <2>2, FlowStays
<1> QED BY <1>9, <1>10

LEMMA ReceiveInOrder ==
  ASSUME Typed, Typed', NEW l \in Link, Receive(l), NEW f \in Flow, FlowInOrder(f)
  PROVE  OrderStep(f)
<1> DEFINE q == Head(wire[l])
           p == [q EXCEPT !.in = l[1]]
           k == IF PassesGate(l[2], p) THEN 1 ELSE 2
<1>1. /\ wire[l] # <<>> /\ wire' = [wire EXCEPT ![l] = Tail(@)]
      /\ SendToDev(l[2], p) /\ rcvd' = rcvd /\ sent' = sent
  BY DEF Receive
<1>2. GroupsOk /\ EgressOk /\ WireOk
  BY TypedIs
<1>3. l[1] \in Switch /\ l[2] \in Switch /\ p \in At(l[2])
  BY <1>2, LinkIs, ReceivedPacket
<1>4. /\ q \in OnWire(l)
      /\ OfFlow(q, f) => Goes(f, <<l[1], 0>>, q.seq)
      /\ \A x \in Place : x[2] = 0 /\ (OfFlow(q, f) => x # <<l[1], 0>>) => Same(f, x)
  BY <1>1, <1>2, WireGoes
<1>5. /\ q.seq \in Int /\ NextHop[l[1]][q.dst] = l[2]
      /\ p.seq = q.seq /\ (OfFlow(p, f) <=> OfFlow(q, f))
  BY <1>4, FloodgateAssumption DEF FloodgateAssumption, OnWire, Packet, OfFlow
<1> HIDE DEF p, q
<1>6. /\ OfFlow(p, f) => /\ Comes(f, <<l[2], k>>, p.seq)
                         /\ \A x \in Place : x[1] = l[2] /\ x[2] > k => NumbersAt(f)[x] = {}
      /\ \A x \in Place : x[2] # 0 /\ (OfFlow(p, f) => x # <<l[2], k>>) => Same(f, x)
  BY <1>1, <1>2, <1>3, SendToDevComes
<1>7. k \in {1, 2}
  OBVIOUS
<1> HIDE DEF k
<1>8. CASE OfFlow(q, f)
  <2> DEFINE a == <<l[1], 0>>
             b == <<l[2], k>>
  <2>1. a \in Place /\ a[1] = l[1] /\ a[2] = 0 /\ b \in Place /\ b[1] = l[2] /\ b[2] = k
    BY <1>3, <1>7 DEF Place
  <2>2. \A x \in Place \ {a, b} : Same(f, x)
    BY <1>4, <1>6
  <2>3. Goes(f, a, q.seq) /\ Comes(f, b, q.seq)
    BY <1>4, <1>5, <1>6, <1>8
  <2>4. \A x \in Place : x[1] = l[2] /\ x[2] > k => NumbersAt(f)[x] = {}
    BY <1>5, <1>6, <1>8
  <2> HIDE DEF a, b
  <2>5. Forward(NumbersAt(f), a, b, f[2])
    BY <1>5, <1>7, <1>8, <2>1, <2>4 DEF Forward, OfFlow
  <2> QED BY <1>1, <1>5, <2>1, <2>2, <2>3, <2>5, FlowMoves
<1>9. CASE ~OfFlow(q, f)
  <2>1. \A x \in Place : Same(f, x)
    BY <1>4, <1>5, <1>6, <1>9
  <2> QED BY <1>1, <2>1, FlowStays
<1> QED BY <1>8, <1>9

LEMMA TransmitInOrder ==
  ASSUME Typed, Typed', NEW o \in Port, Transmit(o), NEW f \in Flow, FlowInOrder(f)
  PROVE  OrderStep(f)
<1> DEFINE p == Head(egress[o])
           a == <<o[1], 1>>
           b == <<o[1], 0>>
<1>1. /\ egress[o] # <<>> /\ egress' = [egress EXCEPT ![o] = Tail(@)]
      /\ PutOnWire(o, p) /\ group' = group /\ sent' = sent
  BY DEF Transmit
<1>2. EgressOk /\ WireOk /\ CountsOk
  BY TypedIs
<1>3. /\ o[1] \in Switch /\ p \in Leaving(o) /\ p \in Packet /\ p.seq \in Int
      /\ NextHop[o[1]][p.dst] = o[2]
  <2>1. o[1] \in Switch /\ p \in Leaving(o)
    BY <1>1, <1>2, PortsAre DEF EgressOk
  <2> HIDE DEF p
  <2> QED BY <2>1, FloodgateAssumption DEF FloodgateAssumption, Leaving, At, Packet
<1>4. /\ OfFlow(p, f) => Goes(f, a, p.seq)
      /\ \A x \in Place : x[2] = 1 /\ (OfFlow(p, f) => x # a) => Same(f, x)
  BY <1>1, <1>2, EgressGoes
<1> HIDE DEF p
<1>5. /\ o \in Link <=> o[2] \in Switch
      /\ o \in Link => rcvd' = rcvd /\ (OfFlow(p, f) => Comes(f, b, p.seq))
      /\ o \notin Link => rcvd'[f] = IF OfFlow(p, f) THEN p.seq ELSE rcvd[f]
      /\ \A x \in Place : x[2] = 0 /\ (OfFlow(p, f) /\ o \in Link => x # b) => Same(f, x)
  BY <1>1, <1>2, <1>3, PutOnWireComes
<1>6. \A x \in Place : x[2] = 2 => Same(f, x)
  BY <1>1, SamePlaces
<1>7. \A x \in Place : x = <<x[1], x[2]>> /\ (x[2] = 0 \/ x[2] = 1 \/ x[2] = 2)
  BY PlaceIs
<1>8. a \in Place /\ a[1] = o[1] /\ a[2] = 1 /\ b \in Place /\ b[1] = o[1] /\ b[2] = 0
  BY <1>3 DEF Place
<1> HIDE DEF a, b
<1>9. CASE ~OfFlow(p, f)
  <2>1. rcvd'[f] = rcvd[f] /\ \A x \in Place : Same(f, x)
    BY <1>4, <1>5, <1>6, <1>7, <1>9
  <2> QED BY <1>1, <2>1, FlowStays
<1>10. CASE OfFlow(p, f) /\ o \in Link
  <2>1. \A x \in Place \ {a, b} : Same(f, x)
    BY <1>4, <1>5, <1>6, <1>7
  <2>2. Forward(NumbersAt(f), a, b, f[2])
    BY <1>7, <1>8 DEF Forward
  <2> QED BY <1>1, <1>3, <1>4, <1>5, <1>8, <1>10, <2>1, <2>2, FlowMoves
<1>11. CASE OfFlow(p, f) /\ o \notin Link
  <2>1. \A x \in Place \ {a} : Same(f, x)
    BY <1>4, <1>5, <1>6, <1>7, <1>11
  <2>2. NextHop[a[1]][f[2]] = o[2] /\ o[2] \notin Switch
    BY <1>3, <1>5, <1>8, <1>11 DEF OfFlow
  <2>3. ASSUME NEW x \in Place, x[1] = a[1], x[2] < a[2] PROVE NumbersAt(f)[x] = {}
    <3>1. x[2] = 0
      BY <1>7, <1>8, <2>3
    <3>2. Towards(x, f) \notin Link
      BY <2>2, <2>3, TowardsIs
    <3> QED BY <3>1, <3>2 DEF NumbersAt, NumbersOf
  <2> QED BY <1>1, <1>3, <1>4, <1>5, <1>8, <1>11, <2>1, <2>2, <2>3, FlowLeaves
<1> QED BY <1>9, <1>10, <1>11

LEMMA DrainOneInOrder ==
  ASSUME Typed, Typed', IdleEmpty, NEW v \in drain.voqs, DrainOne(v),
         NEW f \in Flow, FlowInOrder(f)
  PROVE  OrderStep(f)
<1> DEFINE s == drain.sw
           p == Head1(group[s], v)
           port == <<s, NextHop[s][p.dst]>>
           a == <<s, 2>>
<1>1. /\ \/ /\ egress' = [egress EXCEPT ![port] = Append(@, p)]
            /\ wire' = wire /\ rcvd' = rcvd
         \/ /\ port \in drain.idle /\ PutOnWire(port, p) /\ egress' = egress
      /\ sent' = sent
  BY DEF DrainOne
<1>2. GroupsOk /\ EgressOk /\ WireOk /\ CountsOk /\ DrainOk
  BY TypedIs
<1>3. /\ s \in Switch /\ p \in Waiting(s)
      /\ OfFlow(p, f) => Goes(f, a, p.seq)
      /\ \A x \in Place : x[2] = 2 /\ (OfFlow(p, f) => x # a) => Same(f, x)
  BY <1>2, DrainOneGoes
<1> HIDE DEF p, s
<1>4. /\ p \in Packet /\ p.dst \in Dst /\ p.seq \in Int /\ p \in At(s)
      /\ NextHop[s][p.dst] \in Switch
  BY <1>3, FloodgateAssumption DEF FloodgateAssumption, Waiting, At, Packet, ShouldIgnore
<1>5. port \in Port /\ port \in Link /\ p \in Leaving(port) /\ port[1] = s
  BY <1>3, <1>4, PortsAre DEF Leaving, Link
<1>6. \A x \in Place : x = <<x[1], x[2]>> /\ (x[2] = 0 \/ x[2] = 1 \/ x[2] = 2)
  BY PlaceIs
<1>7. a \in Place /\ a[1] = s /\ a[2] = 2
  BY <1>3 DEF Place
<1>8. \A x \in Place : x[1] = s /\ OfFlow(p, f) => Towards(x, f) = port
  BY DEF Towards, OfFlow
<1> HIDE DEF port
<1>9. CASE egress' = [egress EXCEPT ![port] = Append(@, p)] /\ wire' = wire /\ rcvd' = rcvd
  <2> DEFINE b == <<s, 1>>
  <2>1. b \in Place /\ b[1] = s /\ b[2] = 1
    BY <1>3 DEF Place
  <2>2. /\ OfFlow(p, f) => Comes(f, b, p.seq)
        /\ \A x \in Place : x[2] = 1 /\ (OfFlow(p, f) => x # b) => Same(f, x)
    BY <1>2, <1>4, <1>5, <1>9, EgressComes
  <2>3. \A x \in Place : x[2] = 0 => Same(f, x)
    BY <1>9, SamePlaces
  <2> HIDE DEF a, b
  <2>4. CASE ~OfFlow(p, f)
    <3>1. \A x \in Place : Same(f, x)
      BY <1>3, <1>6, <2>2, <2>3, <2>4
    <3> QED BY <1>1, <1>9, <3>1, FlowStays
  <2>5. CASE OfFlow(p, f)
    <3>1. \A x \in Place \ {a, b} : Same(f, x)
      BY <1>3, <1>6, <2>2, <2>3
    <3>2. Forward(NumbersAt(f), a, b, f[2])
      BY <1>6, <1>7, <2>1 DEF Forward
    <3> QED BY <1>1, <1>3, <1>4, <1>7, <1>9, <2>1, <2>2, <2>5, <3>1, <3>2, FlowMoves
  <2> QED BY <2>4, <2>5
<1>10. CASE port \in drain.idle /\ PutOnWire(port, p) /\ egress' = egress
  <2> DEFINE b == <<s, 0>>
  <2>1. b \in Place /\ b[1] = s /\ b[2] = 0
    BY <1>3 DEF Place
  <2>2. /\ rcvd' = rcvd /\ (OfFlow(p, f) => Comes(f, b, p.seq))
        /\ \A x \in Place : x[2] = 0 /\ (OfFlow(p, f) => x # b) => Same(f, x)
    BY <1>2, <1>5, <1>10, PutOnWireComes
  <2>3. \A x \in Place : x[2] = 1 => Same(f, x)
    BY <1>10, SamePlaces
  <2> HIDE DEF a, b
  <2>4. CASE ~OfFlow(p, f)
    <3>1. \A x \in Place : Same(f, x)
      BY <1>3, <1>6, <2>2, <2>3, <2>4
    <3> QED BY <1>1, <2>2, <3>1, FlowStays
  <2>5. CASE OfFlow(p, f)
    <3>1. \A x \in Place \ {a, b} : Same(f, x)
      BY <1>3, <1>6, <2>2, <2>3
    <3>2. ASSUME NEW x \in Place, x[1] = s, b[2] < x[2], x[2] < a[2] PROVE NumbersAt(f)[x] = {}
      <4>1. x[2] = 1 /\ egress[Towards(x, f)] = <<>>
        BY <1>6, <1>7, <1>8, <1>10, <2>1, <2>5, <3>2 DEF IdleEmpty
      <4> QED BY <4>1, NumbersNone DEF NumbersAt, NumbersOf
    <3>3. Forward(NumbersAt(f), a, b, f[2])
      BY <1>7, <2>1, <3>2 DEF Forward
    <3> QED BY <1>1, <1>3, <1>4, <1>7, <2>1, <2>2, <2>5, <3>1, <3>3, FlowMoves
  <2> QED BY <2>4, <2>5
<1> QED BY <1>1, <1>9, <1>10

LEMMA InitOrder == Init => OrderInv
<1> SUFFICES ASSUME Init PROVE OrderInv
  OBVIOUS
<1>1. IdleEmpty
  BY DEF Init, IdleEmpty, NotDraining
<1>2. ASSUME NEW f \in Flow PROVE FlowInOrder(f)
  <2>1. ASSUME NEW x \in Place PROVE NumbersAt(f)[x] = {} /\ x \in RisingAt(f)
    <3>1. x[1] \in Switch /\ Towards(x, f) \in Port
      BY PlaceIs, TowardsIs
    <3>2. group[x[1]].voqs = <<>> /\ egress[Towards(x, f)] = <<>>
          /\ (Towards(x, f) \in Link => wire[Towards(x, f)] = <<>>)
      BY <3>1 DEF Init, EmptyGroup
    <3>3. GroupNumbers(group[x[1]], f) = {} /\ GroupRising(group[x[1]], f)
      BY <3>2 DEF GroupNumbers, GroupRising
    <3> QED BY <3>2, <3>3, NumbersNone DEF NumbersAt, NumbersOf, RisingAt, RisingOf
  <2>2. NumbersAt(f) \in [Place -> SUBSET Int]
    BY <2>1 DEF NumbersAt, NumbersOf
  <2>3. rcvd[f] = 0 /\ sent[f] = 0
    BY DEF Init
  <2> QED BY <2>1, <2>2, <2>3 DEF FlowInOrder, FlowOk, InPlaceOrder
<1> QED BY <1>1, <1>2 DEF OrderInv

LEMMA NextIdle ==
  ASSUME Typed, IdleEmpty, [Next]_vars
  PROVE  IdleEmpty'
<1>1. ASSUME drain' = NotDraining PROVE IdleEmpty'
  BY <1>1 DEF IdleEmpty, NotDraining
<1>2. ASSUME NEW l \in Link, ResumeVOQWin(l) PROVE IdleEmpty'
  BY <1>2 DEF ResumeVOQWin, Draining, IdleEmpty, NotDraining
<1>3. ASSUME NEW v \in drain.voqs, DrainOne(v) PROVE IdleEmpty'
  <2> DEFINE port == <<drain.sw, NextHop[drain.sw][Head1(group[drain.sw], v).dst]>>
             p == Head1(group[drain.sw], v)
  <2>1. /\ egress' = [egress EXCEPT ![port] = Append(@, p)] \/ egress' = egress
        /\ drain' = Draining(drain.sw, drain.voqs, drain.idle \ {port}, group', wins')
    BY <1>3 DEF DrainOne
  <2>2. drain'.idle \subseteq drain.idle \ {port}
    BY <2>1 DEF Draining, NotDraining
  <2>3. \A o \in drain.idle \ {port} : egress'[o] = egress[o]
    <3> HIDE DEF port
    <3>1. drain.idle \subseteq Port /\ DOMAIN egress = Port
      BY DEF IdleEmpty, Typed
    <3> QED BY <2>1, <3>1
  <2> HIDE DEF port
  <2> QED BY <2>2, <2>3 DEF IdleEmpty
<1>4. CASE UNCHANGED vars
  BY <1>4 DEF vars, IdleEmpty
<1> QED BY <1>1, <1>2, <1>3, <1>4 DEF Next, HostSend, Receive, Transmit

LEMMA NextOrder ==
  ASSUME FloodInv, FloodInv', OrderInv, [Next]_vars
  PROVE  OrderInv' /\ \A f \in Flow : rcvd'[f] \in {rcvd[f], rcvd[f] + 1}
<1>1. Typed /\ Typed' /\ IdleEmpty /\ \A f \in Flow : FlowInOrder(f)
  BY DEF FloodInv, OrderInv
<1>2. ASSUME NEW f \in Flow PROVE OrderStep(f)
  <2>1. FlowInOrder(f)
    BY <1>1
  <2>2. ASSUME group' = group, egress' = egress, wire' = wire, rcvd' = rcvd, sent' = sent
        PROVE  OrderStep(f)
    <3>1. \A x \in Place : Same(f, x)
      BY <2>2 DEF Same, NumbersAt, RisingAt, NumbersOf, RisingOf
    <3> QED BY <1>1, <2>1, <2>2, <3>1, FlowStays
  <2>3. ASSUME NEW g \in Flow, NEW n \in Sizes, HostSend(g, n) PROVE OrderStep(f)
    BY <1>1, <2>1, <2>3, HostSendInOrder
  <2>4. ASSUME NEW l \in Link, Receive(l) PROVE OrderStep(f)
    BY <1>1, <2>1, <2>4, ReceiveInOrder
  <2>5. ASSUME NEW o \in Port, Transmit(o) PROVE OrderStep(f)
    BY <1>1, <2>1, <2>5, TransmitInOrder
  <2>6. ASSUME NEW l \in Link, ResumeVOQWin(l) PROVE OrderStep(f)
    BY <2>2, <2>6 DEF ResumeVOQWin
  <2>7. ASSUME NEW v \in drain.voqs, DrainOne(v) PROVE OrderStep(f)
    BY <1>1, <2>1, <2>7, DrainOneInOrder
  <2>8. CASE UNCHANGED vars
    BY <2>2, <2>8 DEF vars
  <2> QED BY <2>3, <2>4, <2>5, <2>6, <2>7, <2>8 DEF Next
<1>3. IdleEmpty'
  BY <1>1, NextIdle
<1>4. \A f \in Flow : FlowInOrder(f)'
  BY <1>2 DEF OrderStep
<1> QED BY <1>2, <1>3, <1>4 DEF OrderStep, OrderInv

(* No flow is reordered on any route, whatever the packet sizes and windows and
   whichever other flows share its VOQs: the test of m_buffering in CheckVOQWin,
   the FIFO of a VOQ and of a port, and the drain that transmits at once only
   on a port with nothing queued.                                              *)
THEOREM FlowsStayInOrder == Spec => InOrder
<1>1. Init => OrderInv
  BY InitOrder
<1>2. FloodInv /\ FloodInv' /\ OrderInv /\ [Next]_vars => OrderInv'
  BY NextOrder
<1>3. FloodInv /\ FloodInv' /\ OrderInv /\ [Next]_vars
        => [\A f \in Flow : rcvd'[f] \in {rcvd[f], rcvd[f] + 1}]_vars
  BY NextOrder
<1>4. Spec => []FloodInv
  BY Floods
<1> QED BY <1>1, <1>2, <1>3, <1>4, PTL DEF Spec, InOrder
==============================================================================
