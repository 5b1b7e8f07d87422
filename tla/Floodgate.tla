----------------------------- MODULE Floodgate ------------------------------
(***************************************************************************)
(* Floodgate on a network of switches: SwitchNode::SendToDev with its VOQ  *)
(* gate CheckVOQWin, SwitchNotifyDequeue with the credits it counts and    *)
(* returns, ResumeVOQWin with the draining of the VOQs, and the window,    *)
(* buffering and credit tables of SwitchMmu they work on.  Modelled: the   *)
(* relative credits (switch_absolute_psn = 0) without a credit timer       *)
(* (switch_credit_interval = 0), on links that lose nothing.  PFC and the  *)
(* scheduling of a port only delay a packet: they are the choice of when   *)
(* Transmit happens.                                                       *)
(***************************************************************************)
EXTENDS VOQGroup

CONSTANTS
  Switch,       \* the switches
  Ports,        \* stands for the devices of a ToR its own hosts are on
  NextHop,      \* NextHop[s][d]: the next switch, or d itself at its own ToR
  Flow,         \* pairs <<ToR of the sender, destination>> that carry data
  Win,          \* Win[s][d]: the window BDPMAP gives switch s for d
  Sizes,        \* packet sizes
  MaxPkts,      \* bound: packets a flow sends
  IngressMode,  \* switch_ack_mode: SWITCH_INGRESS_CREDIT, else _DST_CREDIT
  K,            \* switch_byte_counter
  DelayAck,     \* switch_ack_th_m > 0
  ThAck         \* m_th_ack

(* The hops between switches: credits are counted at the far end of one.   *)
Link == {<<s, NextHop[s][d]>> : s \in Switch, d \in Dst} \cap (Switch \X Switch)

(* The output ports: a switch's towards a switch or towards a host of its. *)
Port == {<<s, NextHop[s][d]>> : s \in Switch, d \in Dst}

ASSUME FloodgateAssumption ==
  /\ Switch \cap Dst = {} /\ Ports \notin Switch \cup Dst
  /\ NextHop \in [Switch -> [Dst -> Switch \cup Dst]]
  /\ \A s \in Switch, d \in Dst : NextHop[s][d] \in (Switch \ {s}) \cup {d}
  /\ Flow \subseteq Switch \X Dst
  /\ Win \in [Switch -> [Dst -> Nat]]
  /\ Sizes \subseteq Nat \ {0}
  /\ K \in Nat \ {0} /\ ThAck \in Nat /\ MaxPkts \in Nat
  /\ IngressMode \in BOOLEAN /\ DelayAck \in BOOLEAN

VARIABLES
  wins,       \* m_wins of each switch
  group,      \* its VOQGroup
  buffering,  \* m_buffering: bytes of a destination in the VOQs
  egress,     \* the data queue of each output port
  wire,       \* data packets between two switches
  credits,    \* m_ingressDstCredits[dev][dst], dev the far end of a link
  acks,       \* SwitchACKs travelling back on a link
  drain,      \* the VOQs a received SwitchACK is draining, see Draining
  sent, rcvd  \* packets sent by, and last packet delivered of, each flow

queueVars == <<wins, group, buffering>>
creditVars == <<credits, acks>>
vars == <<wins, group, buffering, egress, wire, credits, acks, drain, sent, rcvd>>

NotDraining == [voqs |-> {}, idle |-> {}, sw |-> Ports]

Init ==
  /\ wins = Win
  /\ group = [s \in Switch |-> EmptyGroup]
  /\ buffering = [s \in Switch |-> [d \in Dst |-> 0]]
  /\ egress = [p \in Port |-> <<>>]
  /\ wire = [l \in Link |-> <<>>]
  /\ credits = [l \in Link |-> [d \in Dst |-> 0]]
  /\ acks = [l \in Link |-> <<>>]
  /\ drain = NotDraining
  /\ sent = [f \in Flow |-> 0]
  /\ rcvd = [f \in Flow |-> 0]

-----------------------------------------------------------------------------
(* The upstream role: the VOQ gate.                                        *)

(* A ToR neither limits nor counts the traffic to its own hosts.           *)
ShouldIgnore(s, d) == NextHop[s][d] \notin Switch

(* Whether p fits the window w leaves it. *)
CheckDstWin_Strict(w, s, p) == p.size < w[s][p.dst]
CheckDstWin(w, s, p) == p.size <= w[s][p.dst]

PassesGate_NoWindow(s, p) == ShouldIgnore(s, p.dst) \/ buffering[s][p.dst] = 0
PassesGate_NoOrder(s, p) == ShouldIgnore(s, p.dst) \/ CheckDstWin(wins, s, p)
PassesGate(s, p) ==
  \/ ShouldIgnore(s, p.dst)
  \/ CheckDstWin(wins, s, p) /\ buffering[s][p.dst] = 0

(* SendToDev of a data packet: to the egress queue, or into a VOQ.         *)
SendToDev(s, p) ==
  LET port == <<s, NextHop[s][p.dst]>>
  IN  \/ /\ PassesGate(s, p)
         /\ wins' = IF ShouldIgnore(s, p.dst) THEN wins
                    ELSE [wins EXCEPT ![s][p.dst] = @ - p.size]
         /\ egress' = [egress EXCEPT ![port] = Append(@, p)]
         /\ UNCHANGED <<group, buffering>>
      \/ /\ ~PassesGate(s, p)
         /\ group' = [group EXCEPT ![s] = Enqueue(@, p.dst, p)]
         /\ buffering' = [buffering EXCEPT ![s][p.dst] = @ + p.size]
         /\ UNCHANGED <<wins, egress>>

-----------------------------------------------------------------------------
(* The downstream role: counting and returning credits.                    *)

AddCreditCounter(s, p) ==
  IF p.in = Ports THEN credits
  ELSE [credits EXCEPT ![<<p.in, s>>][p.dst] = @ + p.size]

(* GetIngressDstCreditCounter: nothing while too much of d is buffered.    *)
Owed_Eager(c, l, d, buf) == c[l][d]
Owed(c, l, d, buf) == IF DelayAck /\ buf[d] > ThAck THEN 0 ELSE c[l][d]

(* The content of a SwitchACK (GetSwitchACKTag): in the ingress mode the   *)
(* counters of every destination, else the one of d.                       *)
SwitchACK(c, l, d, buf) ==
  [e \in Dst |-> IF IngressMode \/ e = d THEN Owed(c, l, e, buf) ELSE 0]

CheckCreditCounter(c, l, d, buf, th) ==
  SumFunction(SwitchACK(c, l, d, buf)) >= th

Upstreams(s) == {l \in Link : l[2] = s}

(* The upstreams whose counter is compared with K when s has sent p: the   *)
(* one p came from or, under delayed ACKs, all.                            *)
Checked_Own(s, p) == {<<p.in, s>>}
Checked(s, p) == IF DelayAck THEN Upstreams(s) ELSE {<<p.in, s>>}

(* The upstreams SwitchNotifyDequeue returns credits to: the checked ones  *)
(* with K bytes; if none has and nothing of p.dst is buffered, all that    *)
(* have any.                                                               *)
ToReturn(s, c, p, buf) ==
  LET due   == {l \in Checked(s, p) : CheckCreditCounter(c, l, p.dst, buf, K)}
      flush == {l \in Upstreams(s) : CheckCreditCounter(c, l, p.dst, buf, 1)}
  IN  IF due = {} /\ K > 1 /\ buf[p.dst] = 0 THEN flush ELSE due

(* What is left of the counters of a link when tag has been sent.          *)
CleanCreditCounter(counters, tag) == [d \in Dst |-> counters[d] - tag[d]]

(* The credit part of SwitchNotifyDequeue; buf is m_buffering of s then.   *)
SwitchNotifyDequeue(s, p, buf) ==
  IF p.in = Ports THEN UNCHANGED creditVars
  ELSE LET c    == AddCreditCounter(s, p)
           back == ToReturn(s, c, p, buf)
           tag(l) == SwitchACK(c, l, p.dst, buf)
       IN  /\ credits' = [l \in Link |->
                            IF l \in back THEN CleanCreditCounter(c[l], tag(l))
                            ELSE c[l]]
           /\ acks' = [l \in Link |->
                         IF l \in back THEN Append(acks[l], tag(l)) ELSE acks[l]]

(* TransmitStart: onto the wire, or to the host at the last switch.        *)
PutOnWire(port, p) ==
  IF port \in Link
  THEN wire' = [wire EXCEPT ![port] = Append(@, p)] /\ UNCHANGED rcvd
  ELSE rcvd' = [rcvd EXCEPT ![<<p.src, p.dst>>] = p.seq] /\ UNCHANGED wire

-----------------------------------------------------------------------------
(* While a switch drains its VOQs, within one event, nothing else happens. *)

Sendable(s, v, g, w) ==
  v \in DOMAIN g[s].voqs /\ g[s].voqs[v] # <<>> /\
    CheckDstWin(w, s, Head1(g[s], v))

(* Go on draining the queues vs of s as long as one head may leave.        *)
Draining(s, vs, idle, g, w) ==
  IF \E v \in vs : Sendable(s, v, g, w)
  THEN [voqs |-> vs, idle |-> idle, sw |-> s]
  ELSE NotDraining

(* A packet of flow f from a host of its ToR reaches the ToR.              *)
HostSend(f, n) ==
  /\ drain = NotDraining
  /\ sent[f] < MaxPkts
  /\ sent' = [sent EXCEPT ![f] = @ + 1]
  /\ SendToDev(f[1], [src |-> f[1], dst |-> f[2], seq |-> sent[f] + 1,
                      size |-> n, in |-> Ports])
  /\ UNCHANGED <<wire, credits, acks, drain, rcvd>>

(* A data packet reaches the switch at the end of link l.                  *)
Receive(l) ==
  /\ drain = NotDraining
  /\ wire[l] # <<>>
  /\ wire' = [wire EXCEPT ![l] = Tail(@)]
  /\ SendToDev(l[2], [Head(wire[l]) EXCEPT !.in = l[1]])
  /\ UNCHANGED <<credits, acks, drain, sent, rcvd>>

(* A port takes its next data packet.                                      *)
Transmit(port) ==
  /\ drain = NotDraining
  /\ egress[port] # <<>>
  /\ egress' = [egress EXCEPT ![port] = Tail(@)]
  /\ PutOnWire(port, Head(egress[port]))
  /\ SwitchNotifyDequeue(port[1], Head(egress[port]), buffering[port[1]])
  /\ UNCHANGED <<wins, group, buffering, drain, sent>>

(* RecoverWin and UpdateWin: the windows of s after a SwitchACK.           *)
RecoverWin_Reset(s, tag) ==
  [d \in Dst |-> IF tag[d] > 0 THEN Win[s][d] ELSE wins[s][d]]
RecoverWin(s, tag) ==
  [d \in Dst |-> IF ShouldIgnore(s, d) THEN wins[s][d] ELSE wins[s][d] + tag[d]]

(* ResumeVOQWin: the upstream of l restores its windows and turns to its   *)
(* VOQs: to those of every destination with a window (ingress mode), or to *)
(* the one of the destination the SwitchACK is for.                        *)
ResumeVOQWin(l) ==
  LET u   == l[1]
      tag == Head(acks[l])
      ds  == {d \in Dst : ~ShouldIgnore(u, d)
                /\ IF IngressMode THEN wins'[u][d] > 0 ELSE tag[d] > 0}
  IN  /\ drain = NotDraining
      /\ acks[l] # <<>>
      /\ acks' = [acks EXCEPT ![l] = Tail(@)]
      /\ wins' = [wins EXCEPT ![u] = RecoverWin(u, tag)]
      /\ drain' = Draining(u, FindVOQs(group[u], ds),
                           {p \in Port : p[1] = u /\ egress[p] = <<>>}, group, wins')
      /\ UNCHANGED <<group, buffering, egress, wire, credits, sent, rcvd>>

(* CheckAndSendOne on a VOQ being drained: its head leaves for the egress  *)
(* queue.  If the port is idle, SwitchSend transmits it within the call,   *)
(* before the next packet of the VOQ is looked at.                         *)
DrainOne(v) ==
  LET s    == drain.sw
      p    == Head1(group[s], v)
      port == <<s, NextHop[s][p.dst]>>
  IN  /\ v \in drain.voqs
      /\ Sendable(s, v, group, wins)
      /\ wins' = [wins EXCEPT ![s][p.dst] = @ - p.size]
      /\ buffering' = [buffering EXCEPT ![s][p.dst] = @ - p.size]
      /\ group' = [group EXCEPT ![s] = Dequeue(@, v, buffering'[s][p.dst] > 0)]
      /\ \/ /\ egress' = [egress EXCEPT ![port] = Append(@, p)]
            /\ drain' = Draining(s, drain.voqs, drain.idle \ {port}, group', wins')
            /\ UNCHANGED <<wire, credits, acks, rcvd>>
         \/ /\ port \in drain.idle
            /\ PutOnWire(port, p)
            /\ SwitchNotifyDequeue(s, p, buffering'[s])
            /\ drain' = Draining(s, drain.voqs, drain.idle \ {port}, group', wins')
            /\ UNCHANGED egress
      /\ UNCHANGED sent

Next ==
  \/ \E f \in Flow, n \in Sizes : HostSend(f, n)
  \/ \E l \in Link : Receive(l)
  \/ \E p \in Port : Transmit(p)
  \/ \E l \in Link : ResumeVOQWin(l)
  \/ \E v \in drain.voqs : DrainOne(v)

Spec == Init /\ [][Next]_vars

(* Every event queue entry is executed: a port transmits, a link delivers  *)
(* and a handler runs to its end.  Hosts need not send.                    *)
Fairness ==
  /\ \A l \in Link : WF_vars(Receive(l)) /\ WF_vars(ResumeVOQWin(l))
  /\ \A p \in Port : WF_vars(Transmit(p))
  /\ WF_vars(\E v \in drain.voqs : DrainOne(v))

FairSpec == Spec /\ Fairness

-----------------------------------------------------------------------------
(* The bytes for d, among those from the switches ins, in a queue, in the  *)
(* VOQs of s and in all of s.                                              *)
Counted(p, d, ins) == IF p.dst = d /\ p.in \in ins THEN p.size ELSE 0

Bytes(q, d, ins) == SumFunction([i \in DOMAIN q |-> Counted(q[i], d, ins)])

VOQBytes(s, d, ins) ==
  SumFunction([v \in DOMAIN group[s].voqs |-> Bytes(group[s].voqs[v], d, ins)])

Held(s, d, ins) ==
  VOQBytes(s, d, ins) + Bytes(egress[<<s, NextHop[s][d]>>], d, ins)

InFlight(l, d) == Bytes(egress[l], d, Switch \cup {Ports}) + Bytes(wire[l], d, Switch \cup {Ports})

InAcks(l, d) == SumFunction([i \in DOMAIN acks[l] |-> acks[l][i][d]])

Packet == [src : Switch, dst : Dst, seq : 1..MaxPkts, size : Sizes,
           in : Switch \cup {Ports}]

(* The types of the variables; a window that wrapped would leave its range. *)
TypeOK ==
  /\ \A s \in Switch, d \in Dst : wins[s][d] \in 0..Win[s][d]
  /\ \A s \in Switch : /\ Range(group[s].voqs) \subseteq Seq(Packet)
                       /\ DOMAIN group[s].dst2voq \subseteq Dst
  /\ buffering \in [Switch -> [Dst -> Nat]]
  /\ egress \in [Port -> Seq(Packet)]
  /\ wire \in [Link -> Seq(Packet)]
  /\ credits \in [Link -> [Dst -> Nat]]
  /\ acks \in [Link -> Seq([Dst -> Nat])]
  /\ sent \in [Flow -> 0..MaxPkts] /\ rcvd \in [Flow -> 0..MaxPkts]

(* No flow is reordered, although a small packet may fit a window that the
   packet before it does not: what the buffering test of CheckVOQWin
   (switch-node.cc:547) is for, through every VOQ on the path.             *)
InOrder == [][\A f \in Flow : rcvd'[f] \in {rcvd[f], rcvd[f] + 1}]_vars

(* m_buffering, m_dst2voq and the VOQs agree: a destination's packets are all
   in the queue FindVOQId names (the assert of VOQDequeueCallback), their
   bytes are counted, and under dynamic hashing bindings and queues exist
   exactly while they are used, so that neither ids nor VOQs leak.         *)
VOQsConsistent ==
  \A s \in Switch :
    LET g == group[s]
    IN  /\ \A v \in DOMAIN g.voqs : \A i \in DOMAIN g.voqs[v] :
              FindVOQId(g, g.voqs[v][i].dst) = v
        /\ \A d \in Dst : buffering[s][d] = VOQBytes(s, d, Switch \cup {Ports})
        /\ VoqLimit > 0 => DOMAIN g.voqs \subseteq 0..(VoqLimit - 1)
        /\ DynamicHash => /\ DOMAIN g.dst2voq = {d \in Dst : buffering[s][d] > 0}
                          /\ \A v \in DOMAIN g.voqs : g.voqs[v] # <<>>

(* No missed wake-up: between two events no VOQ has a head its window would
   let go.  Nothing but ResumeVOQWin looks at the VOQs, so a head it leaves
   behind may wait for ever.                                               *)
HeadsBlocked ==
  drain = NotDraining =>
    \A s \in Switch : \A v \in DOMAIN group[s].voqs :
      group[s].voqs[v] # <<>> =>
        LET p == Head1(group[s], v) IN p.size > wins[s][p.dst]

(* What of a configuration keeps the network from coming to rest: a credit
   counter below K leaves room for a packet in the window it is missing from;
   every switch a packet waits for is nearer to its destination, and to those
   that share a VOQ with it, by some rank; and the traffic of hosts and that
   of other switches to one destination do not meet in its sender's ToR.    *)
RoomToReturn ==
  \A s \in Switch, d \in Dst, n \in Sizes : ~ShouldIgnore(s, d) => n + K - 1 <= Win[s][d]

MayShareVOQ(d, e) ==
  d = e \/ (VoqLimit > 0 /\ (DynamicHash \/ Hash[d] = Hash[e]))

Layered(rank) ==
  \A s \in Switch, d, e \in Dst :
    /\ MayShareVOQ(d, e) /\ ~ShouldIgnore(s, d) /\ ~ShouldIgnore(s, e)
    /\ ~ShouldIgnore(NextHop[s][e], e)
    => rank[NextHop[s][e]][e] < rank[s][d]

SourcesAtEdge ==
  \A l \in Link, f \in Flow :
    l[2] = f[1] /\ NextHop[l[1]][f[2]] = l[2] => ShouldIgnore(f[1], f[2])

(* Nothing is on its way any more. *)
Quiet ==
  /\ drain = NotDraining
  /\ \A p \in Port : egress[p] = <<>>
  /\ \A l \in Link : wire[l] = <<>> /\ acks[l] = <<>>

(* Once the network is quiet every credit has been returned: what the flush
   of SwitchNotifyDequeue is for (switch-node.cc:479).                     *)
NoStrandedCredits == Quiet => \A l \in Link, d \in Dst : credits[l][d] = 0

(* The network never comes to rest with packets in a VOQ: the windows, VOQs
   and credits of several hops cannot deadlock.                            *)
NothingStuck == Quiet => \A s \in Switch, d \in Dst : buffering[s][d] = 0

(* While more than m_th_ack bytes of a destination are buffered no SwitchACK
   that leaves returns credits for it (delayed ACKs), not even one triggered
   by another destination.                                                 *)
HoldBack ==
  [][\A l \in Link, d \in Dst :
       DelayAck /\ buffering[l[2]][d] > ThAck /\ buffering'[l[2]][d] > ThAck
         => InAcks(l, d)' <= InAcks(l, d)]_vars

(* Each hop a destination takes between two switches is an abstract loop of
   one window.                                                             *)
Hops == {h \in Link \X Dst : NextHop[h[1][1]][h[2]] = h[1][2]}

Hop(l, d) ==
  INSTANCE CreditLoop WITH
    Window <- Win[l[1]][d],
    win <- wins[l[1]][d], inflight <- InFlight(l, d),
    held <- Held(l[2], d, {l[1]}), credit <- credits[l][d],
    ack <- InAcks(l, d)

(* Every byte of a window is in exactly one place: in m_wins, in a data
   packet, in the next switch, in its credit counter or in a SwitchACK. No
   step of the network (AddCreditCounter, CleanIngressDstCreditCounter,
   UpdateWin and what lies between) moves it but as the loop does, and the
   steps of one hop leave the windows of all others alone.                 *)
HopsImplementLoop ==
  /\ \A h \in Hops : Hop(h[1], h[2])!Init
  /\ [][\A h \in Hops :
          [Hop(h[1], h[2])!Next]_(Hop(h[1], h[2])!vars)]_vars

(* Every packet a host sends is delivered.                                 *)
AllDelivered ==
  \A f \in Flow : \A n \in 1..MaxPkts : (sent[f] = n) ~> (rcvd[f] >= n)
=============================================================================
