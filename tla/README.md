# A TLA+ verification of Floodgate-NS3

Floodgate is a flow control for data centre switches: every switch limits, per
destination, the bytes it has outstanding at the next switch, keeps what
exceeds that window in virtual output queues (VOQs), and gets its window back
as *SwitchACKs* (credits) when the next switch has sent the bytes on. This
repository is its simulator: stock ns-3, the RDMA simulator of HPCC, and
Floodgate in `src/point-to-point`. The TLA+ modules here model the switch, its
buffers and the transport of the hosts; paths below are relative to the
repository.

## The parts of the system

| Part | State it keeps | Operations | What makes it correct |
|---|---|---|---|
| VOQ group (`util/voq-group.cc`, `util/voq.cc`) | queues by id, `m_dst2voq` | find, get or create, enqueue, check and send, release | a destination has one queue at a time; ids do not leak |
| Floodgate gate and windows (`switch-node.cc`, `switch-mmu.cc`) | `m_wins`, `m_buffering` | `CheckVOQWin`, `ResumeVOQWin`, `CheckAndSendVOQ` | a byte of the window is somewhere exactly once; flows stay in order; no VOQ is forgotten |
| Credits (`switch-node.cc:414`, `switch-mmu.cc:430`) | `m_ingressDstCredits` | count on dequeue, return at K bytes, hold back (delayed ACKs), flush | every credit comes back once, and in the end |
| Credit timer (`switch-mmu.cc:442`) | `m_creditTimer`, `m_ingressLastTime` | arm, expire, send | what K does not return the timer does |
| Absolute PSNs and SYN (`switch-mmu.cc:313`, `587`, `switch-node.cc:684`) | sent, received, acknowledged PSNs per hop | tag, acknowledge, time out, resynchronise | windows survive the loss of data and of SwitchACKs |
| Shared buffer and PFC (`switch-mmu.cc:70`-`137`) | `ingress_bytes`, `hdrm_bytes`, `shared_used_bytes`, `paused` | admit, release, pause, resume | exact accounting, no overrun, every pause ends |
| Port (`qbb-net-device.cc`, `broadcom-egress-queue.cc`) | egress queues, `m_paused`, transmitter state | enqueue, round robin, transmit, receive, take down | paused queues do not send; pauses and resumes match |
| RDMA transport (`rdma-hw.cc`, `rdma-queue-pair.cc`) | `snd_una`, `snd_nxt`, outstanding packets, messages, timers, receiver's expected sequence | send, ACK, NACK, timeout, recover | acknowledged is received; complete once, and in the end; the window bounds what is under way |
| Congestion control (`rdma-hw.cc:978` on) | rates and windows | DCQCN, HPCC, TIMELY, DCTCP | rates stay in range |
| Experiment script (`scratch/third.cc`) | topology, routes, `BDPMAP` | set-up, link failure, output | routes follow the links that are up |

A switch receives a packet (`QbbNetDevice::Receive`) and in one event admits it
to the buffer, possibly pauses the sender, and puts it into an egress queue or
a VOQ (`SendToDev`). `SwitchSend` transmits at once when the port is idle, and
transmission calls back into `SwitchNotifyDequeue`, which releases the buffer,
possibly resumes the sender, and counts and returns credits. A SwitchACK
that arrives restores windows and drains VOQs, and every packet it drains goes
through `SwitchSend`, hence possibly through `SwitchNotifyDequeue`, inside the
loop that drains. Switches interact through packets, SwitchACKs and PFC frames
only, each with a delay, and all with FIFO order per link and priority.

What is hard here: the window of a destination is spread over two switches and
the packets and SwitchACKs between them; VOQs are shared by destinations;
credits depend on what is buffered at the moment; the buffer counts packets in
and out of three pools; PFC frames race the packets they are to stop. The list
of hazards, with lines and the properties that cover them, is in
`PROJECT.json`.

## The modules

| Module | Models |
|---|---|
| `VOQGroup` | `VOQGroup` and `VOQ` as operators on a record of queues and bindings |
| `Floodgate` | a network of switches: gate, windows, credits, SwitchACKs, draining |
| `CreditLoop` | the promise of one hop: an abstract loop of one window |
| `CreditTimer` | the credit timer of a downstream switch, with a clock |
| `AckLoop` | the promise of one hop with absolute PSNs: sent, given up, acknowledged |
| `AbsolutePSN` | one lossy hop with absolute PSNs and SwitchSYNs |
| `MCFloodgate` | a tree of four switches for TLC, with the ranks its routes descend |
| `PfcMmu` | the ingress accounting of one switch, PFC frames and the senders they pause |
| `MCPfcMmu` | instances for TLC, and its liveness property |
| `Transfer` | the promise of one RDMA flow: delivered, acknowledged, done |
| `GoBackN` | one flow over one path: go-back-N and go-back-to-0 |
| `PacketLevel` | one flow over many paths: packet-level routing |
| `SumLemmas` | lemmas on sums over functions and sequences |
| `FloodgateProofs`, `CreditLoopProofs`, `CreditTimerProofs`, `AbsolutePSNProofs`, `PfcMmuProofs`, `GoBackNProofs`, `PacketLevelProofs` | the theorems |

Operators named `Op_Variant` before an operator `Op` are defective variants of
it, one per plausible slip in that code (a dropped test, a missing reset);
no specification uses them. They serve to show that each property notices the
slip.

### Floodgate

One step is one ns-3 event, or the part of it before something observable can
be reordered: `HostSend` and `Receive` are `SendToDev` for a packet of a host
and of a link, `Transmit` is a port taking its next data packet with
`SwitchNotifyDequeue`, `ResumeVOQWin` a SwitchACK. The draining that
`ResumeVOQWin` starts goes packet by packet, `DrainOne`, while `drain` keeps
everything else waiting: the order of the VOQs and whether a port was idle,
so that its packet leaves inside the drain, are choices. The round robin of
`CheckAndSendVOQ` is one of these orders.

| Variable | Code |
|---|---|
| `wins`, `buffering`, `credits` | `m_wins`, `m_buffering`, `m_ingressDstCredits` |
| `group` | the `VOQGroup` of the switch |
| `egress`, `wire`, `acks` | data queue of a port, packets and SwitchACKs on a link |
| `drain` | position inside `CheckAndSendVOQ` |
| `sent`, `rcvd` | the hosts |

Abstractions. Packets carry sender ToR, destination, sequence number, size and
ingress. The next hop of a destination is a constant: one path. There is one
VOQ group per switch; the separate groups of `RESET_ISOLATE_DIFFGROUP` share
less. `FloodgateAssumption` says that no switch routes to itself; routes may otherwise be
any, loops included, until `NeverStuck`. A port's scheduling, PFC and transmission
time are the freedom of when
`Transmit` happens; data is one priority, as in all configurations.
`m_wins` starts full where the code fills an entry on first use. Statistics and
INT headers are left out.

Settings modelled: `SWITCH_DST_CREDIT` and `SWITCH_INGRESS_CREDIT`, any K,
`switch_ack_th_m` on or off, static, dynamic and no hashing. `switch_credit_interval` > 0 (the credit timer)
and `switch_absolute_psn` with loss have modules of their own; not modelled are
`reset_only_ToR_switch_win` and `HOST_PER_PACKET_ACK`.

### CreditLoop

Five counters of bytes (window, in flight, held, credit, in SwitchACKs) and
the six ways bytes move. `Hop(l, d)` in `Floodgate` maps the link `l` and the
destination `d` routed over it to a loop, and every step of the network is a step
of the loop of each hop or leaves it alone (`HopsImplementLoop`, checked by TLC and
proved). That no byte of a window is lost or restored twice is then a theorem
about the loop.

### CreditTimer

A switch has one credit timer for all its upstreams. It is armed for whoever was
sent a SwitchACK the longest ago, cancelled and armed anew at every SwitchACK.

| Variable | Code |
|---|---|
| `credits` | `m_ingressDstCredits` |
| `held` | whether `m_buffering` of a destination is above `m_th_ack` |
| `age` | `Simulator::Now() - m_ingressLastTime`, `Never` for `Time(0)` |
| `timer` | `m_creditTimer`: whose it is, and in how long it expires |
| `waiting` | not in the code: for how long credits could have been returned |

| Action | Code |
|---|---|
| `Dequeue` | the credit part of `SwitchNotifyDequeue` with T > 0: count, begin times, return what reaches K |
| `CreditTimeout` | `SwitchMmu::CreditTimeout` |
| `Buffer` | `UpdateBufferingCount` moves a destination across the threshold of delayed SwitchACKs |
| `Tick` | the clock; an expiry that is due comes before it moves |

`ResetCreditTimer` takes the first of several oldest in the order of its loops, the
model any of them. Deadlock is checked: the timer never keeps time from passing
once it has been armed, and before that a packet can always leave.

### AckLoop and AbsolutePSN

With `switch_absolute_psn` a window is no counter but the difference of two PSNs:
the upstream switch numbers the bytes it sends to a destination (`m_nxt_data_psn`), the
downstream switch remembers the number of the last packet that has left it
(`m_nxt_ack_psn`) and returns it in SwitchACKs, which are therefore cumulative. A
SwitchSYN tells the downstream switch what has been sent and what has been
acknowledged; the difference to what has arrived is taken for lost.

| Variable | Code |
|---|---|
| `nxtData`, `rcvAck` | `m_nxt_data_psn`, `m_rcv_ack_psn` of the upstream port |
| `recent` | `m_lstrcv_ack_time` is within the SYN timeout |
| `synTimer` | `m_syn_timeout_event` runs |
| `egress`, `wire`, `acks` | data in the upstream port, and the link each way |
| `rcvData`, `nxtAck`, `lstAck` | `m_rcv_data_psn`, `m_nxt_ack_psn`, `m_lst_ack_psn` of the downstream port |
| `stored` | data the downstream switch stores |
| `forgiven`, `impaired` | not in the code: the last PSN given back before it left, taken for lost by a SYN or overtaken; whether more went wrong than data lost on the link |

| Action | Code |
|---|---|
| `Send` | `CheckDstWin`, `UpdateDataPSN`, for a packet on arrival or from its VOQ |
| `Transmit` | the port takes its next data packet |
| `SynTimeout` | `SynTimeout` with `GetSwitchSYNTag` and the size test of the tag |
| `ReceiveAck` | `ResumeVOQWin`: `UpdateSynTime`, `RecoverWin` |
| `ReceiveData` | `SendToDev`: records the PSN, then admits the packet or drops it |
| `ReceiveSYN` | `ReceiveSYN` with `CheckSYN` and the SwitchACK it sends |
| `Dequeue` | `SwitchNotifyDequeue`: `m_nxt_ack_psn`, the test of K, the flush |
| `ReturnCredit` | a SwitchACK caused by another upstream or destination or by the credit timer |
| `LoseFrame`, `LoseAck` | the error model of the receiving port |

Abstractions. One destination, to which the upstream switch has one port. The downstream
switch may have several, to which `GetOutDev` hashes the flows: packets
leave it in any order (`Leave`), and `m_nxt_ack_psn` is the largest PSN that has left, also
while a smaller one is stored. Other destinations appear as the
SYNs that name them, the SwitchACKs that carry an entry of this one, and the SYN
timer they may have started. A link is FIFO for data; SYNs and SwitchACKs overtake the
data that waits in `egress`, as they use queue 0 of the port. The SYN timeout is periodic, so
"received a SwitchACK within the timeout" is "since it last fired", and no clock is
needed. `Word` is 2^32: `ResumeVOQWin` keeps a PSN in 32 bits before it compares it.
`AckLoop` has three counters, `nxtData`, `nxtAck` and `rcvAck` of `AbsolutePSN`: none
goes back, none passes the next, and the first and last are a window apart.

### PfcMmu

An ingress is a port and a priority (a destination under `PFC_ON_DST`). `Admit`
and `Drop` are the admission in `SendToDev`; `Release` the one in
`SwitchNotifyDequeue`, for a packet of any size up to what is stored: which
packet leaves is the business of the egress side, so the model has more
behaviours than the switch. `ReceivePfc` is `QbbNetDevice::Receive` of a frame
at the far end, `Send` the far end's transmission. `GetPfcThreshold` has all
three modes, with the unsigned wrap of the dynamic one. `stored` is the truth
the counters are compared with; it is not in the code.

### Transfer, GoBackN, PacketLevel

The hosts run one of two transports (`Settings::IsPacketLevelRouting`), which
share their functions and almost none of their state; hence two modules with
one abstract specification. Both model one queue pair with one message
(`qp_mode` off), both its ends and the network between them.

| Action | Code |
|---|---|
| `Send` | `GetNextQindex` picks the flow, `GetNxtPacket` builds the packet and may schedule the timeout |
| `Timeout` | `RdmaQueuePair::RecoverQueue` |
| `ReceiveAck` | `RdmaHw::ReceiveAck`: `Acknowledge`, `QpComplete`, recovery on a NACK, the timeout again |
| `ReceiveUdp` | `RdmaHw::ReceiveUdp` with `ReceiverCheckSeq` (`InOrder`, `OutOfOrder`, `Duplicate`) or `ReceivedAll` |
| `NackTimerExpires` | the clock passes `m_nackTimer` |
| `DropData`, `DropAck` | a switch without room |

Abstractions. There is no clock: a scheduled timeout fires at any time, so
also much too early, and scheduling it again leaves it scheduled. Rate
and PFC are the freedom of when `Send` happens; the window is constant
(`m_var_win` off). Acknowledgements are never wider than the flow, the unsigned
64-bit counters wrap at `Word`. In `GoBackN` a path is FIFO in each direction,
because ECMP hashes a flow to one path; in `PacketLevel` it is a bag. There the
receiver runs `ReceiverCheckSeq` too, but its verdict is overwritten and
`ReceiverNextExpectedSeq` is not sent, so the module leaves it out.
Go-back-to-0 (`BackTo0`, `Chunk`) is part of both, as `ReceiveAck` rounds the number of an
ACK down to its chunk under either transport (`GoBack`). `completed` counts the calls of
`QpComplete`: under packet-level routing one for the ACK with the last-packet tag and one more
for each ACK that comes later, which `qp_finish` (`third.cc:616`) tells from the first
("finished flow finish again"). `lost` bounds the losses.
`GoBackNAssumption` and `PacketLevelAssumption` ask for a chunk of at least 1, by which the
code divides, and the first for an ACK interval of at least 1.

`GoBackN` maps to `Transfer` with the start of the receiver's chunk as what has
been delivered (under go-back-to-0 the receiver may discard the rest),
`PacketLevel` with the bytes of the packets received and the bytes of the
packets sent and no longer kept.

## What the runs show

| Run | Question |
|---|---|
| `incast` | Two ToRs send to one destination, K = 2, two packet sizes: both hops implement `CreditLoop`, so windows are conserved, flows in order, the network never rests with packets in a VOQ. |
| `shared_voq` | Two destinations of one ToR in a single VOQ, dynamic hashing, per-ingress SwitchACKs: bindings, queues and bytes agree, no head is left behind, every packet is delivered (liveness). |
| `delayed_acks` | Three flows of two ToRs in one statically hashed VOQ, per-ingress SwitchACKs: delayed SwitchACKs hold back what they should and return everything in the end. |
| `stranded_credits` | Violation, see below. |
| `pfc` | Two ports with dynamic thresholds: accounting, headroom, pool, pauses, frames, and every pause ends (liveness). |
| `credit_timer` | Two upstreams, two destinations, one time per ingress, delayed SwitchACKs, K = 3: the timer is that of the oldest time, and credits that are not held back wait at most T. |
| `absolute_psn` | One hop that loses packets, SYNs and SwitchACKs, packets that overtake each other in the next switch: PSNs stay in order, the window bounds what is outstanding, the hop implements `AckLoop`, and what the link loses soon after a SwitchACK comes back (liveness). |
| `go_back_n` | Losses, NACKs, premature timeouts: acknowledged is received, the timer is there when needed and gone when done, completion is reported once and, if acknowledgements arrive, in the end (liveness); implements `Transfer`. |
| `packet_level` | The sets of outstanding and timed out packets, the window, the last-packet tag; what is outstanding is under way; implements `Transfer`; what is lost after everything was sent is repaired (liveness). |
| `silent_loss`, `late_ack`, `packet_level_stall` | Violations, see below. |

Bounds. Two upstream ToRs are what a flush or a delayed ACK needs to involve
another upstream; one core and one destination ToR give two hops, so that a
SwitchACK of one meets the draining of the other. Sizes 1 and 2 with windows
of 2 or 3 make a small packet fit where a large one does not. Two or three
packets per flow (`MaxPkts`) fill a window and a VOQ and reuse both. K = 2 is
the smallest that strands a credit. One VOQ for two destinations is the
smallest that shares; three flows that share it (`delayed_acks`) send packets
of one size. For `PfcMmu` reserve, headroom and pool are of the order of a
packet, so every comparison happens on both sides; `MaxStored`, `MaxFlight`
and `MaxFrames` bound what the far ends send and what is under way, and the
reserve, the threshold and the headroom fill up below them. `Word` and
`Infinite` stand for 2^32 and INT_MAX: far from every value that is not the
result of a wrap. In `GoBackN` three packets on the path each way
(`MaxFlight`), two data losses and one of an ACK make gaps, duplicates, NACKs
of a gap seen before and late ACKs all happen; the last packet is shorter than
the others. Windows and go-back-to-0 are covered by the theorems, which hold
for all of them. In `PacketLevel` two copies of each packet and ACK suffice
for a retransmission to overlap its original; the window is two of four
packets, the last of them short.

In `CreditTimer` T = 2 lets times begin at different moments within one period, and
K = 3 with packets of 1 and 2 leaves credits for the timer; `MaxCredit` bounds what is
counted and not returned, above K so that held back credits reach it. The mode per
destination is the subject of the theorems, which hold for both. In
`AbsolutePSN` five bytes (`MaxPsn`) in packets of one and two fill a window of two
more than twice, so a window is lost, recovered and spent again; two frames on the link (`MaxWire`)
let a SYN follow or precede data that is still in the port; two SwitchACKs under way
(`MaxAcks`) and their loss let an old one arrive after a newer one has been lost. `Word`
is above `MaxPsn` there, so that nothing wraps and what is lost must come back: the wrap is
left to the theorems, which hold for every `Word`.

`NothingStuck` in `incast` sees no shared VOQ, as each destination has its own there. That
destinations which share one do not block each other for ever is shown by `HeadsBlocked` and
`AllDelivered` in `shared_voq`, and by the theorem `NeverStuck`, whose ranks include the
destinations of a shared VOQ. `TailIsTimed` of both transports is about a flow that has sent
everything; that a flow which has not has no timer is what `FlowCompletes` finds.

Deadlock. The Floodgate runs do not check it: hosts send a bounded number of
packets and the network then rests; `NothingStuck` and `NoStrandedCredits` say
how it may rest. Nor do those of the transports: a finished flow rests, and how an
unfinished one may is what `TailIsTimed` and `FlowCompletes` are about. `AbsolutePSN`
stops when all bytes of its bound are sent and no timer runs; what may then be
outstanding is what `RecentRecovers` is about. The other runs check it.

Fairness. `Floodgate!FairSpec`: ports, links and handlers go on (weak
fairness), since the simulator executes every scheduled event and a
transmission schedules its own end; hosts need not send. That a port goes on
although PFC may pause it is the subject of `EventuallyResumed`, which assumes in turn
that egress ports drain: a cyclic dependency of paused ports is excluded by the
tree topologies of the repository (traffic goes up, then down). `PfcMmu!FairSpec`:
packets leave, links deliver; senders need not send, and may be starved.
`GoBackN!FairSpec` and `PacketLevel!FairSpec`: a NIC sends when it may (its round
robin skips no queue pair for ever), what the network does not lose arrives, a
scheduled timeout expires; losses are bounded and need not happen.
`AbsolutePSN!FairSpec`: what is on the link is received or lost, the downstream switch goes
on sending, and the SYN timeout is periodic; the upstream port may be paused for
ever, and losses are unbounded. Fairness is strong for the three actions
that a bound of the model (`MaxAcks`, `MaxWire`) and nothing in the code disables for a while.

### Where the code does not do what it says

`switch-node.cc:479` explains that for K > 1 and no timer the last credits
(fewer than K bytes) might never be sent, and that they are therefore flushed when
nothing of the destination is buffered any more. The flush is skipped when the same
dequeue has already sent some credit (`bc ==
switch_byte_credit_counter`, line 484). `stranded_credits`: A and B send through C;
while C has a packet in its VOQ, B's counter at C rises to 1; C's last packet is A's
and brings A's counter to K, so A's credit goes back, the flush is skipped, and
B's credit stays at C. If the window is no larger than the next packet of B, that
packet waits in its VOQ for ever, with no traffic left to trigger a SwitchACK.
With a window of at least K - 1 bytes more than the largest packet the loss of
a few credits does not stop a flow (`incast`: window 3, K = 2); shipped
configurations use K = 1, or K with a timer.

`late_ack`: the timeout of a flow sets `snd_nxt` back to `snd_una`; an ACK still
under way then moves `snd_una` beyond `snd_nxt`, and `GetOnTheFly`, unsigned, is almost
2^64. `m_win` is to bound it (`rdma-queue-pair.h:102`), so the flow sends nothing
until further late ACKs acknowledge all of it. A flow without window
sends on and merely repeats bytes: `AckedIsReceived` and `FlowCompletes`
hold. In packet-level routing the bytes are counted in sets and
`WinBoundsOnTheFly` holds.

`silent_loss`: a SwitchSYN is to name the destinations with bytes in flight and
without a SwitchACK "for a period of time" (`switch-mmu.cc:612`). The test of line 611,
`m_lstrcv_ack_time + timeout >= Now`, holds for those that have had one within
the period. In the run a window is sent and acknowledged, the SYN timer fires once in the
quiet that follows, the next window is lost on the link, and no later timeout
names the destination: the window stays spent. `RecentRecovers` is what does hold, that
data is recovered while SwitchACKs are recent, by a later packet or the SYN. Its exceptions
(`impaired`) are further limits of the code that no line of it denies: if the SYN or its
answer is lost too, one quiet period has passed; a packet the switch drops at admission
has been recorded as received (`switch-node.cc:251`); a switch that holds back the
credits answers with an entry of 0. Nothing at all is recovered before the first
SwitchACK, which alone starts the SYN timer and without which the size of a SYN is 0
(`broadcom-egress-queue.h:304`), nor, per destination, after 4 GB, where `resume`
(`switch-node.cc:601`) wraps.

Seen in the code and not run: `ReceiveUdp` sets the milestone to `m_ack_interval` for every
packet, and `ReceiverCheckSeq` compares it with bytes, so the "number of packets
between ACK generation" (`config_doc.txt:61`) has no effect after the first few
bytes. All shipped configurations use 1, where both readings agree.

`packet_level_stall`: the retransmission timeout is scheduled only once everything
has been sent. A flow larger than its window whose window is lost (or its
ACKs) cannot send, has no timeout, and stops; `settings.cc:18` describes the
timeout also for `send_nxt` before the end. The same condition in go-back-N
stops a flow with a window there, too. One more way for a go-back-N flow
not to end needs no window: if the last ACK is lost every retransmission is
a duplicate, which is not acknowledged. `FlowCompletes` therefore asks for ACKs
that arrive, and `TailCompletes` for losses only after everything was sent.

Also without a run of their own, two remarks on go-back-to-0, which no shipped configuration
turns on. `config_doc.txt:62` has the two values of `L2_BACK_TO_ZERO` the wrong way
round: with 1 the receiver goes back to the start of its chunk on a gap
(`rdma-hw.cc:712`). And under packet-level routing each ACK is for one packet
(`settings.cc:14`), but the sender takes the start of its chunk off the outstanding packets
instead (`rdma-hw.cc:592`): the ACK of packet 2 takes off packet 0, and packet 2 stays
outstanding with nothing of it on its way and nothing lost. Set `BackTo0 = TRUE` with
`Size = 7`, `Mtu = 2`, `Chunk = 4`, `Win = 4`, and TLC refutes `OutstandingUnderWay`. A
flow that goes on after its first chunks collects such packets until they fill its window,
and then, having more to send, has no timer either (`packet_level_stall`): it stops
without any loss. With `BackTo0 = FALSE` the property holds, in `packet_level` and as a theorem.

## What is proved

`FloodgateProofs`, for every set of switches and destinations, routes, flows, windows,
packet sizes, K, mode of SwitchACKs, threshold, hashing and bound, from
`FloodgateAssumption` and `GroupAssumption` (destinations are finitely many, the VOQ
limit and the hash are what the code computes). Its inductive invariant `FloodInv` has
three parts.

- `Typed`: the types, and for each packet where it may be: `At(s)`, `Waiting`,
  `Leaving(port)` and `OnWire(l)` say that a packet is on the route of its
  destination, with the ingress of the link it came by, or of a flow of this
  switch. SwitchACKs carry nothing for a destination that is not routed over their link.
  Without this a credit would be counted at a link whose window never paid for it.
  `GroupOk` is `VOQsConsistent` for one group; it needs bytes and queues to
  agree, because a binding is dropped when the byte counter reads zero.
- `Blocked`: between two events every head is larger than its window, and
  while a switch is draining only heads of the queues still to be drained may leave.
  `HeadsBlocked` alone is not inductive across `DrainOne`.
- `AllConserved`: the bytes of each hop add up to its window. It is not proved
  from scratch: `LoopStep` shows that a step of the network is a step of
  `CreditLoop` on every hop, and the lemma of the loop does the rest. `Typed` in turn
  needs it: a window returned never exceeds the one given.

The theorems follow the code's operations: `EnqueueOk`, `DequeueOk`,
`SendToDevMoves`, `PutOnWireMoves` and `NotifyMoves` say what each does to
queues, bytes and credits, and the step lemmas (`HostSendOk` and so on) put them together.

- `TypeCorrect`, `GroupsAreConsistent`, `NoHeadForgotten`: `TypeOK`, `VOQsConsistent`,
  `HeadsBlocked`.
- `EveryHopIsALoop`: the refinement of `CreditLoop`, for every hop of
  every destination; `BacklogOfHopBounded` carries the bound of the loop over to the
  network: the packets of one upstream for one destination never hold more of the next switch
  than one window.
- `FlowsStayInOrder`: `InOrder`. `OrderInv` numbers the packets of a flow at its places: on the
  wire (0), in the egress queue (1) and in the VOQs (2) of each switch. What was sent and not
  delivered is all somewhere on the route of the flow, numbers rise along a queue, and a packet is before
  those with larger numbers (`FlowOk`). `MovesInOrder`, `EntersInOrder` and `LeavesInOrder`
  say what a move to the next place that is not empty does to that, without the model; the
  lemmas `...Comes` and `...Goes` show that each operation is such moves: the gate passes a
  packet only by an empty VOQ, and the drain transmits at once only
  on a port with nothing queued (`IdleEmpty`). Nothing is assumed of the routes. A
  packet that loops may pass others, so places are ordered by what is reached after a
  switch has been left (`Beyond`), and a switch that is reached again orders nothing;
  from there no packet gets to its host.
- `CreditsAreHeldBack`: `HoldBack`, from what `NotifyMoves` says of every link.
- `NeverStuck`: `NothingStuck`. If a quiet network had packets in a VOQ, take the head
  of one, blocked by `Blocked`. Its window is short of a packet, so by conservation bytes
  of it are held at the next switch or in its credit counter. `Owing` says that a counter at or above
  K is held back by a backlog of that destination, or will be looked at again when a transit
  packet leaves; quiet, only the backlog is left. With less than K in the counter,
  `RoomToReturn` leaves the packet room, so it would not be blocked. Hence
  the next switch has a packet of that destination in a VOQ too, and its queue has a
  head; `Layered` makes this a descent that cannot go on. The hypotheses
  are about the configuration. `RoomToReturn`: a window has room for a packet and K - 1
  bytes. `Layered(rank)`: what a packet waits for is nearer its destination in rank, also
  for the destinations that may share its VOQ. In a two-layer network with shared VOQs each leaf
  waits for a core and a core for a leaf that waits for nobody; with one
  VOQ per destination the number of hops left is a rank on any loop-free route.
  `SourcesAtEdge`: no packet comes by a link to the switch of its sender and
  goes on from there. `MCFloodgate`
  satisfies the last two, which TLC evaluates as `TreeAssumption`, and `incast` and `delayed_acks` the first.
- `NoneStranded`: with K = 1 on top of these `NoStrandedCredits`; for K > 1 it is false, as
  `stranded_credits` shows.

`SumLemmas` has what the sums of the model need: how a sum over a finite set changes with one
of its terms or its domain (`SumChange`, `SumPlus`, `SumMonotone`), and that of a sequence with
`Append` and `Tail`. Induction is out of reach (see below), so each is proved for the least
number for which it would fail.

`CreditLoopProofs`, for every window and packet size: `LoopInv`, the types
with `Conserved`, is inductive. Conservation alone is not: that a
counter does not go below zero is what the guards say, and both together bound
the window and the backlog (`BacklogIsBounded`). The theorems assume `LoopAssumption`.
No run checks the loop by itself: `incast` checks that the network implements it.

`CreditTimerProofs`, for every set of ports and destinations, K, T, packet size and mode,
from `TimerAssumption` only: `TimerInv` is the types with `OldestArmed` and `Covering`,
which says that counted credits are covered by a time that has begun and have waited no
longer than it has run. `ReturnedInTime` needs both: the time is at most T because the
timer follows the oldest, and no time is forgotten. `ResetArms` shows that
`ResetCreditTimer` restores `OldestArmed` whatever happened to the times before.

`AbsolutePSNProofs`, for every packet size, window, K, mode, `Word` and bound and any
losses, from `PSNAssumption` only. `PsnsOrdered` is not inductive: that a packet which
arrives moves no counter past what has been sent needs the order of the packets
(`Rising`: in the port, on the link and in the next switch PSNs rise, whatever SYNs lie
between), and the window needs that a packet under way has not been given up, except by a
SYN or a packet that overtakes it (`UnderWay`).

- `PsnsStayOrdered`: the asserts of `GetInflightBytes` and `GetIngressDstCreditCounter`, so
  their unsigned differences never wrap; also when `resume` does (`Recovering`).
- `WindowBoundsOutstanding`: at most a window lies between the gate and the next
  egress, on top of what a SYN took for lost while it was under way and of what was stored
  when a later packet left by another port, whose PSN acknowledges both.
- `AbsolutePSNIsAckLoop`: the refinement, by `PsnInv` before and after a step.

`PfcMmuProofs`, for every set of ports and priorities, every packet
size, reserve, headroom, threshold, divisor, pool and bound, from
`PfcAssumption` only:

- `AlwaysAccounted`: `TypeOK` and `Accounted` are inductive together;
  a release subtracts safely only because the counters add up to what is stored.
- `PausesAreSound` and `DropsOnlyWhenPaused`: `PauseInv` (headroom bounded,
  headroom implies pause, pause implies something stored) is inductive on top of
  that. Its core is `HeadroomFits`: the admission test and the accounting test
  use different expressions, and a packet admitted by one and not taken to the
  pool by the other still fits the headroom.
- `PoolNeverOvercommitted`: `AdmissionFitsPool` bounds what an ingress may add
  by the threshold, and `DivBound` the threshold by what is left.
- `SharedUseIsExact`: `SharedExact`, by how the sum over the ingresses changes with the one
  a step touches.
- `BufferNeverOverrun`: `BufferBounded`, the sum over all ingresses of what is
  stored: each stores at most its reserve, its headroom and what it takes of the pool,
  and the pool is never overcommitted.
- `ResumesFollowPauses`: `FramesAlternate` is inductive because a switch pauses
  only whom it has not paused; the assert of `Resume` follows.

`GoBackNProofs`, for every flow, packet size, window, ACK interval, chunk, loss and
path, from `GoBackNAssumption` only:

- `TypeCorrect`: `TypeOK` is inductive.
- `AcksAreSound`: `AckInv` is `AckedIsReceived` with the acknowledgements on the
  path as a sequence over the covered ones, a set that only grows:
  `ReceiverMovesOn` shows that whole chunks the receiver has are never given
  up, although the expected sequence number itself goes back within a chunk.
- `TailAlwaysTimed` and `AlwaysQuietWhenDone` are one invariant, `TimerInv`, of
  the sender: each of its handlers tests the timer with the same operator.
- `ReportedOnce`: `LastInv` says that the acknowledgement of the whole flow is the
  last on the path, that nothing is left there once the sender has taken it,
  and that `QpComplete` has run exactly then. `CompletesOnce` alone says nothing of
  what is still on its way.
- `GoBackNIsTransfer`: the refinement; every step of the flow is a step of
  `Transfer` or a stutter, by `AckInv`.

`PacketLevelProofs`, for every flow, packet size, window, loss and order of arrival,
from `PacketLevelAssumption` only. Its byte counts are cardinalities: `PacketsAre`,
`LastIs` and `PayloadIs` say which numbers are packets and how many bytes each has, and
`BytesWith`, `BytesWithout`, `BytesGrow` and `BytesOfFlow` turn the formula of
`GetOnTheFly`, a product with the short last packet taken out, into the sum it is meant
to be. `PacketInv` adds to the properties that `snd_nxt` is a packet or the end, that
only packets below it are missed, and that what is not missed any more has arrived. The
theorems hold for both values of `BackTo0` but for the last two, which are about the sender
that takes off the packet an ACK is for: with chunks they are false, as said above.

- `RetransmitsAreOutstanding` and `WindowHolds`: an ACK takes its packet out of both
  sets or out of the larger one, so a difference of their bytes only falls.
- `LastAckIsTrue`: the last packet is the largest, so that no gap before the largest
  received one means no gap at all (`ReceivedAllIs`).
- `TailAlwaysTimed`: `TailArmed`, the same operator in `Send` and `ReceiveAck`.
- `OutstandingIsUnderWay`: a packet on its way becomes its ACK, and the ACK takes the
  packet off.
- `PacketLevelIsTransfer`: the refinement. The bytes acknowledged are those below
  `snd_nxt` that are not missed, also while they have gaps.

Only model-checked: liveness (`AllDelivered`, `EventuallyResumed`, `FlowCompletes`,
`TailCompletes`, `RecentRecovers`): the prover has neither fairness nor ENABLED. Every
invariant and every action property of the passing runs is proved; `DropOnlyPaused` is
proved only. Of the library's induction
only the least element of a set (`WFMin`, in `LeastNumber` and `FirstPacket`) can be used.

## Not modelled

Left out of the modules above, in the order in which it would be worth adding:

1. `reset_only_ToR_switch_win`: the window is registered under the ToR's id
   (`switch-mmu.cc:209`) and read under the host's, where the map creates a zero, so
   every packet of another rack waits in a VOQ. A model of the mode as written has
   nothing further to check.
2. A lossy link for `PfcMmu`: a resume that is lost pauses the queue for ever.
3. `EgressPort`: `DoDequeueRR` with both pause modes; `PfcLink`: which headroom
   loses nothing at a given delay. Delay and rate are choices in the present modules.
4. `QpMessages`: the messages of a QP (`qp_mode`), their timeouts and recovery, as
   a queue of what `GoBackN` models; the variable window.
5. Several ports of the upstream switch to one destination, whose differences of PSNs `GetInflightBytes`
   adds up, for `AbsolutePSN`; several VOQ groups; `HOST_PER_PACKET_ACK`.
6. `TakeDown` and the re-routing of `third.cc:1049`; DRILL; the DCQCN timers.
Not planned: the rate laws of congestion control (floating point), headers and
tags (serialisation), the flow generator, statistics, and the rest of ns-3.
