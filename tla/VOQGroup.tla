------------------------------ MODULE VOQGroup ------------------------------
(***************************************************************************)
(* The table of virtual output queues of one switch (class VOQGroup).  A   *)
(* group is a value                                                        *)
(*    [voqs |-> VOQs, dst2voq |-> m_dst2voq]                               *)
(* whose two fields are the maps of the class: the VOQs that exist, by id, *)
(* each the FIFO of its packets, and, under dynamic hashing, the VOQ each  *)
(* destination is bound to.  The operators return the changed value; the   *)
(* specification that extends the module keeps it in a variable.           *)
(***************************************************************************)
EXTENDS Integers, Sequences, FiniteSets, FiniteSetsExt, Functions

CONSTANTS
  Dst,          \* destination host ids
  VoqLimit,     \* m_voq_limit, 0 for one VOQ per destination
  DynamicHash,  \* m_dynamic_hash
  Hash          \* APHash(dst) % m_voq_limit, by destination

(* With no limit and dynamic hashing GetVOQ never creates a queue and its   *)
(* last assert fails: the configuration is meaningless.                    *)
ASSUME GroupAssumption ==
  /\ Dst \subseteq Nat /\ IsFiniteSet(Dst)
  /\ VoqLimit \in Nat
  /\ DynamicHash \in BOOLEAN
  /\ VoqLimit = 0 => ~DynamicHash
  /\ VoqLimit > 0 => Hash \in [Dst -> 0..(VoqLimit - 1)]

NoVOQ == -1

EmptyGroup == [voqs |-> <<>>, dst2voq |-> <<>>]

FindVOQId(g, d) ==
  IF VoqLimit = 0 THEN d
  ELSE IF ~DynamicHash THEN Hash[d]
  ELSE IF d \in DOMAIN g.dst2voq THEN g.dst2voq[d] ELSE NoVOQ

(* The search for a free id has no break, so it ends with the largest one. *)
GetVOQId(g, d) ==
  LET free == (0..(VoqLimit - 1)) \ DOMAIN g.voqs
  IN  IF FindVOQId(g, d) # NoVOQ THEN FindVOQId(g, d)
      ELSE IF free # {} THEN Max(free) ELSE Hash[d]

(* The ids FindVOQ finds a queue under, for a set of destinations.         *)
FindVOQs(g, ds) == {FindVOQId(g, d) : d \in ds} \cap DOMAIN g.voqs

Head1(g, v) == Head(g.voqs[v])

(* GetVOQ(d)->Enqueue(p): the queue is created, and d bound to it, at need. *)
Enqueue(g, d, p) ==
  LET v   == GetVOQId(g, d)
      old == IF v \in DOMAIN g.voqs THEN g.voqs[v] ELSE <<>>
  IN  [voqs    |-> [i \in DOMAIN g.voqs \cup {v} |->
                      IF i = v THEN Append(old, p) ELSE g.voqs[i]],
       dst2voq |-> IF DynamicHash
                   THEN [e \in DOMAIN g.dst2voq \cup {d} |->
                           IF e = d THEN v ELSE g.dst2voq[e]]
                   ELSE g.dst2voq]

(* Whether the binding of a destination goes when a packet of it has left  *)
(* its queue and rest is what is left there.                               *)
Unbinds_WhenEmpty(rest, stillBuffered) == DynamicHash /\ rest = <<>>
Unbinds(rest, stillBuffered) == DynamicHash /\ ~stillBuffered

(* Pop the head of queue v, then VOQDequeueCallback: when its destination  *)
(* has nothing buffered any more the binding goes, and the queue with it   *)
(* if it is empty.                                                         *)
Dequeue(g, v, stillBuffered) ==
  LET d       == Head1(g, v).dst
      rest    == Tail(g.voqs[v])
      unbind  == Unbinds(rest, stillBuffered)
      release == unbind /\ rest = <<>>
  IN  [voqs    |-> IF release THEN Restrict(g.voqs, DOMAIN g.voqs \ {v})
                   ELSE [g.voqs EXCEPT ![v] = rest],
       dst2voq |-> IF unbind THEN Restrict(g.dst2voq, DOMAIN g.dst2voq \ {d})
                   ELSE g.dst2voq]
=============================================================================
