------------------------------ MODULE FifoStep ------------------------------
(***************************************************************************)
(* What a FIFO of hw/fifo makes of its queue at an edge of the clock.      *)
(* VxeQueue is the specification around it, which vxe_fifo and vxe_fifo_2  *)
(* implement; the units built from FIFOs use the step itself.              *)
(***************************************************************************)
EXTENDS Naturals, Sequences

\* The queue after a read, if one is asked for and there is a value.
FifoRead(q, rd) == IF rd /\ q # << >> THEN Tail(q) ELSE q

\* The queue after a read and a write.  Room is what there was before the read.
FifoNext(q, depth, rd, wr, d) ==
    IF wr /\ Len(q) < depth THEN Append(FifoRead(q, rd), d) ELSE FifoRead(q, rd)

\* An output register that offers one value at a time takes the next value of
\* the FIFO behind it when it is free, or when its value is just taken.
Loads(offering, taken, q) == (~offering \/ taken) /\ q # << >>
StillOffers(offering, taken, q) == q # << >> \/ (offering /\ ~taken)

\* The intermediate FIFOs inside a unit have four slots and no guard against a
\* write when they are full: whoever writes them stops when they are full or
\* one write from it.
Slots4 == 4
StalledWhenFull(q) == Len(q) = Slots4    \* mutant: too late by one
Stalled(q) == Len(q) \in {Slots4 - 1, Slots4}

\* The same for a FIFO of any depth.
NearFullLate(q, depth) == Len(q) = depth    \* mutant: too late by one
NearFull(q, depth) == Len(q) \in {depth - 1, depth}

\* A machine that takes what another unit offers: it asks while it is in RECV,
\* and what is offered then is taken, even in the cycle in which it stalls.
TakeFSM(fsm, vld, stall) ==
    CASE fsm = "IDLE" /\ vld                    -> "RECV"
      [] fsm = "RECV" /\ ~vld                   -> "IDLE"
      [] fsm = "RECV" /\ vld /\ stall           -> "STLL"
      [] fsm = "STLL" /\ ~stall                 -> "RECV"
      [] OTHER                                  -> fsm
=============================================================================
