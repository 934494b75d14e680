--------------------------- MODULE VxeFifoParams ---------------------------
(***************************************************************************)
(* The parameters that the FIFOs of hw/fifo share, and the ring of         *)
(* registers they are built from.                                          *)
(***************************************************************************)
EXTENDS Integers, Sequences, FifoStep

CONSTANTS
    Data,        \* values of DATA_WIDTH bits
    Depth        \* 2 ** DEPTH_POW2

\* Every instance in hw/ has DEPTH_POW2 of at least 1.  vxe_fifo depends on it:
\* with one slot a write with rd asserted would leave wr_nrd cleared.
ASSUME DepthAssumption == Depth \in Nat /\ Depth >= 2

Slots == 0..(Depth - 1)

\* A pointer of DEPTH_POW2 bits wraps around.
NextSlot(p) == IF p = Depth - 1 THEN 0 ELSE p + 1

\* The n values of a ring of registers from slot r on: place i is slot At(r, i).
At(r, i) == IF r + i <= Depth THEN r + i - 1 ELSE r + i - 1 - Depth
Ring(ring, r, n) == [i \in 1..n |-> ring[At(r, i)]]

\* What the two ports of a FIFO sample at an edge of the clock.
Inputs == [rd : BOOLEAN, wr : BOOLEAN, data_in : Data]
=============================================================================
