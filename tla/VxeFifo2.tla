------------------------------ MODULE VxeFifo2 ------------------------------
(***************************************************************************)
(* vxe_fifo_2 (hw/fifo/src/vxe_fifo_2.v): a ring of Depth registers whose  *)
(* pointers have one bit more than a slot number needs, so that a full     *)
(* ring differs from an empty one; it has a synchronous reset.  A pointer  *)
(* is the number that its DEPTH_POW2 + 1 bits make.  The signal empty1 is  *)
(* left out: no instance sets USE_EMPTY1.  The names end in 2, so that the *)
(* module can stand beside VxeFifo.                                        *)
(***************************************************************************)
EXTENDS VxeFifoParams

VARIABLES fifo_buf2, rd_p2, wr_p2,
          in2, got2  \* the inputs sampled and the value that left at the last edge

vars2 == <<fifo_buf2, rd_p2, wr_p2, in2, got2>>

Pointers2 == 0..(2 * Depth - 1)

TypeOK2 == /\ fifo_buf2 \in [Slots -> Data]
           /\ rd_p2 \in Pointers2 /\ wr_p2 \in Pointers2
           /\ in2 \in Inputs
           /\ got2 \in Seq(Data)

\* The bits of a pointer: the slot, and the top bit that counts the rounds.
Slot2(p) == IF p < Depth THEN p ELSE p - Depth
Wrap2(p) == p >= Depth

\* Mutant: the pointers wrap without the top bit.
SuccNarrow2(p) == IF p = Depth - 1 THEN 0 ELSE p + 1
Succ2(p) == IF p = 2 * Depth - 1 THEN 0 ELSE p + 1

empty2 == Slot2(wr_p2) = Slot2(rd_p2) /\ Wrap2(wr_p2) = Wrap2(rd_p2)
full2 == Slot2(wr_p2) = Slot2(rd_p2) /\ Wrap2(wr_p2) # Wrap2(rd_p2)

Init2 == /\ fifo_buf2 \in [Slots -> Data]
         /\ rd_p2 = 0 /\ wr_p2 = 0
         /\ in2 \in Inputs /\ got2 = << >>

ReadPort2(rd) ==
    /\ rd_p2' = IF rd /\ ~empty2 THEN Succ2(rd_p2) ELSE rd_p2
    /\ got2' = IF rd /\ ~empty2 THEN <<fifo_buf2[Slot2(rd_p2)]>> ELSE << >>

WritePort2(wr, data_in) ==
    IF wr /\ ~full2
    THEN /\ fifo_buf2' = [fifo_buf2 EXCEPT ![Slot2(wr_p2)] = data_in]
         /\ wr_p2' = Succ2(wr_p2)
    ELSE UNCHANGED <<fifo_buf2, wr_p2>>

Clock2(i) == /\ in2' = i
             /\ ReadPort2(i.rd)
             /\ WritePort2(i.wr, i.data_in)

\* nrst at any time, or srst at an edge: both ports are ignored.
Reset2 == /\ rd_p2' = 0 /\ wr_p2' = 0
          /\ in2' \in Inputs /\ got2' = << >>
          /\ UNCHANGED fifo_buf2

Next2 == Reset2 \/ \E i \in Inputs : Clock2(i)

Spec2 == Init2 /\ [][Next2]_vars2
-----------------------------------------------------------------------------
(* The queue that the ring stands for.                                     *)

Count2 == IF rd_p2 <= wr_p2 THEN wr_p2 - rd_p2 ELSE 2 * Depth + wr_p2 - rd_p2

Contents2 == Ring(fifo_buf2, Slot2(rd_p2), Count2)

Queue2 == INSTANCE VxeQueue WITH q <- Contents2, in <- in2, got <- got2

\* The ring with the wider pointers keeps the promise of the queue as well,
\* through any mix of reads, writes and synchronous resets.
Fifo2IsQueue == Queue2!Spec
=============================================================================
