------------------------------ MODULE VxeFifo ------------------------------
(***************************************************************************)
(* vxe_fifo (hw/fifo/src/vxe_fifo.v): a ring of Depth registers with two   *)
(* pointers and a flag that tells a full ring from an empty one.  An       *)
(* action is an edge of the clock, or the reset.                           *)
(***************************************************************************)
EXTENDS VxeFifoParams

VARIABLES
    fifo_buf, rd_p, wr_p,
    wr_nrd,      \* last operation: a write if true
    in, got      \* the inputs sampled and the value that left at the last edge

vars == <<fifo_buf, rd_p, wr_p, wr_nrd, in, got>>

TypeOK == /\ fifo_buf \in [Slots -> Data]
          /\ rd_p \in Slots /\ wr_p \in Slots
          /\ wr_nrd \in BOOLEAN
          /\ in \in Inputs
          /\ got \in Seq(Data)

empty == ~wr_nrd /\ rd_p = wr_p
full == wr_nrd /\ rd_p = wr_p

\* The registers of the ring are not reset: they start with any value.
Init == /\ fifo_buf \in [Slots -> Data]
        /\ rd_p = 0 /\ wr_p = 0 /\ wr_nrd = FALSE
        /\ in \in Inputs /\ got = << >>

WrNrd(rd, wr) == IF ~empty /\ rd /\ ~wr THEN FALSE
                 ELSE IF ~full /\ ~rd /\ wr THEN TRUE
                 ELSE wr_nrd

ReadPort(rd) ==
    /\ rd_p' = IF ~empty /\ rd THEN NextSlot(rd_p) ELSE rd_p
    /\ got' = IF ~empty /\ rd THEN <<fifo_buf[rd_p]>> ELSE << >>

WritePort(wr, data_in) ==
    IF ~full /\ wr
    THEN /\ fifo_buf' = [fifo_buf EXCEPT ![wr_p] = data_in]
         /\ wr_p' = NextSlot(wr_p)
    ELSE UNCHANGED <<fifo_buf, wr_p>>

Clock(i) == /\ in' = i
            /\ ReadPort(i.rd)
            /\ WritePort(i.wr, i.data_in)
            /\ wr_nrd' = WrNrd(i.rd, i.wr)

\* Mutant: the flag is not reset with the pointers.
ResetKeepsFlag == /\ rd_p' = 0 /\ wr_p' = 0
                  /\ in' \in Inputs /\ got' = << >>
                  /\ UNCHANGED <<fifo_buf, wr_nrd>>

Reset == /\ rd_p' = 0 /\ wr_p' = 0 /\ wr_nrd' = FALSE
         /\ in' \in Inputs /\ got' = << >>
         /\ UNCHANGED fifo_buf

Next == Reset \/ \E i \in Inputs : Clock(i)

Spec == Init /\ [][Next]_vars
-----------------------------------------------------------------------------
(* The queue that the ring stands for.                                     *)

Count == IF rd_p < wr_p THEN wr_p - rd_p
         ELSE IF rd_p > wr_p THEN Depth + wr_p - rd_p
         ELSE IF wr_nrd THEN Depth ELSE 0

Contents == Ring(fifo_buf, rd_p, Count)

Queue == INSTANCE VxeQueue WITH q <- Contents

\* Whatever the two ports are given in whatever cycles, with reads and writes
\* in the same cycle at every fill level and at the wrap of the pointers: the
\* ring is a bounded queue.  No value accepted is lost, repeated or reordered.
FifoIsQueue == Queue!Spec
=============================================================================
