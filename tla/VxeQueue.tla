------------------------------ MODULE VxeQueue ------------------------------
(***************************************************************************)
(* What a FIFO of hw/fifo promises the units around it: a bounded queue    *)
(* with a write and a read port that are used in the same clock cycle.  A  *)
(* write finds room, and a read finds a value, as the queue was before the *)
(* clock: a write to a full queue is dropped even if a value leaves in     *)
(* that cycle, and a value written to an empty queue cannot be read in it. *)
(***************************************************************************)
EXTENDS VxeFifoParams

VARIABLES
    q,           \* the values held, oldest first
    in,          \* the inputs sampled at the last clock edge
    got          \* the value that left at that edge, if any

vars == <<q, in, got>>

TypeOK == q \in Seq(Data) /\ Len(q) <= Depth /\ in \in Inputs /\ got \in Seq(Data)

Cleared == q = << >> /\ got = << >>

Init == Cleared /\ in \in Inputs

Clock(i) ==
    /\ in' = i
    /\ got' = IF i.rd /\ q # << >> THEN <<Head(q)>> ELSE << >>
    /\ q' = FifoNext(q, Depth, i.rd, i.wr, i.data_in)

Reset == Cleared' /\ in' \in Inputs

Next == Reset \/ \E i \in Inputs : Clock(i)

Spec == Init /\ [][Next]_vars
=============================================================================
