------------------------------- MODULE VpuFmac ------------------------------
(***************************************************************************)
(* The scheduler of the multiplier (vxe_vpu_prod_eu_fmac.v): it takes the  *)
(* words of the lanes, and gives each thread one clock in eight to put a   *)
(* pair of operands into the pipe.  The accumulator that the pair is added *)
(* to is read in that clock, and written when the sum comes out.           *)
(*                                                                         *)
(* An accumulator is the sequence of pairs that were added to it.          *)
(***************************************************************************)
EXTENDS VpuRespDist

CONSTANT FmacDepth      \* 2 ** FMAC_IN_OP_DEPTH_POW2

VARIABLES
    opr_fsm, opr_fifo,      \* words of the lanes
    fmacd, slot,            \* dispatch FSM, and the thread whose clock it is
    pipe,                   \* the operation register, five stages, write-back register
    acc                     \* register file: accumulators

fmacVars == <<opr_fsm, opr_fifo, fmacd, slot, pipe, acc>>

NoOp == << >>
PipeLength == 7

FmacInit ==
    /\ opr_fsm = [l \in Lanes |-> "IDLE"] /\ opr_fifo = [l \in Lanes |-> << >>]
    /\ fmacd = "IDLE" /\ slot = 0
    /\ pipe = [i \in 1 .. PipeLength |-> NoOp]
    /\ acc = [t \in Threads |-> << >>]

Rdy(t) == \A a \in {Rs, Rt} : opr_fifo[<<t, a>>] # << >>
WorkRdyAll == \A t \in Threads : Rdy(t)     \* mutant: waits for every thread
WorkRdy == \E t \in Threads : Rdy(t)
OprFSMsBusy == \E l \in Lanes : opr_fsm[l] # "IDLE"

\* Mutant: only the input side is counted
FmacBusyInput == OprFSMsBusy \/ \E l \in Lanes : opr_fifo[l] # << >>

\* The operation register is not counted.
FmacBusy == \/ \E l \in Lanes : opr_fifo[l] # << >>
            \/ OprFSMsBusy \/ fmacd # "IDLE"
            \/ \E i \in 2 .. PipeLength : pipe[i] # NoOp

DispatchFSM(err) ==
    CASE err -> "ERRF"
      [] ~err /\ fmacd = "IDLE" -> IF WorkRdy THEN "DISP" ELSE "IDLE"
      [] ~err /\ fmacd = "DISP" -> IF slot < 7 \/ WorkRdy THEN "DISP" ELSE "IDLE"
      [] ~err /\ fmacd = "ERRF" -> IF OprFSMsBusy THEN "ERRF" ELSE "IDLE"

Dispatched(t) == fmacd = "DISP" /\ slot = t /\ Rdy(t)

FmacClock(err, vld, word, clear) ==
    /\ opr_fsm' = [l \in Lanes |->
            TakeFSM(opr_fsm[l], vld[l], NearFull(opr_fifo[l], FmacDepth))]
    /\ opr_fifo' = [l \in Lanes |->
            (IF fmacd = "ERRF" THEN << >> ELSE FifoRead(opr_fifo[l], Dispatched(l[1])))
              \o (IF opr_fsm[l] = "RECV" /\ vld[l] THEN <<word[l]>> ELSE << >>)]
    /\ fmacd' = DispatchFSM(err)
    /\ slot' = IF fmacd = "DISP" /\ ~err THEN (slot + 1) % 8 ELSE 0
    /\ pipe' = <<IF \E t \in Threads : Dispatched(t)
                 THEN <<slot, Append(acc[slot], <<Head(opr_fifo[<<slot, Rs>>]),
                                                  Head(opr_fifo[<<slot, Rt>>])>>)>>
                 ELSE NoOp>> \o SubSeq(pipe, 1, PipeLength - 1)
    /\ acc' = IF clear THEN [t \in Threads |-> << >>]
              ELSE IF pipe[PipeLength] # NoOp
              THEN [acc EXCEPT ![pipe[PipeLength][1]] = pipe[PipeLength][2]]
              ELSE acc
=============================================================================
