----------------------------- MODULE VpuReqDisp -----------------------------
(***************************************************************************)
(* The front of the product unit of a vector unit: for each thread and     *)
(* operand, a lane, the address generator (vxe_vpu_prod_eu_agen.v) and the *)
(* receiving part of the requests dispatcher (vxe_vpu_prod_eu_rq_disp.v),  *)
(* and the scheduler that merges the lanes.                                *)
(*                                                                         *)
(* Memory is read two words at a time.  A request is a lane and the number *)
(* of a pair; the words of the pair that belong to the vector, its word    *)
(* enable mask, travel apart from it, to meet the response.                *)
(***************************************************************************)
EXTENDS FifoStep, Integers

CONSTANTS
    Threads,        \* the threads a program enables
    RqdInDepth,     \* 2 ** RQD_IN_DEPTH_POW2
    RqdOutDepth     \* 2 ** RQD_OUT_DEPTH_POW2

Rs == 0
Rt == 1
Lanes == Threads \X {Rs, Rt}
LaneNo(l) == 2 * l[1] + l[2]

VARIABLES
    vaddr, vlen,    \* address generators
    rx_fsm,
    rq_fifo,        \* requests of the lanes
    we_fifo,        \* and their masks
    sch,            \* the lane the scheduler is at, or -1
    rrq_fifo,       \* the requests of all lanes
    rrq_wr, rrq,    \* the one offered to the load-store unit
    we_wr, we_mask  \* the masks offered

agenVars == <<vaddr, vlen>>
reqVars == <<vaddr, vlen, rx_fsm, rq_fifo, we_fifo, sch, rrq_fifo, rrq_wr, rrq,
             we_wr, we_mask>>

ReqInit ==
    /\ vaddr = [l \in Lanes |-> 0] /\ vlen = [l \in Lanes |-> 0]
    /\ rx_fsm = [l \in Lanes |-> "IDLE"]
    /\ rq_fifo = [l \in Lanes |-> << >>] /\ we_fifo = [l \in Lanes |-> << >>]
    /\ sch = -1
    /\ rrq_fifo = << >> /\ rrq_wr = FALSE /\ rrq = << >>
    /\ we_wr = [l \in Lanes |-> FALSE] /\ we_mask = [l \in Lanes |-> {}]

-----------------------------------------------------------------------------
(* Address generation: odd addresses and last words are read alone.        *)

Odd(l) == vaddr[l] % 2 = 1
Valid(l) == vlen[l] > 0
WordMask(l) == IF Odd(l) THEN {1} ELSE IF vlen[l] = 1 THEN {0} ELSE {0, 1}
WordsTaken(l) == IF Odd(l) \/ vlen[l] = 1 THEN 1 ELSE 2
Incr(l) == rx_fsm[l] \in {"RECV", "FLUSH"}

AgenClock(latch, base, len) ==
    LET incr(l) == Incr(l) /\ Valid(l) IN
    /\ vlen' = [l \in Lanes |-> IF incr(l) THEN vlen[l] - WordsTaken(l)
                                ELSE IF latch[l] THEN len[l] ELSE vlen[l]]
    /\ vaddr' = [l \in Lanes |-> IF incr(l) THEN vaddr[l] + WordsTaken(l)
                                 ELSE IF latch[l] THEN base[l] ELSE vaddr[l]]

-----------------------------------------------------------------------------
(* The requests dispatcher.                                                *)

InFifosBusy == \E l \in Lanes : rq_fifo[l] # << >> \/ we_fifo[l] # << >>
FlushBusy == \/ InFifosBusy \/ rrq_fifo # << >> \/ sch # -1 \/ rrq_wr
             \/ \E l \in Lanes : we_wr[l]
ReqBusy == FlushBusy \/ \E l \in Lanes : rx_fsm[l] # "IDLE"

InStall(l) == NearFull(rq_fifo[l], RqdInDepth) \/ NearFull(we_fifo[l], RqdInDepth)

RxFSM(l, err) ==
    CASE rx_fsm[l] = "FLUSH" -> IF ~Valid(l) /\ ~FlushBusy THEN "IDLE" ELSE "FLUSH"
      [] rx_fsm[l] # "FLUSH" /\ err -> "FLUSH"
      [] rx_fsm[l] = "IDLE" /\ ~err -> IF Valid(l) THEN "RECV" ELSE "IDLE"
      [] rx_fsm[l] = "RECV" /\ ~err -> IF ~Valid(l) THEN "IDLE"
                                       ELSE IF InStall(l) THEN "STALL" ELSE "RECV"
      [] rx_fsm[l] = "STALL" /\ ~err -> IF InStall(l) THEN "STALL"
                                        ELSE IF Valid(l) THEN "RECV" ELSE "IDLE"

Requests(l) == rx_fsm[l] = "RECV" /\ Valid(l)

\* The scheduler passes over the lanes in their order.  It turns back when no
\* lane ahead has a request, and rests when no lane has one.
Waiting(from, to) == \E l \in Lanes : LaneNo(l) \in from .. to /\ rq_fifo[l] # << >>
Schedules(l) == sch = LaneNo(l) /\ rq_fifo[l] # << >> /\ Len(rrq_fifo) < RqdOutDepth
SchFSM ==
    IF sch = -1 THEN IF Waiting(0, 15) THEN 0 ELSE -1
    ELSE IF Waiting(sch, sch) /\ Len(rrq_fifo) = RqdOutDepth THEN sch
    ELSE IF Waiting(sch + 1, 15) THEN sch + 1
    ELSE IF Waiting(0, sch - 1) THEN 0
    ELSE IF Waiting(sch, sch) THEN sch ELSE -1

ReqDispClock(err, rrq_rdy, we_rdy) ==
    LET loads == Loads(rrq_wr, rrq_rdy, rrq_fifo)
        weLoads(l) == Loads(we_wr[l], we_rdy[l], we_fifo[l])
        kept(q, taken) == FifoRead(q, taken)
    IN
    /\ rx_fsm' = [l \in Lanes |-> RxFSM(l, err)]
    /\ rq_fifo' = [l \in Lanes |->
            kept(rq_fifo[l], Schedules(l)) \o (IF Requests(l) THEN <<vaddr[l] \div 2>> ELSE << >>)]
    /\ we_fifo' = [l \in Lanes |->
            kept(we_fifo[l], weLoads(l)) \o (IF Requests(l) THEN <<WordMask(l)>> ELSE << >>)]
    /\ sch' = SchFSM
    /\ rrq_fifo' = kept(rrq_fifo, loads)
                    \o (IF \E l \in Lanes : Schedules(l)
                        THEN LET l == CHOOSE k \in Lanes : Schedules(k)
                             IN  <<[lane |-> l, pair |-> Head(rq_fifo[l])]>>
                        ELSE << >>)
    /\ rrq_wr' = StillOffers(rrq_wr, rrq_rdy, rrq_fifo)
    /\ rrq' = IF loads THEN Head(rrq_fifo) ELSE rrq
    /\ we_wr' = [l \in Lanes |-> StillOffers(we_wr[l], we_rdy[l], we_fifo[l])]
    /\ we_mask' = [l \in Lanes |-> IF weLoads(l) THEN Head(we_fifo[l]) ELSE we_mask[l]]
=============================================================================
