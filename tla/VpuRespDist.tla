----------------------------- MODULE VpuRespDist ----------------------------
(***************************************************************************)
(* The responses distributor of the product unit                           *)
(* (vxe_vpu_prod_eu_rs_dist.v): it takes the masks of the lanes and the    *)
(* responses of all lanes, hands each pair of words with its mask to the   *)
(* lane it is for, and offers it to the operand FIFO of the lane           *)
(* (vxe_fifo2wxw.v), which gives the words out one at a time.              *)
(***************************************************************************)
EXTENDS VpuReqDisp

CONSTANTS
    RsdWePow,       \* RSD_IN_WE_DEPTH_POW2
    RsdRsDepth,     \* 2 ** RSD_IN_RS_DEPTH_POW2
    RsdOpPow,       \* RSD_OUT_OP_DEPTH_POW2
    OpDepth         \* 2 ** OP_DEPTH_POW2

VARIABLES
    rswe_fsm, rswe_fifo,    \* masks of the lanes
    rs_fsm, rs_fifo,        \* responses
    q_err_flush,
    op_fifo, op_wp,         \* pairs of the lanes, with masks, and the write pointers
    opd_wr, opd,            \* the pairs offered
    f21                     \* operand FIFOs of the lanes

respVars == <<rswe_fsm, rswe_fifo, rs_fsm, rs_fifo, q_err_flush, op_fifo, op_wp,
              opd_wr, opd, f21>>

RsdWeDepth == 2 ^ RsdWePow
RsdOpDepth == 2 ^ RsdOpPow

RespInit ==
    /\ rswe_fsm = [l \in Lanes |-> "IDLE"] /\ rswe_fifo = [l \in Lanes |-> << >>]
    /\ rs_fsm = "IDLE" /\ rs_fifo = << >> /\ q_err_flush = FALSE
    /\ op_fifo = [l \in Lanes |-> << >>] /\ op_wp = [l \in Lanes |-> 0]
    /\ opd_wr = [l \in Lanes |-> FALSE] /\ opd = [l \in Lanes |-> << >>]
    /\ f21 = [l \in Lanes |-> [word |-> <<<< >>, << >>>>, sel |-> 0]]

InBusy == \/ \E l \in Lanes : rswe_fifo[l] # << >> \/ rswe_fsm[l] # "IDLE"
          \/ rs_fifo # << >> \/ rs_fsm # "IDLE"
RespBusy == InBusy \/ \E l \in Lanes : op_fifo[l] # << >> \/ opd_wr[l]

\* "One write from full" is told from a bit of the read pointer that is the
\* wrong one unless RsdWePow = RsdOpPow, and so half of the time only.
Bit(n, i) == (n \div 2 ^ i) % 2
OpPreFull(l) ==
    /\ Len(op_fifo[l]) = RsdOpDepth - 1
    /\ Bit(op_wp[l] + RsdOpDepth, RsdWePow) # Bit(op_wp[l], RsdOpPow)
OpStall(l) == Len(op_fifo[l]) = RsdOpDepth \/ OpPreFull(l)

\* The first response waits for its mask and for room in its lane, and all
\* responses behind it wait with it.
Distributes(l, flush) ==
    /\ ~flush /\ rs_fifo # << >> /\ Head(rs_fifo).lane = l
    /\ rswe_fifo[l] # << >> /\ ~OpStall(l)

-----------------------------------------------------------------------------
(* The operand FIFO: two FIFOs of words, and the one the next word is from. *)

F21Rdy(l) == \A h \in {0, 1} : Len(f21[l].word[h + 1]) < OpDepth
F21Vld(l) == \E h \in {0, 1} : f21[l].word[h + 1] # << >>
Selected(l) == f21[l].word[f21[l].sel + 1]
NoWord == -1
F21Out(l) == IF Selected(l) = << >> THEN NoWord ELSE Head(Selected(l))

\* Mutant: an empty FIFO always begins with the low word
F21ClockLowFirst(l, rd) ==
    LET wr == IF opd_wr[l] /\ F21Rdy(l) THEN opd[l].mask ELSE {}
        half(h) == FifoNext(f21[l].word[h + 1], OpDepth, rd /\ f21[l].sel = h,
                            h \in wr, 2 * opd[l].pair + h)
    IN  [word |-> <<half(0), half(1)>>,
         sel |-> IF ~F21Vld(l) THEN 0 ELSE IF rd THEN 1 - f21[l].sel ELSE f21[l].sel]

F21Clock(l, rd) ==
    LET wr == IF opd_wr[l] /\ F21Rdy(l) THEN opd[l].mask ELSE {}
        half(h) == FifoNext(f21[l].word[h + 1], OpDepth, rd /\ f21[l].sel = h,
                            h \in wr, 2 * opd[l].pair + h)
    IN  [word |-> <<half(0), half(1)>>,
         sel |-> IF ~F21Vld(l) /\ wr # {} THEN IF 0 \in wr THEN 0 ELSE 1
                 ELSE IF F21Vld(l) /\ rd THEN 1 - f21[l].sel
                 ELSE f21[l].sel]

-----------------------------------------------------------------------------

RespDistClock(err, i_rrs_vld, i_rrs, i_we_vld, i_we, rd) ==
    LET flush == err \/ q_err_flush
        opLoads(l) == Loads(opd_wr[l], F21Rdy(l), op_fifo[l])
    IN
    /\ rswe_fsm' = [l \in Lanes |->
            TakeFSM(rswe_fsm[l], i_we_vld[l], NearFull(rswe_fifo[l], RsdWeDepth))]
    /\ rswe_fifo' = [l \in Lanes |->
            (IF flush THEN << >> ELSE FifoRead(rswe_fifo[l], Distributes(l, flush)))
              \o (IF rswe_fsm[l] = "RECV" /\ i_we_vld[l] THEN <<i_we[l]>> ELSE << >>)]
    /\ rs_fsm' = TakeFSM(rs_fsm, i_rrs_vld, NearFull(rs_fifo, RsdRsDepth))
    /\ rs_fifo' = (IF flush THEN << >>
                   ELSE FifoRead(rs_fifo, \E l \in Lanes : Distributes(l, flush)))
                    \o (IF rs_fsm = "RECV" /\ i_rrs_vld THEN <<i_rrs>> ELSE << >>)
    /\ q_err_flush' = (flush /\ InBusy)
    /\ op_fifo' = [l \in Lanes |->
            FifoRead(op_fifo[l], opLoads(l))
              \o (IF Distributes(l, flush)
                  THEN <<[pair |-> Head(rs_fifo).pair, mask |-> Head(rswe_fifo[l])]>>
                  ELSE << >>)]
    /\ op_wp' = [l \in Lanes |-> (op_wp[l] + (IF Distributes(l, flush) THEN 1 ELSE 0))
                                    % (2 * RsdOpDepth)]
    /\ opd_wr' = [l \in Lanes |-> StillOffers(opd_wr[l], F21Rdy(l), op_fifo[l])]
    /\ opd' = [l \in Lanes |-> IF opLoads(l) THEN Head(op_fifo[l]) ELSE opd[l]]
    /\ f21' = [l \in Lanes |-> F21Clock(l, rd[l])]
=============================================================================
