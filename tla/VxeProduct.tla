------------------------------ MODULE VxeProduct ----------------------------
(***************************************************************************)
(* The product of a vector unit, from the command to its end               *)
(* (vxe_vec_unit.v, vxe_vpu_prod_ecu.v, vxe_vpu_prod_eu.v): the product    *)
(* unit and the load-store unit wired together.  One step is one edge of   *)
(* the clock.                                                              *)
(*                                                                         *)
(* Around it are the dispatcher of the vector unit, that sets registers    *)
(* and starts a product while the unit is idle, and memory.  The requests  *)
(* of a lane are answered in order; the lanes are not: Rs and Rt are read  *)
(* through two ports.                                                      *)
(***************************************************************************)
EXTENDS VpuFmac, VpuLsu, SequencesExt

CONSTANTS
    WeDepth,        \* 2 ** WE_DEPTH_POW2
    ChanDepth,      \* responses between memory and the vector unit
    MaxProducts     \* bound

\* There are eight threads, and every FIFO has at least two slots.
ASSUME ProductAssumption ==
    /\ Threads \subseteq 0 .. 7
    /\ {RqdInDepth, RqdOutDepth, RsdWeDepth, RsdRsDepth, RsdOpDepth, OpDepth, FmacDepth,
        LsuRdDepth, LsuRsDepth, WeDepth} \subseteq Nat \ {0, 1}
    /\ {NumReq, ChanDepth, RsdWePow, RsdOpPow} \subseteq Nat \ {0}
    /\ MaxProducts \in Nat

VARIABLES
    eu_start, eu_wait, done,    \* execution control unit
    busy_q,
    weq,                        \* write enable FIFOs of the lanes
    mem, chan,                  \* memory: requests of the lanes, and responses
    regs,
    products,                   \* ghost: products started
    erred                       \* ghost: memory has answered with an error

ctlVars == <<eu_start, eu_wait, done, busy_q, weq, regs>>
memVars == <<mem, chan>>
productVars == <<reqVars, respVars, fmacVars, lsuVars, ctlVars, memVars,
                 products, erred>>

RegisterFiles == [Threads -> [en : BOOLEAN, rs : Nat, rt : Nat, vl : Nat]]
Off == [en |-> FALSE, rs |-> 0, rt |-> 0, vl |-> 0]

ProductInit ==
    /\ ReqInit /\ RespInit /\ FmacInit /\ LsuInit
    /\ eu_start = FALSE /\ eu_wait = 0 /\ done = FALSE /\ busy_q = FALSE
    /\ weq = [l \in Lanes |-> << >>]
    /\ mem = [l \in Lanes |-> << >>] /\ chan = << >>
    /\ regs = [t \in Threads |-> Off]
    /\ products = 0 /\ erred = FALSE

-----------------------------------------------------------------------------

ProdBusy == ReqBusy \/ RespBusy \/ FmacBusy \/ busy_q

\* A start of the engine, which enables the load-store unit, waits until no unit
\* is busy.
Idles == << >>
Starts(r) == r # Idles
Reinit(r) == Starts(r) /\ disabled_q

EcuClock(r) ==
    /\ Starts(r) => /\ eu_wait = 0 /\ products < MaxProducts
                    /\ disabled_q => ~LsuBusy
    /\ eu_start' = Starts(r)
    /\ eu_wait' = CASE eu_wait = 0 -> IF Starts(r) THEN 1 ELSE 0
                    [] eu_wait = 1 -> 3
                    [] eu_wait = 3 -> IF ProdBusy THEN 3 ELSE 0
    /\ done' = (eu_wait = 3 /\ ~ProdBusy)
    /\ busy_q' = eu_start
    /\ regs' = IF Starts(r) THEN r ELSE regs
    /\ products' = IF Starts(r) THEN products + 1 ELSE products

WeRdy == [l \in Lanes |-> Len(weq[l]) < WeDepth]
WeClock ==
    weq' = [l \in Lanes |-> FifoNext(weq[l], WeDepth, rswe_fsm[l] = "RECV",
                                     we_wr[l], we_mask[l])]

\* Whether memory is ready to take a request at the edge, and what it answers, if
\* anything: the first request of a lane.
Silent == << >>
MemoryClock(ans, rqa_rdy) ==
    LET asked == IF rqa_wr /\ rqa_rdy THEN [mem EXCEPT ![rqa.lane] = Append(@, rqa.pair)] ELSE mem
        rest == FifoRead(chan, rss_rd)
    IN  IF ans = Silent THEN mem' = asked /\ chan' = rest
        ELSE /\ mem[ans.lane] # << >> /\ Len(chan) < ChanDepth
             /\ mem' = [asked EXCEPT ![ans.lane] = Tail(@)]
             /\ chan' = Append(rest, [lane |-> ans.lane, pair |-> Head(mem[ans.lane]),
                                      err |-> ans.err])

ProductClock(r, ans, rqa_rdy) ==
    LET base == [l \in Lanes |-> IF l[2] = Rs THEN regs[l[1]].rs ELSE regs[l[1]].rt] IN
    /\ MemoryClock(ans, rqa_rdy)
    /\ EcuClock(r)
    /\ AgenClock([l \in Lanes |-> eu_start /\ regs[l[1]].en], base,
                 [l \in Lanes |-> regs[l[1]].vl])
    /\ ReqDispClock(LsuErr, RrqRdy, WeRdy)
    /\ WeClock
    /\ RequestClock(rrq_wr, rrq, rqa_rdy)
    /\ ResponseClock(chan # << >>, IF chan = << >> THEN << >> ELSE Head(chan),
                     rqa_rdy, rs_fsm = "RECV", Reinit(r))
    /\ RespDistClock(LsuErr, rrs_fifo # << >>, IF rrs_fifo = << >> THEN << >> ELSE Head(rrs_fifo),
                     [l \in Lanes |-> weq[l] # << >>],
                     [l \in Lanes |-> IF weq[l] = << >> THEN {} ELSE Head(weq[l])],
                     [l \in Lanes |-> opr_fsm[l] = "RECV"])
    /\ FmacClock(LsuErr, [l \in Lanes |-> F21Vld(l)], [l \in Lanes |-> F21Out(l)], Starts(r))
    /\ erred' = (erred \/ LsuErr)

Answers == [lane : Lanes, err : BOOLEAN]
ProductNext == \E r \in RegisterFiles \cup {Idles}, ans \in Answers \cup {Silent},
                  rqa_rdy \in BOOLEAN : ProductClock(r, ans, rqa_rdy)

\* The clock ticks, and memory is ready again and again and answers.  A product
\* asks for a finite number of words, so that no lane is left out for ever.
MemoryTakes == \E r \in RegisterFiles \cup {Idles}, ans \in Answers \cup {Silent} :
                   ProductClock(r, ans, TRUE)
MemoryAnswers == \E r \in RegisterFiles \cup {Idles}, ans \in Answers,
                    rqa_rdy \in BOOLEAN : ProductClock(r, ans, rqa_rdy)
ProductSpec == /\ ProductInit /\ [][ProductNext]_productVars
               /\ WF_productVars(MemoryTakes) /\ WF_productVars(MemoryAnswers)

-----------------------------------------------------------------------------
(* Properties.                                                             *)

\* The words of both operands that a thread is to multiply, in pairs.
Wanted(t) == IF regs[t].en
             THEN [k \in 1 .. regs[t].vl |-> <<regs[t].rs + k - 1, regs[t].rt + k - 1>>]
             ELSE << >>

\* Whatever alignment the operands have, and in whatever order memory answers
\* the lanes, a thread multiplies the k-th word of Rs with the k-th of Rt, each
\* once and in order: no pair of words meets the mask of another, the toggle of
\* the operand FIFO never picks a half that is not next, and no accumulator is
\* read before the sum in the pipe is written back.  After a memory error words
\* may be left behind, so this is about the time before the first one.
ProductsInOrder == ~erred => \A t \in Threads : IsPrefix(acc[t], Wanted(t))

AllEmpty ==
    /\ lrq_fifo = << >> /\ rqa_fifo = << >> /\ ~rqa_wr /\ chan = << >>
    /\ rss_fifo = << >> /\ ~rrs_wr /\ rrs_fifo = << >> /\ rs_fifo = << >>
    /\ \A l \in Lanes :
        /\ vlen[l] = 0 /\ mem[l] = << >> /\ weq[l] = << >> /\ rswe_fifo[l] = << >>
        /\ op_fifo[l] = << >> /\ ~F21Vld(l) /\ opr_fifo[l] = << >>

\* When a product is reported done, every sum is in its accumulator and no
\* unit on the way holds anything.  Busy is the "or" of what the units say of
\* themselves, and the load-store unit and the registers between the units say
\* nothing: the next command reads the accumulators at once.
DoneMeansAccumulated ==
    done /\ ~erred => AllEmpty /\ \A t \in Threads : acc[t] = Wanted(t)

\* No FIFO is written when it is full.  None of these has a guard: the machine
\* that writes one stops when it is full or one write from it, and has to take
\* what is under way.
QueuesFit ==
    /\ Len(rs_fifo) <= RsdRsDepth /\ Len(rss_fifo) <= Slots4 /\ Len(rqa_fifo) <= Slots4
    /\ \A l \in Lanes :
        /\ Len(rq_fifo[l]) <= RqdInDepth /\ Len(we_fifo[l]) <= RqdInDepth
        /\ Len(rswe_fifo[l]) <= RsdWeDepth /\ Len(op_fifo[l]) <= RsdOpDepth
        /\ Len(opr_fifo[l]) <= FmacDepth

\* A product ends, or meets an error, if memory answers, in whatever order it
\* answers the lanes: they share one queue of responses (vxe_vpu_prod_eu_rs_dist.v),
\* and none may fill it while another starves.
ProductEnds == eu_start ~> done \/ erred
=============================================================================
