------------------------------- MODULE VpuLsu -------------------------------
(***************************************************************************)
(* The read path of the load-store unit of a vector unit (vxe_vpu_lsu.v).  *)
(* A product only reads, and a vector unit executes one command at a time. *)
(* A response with an error disables the unit: it takes requests and       *)
(* responses and drops them, until the next start of the engine.           *)
(***************************************************************************)
EXTENDS FifoStep, Integers

CONSTANTS
    NumReq,         \* 2 ** NR_REQ_POW2: requests on the fly
    LsuRdDepth,     \* 2 ** RD_DEPTH_POW2
    LsuRsDepth      \* 2 ** RS_DEPTH_POW2

VARIABLES
    lrq_fifo,               \* requests
    arb,                    \* arbitration FSM
    rqa_fifo,               \* requests chosen
    rqa_wr, rqa,            \* the one offered to memory
    on_fly,                 \* tr_send_p - tr_resp_p
    rss_rd, rss_fifo,       \* responses
    rrs_wr, rrs,            \* one on its way
    rrs_fifo,               \* responses for the client
    disabled_q

lsuVars == <<lrq_fifo, arb, rqa_fifo, rqa_wr, rqa, on_fly, rss_rd, rss_fifo,
             rrs_wr, rrs, rrs_fifo, disabled_q>>

LsuInit ==
    /\ lrq_fifo = << >> /\ arb = "EMPTY" /\ rqa_fifo = << >>
    /\ rqa_wr = FALSE /\ rqa = << >> /\ on_fly = 0
    /\ rss_rd = FALSE /\ rss_fifo = << >>
    /\ rrs_wr = FALSE /\ rrs = << >> /\ rrs_fifo = << >>
    /\ disabled_q = FALSE

LsuErr == rss_fifo # << >> /\ Head(rss_fifo).err
Disabled == disabled_q \/ LsuErr
RrqRdy == Disabled \/ Len(lrq_fifo) < LsuRdDepth
LsuBusy == \/ on_fly > 0 \/ rqa_fifo # << >> \/ rss_fifo # << >>
           \/ lrq_fifo # << >> \/ rrs_fifo # << >>

ArbFSM ==
    CASE Disabled -> arb
      [] ~Disabled /\ arb = "EMPTY" ->
            IF lrq_fifo # << >> /\ Len(rqa_fifo) < Slots4 THEN "RDFIFO" ELSE "EMPTY"
      [] ~Disabled /\ arb = "RDFIFO" ->
            IF lrq_fifo = << >> THEN "EMPTY" ELSE IF Stalled(rqa_fifo) THEN "RDSTALL" ELSE "RDFIFO"
      [] ~Disabled /\ arb = "RDSTALL" ->
            IF Stalled(rqa_fifo) THEN "RDSTALL" ELSE IF lrq_fifo # << >> THEN "RDFIFO" ELSE "EMPTY"

Sends(rqa_rdy) == rqa_fifo # << >> /\ on_fly < NumReq /\ (rqa_wr => rqa_rdy)

RequestClock(i_rrq_wr, i_rrq, rqa_rdy) ==
    LET chosen == arb = "RDFIFO" /\ lrq_fifo # << >> IN
    /\ lrq_fifo' = IF Disabled THEN << >>
                   ELSE FifoNext(lrq_fifo, LsuRdDepth, arb = "RDFIFO", i_rrq_wr, i_rrq)
    /\ arb' = ArbFSM
    /\ rqa_fifo' = FifoRead(rqa_fifo, Sends(rqa_rdy))
                    \o (IF chosen /\ ~Disabled THEN <<Head(lrq_fifo)>> ELSE << >>)
    /\ rqa_wr' = (Sends(rqa_rdy) \/ (rqa_wr /\ ~rqa_rdy))
    /\ rqa' = IF Sends(rqa_rdy) THEN Head(rqa_fifo) ELSE rqa

ResponseClock(i_rss_vld, i_rss, rqa_rdy, rrs_rd, reinit) ==
    LET takes == rss_rd /\ i_rss_vld /\ on_fly > 0
        new == IF takes THEN <<i_rss>> ELSE << >>
        full == Len(rrs_fifo) = LsuRsDepth
        hands == rss_fifo # << >> /\ (rrs_wr => ~full)
    IN
    /\ on_fly' = on_fly + (IF Sends(rqa_rdy) THEN 1 ELSE 0) - (IF takes THEN 1 ELSE 0)
    /\ rss_rd' = ~Stalled(rss_fifo)
    /\ rrs_fifo' = FifoNext(rrs_fifo, LsuRsDepth, rrs_rd, rrs_wr, rrs)
    /\ IF reinit
       THEN disabled_q' = FALSE /\ rss_fifo' = rss_fifo \o new /\ UNCHANGED <<rrs_wr, rrs>>
       ELSE IF Disabled
       THEN disabled_q' = TRUE /\ rss_fifo' = new /\ rrs_wr' = FALSE /\ UNCHANGED rrs
       ELSE /\ UNCHANGED disabled_q
            /\ rss_fifo' = FifoRead(rss_fifo, hands) \o new
            /\ rrs_wr' = (hands \/ (rrs_wr /\ full))
            /\ rrs' = IF hands THEN [lane |-> Head(rss_fifo).lane, pair |-> Head(rss_fifo).pair]
                      ELSE rrs
=============================================================================
