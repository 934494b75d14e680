------------------------------ MODULE CuFetch ------------------------------
(***************************************************************************)
(* The fetch unit of the control unit (vxe_cu_fetch_unit.v): it requests   *)
(* command words from consecutive addresses until it is told to stop, and  *)
(* then drains what it requested.                                          *)
(*                                                                         *)
(* A command word is represented by its address.  Registers that are       *)
(* always loaded together are one variable: f_rq_in and o_rqa (rq_addr),   *)
(* the status and data FIFOs of responses (rss_fifo); an output that is    *)
(* high in exactly one state of a state machine is that state.             *)
(***************************************************************************)
EXTENDS Integers, Sequences, FifoStep

CONSTANT FetchDepth      \* 2 ** FETCH_DEPTH_POW2

ASSUME FetchDepthAssumption == FetchDepth \in Nat /\ FetchDepth >= 2

VARIABLES
    fetch_addr,          \* the address to request next
    rq_fsm,              \* request state machine
    rq_addr,             \* the address offered to memory and to rq_fifo,
    o_rqa_wr, f_rq_wr,   \*     and whether it still is
    rq_fifo,             \* addresses requested and not yet dispatched
    rs_fsm,              \* response state machine; o_rss_rd in "RECV"
    rss_fifo,            \* intermediate FIFO of responses, four deep
    f_rs_wr, f_rs_in,    \* the word offered to rs_fifo; scm_fsm is f_rs_wr
    rs_fifo,             \* words received
    drain                \* discarding what was requested

rqVars == <<fetch_addr, rq_fsm, rq_addr, o_rqa_wr, f_rq_wr>>
fetchVars == <<rqVars, rq_fifo, rs_fsm, rss_fifo, f_rs_wr, f_rs_in, rs_fifo, drain>>

FetchInit ==
    /\ fetch_addr = 0 /\ rq_addr = 0
    /\ rq_fsm = "IDLE" /\ o_rqa_wr = FALSE /\ f_rq_wr = FALSE
    /\ rs_fsm = "IDLE" /\ f_rs_wr = FALSE /\ f_rs_in = 0
    /\ rq_fifo = << >> /\ rss_fifo = << >> /\ rs_fifo = << >>
    /\ drain = FALSE

-----------------------------------------------------------------------------
(* Wires.                                                                  *)

f_rq_vld == rq_fifo # << >>
f_rs_vld == rs_fifo # << >>
f_rq_rdy == Len(rq_fifo) < FetchDepth
f_rs_rdy == Len(rs_fifo) < FetchDepth

fetch_vld == f_rq_vld /\ f_rs_vld
o_fetch_vld == fetch_vld /\ ~drain
o_fetch_addr == Head(rq_fifo)
o_fetch_data == Head(rs_fifo)

o_rss_rd == rs_fsm = "RECV"

\* Mutant: responses still to come do not count
FetchBusyRequests(i_start, i_stop_drain) ==
    i_start \/ i_stop_drain \/ rq_fsm # "IDLE"

FetchBusy(i_start, i_stop_drain) ==
    \/ i_start \/ i_stop_drain \/ drain
    \/ rq_fsm # "IDLE" \/ rs_fsm # "IDLE" \/ f_rs_wr

-----------------------------------------------------------------------------
(* The state machines, at an edge of the clock.                            *)

\* The next request is offered to memory and to rq_fifo, each of which takes
\* it in its own time.
NextRequest ==
    /\ rq_addr' = fetch_addr
    /\ fetch_addr' = fetch_addr + 1

StopRequests == o_rqa_wr' = FALSE /\ f_rq_wr' = FALSE /\ rq_fsm' = "IDLE"

WithdrawTaken(i_rqa_rdy) ==
    /\ o_rqa_wr' = (o_rqa_wr /\ ~i_rqa_rdy)
    /\ f_rq_wr' = (f_rq_wr /\ ~f_rq_rdy)
    /\ UNCHANGED <<fetch_addr, rq_addr>>

RequestFSM(i_rqa_rdy, i_start, i_start_addr) ==
    LET rq_stall == ~i_rqa_rdy \/ ~f_rq_rdy IN
    \/ /\ rq_fsm = "SEND" /\ rq_stall
       /\ WithdrawTaken(i_rqa_rdy)
       /\ rq_fsm' = "STLL"
    \/ /\ rq_fsm = "SEND" /\ ~rq_stall
       /\ NextRequest
       /\ IF drain THEN StopRequests ELSE UNCHANGED <<o_rqa_wr, f_rq_wr, rq_fsm>>
    \/ /\ rq_fsm = "STLL" /\ rq_stall
       /\ WithdrawTaken(i_rqa_rdy)
       /\ UNCHANGED rq_fsm
    \/ /\ rq_fsm = "STLL" /\ ~rq_stall /\ ~drain
       /\ NextRequest
       /\ o_rqa_wr' = TRUE /\ f_rq_wr' = TRUE /\ rq_fsm' = "SEND"
    \/ /\ rq_fsm = "STLL" /\ ~rq_stall /\ drain
       /\ StopRequests
       /\ UNCHANGED <<fetch_addr, rq_addr>>
    \/ /\ rq_fsm = "IDLE" /\ i_start /\ ~drain
       /\ NextRequest
       /\ o_rqa_wr' = TRUE /\ f_rq_wr' = TRUE /\ rq_fsm' = "SEND"
    \/ /\ rq_fsm = "IDLE" /\ ~(i_start /\ ~drain)
       /\ fetch_addr' = i_start_addr
       /\ UNCHANGED <<rq_addr, o_rqa_wr, f_rq_wr, rq_fsm>>

\* rs_fsm leaves RECV when a stall is near, and for good when nothing is
\* outstanding: the later assignment wins.
ResponseFSM ==
    rs_fsm' = IF rs_fsm = "RECV"
              THEN IF ~f_rq_vld THEN "IDLE"
                   ELSE IF Stalled(rss_fifo) THEN "STLL" ELSE "RECV"
              ELSE IF rs_fsm = "STLL"
              THEN IF Stalled(rss_fifo) THEN "STLL" ELSE "RECV"
              ELSE IF f_rq_vld THEN "RECV" ELSE "IDLE"

\* A word moves from the intermediate FIFO to the output register when that is
\* free or is just taken by rs_fifo.
SendCommandFSM ==
    /\ f_rs_wr' = StillOffers(f_rs_wr, f_rs_rdy, rss_fifo)
    /\ f_rs_in' = IF Loads(f_rs_wr, f_rs_rdy, rss_fifo) THEN Head(rss_fifo) ELSE f_rs_in

\* Nothing keeps a word from being written to a full intermediate FIFO but
\* rs_fsm stopping in time.
ResponseFifo(i_rss_vld, i_rss) ==
    rss_fifo' = FifoRead(rss_fifo, Loads(f_rs_wr, f_rs_rdy, rss_fifo))
                  \o (IF o_rss_rd /\ i_rss_vld THEN <<i_rss>> ELSE << >>)

DrainFSM(i_stop_drain) ==
    drain' = IF drain THEN f_rq_vld \/ f_rs_vld ELSE i_stop_drain

FetchClock(i_rqa_rdy, i_rss_vld, i_rss, i_start, i_start_addr, i_stop_drain, i_fetch_rd) ==
    LET rd == (i_fetch_rd \/ drain) /\ fetch_vld IN
    /\ RequestFSM(i_rqa_rdy, i_start, i_start_addr)
    /\ ResponseFSM
    /\ SendCommandFSM
    /\ ResponseFifo(i_rss_vld, i_rss)
    /\ DrainFSM(i_stop_drain)
    /\ rq_fifo' = FifoNext(rq_fifo, FetchDepth, rd, f_rq_wr, rq_addr)
    /\ rs_fifo' = FifoNext(rs_fifo, FetchDepth, rd, f_rs_wr, f_rs_in)
=============================================================================
