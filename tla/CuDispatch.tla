----------------------------- MODULE CuDispatch -----------------------------
(***************************************************************************)
(* The dispatch unit of the control unit (vxe_cu_dispatch_unit.v) and its  *)
(* decoder (vxe_cu_cmd_decoder.v): it receives command words, decodes them *)
(* in order, keeps those for the control unit itself and hands the others  *)
(* to one vector unit or to all.                                           *)
(*                                                                         *)
(* The halt request, which the execute unit ties to zero, is left out.      *)
(* Intermediate FIFOs have four slots.  o_fetch_rd is high in rx_fsm       *)
(* "READ", and a forwarding state machine is its output o_fwd_wr.          *)
(***************************************************************************)
EXTENDS Integers, Sequences, FifoStep

CONSTANT Vpu             \* the vector units

VARIABLES
    memory,              \* the command words by address; the CU reads it only
    rx_fsm,              \* receive state machine
    flt_fetch, flt_fetch_addr,
    cmd_fifo,            \* intermediate FIFO of received commands
    dp_fsm,              \* decode and dispatch state machine
    flt_decode, flt_decode_addr,
    ctl_nop, ctl_sync, ctl_sync_stop, ctl_sync_intr,
    cvpu_fifo,           \* intermediate FIFO of each vector unit
    fwd_wr, fwd_cmd      \* the command offered to each forwarding unit

ctlVars == <<ctl_nop, ctl_sync, ctl_sync_stop, ctl_sync_intr>>
dispatchVars == <<rx_fsm, flt_fetch, flt_fetch_addr, cmd_fifo, dp_fsm,
                  flt_decode, flt_decode_addr, ctlVars, cvpu_fifo, fwd_wr, fwd_cmd>>

DispatchInit ==
    /\ rx_fsm = "IDLE" /\ flt_fetch = FALSE /\ flt_fetch_addr = 0
    /\ cmd_fifo = << >> /\ dp_fsm = "IDLE"
    /\ flt_decode = FALSE /\ flt_decode_addr = 0
    /\ ctl_nop = FALSE /\ ctl_sync = FALSE
    /\ ctl_sync_stop = FALSE /\ ctl_sync_intr = FALSE
    /\ cvpu_fifo = [v \in Vpu |-> << >>]
    /\ fwd_wr = [v \in Vpu |-> FALSE] /\ fwd_cmd = [v \in Vpu |-> 0]

-----------------------------------------------------------------------------
(* The decoder.  What matters of a word is the class the decoder gives it: *)
(* "nop", "sync" with its flags, "vpu" with the vector units addressed, or *)
(* "bad" when it does not decode; and "err" when reading it fails, as it   *)
(* does where there is no memory.                                          *)

Nop == [op |-> "nop"]
Bad == [op |-> "bad"]
Err == [op |-> "err"]
Sync(stop, intr) == [op |-> "sync", stop |-> stop, intr |-> intr]
Cmd(mask) == [op |-> "vpu", mask |-> mask]

Op(a) == IF a \in DOMAIN memory THEN memory[a].op ELSE "err"
Mask(a) == IF Op(a) = "vpu" THEN memory[a].mask ELSE {}

-----------------------------------------------------------------------------
(* Wires.                                                                  *)

StopCond == ctl_sync /\ ctl_sync_stop
Halting == flt_decode \/ StopCond
DisPipesActive == cmd_fifo # << >> \/ \E v \in Vpu : cvpu_fifo[v] # << >>
o_fetch_rd == rx_fsm = "READ"

\* The command at the head of cmd_fifo goes to vector units that can take it.
Forwards == /\ dp_fsm = "DECD" /\ cmd_fifo # << >>
            /\ Op(Head(cmd_fifo)) = "vpu"
            /\ \A v \in Mask(Head(cmd_fifo)) : ~Stalled(cvpu_fifo[v])

IsControl == /\ dp_fsm = "DECD" /\ cmd_fifo # << >>
             /\ Op(Head(cmd_fifo)) \in {"nop", "sync"}

IsBad == /\ dp_fsm = "DECD" /\ cmd_fifo # << >>
         /\ Op(Head(cmd_fifo)) = "bad"

-----------------------------------------------------------------------------
\* A word is taken in every cycle of READ that offers one; when commands are to
\* halt, the word taken in that cycle is dropped.  If no word is offered, the
\* error bit that holds off a stall is what is left in the FIFO: any value.
ReceiveFSM(i_vld, i_addr, i_unhalt) ==
    LET faulty == o_fetch_rd /\ i_vld /\ Op(i_addr) = "err" IN
    /\ flt_fetch' = IF faulty THEN TRUE
                    ELSE IF rx_fsm = "HALT" THEN FALSE ELSE flt_fetch
    /\ flt_fetch_addr' = IF faulty THEN i_addr ELSE flt_fetch_addr
    /\ \/ /\ rx_fsm \in {"READ", "STLL"} /\ (Halting \/ faulty)
          /\ rx_fsm' = "HALT"
       \/ /\ rx_fsm = "READ" /\ ~Halting /\ ~faulty
          /\ rx_fsm' \in IF Stalled(cmd_fifo)
                         THEN IF i_vld THEN {"STLL"} ELSE {"STLL", "READ"}
                         ELSE {"READ"}
       \/ /\ rx_fsm = "STLL" /\ ~Halting
          /\ rx_fsm' = IF Stalled(cmd_fifo) THEN "STLL" ELSE "READ"
       \/ /\ rx_fsm = "HALT"
          /\ rx_fsm' = IF i_unhalt THEN "IDLE" ELSE "HALT"
       \/ /\ rx_fsm = "IDLE"
          /\ rx_fsm' = "READ"

\* A control command or a word that does not decode halts the dispatch until
\* the execute unit has dealt with it.
DispatchFSM(i_unhalt) ==
    /\ dp_fsm' = IF dp_fsm = "HALT" THEN IF i_unhalt THEN "IDLE" ELSE "HALT"
                 ELSE IF IsBad \/ IsControl THEN "HALT" ELSE "DECD"
    /\ flt_decode' = IF dp_fsm = "HALT" THEN FALSE ELSE flt_decode \/ IsBad
    /\ flt_decode_addr' = IF IsBad THEN Head(cmd_fifo) ELSE flt_decode_addr
    /\ IF IsControl
       THEN LET w == memory[Head(cmd_fifo)] IN
            /\ ctl_nop' = (w.op = "nop")
            /\ ctl_sync' = (w.op = "sync")
            /\ ctl_sync_stop' = (w.op = "sync" /\ w.stop)
            /\ ctl_sync_intr' = (w.op = "sync" /\ w.intr)
       ELSE /\ ctl_nop' = (ctl_nop /\ dp_fsm # "HALT")
            /\ ctl_sync' = (ctl_sync /\ dp_fsm # "HALT")
            /\ UNCHANGED <<ctl_sync_stop, ctl_sync_intr>>

\* Everything received after a command that halts is discarded.
CommandFifo(i_vld, i_addr) ==
    cmd_fifo' = IF dp_fsm = "HALT" /\ Halting THEN << >>
                ELSE FifoRead(cmd_fifo, Forwards \/ IsControl)
                       \o (IF o_fetch_rd /\ i_vld /\ Op(i_addr) # "err" /\ ~Halting
                           THEN <<i_addr>> ELSE << >>)

\* The intermediate FIFO of a vector unit, and the register it is sent from.
ForwardFSM(v, i_fwd_rdy) ==
    LET loads == Loads(fwd_wr[v], i_fwd_rdy[v], cvpu_fifo[v]) IN
    [fifo |-> FifoRead(cvpu_fifo[v], loads)
                \o (IF Forwards /\ v \in Mask(Head(cmd_fifo))
                    THEN <<Head(cmd_fifo)>> ELSE << >>),
     wr   |-> StillOffers(fwd_wr[v], i_fwd_rdy[v], cvpu_fifo[v]),
     cmd  |-> IF loads THEN Head(cvpu_fifo[v]) ELSE fwd_cmd[v]]

DispatchClock(i_fetch_vld, i_fetch_addr, i_unhalt, i_fwd_rdy) ==
    /\ ReceiveFSM(i_fetch_vld, i_fetch_addr, i_unhalt)
    /\ DispatchFSM(i_unhalt)
    /\ CommandFifo(i_fetch_vld, i_fetch_addr)
    /\ cvpu_fifo' = [v \in Vpu |-> ForwardFSM(v, i_fwd_rdy).fifo]
    /\ fwd_wr' = [v \in Vpu |-> ForwardFSM(v, i_fwd_rdy).wr]
    /\ fwd_cmd' = [v \in Vpu |-> ForwardFSM(v, i_fwd_rdy).cmd]
    /\ UNCHANGED memory
=============================================================================
