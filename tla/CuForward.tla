------------------------------ MODULE CuForward ------------------------------
(***************************************************************************)
(* The forwarding units of the control unit (vxe_cu_vpu_fwd_unit.v), one   *)
(* for each vector unit: a FIFO, and a register that holds a command on    *)
(* the command bus until the vector unit acknowledges it.  cmd_tx_fsm is   *)
(* its output o_vpu_cmd_sel.                                               *)
(***************************************************************************)
EXTENDS CuDispatch

CONSTANT FwdDepth        \* 2 ** VPU_FWD_DEPTH_POW2

ASSUME FwdDepthAssumption == FwdDepth \in Nat \ {0}

VARIABLES
    fwd_fifo,
    vpu_cmd_sel,
    vpu_cmd

forwardVars == <<fwd_fifo, vpu_cmd_sel, vpu_cmd>>

ForwardInit ==
    /\ fwd_fifo = [v \in Vpu |-> << >>]
    /\ vpu_cmd_sel = [v \in Vpu |-> FALSE]
    /\ vpu_cmd = [v \in Vpu |-> 0]

\* Mutant: ready when full
FwdReadyLate == [v \in Vpu |-> Len(fwd_fifo[v]) <= FwdDepth]

o_fwd_vpu_rdy == [v \in Vpu |-> Len(fwd_fifo[v]) < FwdDepth]
FwdPipesActive == \E v \in Vpu : fwd_fifo[v] # << >> \/ vpu_cmd_sel[v]

ForwardClock(i_fwd_vpu_wr, i_fwd_vpu, i_vpu_cmd_ack) ==
    LET loads(v) == Loads(vpu_cmd_sel[v], i_vpu_cmd_ack[v], fwd_fifo[v]) IN
    /\ fwd_fifo' = [v \in Vpu |-> FifoNext(fwd_fifo[v], FwdDepth, loads(v),
                                           i_fwd_vpu_wr[v], i_fwd_vpu[v])]
    /\ vpu_cmd_sel' = [v \in Vpu |-> StillOffers(vpu_cmd_sel[v], i_vpu_cmd_ack[v],
                                                 fwd_fifo[v])]
    /\ vpu_cmd' = [v \in Vpu |-> IF loads(v) THEN Head(fwd_fifo[v]) ELSE vpu_cmd[v]]
=============================================================================
