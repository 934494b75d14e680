----------------------------- MODULE CuExecute -----------------------------
(***************************************************************************)
(* The execute unit of the control unit (vxe_cu_exec_unit.v), which        *)
(* carries out the control commands and tells the end of a program, and    *)
(* the interrupts and faults unit (vxe_cu_intr_flt_unit.v).                *)
(***************************************************************************)
EXTENDS Integers

VARIABLES
    ctl_fsm,             \* control state machine
    sync_intr,           \* the SYNC under way wants an interrupt
    unhalt, send_intr, complete,
    intr_vld, intr,      \* interrupt sent to the interrupt unit, and its bits
    last_instr_addr

executeVars == <<ctl_fsm, sync_intr, unhalt, send_intr, complete>>
intrVars == <<intr_vld, intr, last_instr_addr>>

IntrBits == {"COMPLETED", "ERR_FETCH", "ERR_INSTR", "ERR_DATA"}

ExecuteInit ==
    /\ ctl_fsm = "IDLE" /\ sync_intr = FALSE
    /\ unhalt = FALSE /\ send_intr = FALSE /\ complete = FALSE
    /\ intr_vld = FALSE /\ intr = {} /\ last_instr_addr = 0

\* Each of these is one branch of the state machine at an edge of the clock:
\* the program ends with an interrupt, with its completion flag, and unhalts.
End(with_intr, with_complete) ==
    /\ send_intr' = with_intr /\ complete' = with_complete /\ unhalt' = TRUE
    /\ ctl_fsm' = "IDLE"

Silent == send_intr' = FALSE /\ complete' = FALSE

ExecuteIdle(i_start) ==
    /\ ctl_fsm = "IDLE"
    /\ Silent /\ unhalt' = FALSE
    /\ ctl_fsm' = IF i_start THEN "EXEC" ELSE "IDLE"
    /\ UNCHANGED sync_intr

\* Mutant: a NOP is not acknowledged
ExecuteCommandNoNop(i_nop, i_sync, i_stop, i_intr, units_busy) ==
    /\ ctl_fsm = "EXEC"
    /\ sync_intr' = IF i_sync THEN i_intr ELSE sync_intr
    /\ IF ~units_busy
       THEN End(TRUE, FALSE)
       ELSE /\ Silent
            /\ unhalt' = FALSE
            /\ ctl_fsm' = IF ~i_sync THEN "EXEC" ELSE IF i_stop THEN "WAIT" ELSE "SYNC"

\* Nothing is under way though no SYNC has stopped the program: a fault has.
ExecuteCommand(i_nop, i_sync, i_stop, i_intr, units_busy) ==
    /\ ctl_fsm = "EXEC"
    /\ sync_intr' = IF i_sync THEN i_intr ELSE sync_intr
    /\ IF ~units_busy
       THEN End(TRUE, FALSE)
       ELSE /\ Silent
            /\ unhalt' = (i_nop /\ ~i_sync)
            /\ ctl_fsm' = IF ~i_sync THEN "EXEC" ELSE IF i_stop THEN "WAIT" ELSE "SYNC"

ExecuteSync(sync_wait) ==
    /\ ctl_fsm = "SYNC"
    /\ IF sync_wait
       THEN UNCHANGED executeVars
       ELSE /\ send_intr' = sync_intr /\ unhalt' = TRUE /\ ctl_fsm' = "EXEC"
            /\ UNCHANGED <<complete, sync_intr>>

ExecuteWait(units_busy) ==
    /\ ctl_fsm = "WAIT"
    /\ IF units_busy THEN UNCHANGED executeVars
                     ELSE End(sync_intr, sync_intr) /\ UNCHANGED sync_intr

\* Mutant: the bits of a program are told again with the next one
IntrClockKeeps(i_flt_vpu, i_flt_fetch, i_fetch_addr, i_flt_decode, i_decode_addr) ==
    /\ intr_vld' = send_intr
    /\ intr' = intr \cup {b \in IntrBits : \/ b = "COMPLETED" /\ complete
                                           \/ b = "ERR_DATA" /\ i_flt_vpu
                                           \/ b = "ERR_FETCH" /\ i_flt_fetch
                                           \/ b = "ERR_INSTR" /\ i_flt_decode}
    /\ last_instr_addr' = IF i_flt_decode THEN i_decode_addr
                          ELSE IF i_flt_fetch THEN i_fetch_addr ELSE last_instr_addr

\* The bits collected are sent with an interrupt and cleared a cycle later; a
\* fault reported in that very cycle is kept for the next interrupt.
IntrClock(i_flt_vpu, i_flt_fetch, i_fetch_addr, i_flt_decode, i_decode_addr) ==
    /\ intr_vld' = send_intr
    /\ intr' = (IF intr_vld THEN {} ELSE intr)
                 \cup {b \in IntrBits : \/ b = "COMPLETED" /\ complete
                                        \/ b = "ERR_DATA" /\ i_flt_vpu
                                        \/ b = "ERR_FETCH" /\ i_flt_fetch
                                        \/ b = "ERR_INSTR" /\ i_flt_decode}
    /\ last_instr_addr' = IF i_flt_decode THEN i_decode_addr
                          ELSE IF i_flt_fetch /\ "ERR_INSTR" \notin intr
                          THEN i_fetch_addr ELSE last_instr_addr
=============================================================================
