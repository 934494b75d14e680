----------------------------- MODULE VxeCtrlUnit -----------------------------
(***************************************************************************)
(* The control unit of the engine (vxe_ctrl_unit.v): fetch, dispatch,      *)
(* forwarding, execute, and interrupts and faults units wired together.    *)
(* One step is one edge of the clock; every unit steps in it.              *)
(*                                                                         *)
(* Around it are what its ports see of the rest of the engine: the         *)
(* registers a host starts it with (vxe_regio.v), the memory hub, and the  *)
(* command queues of the vector units (vxe_vpu_cmd_queue.v), whose work    *)
(* and memory errors are free.                                             *)
(***************************************************************************)
EXTENDS CuFetch, CuExecute, CuForward, FiniteSets, SequencesExt

CONSTANTS
    HubDepth,            \* requests or responses the memory hub holds
    VpuDepth,            \* commands a vector unit holds
    Faulty,              \* the vector units that may meet memory errors
    Images,              \* contents of memory
    Programs(_)          \* the addresses where the programs of an image start

ASSUME AroundAssumption == /\ HubDepth \in Nat \ {0} /\ VpuDepth \in Nat \ {0}
                           /\ Faulty \subseteq Vpu
ASSUME ImagesAssumption ==
    \A m \in Images :
        /\ Programs(m) \subseteq Nat /\ DOMAIN m \subseteq Nat
        /\ \A a \in DOMAIN m : m[a].op = "vpu" => m[a].mask \subseteq Vpu

VARIABLES
    cu_start, pgm_addr,  \* registers of regio
    glb_start,
    hub_rq, hub_rs,      \* memory hub: requests, and responses to take
    qactive,             \* the command queue of the vector unit is active
    vpu_queue,           \* its commands; it carries out the first
    base,                \* ghost: where the program under way starts
    last,                \* ghost: the last command each vector unit took
    erred                \* ghost: the program under way met an error of a vector unit

ghostVars == <<base, last, erred>>
regioVars == <<cu_start, pgm_addr, glb_start>>
hubVars == <<hub_rq, hub_rs>>
vpuVars == <<qactive, vpu_queue>>
vars == <<fetchVars, memory, dispatchVars, executeVars, intrVars, forwardVars,
          regioVars, hubVars, vpuVars, ghostVars>>

Init ==
    /\ FetchInit /\ DispatchInit /\ ExecuteInit /\ ForwardInit
    /\ memory \in Images
    /\ cu_start = FALSE /\ pgm_addr \in Programs(memory) /\ glb_start = FALSE
    /\ hub_rq = << >> /\ hub_rs = << >>
    /\ qactive = [v \in Vpu |-> FALSE]
    /\ vpu_queue = [v \in Vpu |-> << >>]
    /\ base = 0 /\ last = [v \in Vpu |-> -1] /\ erred = FALSE

-----------------------------------------------------------------------------
(* Wires.                                                                  *)

vpus_busy == \E v \in Vpu : vpu_queue[v] # << >>

o_stop_drain(vpus_err) == flt_fetch \/ flt_decode \/ vpus_err \/ StopCond

UnitsBusyNoVpus(vpus_err) ==      \* mutant: vector units are not waited for
    \/ FetchBusy(glb_start, o_stop_drain(vpus_err))
    \/ DisPipesActive \/ FwdPipesActive
units_busy(vpus_err) == \/ FetchBusy(glb_start, o_stop_drain(vpus_err))
                        \/ DisPipesActive \/ FwdPipesActive \/ vpus_busy

\* The pipes of the dispatch unit are not among what a SYNC waits for.
SyncWaitVpus == vpus_busy         \* mutant: commands on their way are not waited for
sync_wait == FwdPipesActive \/ vpus_busy

glb_busy(vpus_err) == units_busy(vpus_err) \/ ctl_fsm # "IDLE"

i_rqa_rdy == Len(hub_rq) < HubDepth
o_cmd_ack == [v \in Vpu |-> qactive[v] => Len(vpu_queue[v]) < VpuDepth]

\* The command vector unit v takes or drops at the edge.
Accepts(v) == vpu_cmd_sel[v] /\ o_cmd_ack[v]

-----------------------------------------------------------------------------
\* A host writes the address of a program while the engine is idle, and START
\* at any time.
RegioClock(io, vpus_err) ==
    /\ io \in Programs(memory) => ~glb_busy(vpus_err)
    /\ pgm_addr' = IF io \in Programs(memory) THEN io ELSE pgm_addr
    /\ cu_start' = (io = -1 /\ ~glb_busy(vpus_err))
    /\ glb_start' = (cu_start /\ ~glb_busy(vpus_err))

\* The hub answers requests in order, each in its own time, with status and
\* data together.
HubClock(serve) ==
    LET rq == IF o_rqa_wr /\ i_rqa_rdy THEN Append(hub_rq, rq_addr) ELSE hub_rq
        rs == FifoRead(hub_rs, o_rss_rd)
    IN  IF serve
        THEN /\ hub_rq # << >> /\ Len(hub_rs) < HubDepth
             /\ hub_rq' = Tail(rq)
             /\ hub_rs' = Append(rs, Head(rq))
        ELSE hub_rq' = rq /\ hub_rs' = rs

\* An error of the vector unit drops what it has not begun, and closes its queue
\* until the next start; a closed queue takes commands and drops them.
VpuClock(done, err) ==
    LET kept(v) == FifoRead(vpu_queue[v], v \in done) IN
    /\ \A v \in done \cup err : vpu_queue[v] # << >>
    /\ qactive' = [v \in Vpu |-> IF qactive[v] THEN v \notin err ELSE cu_start]
    /\ vpu_queue' = [v \in Vpu |->
            IF v \in err
            THEN IF v \in done THEN << >> ELSE <<Head(vpu_queue[v])>>
            ELSE IF qactive[v] /\ Accepts(v) THEN Append(kept(v), vpu_cmd[v])
            ELSE kept(v)]

GhostClock(err) ==
    /\ base' = IF glb_start THEN fetch_addr ELSE base
    /\ erred' = (~glb_start /\ (erred \/ err # {}))
    /\ last' = [v \in Vpu |-> IF glb_start THEN fetch_addr - 1
                              ELSE IF Accepts(v) THEN vpu_cmd[v] ELSE last[v]]

Execute(vpus_err) ==
    \/ ExecuteIdle(glb_start)
    \/ ExecuteCommand(ctl_nop, ctl_sync, ctl_sync_stop, ctl_sync_intr,
                      units_busy(vpus_err))
    \/ ExecuteSync(sync_wait)
    \/ ExecuteWait(units_busy(vpus_err))

Clock(io, serve, done, err) ==
    /\ RegioClock(io, err # {})
    /\ HubClock(serve)
    /\ VpuClock(done, err)
    /\ FetchClock(i_rqa_rdy, hub_rs # << >>, IF hub_rs = << >> THEN 0 ELSE Head(hub_rs),
                  glb_start, pgm_addr, o_stop_drain(err # {}), o_fetch_rd)
    /\ DispatchClock(o_fetch_vld, IF o_fetch_vld THEN o_fetch_addr ELSE 0,
                     unhalt, o_fwd_vpu_rdy)
    /\ ForwardClock(fwd_wr, fwd_cmd, o_cmd_ack)
    /\ Execute(err # {})
    /\ IntrClock(err # {}, flt_fetch, flt_fetch_addr, flt_decode, flt_decode_addr)
    /\ GhostClock(err)

Next == \E io \in Programs(memory) \cup {-2, -1}, serve \in BOOLEAN,
           done \in SUBSET Vpu, err \in SUBSET Faulty :
            Clock(io, serve, done, err)

\* The clock runs.
Tick == Clock(-2, FALSE, {}, {})

\* The hub answers every request, and a vector unit finishes every command:
\* weak fairness, where the step is known by what it does to the first element.
Leaves(q, r) == q # << >> /\ (r = << >> \/ Head(r) # Head(q))
HubServes ==
    \/ []<>~(hub_rq # << >> /\ Len(hub_rs) < HubDepth)
    \/ []<><<Leaves(hub_rq, hub_rq')>>_hubVars
VpuFinishes(v) ==
    \/ []<>(vpu_queue[v] = << >>)
    \/ []<><<Leaves(vpu_queue[v], vpu_queue'[v])>>_vpuVars

Spec == /\ Init /\ [][Next]_vars
        /\ WF_vars(Tick) /\ HubServes
        /\ \A v \in Vpu : VpuFinishes(v)

-----------------------------------------------------------------------------
(* Properties.                                                             *)

Addresses == DOMAIN memory
Stop(a) == Op(a) = "sync" /\ memory[a].stop
Ends(a) == Stop(a) \/ Op(a) \in {"bad", "err"}

\* Commands on their way from the dispatch of a command to its end.
ForwardedTo(v) == ToSet(cvpu_fifo[v]) \cup ToSet(fwd_fifo[v])
                    \cup (IF fwd_wr[v] THEN {fwd_cmd[v]} ELSE {})
                    \cup (IF vpu_cmd_sel[v] THEN {vpu_cmd[v]} ELSE {})
InFlight == UNION {ForwardedTo(v) \cup ToSet(vpu_queue[v]) : v \in Vpu}

Idle == ~glb_busy(FALSE) /\ ~glb_start

\* No intermediate FIFO is written when it is full: the units stop one write
\* before that, for the write that is then under way.
FifosFit ==
    /\ Len(rss_fifo) <= Slots4 /\ Len(cmd_fifo) <= Slots4
    /\ \A v \in Vpu : Len(cvpu_fifo[v]) <= Slots4

\* A vector unit gets the commands of the program that are for it, in order and
\* without a gap, and none from behind the end of the program.
CommandsInOrder ==
    [][\A v \in Vpu : Accepts(v) =>
          /\ v \in Mask(vpu_cmd[v])
          /\ \A a \in Addresses :
                /\ base <= a /\ a < vpu_cmd[v] => ~Ends(a)
                /\ v \in Mask(a) /\ base <= a => (a <= last[v] \/ a >= vpu_cmd[v])
          /\ last[v] < vpu_cmd[v]]_vars

\* Commands before and after a SYNC are never under way together.
SyncBarrier ==
    \A c, d \in InFlight, s \in Addresses : Op(s) = "sync" => (c < s <=> d < s)

\* The program has an end, and the vector units have taken every command before it.
Carried ==
    \E e \in Addresses :
        /\ Stop(e) /\ base <= e
        /\ \A a \in Addresses : base <= a /\ a < e =>
              ~Ends(a) /\ \A v \in Mask(a) : a <= last[v]

\* When the engine tells the completion of a program, every command before its
\* end has reached its vector units and is finished.
CompleteMeansDone == complete => InFlight = {} /\ Carried

\* A program that a fault ends is ended when "no commands pending and units are
\* idle".  It is not: the register between the dispatch unit and a forwarding unit
\* counts for neither, so a command alone in it is under way unseen.
NothingPending ==
    send_intr /\ ctl_fsm = "IDLE" => InFlight = {}

\* The interrupt that ends a program says how this program ended, and nothing of the
\* one before it: completion only of a program carried out to its end, a fetch or
\* decoding error only with the address of such a word of this program, and every
\* memory error that a unit met.  It always says something.
EndIsTold ==
    intr_vld /\ ctl_fsm = "IDLE" =>
        /\ intr # {} /\ (intr = {"ERR_DATA"} => erred)
        /\ "COMPLETED" \in intr => Carried
        /\ erred => "ERR_DATA" \in intr
        /\ "ERR_INSTR" \in intr => base <= last_instr_addr /\ Op(last_instr_addr) = "bad"
        /\ "ERR_FETCH" \in intr /\ "ERR_INSTR" \notin intr =>
              base <= last_instr_addr /\ Op(last_instr_addr) = "err"

\* An idle engine has nothing left of a program: the next one starts clean.
QuietWhenIdle ==
    Idle => /\ \A f \in {rq_fifo, rs_fifo, rss_fifo, cmd_fifo, hub_rq, hub_rs} : f = << >>
            /\ InFlight = {}
            /\ ~o_rqa_wr /\ ~f_rq_wr

\* Every program ends, and the engine can be started again.
EveryProgramEnds == glb_start ~> Idle
=============================================================================
