------------------------------- MODULE KdJobs -------------------------------
(***************************************************************************)
(* The job machinery of the kernel driver (sw/kd): the RUNPGM and          *)
(* FENCE_WAIT ioctls, the ioctls that hold a command buffer exclusively,   *)
(* the scheduler kernel thread, the interrupt handler, context release and *)
(* driver removal, together with the device as the driver sees it.         *)
(*                                                                         *)
(* Actors: user threads inside ioctl handlers, the process that drops the  *)
(* last reference of an open file, the scheduler thread, the interrupt     *)
(* handler on another CPU, and the device.  One action is one access to    *)
(* shared state, or one critical section of a lock.                        *)
(*                                                                         *)
(* A job is named by its sequence number; 0 is the NULL job pointer.       *)
(***************************************************************************)
EXTENDS Integers, Sequences, FiniteSets

CONSTANTS
    Ctx,          \* open files of the device, each with its context
    Thread,       \* user threads that issue ioctls
    Cbuf,         \* command buffers
    FileOf,       \* the context a thread's file descriptor refers to
    OwnerOf,      \* the context a command buffer belongs to
    MaxJobs,      \* module parameter max_jobs_per_ctx
    MaxSeq,       \* bound: jobs submitted in one behaviour
    TimeoutMode,  \* when the job timeout may expire: "quiet" or "any"
    CloseMode     \* when a file is closed: "drained" or "any"

ASSUME FilesAssumption == /\ FileOf \in [Thread -> Ctx]
                          /\ OwnerOf \in [Cbuf -> Ctx]
ASSUME ThreadsAssumption == IsFiniteSet(Thread)
ASSUME LimitsAssumption == /\ MaxJobs \in Nat \ {0}
                           /\ MaxSeq \in Nat \ {0}
ASSUME ModesAssumption == /\ TimeoutMode \in {"quiet", "any"}
                          /\ CloseMode \in {"drained", "any"}

VARIABLES
    active_seq,   \* vxe_device.active_seq
    finished_seq, \* vxe_device.finished_seq
    job_queue,    \* vxe_device.job_queue
    cur_job,      \* vxe_device.cur_job
    num_jobs,     \* vxe_context.num_jobs
    ctx_state,    \* life of a context; "sleep" is on user_wq, uninterruptible
    cbufs,        \* command buffers present in buffers_idr
    locked,       \* those with VXE_BUF_F_LOCKED (and bind_count = 1)
    job,          \* job objects by number: cbuf, done, intr_state, and history:
                  \* the interrupts its program ended with, and what was logged
    pc, arg,      \* user threads: where they are, and their argument
    spc, sjob,    \* scheduler thread: where it is, and its local job
    res,          \* scheduler thread: wait_event_timeout did not time out
    stop,         \* kthread_stop was called
    ipc, ijob,    \* interrupt handler: where it is, and its local job
    iact,         \* interrupt handler: its local active_intr
    hw,           \* the job whose program the device executes, 0 when idle
    raw           \* pending interrupts (INTR_RAW and, unmasked, INTR_ACT)

submitVars == <<active_seq, job_queue, num_jobs, cbufs, locked, pc, arg>>
schedVars == <<finished_seq, cur_job, spc, sjob, res, stop>>
isrVars == <<ipc, ijob, iact>>
devVars == <<hw, raw>>
vars == <<submitVars, ctx_state, job, schedVars, isrVars, devVars>>

None == "none"
Bits == {"completed", "error"}

NewJob(b) == [cbuf |-> b, done |-> FALSE, intr_state |-> {},
              ran |-> {}, verdict |-> None]
NoArg == [cbuf |-> None, seq |-> 0]

(***************************************************************************)
(* Program counters.  A scheduler state is named by what it does next.     *)
(***************************************************************************)
Admitted == {"lookup", "queue", "reject"}
Fencing == {"fence", "fence_sleep"}
ThreadPC == {"idle", "wake", "hold"} \cup Admitted \cup Fencing

Counted == {"set_cur", "start", "wait_done", "done_sleep", "clear", "check",
            "dec"}
HoldingLock == Counted \cup {"unbind"}
HoldingJob == HoldingLock \cup {"kfree"}
HoldingSeq == HoldingJob \cup {"inc", "oops"}
SchedPC == {"wait", "wait_sleep", "fetch", "wake", "exit"}
             \cup HoldingSeq

IsrPC == {"idle", "read_raw", "done", "wake", "read_act", "ack"}
CtxStates == {"closed", "open", "wait", "sleep", "free", "gone"}

CtxOf(s) == OwnerOf[job[s].cbuf]

Init ==
    /\ active_seq = 0
    /\ finished_seq = 0
    /\ job_queue = << >>
    /\ cur_job = 0
    /\ num_jobs = [c \in Ctx |-> 0]
    /\ ctx_state = [c \in Ctx |-> "closed"]
    /\ cbufs = {}
    /\ locked = {}
    /\ job = << >>
    /\ pc = [t \in Thread |-> "idle"]
    /\ arg = [t \in Thread |-> NoArg]
    /\ spc = "wait" /\ sjob = 0 /\ res = FALSE /\ stop = FALSE
    /\ ipc = "idle" /\ ijob = 0 /\ iact = {}
    /\ hw = 0 /\ raw = {}

-----------------------------------------------------------------------------
(* Wait queues: a wake-up moves the sleepers it covers back to their check.*)

\* wake_up_interruptible(sched_wq): only the wait for a job is interruptible
WakeIdleSched == spc' = IF spc = "wait_sleep" THEN "wait" ELSE spc

\* wake_up(sched_wq): covers the uninterruptible wait for completion too
WakeSched == spc' = CASE spc = "wait_sleep" -> "wait"
                      [] spc = "done_sleep" -> "wait_done"
                      [] OTHER -> spc

\* wake_up_interruptible(user_wq): fences, not the uninterruptible releases
WakeFences == pc' = [t \in Thread |->
                        IF pc[t] = "fence_sleep" THEN "fence" ELSE pc[t]]

-----------------------------------------------------------------------------
(* User threads.                                                           *)

Open(c) ==
    /\ ctx_state[c] = "closed"
    /\ ~stop
    /\ ctx_state' = [ctx_state EXCEPT ![c] = "open"]
    /\ UNCHANGED <<submitVars, job, schedVars, isrVars, devVars>>

\* a thread enters an ioctl handler of its own file
Enters(t, next, a) ==
    /\ pc[t] = "idle"
    /\ ctx_state[FileOf[t]] = "open"
    /\ pc' = [pc EXCEPT ![t] = next]
    /\ arg' = [arg EXCEPT ![t] = a]

Leaves(t) ==
    /\ pc' = [pc EXCEPT ![t] = "idle"]
    /\ arg' = [arg EXCEPT ![t] = NoArg]

MayLock(t, b) == b \in cbufs /\ OwnerOf[b] = FileOf[t] /\ b \notin locked

\* CMD_BUFFER_CREATE: the new buffer is locked until the handler returns it
CreateEnter(t, b) ==
    /\ b \notin cbufs
    /\ OwnerOf[b] = FileOf[t]
    /\ Enters(t, "hold", [cbuf |-> b, seq |-> 0])
    /\ cbufs' = cbufs \cup {b}
    /\ locked' = locked \cup {b}
    /\ UNCHANGED <<active_seq, job_queue, num_jobs, ctx_state, job, schedVars,
                   isrVars, devVars>>

\* CMD_BUFFER_UPDATE: the buffer is locked while its program is patched
UpdateEnter(t, b) ==
    /\ MayLock(t, b)
    /\ Enters(t, "hold", [cbuf |-> b, seq |-> 0])
    /\ locked' = locked \cup {b}
    /\ UNCHANGED <<active_seq, job_queue, num_jobs, cbufs, ctx_state, job,
                   schedVars, isrVars, devVars>>

HoldExit(t) ==
    /\ pc[t] = "hold"
    /\ Leaves(t)
    /\ locked' = locked \ {arg[t].cbuf}
    /\ UNCHANGED <<active_seq, job_queue, num_jobs, cbufs, ctx_state, job,
                   schedVars, isrVars, devVars>>

\* Mutant: VXE_BUF_F_LOCKED is not looked at
BufferDestroyLocked(t, b) ==
    /\ pc[t] = "idle"
    /\ ctx_state[FileOf[t]] = "open"
    /\ b \in cbufs /\ OwnerOf[b] = FileOf[t]
    /\ cbufs' = cbufs \ {b}
    /\ UNCHANGED <<active_seq, job_queue, num_jobs, locked, pc, arg, ctx_state,
                   job, schedVars, isrVars, devVars>>

BufferDestroy(t, b) ==
    /\ pc[t] = "idle"
    /\ ctx_state[FileOf[t]] = "open"
    /\ MayLock(t, b)
    /\ cbufs' = cbufs \ {b}
    /\ UNCHANGED <<active_seq, job_queue, num_jobs, locked, pc, arg, ctx_state,
                   job, schedVars, isrVars, devVars>>

\* Mutant: the number of jobs before this one is compared
RunpgmEnterOneMore(t, b) ==
    LET c == FileOf[t]
    IN  /\ active_seq + Cardinality({u \in Thread : pc[u] \in Admitted})
             < MaxSeq
        /\ num_jobs' = [num_jobs EXCEPT ![c] = @ + 1]
        /\ Enters(t, IF num_jobs[c] > MaxJobs THEN "reject" ELSE "lookup",
                  [cbuf |-> b, seq |-> 0])
        /\ UNCHANGED <<active_seq, job_queue, cbufs, locked, ctx_state, job,
                       schedVars, isrVars, devVars>>

\* MaxSeq bounds the behaviour: a thread that could exceed it does not submit
RunpgmEnter(t, b) ==
    LET c == FileOf[t]
    IN  /\ active_seq + Cardinality({u \in Thread : pc[u] \in Admitted})
             < MaxSeq
        /\ num_jobs' = [num_jobs EXCEPT ![c] = @ + 1]
        /\ Enters(t, IF num_jobs[c] + 1 > MaxJobs THEN "reject" ELSE "lookup",
                  [cbuf |-> b, seq |-> 0])
        /\ UNCHANGED <<active_seq, job_queue, cbufs, locked, ctx_state, job,
                       schedVars, isrVars, devVars>>

\* copy_from_user or kzalloc fails
RunpgmFault(t) ==
    /\ pc[t] = "lookup"
    /\ pc' = [pc EXCEPT ![t] = "reject"]
    /\ UNCHANGED <<active_seq, job_queue, num_jobs, cbufs, locked, arg,
                   ctx_state, job, schedVars, isrVars, devVars>>

\* Mutant: a command buffer on the fly is accepted again
RunpgmLookupLocked(t) ==
    LET b == arg[t].cbuf
        found == b \in cbufs /\ OwnerOf[b] = FileOf[t]
    IN  /\ pc[t] = "lookup"
        /\ locked' = IF found THEN locked \cup {b} ELSE locked
        /\ pc' = [pc EXCEPT ![t] = IF found THEN "queue" ELSE "reject"]
        /\ UNCHANGED <<active_seq, job_queue, num_jobs, cbufs, arg, ctx_state,
                       job, schedVars, isrVars, devVars>>

\* under buffers_idr_lock: not found, or on the fly already, or locked for us
RunpgmLookup(t) ==
    LET b == arg[t].cbuf
    IN  /\ pc[t] = "lookup"
        /\ \/ /\ MayLock(t, b)
              /\ locked' = locked \cup {b}
              /\ pc' = [pc EXCEPT ![t] = "queue"]
           \/ /\ ~MayLock(t, b)
              /\ pc' = [pc EXCEPT ![t] = "reject"]
              /\ UNCHANGED locked
        /\ UNCHANGED <<active_seq, job_queue, num_jobs, cbufs, arg, ctx_state,
                       job, schedVars, isrVars, devVars>>

\* Mutant: an error path returns without atomic_dec
RunpgmRejectLeaks(t) ==
    /\ pc[t] = "reject"
    /\ Leaves(t)
    /\ UNCHANGED <<active_seq, job_queue, num_jobs, cbufs, locked, ctx_state,
                   job, schedVars, isrVars, devVars>>

RunpgmReject(t) ==
    /\ pc[t] = "reject"
    /\ num_jobs' = [num_jobs EXCEPT ![FileOf[t]] = @ - 1]
    /\ Leaves(t)
    /\ UNCHANGED <<active_seq, job_queue, cbufs, locked, ctx_state, job,
                   schedVars, isrVars, devVars>>

\* Mutant: the job is queued before job->cbuf is set
RunpgmQueueEarly(t) ==
    /\ pc[t] = "queue"
    /\ active_seq' = active_seq + 1
    /\ job' = Append(job, NewJob(None))
    /\ job_queue' = Append(job_queue, active_seq + 1)
    /\ pc' = [pc EXCEPT ![t] = "wake"]
    /\ UNCHANGED <<num_jobs, cbufs, locked, arg, ctx_state, schedVars,
                   isrVars, devVars>>

\* Mutant: list_add in place of list_add_tail
RunpgmQueueFront(t) ==
    /\ pc[t] = "queue"
    /\ active_seq' = active_seq + 1
    /\ job' = Append(job, NewJob(arg[t].cbuf))
    /\ job_queue' = <<active_seq + 1>> \o job_queue
    /\ pc' = [pc EXCEPT ![t] = "wake"]
    /\ UNCHANGED <<num_jobs, cbufs, locked, arg, ctx_state, schedVars,
                   isrVars, devVars>>

\* under job_queue_lock: take the next number and append to the queue
RunpgmQueue(t) ==
    LET s == active_seq + 1
    IN  /\ pc[t] = "queue"
        /\ active_seq' = s
        /\ job' = Append(job, NewJob(arg[t].cbuf))
        /\ job_queue' = Append(job_queue, s)
        /\ pc' = [pc EXCEPT ![t] = "wake"]
        /\ UNCHANGED <<num_jobs, cbufs, locked, arg, ctx_state, schedVars,
                       isrVars, devVars>>

\* Mutant: no wake_up of sched_wq
RunpgmWakeNobody(t) ==
    /\ pc[t] = "wake"
    /\ Leaves(t)
    /\ UNCHANGED <<active_seq, job_queue, num_jobs, cbufs, locked, ctx_state,
                   job, schedVars, isrVars, devVars>>

\* whether copy_to_user succeeds or not, the job runs and the handler returns
RunpgmWake(t) ==
    /\ pc[t] = "wake"
    /\ WakeIdleSched
    /\ Leaves(t)
    /\ UNCHANGED <<active_seq, job_queue, num_jobs, cbufs, locked, ctx_state,
                   job, finished_seq, cur_job, sjob, res, stop,
                   isrVars, devVars>>

\* a greater number than active_seq is refused with EINVAL
FenceEnter(t, s) ==
    /\ s \in 1..active_seq
    /\ Enters(t, "fence", [cbuf |-> None, seq |-> s])
    /\ UNCHANGED <<active_seq, job_queue, num_jobs, cbufs, locked, ctx_state,
                   job, schedVars, isrVars, devVars>>

FenceCheck(t) ==
    /\ pc[t] = "fence"
    /\ \/ finished_seq >= arg[t].seq /\ Leaves(t)
       \/ /\ finished_seq < arg[t].seq
          /\ pc' = [pc EXCEPT ![t] = "fence_sleep"]
          /\ UNCHANGED arg
    /\ UNCHANGED <<active_seq, job_queue, num_jobs, cbufs, locked, ctx_state,
                   job, schedVars, isrVars, devVars>>

FenceSignal(t) ==
    /\ pc[t] = "fence_sleep"
    /\ Leaves(t)
    /\ UNCHANGED <<active_seq, job_queue, num_jobs, cbufs, locked, ctx_state,
                   job, schedVars, isrVars, devVars>>

-----------------------------------------------------------------------------
(* Closing a file, and removing the driver.                                *)

Drained(c) ==
    \A s \in DOMAIN job : CtxOf(s) = c => s <= finished_seq

\* the last reference is dropped when no ioctl of the file is in progress
Close(c) ==
    /\ ctx_state[c] = "open"
    /\ \A t \in Thread : FileOf[t] = c => pc[t] = "idle"
    /\ CloseMode = "drained" => Drained(c)
    /\ ctx_state' = [ctx_state EXCEPT ![c] = "wait"]
    /\ UNCHANGED <<submitVars, job, schedVars, isrVars, devVars>>

\* Mutant: the wait may be interrupted, and its result is not looked at
ReleaseCheckInterrupted(c) ==
    /\ ctx_state[c] = "wait"
    /\ \E next \in {"free", IF num_jobs[c] = 0 THEN "free" ELSE "sleep"} :
         ctx_state' = [ctx_state EXCEPT ![c] = next]
    /\ UNCHANGED <<submitVars, job, schedVars, isrVars, devVars>>

\* wait_event: uninterruptible
ReleaseCheck(c) ==
    /\ ctx_state[c] = "wait"
    /\ ctx_state' = [ctx_state EXCEPT
                        ![c] = IF num_jobs[c] = 0 THEN "free" ELSE "sleep"]
    /\ UNCHANGED <<submitVars, job, schedVars, isrVars, devVars>>

ReleaseFree(c) ==
    /\ ctx_state[c] = "free"
    /\ ctx_state' = [ctx_state EXCEPT ![c] = "gone"]
    /\ cbufs' = {b \in cbufs : OwnerOf[b] # c}
    /\ locked' = {b \in locked : OwnerOf[b] # c}
    /\ UNCHANGED <<active_seq, job_queue, num_jobs, pc, arg, job, schedVars,
                   isrVars, devVars>>

\* open files pin the module (cdev owner), so removal finds none
Unregister ==
    /\ ~stop
    /\ \A c \in Ctx : ctx_state[c] \in {"closed", "gone"}
    /\ stop' = TRUE
    /\ WakeIdleSched
    /\ UNCHANGED <<submitVars, ctx_state, job, finished_seq, cur_job, sjob, res, isrVars, devVars>>

-----------------------------------------------------------------------------
(* The scheduler thread.                                                   *)

SchedWait ==
    /\ spc = "wait"
    /\ spc' = CASE stop -> "exit"
                [] ~stop /\ job_queue # << >> -> "fetch"
                [] OTHER -> "wait_sleep"
    /\ UNCHANGED <<submitVars, ctx_state, job, finished_seq, cur_job, sjob, res,
                   stop, isrVars, devVars>>

\* Mutant: the newest job is fetched
SchedFetchLast ==
    /\ spc = "fetch"
    /\ sjob' = job_queue[Len(job_queue)]
    /\ job_queue' = SubSeq(job_queue, 1, Len(job_queue) - 1)
    /\ spc' = "set_cur"
    /\ UNCHANGED <<active_seq, num_jobs, cbufs, locked, pc, arg, ctx_state, job,
                   finished_seq, cur_job, res, stop, isrVars, devVars>>

SchedFetch ==
    /\ spc = "fetch"
    /\ sjob' = Head(job_queue)
    /\ job_queue' = Tail(job_queue)
    /\ spc' = "set_cur"
    /\ UNCHANGED <<active_seq, num_jobs, cbufs, locked, pc, arg, ctx_state, job,
                   finished_seq, cur_job, res, stop, isrVars, devVars>>

SchedSetCur ==
    /\ spc = "set_cur"
    /\ cur_job' = sjob
    /\ spc' = "start"
    /\ UNCHANGED <<submitVars, ctx_state, job, finished_seq, sjob, res, stop, isrVars, devVars>>

\* PGM_ADDR_LO, PGM_ADDR_HI, START; regio drops START while the unit is busy
SchedStart ==
    /\ spc = "start"
    /\ hw' = IF hw = 0 THEN sjob ELSE hw
    /\ spc' = "wait_done"
    /\ UNCHANGED <<submitVars, ctx_state, job, finished_seq, cur_job, sjob, res,
                   stop, isrVars, raw>>

\* Mutant: no wait for completion
SchedWaitDoneSkips ==
    /\ spc = "wait_done"
    /\ spc' = "clear" /\ res' = TRUE
    /\ UNCHANGED <<submitVars, ctx_state, job, finished_seq, cur_job, sjob, stop,
                   isrVars, devVars>>

SchedWaitDone ==
    /\ spc = "wait_done"
    /\ IF job[sjob].done
       THEN spc' = "clear" /\ res' = TRUE
       ELSE spc' = "done_sleep" /\ UNCHANGED res
    /\ UNCHANGED <<submitVars, ctx_state, job, finished_seq, cur_job, sjob, stop, isrVars, devVars>>

\* the device can no longer bring the job to its end
Quiet == hw = 0 /\ raw = {} /\ ipc = "idle" /\ ~job[sjob].done

\* schedule_timeout ran out; the condition is looked at once more
SchedTimeout ==
    /\ spc = "done_sleep"
    /\ \/ TimeoutMode = "any"
       \/ TimeoutMode = "quiet" /\ Quiet
    /\ res' = job[sjob].done
    /\ spc' = "clear"
    /\ UNCHANGED <<submitVars, ctx_state, job, finished_seq, cur_job, sjob, stop, isrVars, devVars>>

SchedClear ==
    /\ spc = "clear"
    /\ cur_job' = 0
    /\ spc' = "check"
    /\ UNCHANGED <<submitVars, ctx_state, job, finished_seq, sjob, res, stop, isrVars, devVars>>

SchedCheck ==
    /\ spc = "check"
    /\ job' = [job EXCEPT ![sjob].verdict =
                 CASE ~res -> "hung"
                   [] res /\ job[sjob].intr_state = {"completed"} -> "ok"
                   [] OTHER -> "error"]
    /\ spc' = "dec"
    /\ UNCHANGED <<submitVars, ctx_state, finished_seq, cur_job, sjob, res,
                   stop, isrVars, devVars>>

\* Mutant: finished_seq is incremented before the job is let go
SchedDecFinishes ==
    /\ spc = "dec"
    /\ num_jobs' = [num_jobs EXCEPT ![CtxOf(sjob)] = @ - 1]
    /\ finished_seq' = finished_seq + 1
    /\ spc' = "unbind"
    /\ UNCHANGED <<active_seq, job_queue, cbufs, locked, pc, arg, ctx_state, job,
                   cur_job, sjob, res, stop, isrVars, devVars>>

SchedDec ==
    /\ spc = "dec"
    /\ num_jobs' = [num_jobs EXCEPT ![CtxOf(sjob)] = @ - 1]
    /\ spc' = "unbind"
    /\ UNCHANGED <<active_seq, job_queue, cbufs, locked, pc, arg, ctx_state, job,
                   finished_seq, cur_job, sjob, res, stop, isrVars,
                   devVars>>

\* under buffers_idr_lock; with the context freed, the outcome is undefined:
\* the freed memory still holds what it held, or the thread dies
SchedUnbind ==
    /\ spc = "unbind"
    /\ locked' = locked \ {job[sjob].cbuf}
    /\ \/ spc' = "kfree"
       \/ ctx_state[CtxOf(sjob)] = "gone" /\ spc' = "oops"
    /\ UNCHANGED <<active_seq, job_queue, num_jobs, cbufs, pc, arg, ctx_state,
                   job, finished_seq, cur_job, sjob, res, stop, isrVars,
                   devVars>>

SchedKfree ==
    /\ spc = "kfree"
    /\ spc' = "inc"
    /\ UNCHANGED <<submitVars, ctx_state, job, finished_seq, cur_job, sjob, res,
                   stop, isrVars, devVars>>

SchedInc ==
    /\ spc = "inc"
    /\ finished_seq' = finished_seq + 1
    /\ sjob' = 0
    /\ res' = FALSE
    /\ spc' = "wake"
    /\ UNCHANGED <<submitVars, ctx_state, job, cur_job, stop, isrVars,
                   devVars>>

\* Mutant: user_wq is not woken
SchedWakeNobody ==
    /\ spc = "wake"
    /\ spc' = "wait"
    /\ UNCHANGED <<submitVars, ctx_state, job, finished_seq, cur_job, sjob, res,
                   stop, isrVars, devVars>>

SchedWake ==
    /\ spc = "wake"
    /\ WakeFences
    /\ spc' = "wait"
    /\ UNCHANGED <<active_seq, job_queue, num_jobs, cbufs, locked, arg, ctx_state,
                   job, finished_seq, cur_job, sjob, res, stop, isrVars,
                   devVars>>

Sched == \/ SchedWait \/ SchedFetch \/ SchedSetCur \/ SchedStart
         \/ SchedWaitDone \/ SchedClear \/ SchedCheck \/ SchedDec
         \/ SchedUnbind \/ SchedKfree \/ SchedInc \/ SchedWake

-----------------------------------------------------------------------------
(* The interrupt handler; the line is level sensitive.                     *)

IsrEnter ==
    /\ ipc = "idle"
    /\ raw # {}
    /\ ijob' = cur_job
    /\ ipc' = IF cur_job = 0 THEN "read_act" ELSE "read_raw"
    /\ UNCHANGED <<submitVars, ctx_state, job, schedVars, iact, devVars>>

IsrReadRaw ==
    /\ ipc = "read_raw"
    /\ job' = [job EXCEPT ![ijob].intr_state = raw]
    /\ ipc' = "done"
    /\ UNCHANGED <<submitVars, ctx_state, schedVars, ijob, iact, devVars>>

IsrDone ==
    /\ ipc = "done"
    /\ job' = [job EXCEPT ![ijob].done = TRUE]
    /\ ipc' = "wake"
    /\ UNCHANGED <<submitVars, ctx_state, schedVars, ijob, iact, devVars>>

IsrWake ==
    /\ ipc = "wake"
    /\ WakeSched
    /\ ipc' = "read_act"
    /\ UNCHANGED <<submitVars, ctx_state, job, finished_seq, cur_job, sjob, res,
                   stop, ijob, iact, devVars>>

IsrReadAct ==
    /\ ipc = "read_act"
    /\ iact' = raw
    /\ ipc' = "ack"
    /\ UNCHANGED <<submitVars, ctx_state, job, schedVars, ijob, devVars>>

IsrAck ==
    /\ ipc = "ack"
    /\ raw' = raw \ iact
    /\ ipc' = "idle" /\ ijob' = 0 /\ iact' = {}
    /\ UNCHANGED <<submitVars, ctx_state, job, schedVars, hw>>

Isr == \/ IsrEnter \/ IsrReadRaw \/ IsrDone \/ IsrWake \/ IsrReadAct \/ IsrAck

-----------------------------------------------------------------------------
(* The device: a program ends with one interrupt that carries completion,  *)
(* errors, or both.                                                        *)

DevComplete ==
    /\ hw # 0
    /\ \E bits \in SUBSET Bits \ {{}} :
         /\ raw' = raw \cup bits
         /\ job' = [job EXCEPT ![hw].ran = bits]
    /\ hw' = 0
    /\ UNCHANGED <<submitVars, ctx_state, schedVars, isrVars>>

-----------------------------------------------------------------------------
ThreadEnds(t) == \/ HoldExit(t) \/ RunpgmLookup(t) \/ RunpgmReject(t)
                 \/ RunpgmQueue(t) \/ RunpgmWake(t) \/ FenceCheck(t)

ThreadNext(t) ==
    \/ ThreadEnds(t)
    \/ \E b \in Cbuf : \/ CreateEnter(t, b) \/ UpdateEnter(t, b)
                       \/ BufferDestroy(t, b) \/ RunpgmEnter(t, b)
    \/ \E s \in 1..active_seq : FenceEnter(t, s)
    \/ RunpgmFault(t) \/ FenceSignal(t)

CtxNext(c) == Open(c) \/ Close(c) \/ ReleaseCheck(c) \/ ReleaseFree(c)

Next == \/ \E t \in Thread : ThreadNext(t)
        \/ \E c \in Ctx : CtxNext(c)
        \/ Unregister
        \/ Sched \/ SchedTimeout
        \/ Isr
        \/ DevComplete

Spec == Init /\ [][Next]_vars

(***************************************************************************)
(* Fairness: runnable kernel threads run, a raised level interrupt is      *)
(* taken, an armed timer expires, and a handler that was entered returns   *)
(* unless it sleeps.  The device must finish its programs only where the   *)
(* timeout waits for it; a hung device is TimeoutMode "any".  Nothing is   *)
(* assumed of what users choose to call.                                   *)
(***************************************************************************)
Fairness == /\ WF_vars(Sched) /\ WF_vars(SchedTimeout) /\ WF_vars(Isr)
            /\ TimeoutMode = "quiet" => WF_vars(DevComplete)
            /\ \A t \in Thread : WF_vars(ThreadEnds(t))
            /\ \A c \in Ctx : WF_vars(ReleaseCheck(c) \/ ReleaseFree(c))

FairSpec == Spec /\ Fairness

-----------------------------------------------------------------------------
(* Type invariant.                                                         *)

JobType == [cbuf : Cbuf, done : BOOLEAN, intr_state : SUBSET Bits,
            ran : SUBSET Bits, verdict : {None, "ok", "error", "hung"}]
ArgType == [cbuf : Cbuf \cup {None}, seq : Nat]

\* Every variable of the driver model stays in the domain its C type, flag set
\* or list gives it.
TypeOK ==
    /\ active_seq \in Nat /\ finished_seq \in Nat
    /\ job_queue \in Seq(Nat)
    /\ cur_job \in Nat /\ sjob \in Nat /\ ijob \in Nat /\ hw \in Nat
    /\ num_jobs \in [Ctx -> Int]
    /\ ctx_state \in [Ctx -> CtxStates]
    /\ cbufs \subseteq Cbuf /\ locked \subseteq Cbuf
    /\ job \in Seq(JobType)
    /\ pc \in [Thread -> ThreadPC] /\ arg \in [Thread -> ArgType]
    /\ spc \in SchedPC /\ res \in BOOLEAN /\ stop \in BOOLEAN
    /\ ipc \in IsrPC /\ iact \subseteq Bits /\ raw \subseteq Bits

-----------------------------------------------------------------------------
(* Safety.                                                                 *)

Held == IF spc \in HoldingSeq THEN 1 ELSE 0

\* Sequence numbers account for every job: between the last finished and the
\* newest active one lie exactly the job the scheduler holds and then the
\* queued ones, oldest first.  A fence compares numbers only, so its answer is
\* right only while job_queue is a gapless interval (RUNPGM, fetch, l.121).
SeqAccounting ==
    /\ active_seq = finished_seq + Held + Len(job_queue)
    /\ \A i \in 1..Len(job_queue) : job_queue[i] = finished_seq + Held + i
    /\ spc \in HoldingSeq => sjob = finished_seq + 1
    /\ Len(job) = active_seq

\* jobs that own the lock of their command buffer
LockingJobs == {s \in DOMAIN job : /\ finished_seq < s
                                   /\ spc \in {"kfree", "inc", "oops"} => s # sjob}
LockingThreads == {t \in Thread : pc[t] \in {"queue", "hold"}}

\* A locked command buffer has exactly one user: one job between RUNPGM and the
\* scheduler's unbind, or one handler that creates or updates it.  So a program
\* is never patched, run twice or destroyed while a job is to execute it, and
\* no lock outlives its user.
CbufExclusive ==
    /\ \A s \in LockingJobs : job[s].cbuf \in locked
    /\ \A t \in LockingThreads : arg[t].cbuf \in locked
    /\ \A s1, s2 \in LockingJobs : s1 # s2 => job[s1].cbuf # job[s2].cbuf
    /\ \A t1, t2 \in LockingThreads : t1 # t2 => arg[t1].cbuf # arg[t2].cbuf
    /\ \A s \in LockingJobs, t \in LockingThreads : job[s].cbuf # arg[t].cbuf
    /\ \A b \in locked : \/ \E s \in LockingJobs : job[s].cbuf = b
                         \/ \E t \in LockingThreads : arg[t].cbuf = b

\* The program a busy device executes is in a buffer that exists and that its
\* own job keeps locked: DMA memory is not freed or rewritten under the device.
DeviceProgramPinned ==
    hw # 0 => /\ job[hw].cbuf \in cbufs \cap locked
              /\ \A t \in LockingThreads : arg[t].cbuf # job[hw].cbuf

CountedJobs(c) == {s \in DOMAIN job : /\ finished_seq < s
                                      /\ CtxOf(s) = c
                                      /\ s = sjob => spc \in Counted}
AdmittedThreads(c) == {t \in Thread : FileOf[t] = c /\ pc[t] \in Admitted}

\* num_jobs counts the jobs not yet retired and the RUNPGM calls in progress:
\* no failure path leaks or drops a count, so a release waits for every job and
\* returns once there is none.
NumJobsExact ==
    \A c \in Ctx : num_jobs[c] = Cardinality(CountedJobs(c))
                                 + Cardinality(AdmittedThreads(c))

\* However the RUNPGM calls of a file interleave around the atomic counter, a
\* context never has more than max_jobs_per_ctx jobs queued or executing.
JobLimit == \A c \in Ctx : Cardinality(CountedJobs(c)) <= MaxJobs

\* No lost wake-up of the scheduler: it sleeps on a non-empty queue, or on a
\* stop request, or on a finished job only while the wake-up is on its way.
SchedWakeComes ==
    /\ spc = "wait_sleep" /\ job_queue # << >> =>
         \E t \in Thread : pc[t] = "wake"
    /\ spc = "wait_sleep" => ~stop
    /\ spc = "done_sleep" /\ job[sjob].done => ipc = "wake"

\* No lost wake-up of a fence: a thread sleeps on a finished job only while the
\* scheduler is about to wake user_wq.
FenceWakeComes ==
    \A t \in Thread : pc[t] = "fence_sleep" /\ arg[t].seq <= finished_seq
                        => spc = "wake"

\* Nobody sleeps on what has already happened, even when jobs time out while
\* their interrupt is handled.
WakesCome == SchedWakeComes /\ FenceWakeComes

\* A job is marked done only after its own program ended on the device, with
\* the interrupts of that program and no others (the handler attributes every
\* interrupt to cur_job).
DoneMeansRan ==
    \A s \in DOMAIN job : job[s].done => /\ job[s].ran # {}
                                          /\ job[s].intr_state \subseteq job[s].ran

\* What a completed fence promises: the job is neither on the device nor in the
\* hands of the scheduler, and one the log is silent about ran to completion.
FenceMeansDone ==
    \A s \in 1..finished_seq :
       /\ hw # s /\ sjob # s /\ cur_job # s
       /\ job[s].verdict # None
       /\ job[s].verdict = "ok" => "completed" \in job[s].ran

\* The handler writes through cur_job only while the scheduler still owns that
\* job: it never writes a job object that was already freed.
IsrJobLive ==
    ipc \in {"read_raw", "done"} => spc \in HoldingJob /\ sjob = ijob

\* A context is not freed while the scheduler has yet to use it for a job.
CtxOutlivesJob ==
    spc \in HoldingLock => ctx_state[CtxOf(sjob)] \notin {"free", "gone"}

\* However a close races with jobs in flight, the context is torn down only when
\* num_jobs counts none of its jobs any more, queued, on the device or handed
\* back by it, and no RUNPGM call of the file is in progress.
ReleaseWaits ==
    \A c \in Ctx : ctx_state[c] \in {"free", "gone"} =>
                     CountedJobs(c) = {} /\ AdmittedThreads(c) = {}

-----------------------------------------------------------------------------
(* Liveness.                                                               *)

\* Every submitted job retires, whatever other jobs and interrupts do.
JobsRetire == \A s \in 1..MaxSeq : active_seq >= s ~> finished_seq >= s

\* A fence on a submitted job returns.
FencesReturn == \A t \in Thread : pc[t] \in Fencing ~> pc[t] \notin Fencing

\* What the release says of itself, "Wait for completion of any jobs issued by
\* this context" (vxe_context.c:46): when they have completed, the close returns.
ReleaseReturns == \A c \in Ctx : ctx_state[c] = "wait" ~> ctx_state[c] = "gone"

\* The log says that the device hung ("Device hung or timeout is short!",
\* vxe_device.c:91) only of a job whose program the device has not finished.
HungMeansUnfinished ==
    \A s \in DOMAIN job : job[s].verdict = "hung" => job[s].ran = {}
=============================================================================
