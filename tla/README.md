# VxEngine: TLA+ models, checks and proofs

VxEngine is a vector accelerator for neural-network inference on an FPGA SoC:
a Verilog core (`hw/vxe`), a Linux kernel driver (`sw/kd`), a user-mode library
(`sw/ud`), an assembler (`sw/vxeasm`) and a SystemC model of the core (`slm/sc`).
This directory holds TLA+ models of the parts whose correctness depends on the
order of events, the TLC configurations that check them, and TLAPS proofs.
Paths below are relative to the repository's root.

Contents: [1 the system](#1-the-system) · [2 modules](#2-modules-and-their-code) ·
[3 runs](#3-runs) · [4 fairness](#4-fairness) · [5 proofs](#5-proofs) ·
[6 what the code does otherwise than it says](#6-what-the-code-does-otherwise-than-it-says) ·
[7 limits](#7-what-is-not-modelled) · [8 plan](#8-plan)

## 1. The system

A client builds programs with `sw/ud`, hands them to the driver as command
buffers, and submits them as jobs. The driver runs the jobs of all files one
after the other: its scheduler thread writes a program's address and START into
the registers (`hw/vxe/regio`), the control unit fetches the commands through the
memory hub and distributes them to two vector units, and the interrupt raised at
the program's end goes through `intr_unit` back to the driver's handler.

| Part | State it keeps | Operations | Interacts with | Hard behaviour | What makes it correct |
|---|---|---|---|---|---|
| `sw/kd` jobs: `vxe_device.c`, `vxe_ioctl.c` (RUNPGM, FENCE_WAIT), `vxe_context.c` | `active_seq`, `finished_seq`, `job_queue`, `cur_job`; `num_jobs` of each open file | submit, fence, scheduler, handler, open, release, remove | user threads by ioctl; device by registers, interrupt and DMA | lock-free sharing of `cur_job` and the sequence numbers; three wait queues; a timeout racing the interrupt; release racing retirement | jobs retire in order, once; a fence tells the truth; no wake-up is lost; a buffer is not touched while a job uses it; nothing is used after it is freed |
| `sw/kd` buffers: `vxe_buffer.c`, buffer ioctls of `vxe_ioctl.c` | `buffers_idr`, flags, `bind_count`; the resource list of each command buffer | create, destroy, map, unmap; create and update of command buffers | jobs (a job locks its command buffer); DMA memory | ids visible before objects are complete; two critical sections per destroy; many error paths | binding counts balance; no pointer dangles; a job's program addresses locked buffers only and never changes |
| `sw/kd` program checker: `vxe_prog.c` | image of the thread registers, resource table | verify, patch, move, swap | the two command-buffer ioctls | per-thread register state across commands | every address a verified program uses lies in a resource |
| `sw/ud` pipelines: `pipeline.cxx`, `codegen.cxx` | stages and their bindings; which threads a batch uses and which were enabled before | create (verify, compile, hand over), run, update, destroy | kernel driver or emulator | registers survive from batch to batch and from program to program; rows are split over threads | what was verified is accepted, and a program computes what its stages ask for |
| `sw/ud` emulator: `backend/swemu` | buffers with binding counts, ids, registers of the threads; one host thread for each thread of the engine | the calls of the driver, in user space | pipelines | two binary semaphores per worker; error paths of creation | it judges programs as the kernel driver does; workers are not seen |
| `hw/vxe/regio`, `intr_unit` | register file; pending interrupts | register access, acknowledge | driver, control unit | acknowledge against a new interrupt in one clock; START while busy | no interrupt is lost |
| `hw/vxe/ctrl_unit` | fetch, dispatch, forward and execute pipelines with their FIFOs | fetch, decode, distribute, SYNC, report | memory hub, vector units, `intr_unit` | prefetch past the end; faults while commands are in flight; FIFOs that stop one cycle late | commands in order, SYNC is a barrier, the end is told truly, and the next start is clean |
| `hw/vxe/vec_unit` | command queue, thread registers, and for each of eight threads and two operands (a lane) an address generator and eight FIFOs | product, activation, store | control unit, memory hub | lanes share requests and responses, which come back in any order; masks and data travel apart; FIFOs stop one word late; flush on a memory error | every product ends; words are multiplied in pairs and in order; a product that is done has left nothing behind |
| `hw/vxe/mem_hub`, `axi_switch`, `txn_codec`, `txnid_codec`, `hw/axi` | request and response FIFOs, transaction ids | route requests of three clients to two AXI masters, and responses back | all memory clients | arbitration, back pressure, reordering between masters | every request is answered once, to its client, in its client's order |
| `hw/fifo`, `hw/fifo2wxw`, `hw/pipe`, `hw/reg` | ring buffers; pipeline stages | push, pop, stall | every unit above | read and write in one clock at the limits | each FIFO is a bounded queue |
| `slm/sc`, `alg`, `hw/flp`, `hw/relu`, `sw/vxeasm`, `sw/util`, `hw/apb*`, `fpga`, tests | | reference model, arithmetic, tools, board files | | | |

`PROJECT.json` lists each part as a component with its status, and the hazards of
the code at the line where they bite, with the properties aimed at each.

## 2. Modules and their code

| Module | Models | Notes |
|---|---|---|
| `KdJobs` | the driver's job machinery, with the device as it sees it | `MCKdJobs` instantiates it; `KdJobsProofs` proves about it |
| `KdBuffers` | the buffers of one open file | `MCKdBuffers`; `KdBuffersProofs` |
| `VxeQueue` | abstract: a bounded queue with a clock | what a FIFO promises |
| `VxeInstr` | the commands, as the library and both checkers build and read them | used by the next eight |
| `KdProg`, `SwEmuProg` | the program checkers of `vxe_prog.c` and of the emulator | operators over a checker's state, one per command |
| `SwEmuExec` | the executor: what one command does to registers and memory | |
| `Programs` | a program fed to both checkers and to the executor, command by command | `UserDriverProofs` |
| `UdCodegen`, `UdPipeline` | `codegen.cxx`, `pipeline.cxx`, with both checkers and the executor behind them | |
| `SwEmuSeq`, `SwEmuMT` | the executor without workers (abstract) and with them | `SwEmuMT` implements `SwEmuSeq`; `SwEmuMTProofs` |
| `SwEmuBackend` | the buffers, ids and bindings of an open emulated device | `UserDriverProofs`; `MCUserDriver` joins all of these |
| `VxeFifoParams`, `VxeFifo`, `VxeFifo2` | `vxe_fifo.v`, `vxe_fifo_2.v` | `MCVxeUnits`; `VxeFifoProofs`, with the facts about rings that both proofs use. The names of `VxeFifo2` end in 2, so that one module can extend both |
| `FifoStep` | the FIFO idioms the units write by hand | used by the hardware modules below |
| `CuFetch`, `CuDispatch`, `CuForward`, `CuExecute` | one unit of `ctrl_unit` each | clock operators over the unit's registers |
| `VxeCtrlUnit` | their composition, with memory hub, START register and vector units at the ports | `MCVxeCtrlUnit`; `VxeCtrlUnitProofs` |
| `VpuReqDisp` | address generators and requests dispatcher of the product unit | clock operators, as in the control unit |
| `VpuRespDist` | its responses distributor and the operand FIFOs (`vxe_fifo2wxw.v`) | |
| `VpuFmac` | the scheduler of the multiplier, its pipe and the accumulators | |
| `VpuLsu` | the read path of the load-store unit | |
| `VxeProduct` | their composition, with the execution control unit and memory | `MCVxeProduct`, `MCVxeUnits`; `VxeProductProofs` |

### KdJobs

Actors are the user threads inside ioctl handlers, the process that drops the
last reference of a file, the scheduler thread, the interrupt handler on another
CPU, and the device. One action is one access to shared state or one critical
section, so that the actions of an actor are the points between which others
interleave; they are named after the function and the step in it:

* RUNPGM is `RunpgmEnter` (the atomic increment of `num_jobs` and its check),
  `RunpgmFault` (no memory), `RunpgmLookup`, `RunpgmReject` (the error paths, with
  all they undo), `RunpgmQueue` (number and enqueue under the lock) and `RunpgmWake`.
* FENCE_WAIT is `FenceEnter`, `FenceCheck`, `FenceSignal`. Check-and-sleep is one action,
  because `wait_event_interruptible` puts the thread on the queue before it
  tests; wake-ups are separate actions of the waker.
* The scheduler goes `SchedWait`, `SchedFetch`, `SchedSetCur`, `SchedStart`, `SchedWaitDone`
  or `SchedTimeout`, `SchedClear`, `SchedCheck`, `SchedDec`, `SchedUnbind`, `SchedKfree`, `SchedInc`,
  `SchedWake`: the order of lines 59 to 125 of `vxe_device.c`.
* The handler goes `IsrEnter`, `IsrReadRaw`, `IsrDone`, `IsrWake`, `IsrReadAct`, `IsrAck`.
* `CreateEnter`, `UpdateEnter`, `HoldExit` and `BufferDestroy` are the other ioctls as far as
  they hold command buffers; `Open`, `Close`, `ReleaseCheck`, `ReleaseFree`, `Unregister` the life
  of a file and of the device. `DevComplete` is the engine ending a program.

`job[s]` is the job with number `s`: the object's fields and two history fields
(`ran`, `verdict`) that no guard reads. `raw` holds the pending interrupts. Two constants
choose the environment: `TimeoutMode` ("quiet": the one-minute timeout does not
expire while the program may still end; "any": at any moment) and `CloseMode`
("drained": a file is closed once its jobs are finished; "any"). Both restricted modes
are needed because the code fails outside them (section 6). `MaxSeq` bounds the
jobs of a behaviour and `MaxJobs` is the module parameter `max_jobs_per_ctx`.

### KdBuffers

The idr and its mutex belong to a file, so one file is modelled, with several
threads. An id is a slot of the idr, reused at once; an object is a
memory block, reused only after `kfree`. One action is one critical section of
`buffers_idr_lock` (`BufferCreate`, `CreateMap`, `CreateExit`, `CreateUndo`, `Mmap`, `BufferMap`,
`BufferUnmap`, `DestroyId`, `BufferFree`, `CmdBind`, `CmdAbort`, `CmdAlloc`, `UpdateTake`, `UpdateBind`,
`UpdateUnbind`, ...) or one access made while the buffer is locked (`CmdMove`, `UpdateSwap`). The
job queue is abstracted to the set of command buffers that have a job (`Runpgm`,
`JobDone`), which is what `KdJobs` proves about it (`CbufExclusive`). Which ids a program
names is nondeterministic. An update whose buffers do not fit leaks
the bindings it has taken (`vxe_ioctl.c:417`); the model counts them in `lost`,
and `BindCounts` is stated with them, so the leak is visible and not mistaken for an
error of the rest. `MaxBinds` bounds it; it is possible because the length
a resource must have is what the last command wrote (`vxe_prog.c:348`).

### Programs, checkers and the executor

A command is a record with its operation, its destination (all vector units, one
unit, one thread) and an operand. `KdProg` and `SwEmuProg` are written from their own
sources, so that `Programs` can ask whether they agree: `Feed` gives the next command to both
and to `SwEmuExec`, while `reach` records how far every product and store goes; a value is reduced
to whether it is the program's own, and an AF before the enable bits were set counts as one that
is not (`Unsettled`). `Create` ends the program, and `Rebind` exchanges resources on both sides. A program without end is not
enumerated: a behaviour is a command after the other, and the state is what the two
checkers know, so that all orders of settings are seen without a bound on the length.

`UdPipeline` has the calls of an application as actions (`CreatePipeline`, `PipelineRun`,
`UpdateResources`, `DestroyPipeline`), each of them whole: verification, compilation through
`UdCodegen`, both checkers, execution. The results are numbers of a small field in which the
order of operands and of steps shows. Offsets are added modulo `Word`, a scaled 2^32.
An update keeps the shape of the stages: `pipeline.cxx:533` does not ask, and with
descriptors of another shape lengths, bias and activation stay those of the old ones.

### Emulator

`SwEmuMT` has one action for each access to a semaphore, a flag or an accumulator: the
constructor (`Open`, `StartThread`, and `StartFails` if a thread cannot be made), `execute` (`Call`,
`Simple`, `StartProd`, `SignalReady`, `WaitDone`, `Return`), the destructor (`Close`, `StopFlag`, `Wake`,
`Join`), and a worker (`TestStop`, `WaitReady`, `Product`, `SignalDone`). `left` is the set of workers
that the present loop of the caller has yet to visit, first or last one next. The programs
(`Program`), the memory they find (`InitialMemory`), the mask and the arithmetic are parameters. Its
refinement mapping to `SwEmuSeq` takes the registers from before a product until its last
worker is waited for. `SwEmuBackend` has one action per call of the
driver, with its failures.

### FIFOs

`VxeFifo` and `VxeFifo2` have every register of the two FIFOs, and one action per
clock edge with all combinations of the ports, plus reset at any time. `Count` and
`Contents` are the refinement mapping to `VxeQueue`.

### Control unit

One step of `VxeCtrlUnit` is one clock edge of the whole control unit: each unit is an
operator (`FetchClock`, `DispatchClock`, `ForwardClock`, `ExecuteCommand` and so on,
`IntrClock`) over its own registers, and combinational signals are operators of the same
name as in the Verilog. All registers that decide control are kept: FSM states,
FIFO contents and their stalls, output registers with valid bits, busy and error
bits. Data are abstracted: a command word is its address, and the decoder is the
class it gives the word (NOP, SYNC with its two flags, vector command with the set of
units it is for, undecodable, unreadable). At the ports:

* the memory hub is a bounded queue of requests answered in order, data and
  status together, after any number of clocks (`HubClock`);
* a vector unit is its command queue; the command at the head is being carried
  out for any number of clocks. A unit in `Faulty` may meet a memory error instead
  of finishing: it flushes and closes the queue, as `vxe_vpu_cmd_queue.v` does (`VpuClock`);
* the host writes the program address while the engine is idle and START at
  any time (`RegioClock`).

Left out: reset in operation, and the halt request, which `vxe_top.v` ties to zero.

### Product of a vector unit

One step of `VxeProduct` is one clock edge of the product unit, its execution control unit
and the load-store unit. As in the control unit all registers that decide control are kept,
and data are abstracted: a word is its address, a request is a lane and the number of a
pair of words, an accumulator is the sequence of pairs of words that were added to
it. An element of a FIFO is therefore its own history, and the properties need no ghosts but
`erred`. Output registers that are offered with a valid bit (`rrq_wr`, `we_wr`, `rqa_wr`,
`rrs_wr`, `opd_wr`) follow one of two idioms of `FifoStep` (`Loads`, `StillOffers`); the machines that take
what is offered have the same three states everywhere (`TakeFSM`). At the ports:

* the dispatcher sets the registers of the threads and starts a product when the last one is
  done (`Starts`); the accumulators are cleared with it, as SETACC does. After an error
  the load-store unit is enabled again by a start of the engine, when nothing is busy
  (`Reinit`);
* memory answers the requests of a lane in order, and the lanes in any order, after
  any number of clocks, and a response may be an error (`MemoryClock`). At each clock it takes a request or leaves it
  waiting (`rqa_rdy`). Rs and Rt of a
  vector unit are read through two masters of the memory hub, so their responses do
  overtake one another. Two threads are more independent here than behind the hub.

Left out: the write path of the load-store unit (a vector unit executes one command at a
time, and only stores write), and reset.

## 3. Runs

| Run | Question | States, bounds and why they are enough |
|---|---|---|
| `kd_jobs` | Do bookkeeping, locks, lifetimes and the meaning of "finished" hold in every interleaving? | 2 threads of one file, 2 command buffers, `MaxJobs` 2, 3 jobs: one job running, one queued, one being submitted; a resubmission of the first buffer after it retired; the job limit is hit |
| `kd_hung` | Is the job limit kept, no wake-up lost, and a context torn down only when none of its jobs is counted, when timeouts and closes come at any moment? | 2 threads, `MaxJobs` 1, 2 jobs: a late interrupt meets the next job, and a release waits for a job that is queued, running or being handed back |
| `kd_live` | Does every job retire, and every fence return? | 2 files of one thread each, 2 jobs |
| `kd_buffers` | Do counts, pointers and locks of buffers stay consistent over all error paths? | 2 threads, 3 ids, 4 objects (so that an id is reused while its old object is still held), command buffers of up to 2 bindings, one of them possibly the same buffer twice; symmetric in threads and objects, which no property distinguishes |
| `user_driver` | What programs do the checkers take, and what can these reach? Do pipelines compute what they ask for? Are workers seen? Are the tables of the emulator exact? | four models in one run, chosen by the first state (`part`): they share the commands and nothing else. 2 units of 2 threads. Programs: one thread does the work and the others are disabled or enabled before, since a checker keeps threads apart (once behind a NOP, by which the two checkers may part); 3 resources, buffers of 2 and 1 elements, vectors of 0 and 1 element, bindings with room for one element, for none, and beyond the end. Pipelines: all three kinds of stages with every border of offset, size and bias, two stages, 3 masks, 2 runs: more rows than threads, and a program that finds the registers of another. Workers: two products, 2 calls. Buffers: 4 ids (`MaxBuffers`), so that they are used up and given out again, and two resources (`ResLen`) |
| `vxe_units` | Does each FIFO implement a bounded queue? Does a product multiply the right words, end, and leave nothing behind? | two models in one run, again chosen by `part`. FIFOs: depth 4, 2 values: wrap-around, full, empty, read and write in one clock, reset. Product: threads 0 and 7 (the last one in every round of the schedulers), all FIFOs scaled to 2 or 4 with the ratios of `vxe_top`, `RsdWePow` different from `RsdOpPow` as there; 2 products after one another. Scenarios: odd and even addresses, one thread or two, any order of answers; vectors of 26 words, more than all FIFOs hold, with Rt answered only when nothing more comes for Rs (here memory takes every request at once; elsewhere it may hold requests back); errors at any response |
| `vxe_ctrl_unit` | Does the control unit keep order, barriers and the truth about the end, and start clean again? | 2 vector units, fetch FIFOs of 4 and the others of 1 (every FIFO fills); five programs: mixed with SYNC and NOP; nine commands, longer than all FIFOs together; one with an unreadable word behind a SYNC; one undecodable followed by a second program in the same image; `v1` may meet memory errors |
| `kd_close_hangs`, `kd_ack_hung`, `kd_close_order`, `vxe_cu_pending`, `vxe_prod_late` | section 6 | each the smallest instance that shows the behaviour; the last one has the depths of `vxe_top`, unscaled |

The commands behind a program's end in `vxe_ctrl_unit` are for all vector units, so a
word of the prefetch that survives the end would show in `CommandsInOrder`.

What the properties say, beyond types:

* `SeqAccounting`: the numbers between `finished_seq` and `active_seq` are exactly the job
  the scheduler holds and the queued ones in order; a fence compares numbers only.
* `CbufExclusive`: a locked command buffer has exactly one user. `DeviceProgramPinned`: what the
  device executes exists and is locked by its own job.
* `NumJobsExact`, `JobLimit`: the counter matches the jobs and calls in progress on every
  error path, and the limit holds although concurrent rejected calls inflate the counter.
* `ReleaseWaits`: a file that is closed while jobs are in flight keeps its context until `num_jobs` counts none of them.
  The counter is decremented a little before the scheduler is done with the context (section 6).
* `CtxOutlivesJob`, `IsrJobLive`: neither scheduler nor handler uses freed memory.
* `DoneMeansRan`, `FenceMeansDone`: an interrupt is attributed to the job whose
  program ended; a fence that returned means the job left the device.
* `WakesCome`: no lost wake-up, of the scheduler (`SchedWakeComes`) or of a fence (`FenceWakeComes`).
* `BindCounts`, `PointersValid` (with `OneHome`: an object has at most one id), `JobAddressesLocked`,
  `JobFrozen` for buffers, with deadlock checked: the mutex and the handlers never block one another.
* `CheckedInBounds`: no command of a program that a checker took reaches beyond the buffer bound
  to it, also after an update. Left out are resources whose recorded length an earlier, longer
  command had set (`Shrunk`: `vxe_prog.c:348` keeps the length of the last one).
* `VerdictsAgree`: the two checkers take the same programs. Left out are programs that are
  empty or begin with AF or NOP, which the emulator (for empty ones the kernel driver too) judges
  by an uninitialised variable.
* `ResultIsOwn`: nothing that is stored depends on what an earlier program left in the registers,
  unless an AF came before the enable bits were set, which no checker refuses (`early`).
* `VerifiedIsAccepted`, `ProgramComputesStages`: what the library verified each of the two checkers
  takes, on creation and on an update, but for two cases: a sum of offset and size that wraps (`Wraps`; nothing is said
  of it), and a product of two vectors whose destination has length zero and begins at the end of its buffer, which
  both refuse (`HasRoom`, section 6). Memory is after every run what the stages
  ask for, computed from their descriptions and not from commands.
* `ProdIsSequential` (refinement of `SwEmuSeq`) and `CallsReturn` for the workers; `ClientIdsLive` and
  `BindsExact` for the tables of the emulator.
* `ProductsInOrder`: the accumulator of a thread is a prefix of the pairs it is to add.
  `DoneMeansAccumulated`: when a product is reported done, the sums are complete and
  every FIFO and register on the way is empty, also those that no busy signal counts.
  `ProductEnds`: products end, in whatever order memory answers. These three speak of the time before the first
  memory error (section 6). `QueuesFit`: no FIFO without a guard is written when full, errors or not.
* `FifosFit`: no FIFO is written when full, although the units stop one word late.
  `CommandsInOrder`, `SyncBarrier`, `CompleteMeansDone`, `EndIsTold`, `QuietWhenIdle`, `EveryProgramEnds`:
  what the driver relies on when it reads an interrupt and starts the next job.

`EndIsTold`: the interrupt at the end always says something, and says it of this program: completion only if every
command before the end was carried out, a fetch or decoding error only with the address of such a word of this
program, and each memory error that a unit met. A bit of the program before that is told again would show, but for
one case: a memory error may belong to a command that the program before left behind (`vxe_cu_pending`), so a
genuine one is asked for only where nothing else is told. The property holds for programs in which a SYNC interrupts
when it ends the program and only then; the driver refuses others (`vxe_prog.c:442`) and appends the SYNC at the end
(`vxe_prog.c:625`). A SYNC in the middle that interrupts clears the collected bits, so that the interrupt at the end
might carry none. Each property has a
mutant in `PROJECT.json`: a plausible bug of the code that violates it under the
run's own configuration.

`CHECK_DEADLOCK FALSE` is set for the `KdJobs` configurations: a behaviour ends when the
`MaxSeq` jobs are used up and the files are closed, and for `user_driver`, whose programs, runs and calls
end. All other passing runs check deadlock; in the hardware models the clock never stops, so that
deadlock of a unit is what the liveness properties exclude.

## 4. Fairness

* `KdJobs`: the scheduler thread and the handler are runnable kernel code, so each takes
  its enabled steps (weak fairness of `Sched`, `Isr`); the timeout of
  `wait_event_timeout` expires (`SchedTimeout`); a thread inside a handler goes on
  (`ThreadEnds`), without being forced to make calls; a release in progress goes on. The
  engine ends its programs only in "quiet" mode (`DevComplete`), which is what that mode means.
* `VxeCtrlUnit`: the clock runs (`WF_vars(Tick)`); the memory hub answers a request that is
  first in its queue (`HubServes`); a vector unit finishes its first command or faults
  (`VpuFinishes`). The last two are weak fairness written with the effect on the
  first element, since a step is one clock for all. Nothing is assumed of the host.
* `SwEmuMT`: every thread of the process is scheduled (weak fairness of each `Worker` and of the `Caller`
  inside a call; the client need not make calls). A semaphore has one waiter, so that weak fairness is enough.
* `VxeProduct`: memory goes on taking requests and answering them (`MemoryTakes`, `MemoryAnswers`: weak fairness of a
  step in which it is ready for a request, and of one with an answer; the clock runs with them). It may be unready,
  and silent, for any time in between.
  A product asks for finitely many words, so that no lane is passed over for ever; which lane is answered
  is free. Nothing is assumed of the dispatcher.
* `KdBuffers`, `Programs`, `UdPipeline`, `SwEmuBackend` and the FIFOs have safety properties only.

## 5. Proofs

All modules are checked by `tlapm` with SMT, Zenon and LS4; nothing is assumed but the named
assumptions on constants in the modules, which TLC evaluates in the runs, and what a theorem
states as its own `ASSUME`. Every proof has the same shape: an inductive invariant, a lemma
for each action (or each unit, where one step is a clock for all) that preserves it, and a last
step in temporal logic. No theorem bounds the number of files, buffers, jobs, commands or words, or the depth of a FIFO from above.

| Module | Theorem | States | Assumes |
|---|---|---|---|
| `KdJobsProofs` | `TypeCorrect`, `SequenceNumbers` | `TypeOK`, `SeqAccounting` | |
| | `NoLostWakeup` | `WakesCome` | |
| | `JobsCounted`, `LimitHolds` | `NumJobsExact`, `JobLimit` | |
| | `ReleaseWaitsForJobs` | `ReleaseWaits` | |
| | `DoneIsOwn`, `FencesTellTruth`, `HandlerJobLives` | `DoneMeansRan`, `FenceMeansDone`, `IsrJobLive` | "quiet" |
| | `LocksExclusive`, `ContextOutlives` | `CbufExclusive`, `CtxOutlivesJob` | "drained" |
| | `ProgramPinned` | `DeviceProgramPinned` | both |
| `KdBuffersProofs` | `BuffersConsistent` | the invariant | "tidy" |
| | `BindingsBalance`, `NoDanglingPointer`, `JobBuffersLocked` | `BindCounts`, `PointersValid`, `JobAddressesLocked` | "tidy" |
| | `ProgramOfJobFrozen`, `LockedKeptWhileOpen` | `JobFrozen`, and that no step of an open file frees a locked buffer | "tidy" |
| `VxeFifoProofs` | `FifoImplementsQueue` | `FifoIsQueue` (refinement) | depth of at least 2 |
| | `Fifo2Inductive`, `Fifo2ImplementsQueue` | the invariant, `Fifo2IsQueue` (refinement) | depth of at least 2 |
| `VxeCtrlUnitProofs` | `CtrlUnitInductive`, `OrderInductive` | the invariants | `FetchDepth >= 3` |
| | `IntermediateFifosFit`, `IdleIsQuiet`, `WordsPaired` | `FifosFit`, `QuietWhenIdle`, that words meet their own addresses | `FetchDepth >= 3` |
| | `OrderKept`, `SyncParts`, `CompletionTrue` | `CommandsInOrder`, `SyncBarrier`, `CompleteMeansDone` | `FetchDepth >= 3` |
| | `EndTold` | `EndIsTold` | and `QuietSyncs` |
| `VxeProductProofs` | `FifosHaveRoom`, `WordsFlow` | the invariants | depths of at least 2 |
| | `QueuesNeverOverflow`, `SumsAreInOrder`, `DoneIsDone` | `QueuesFit`, `ProductsInOrder`, `DoneMeansAccumulated` | depths of at least 2 |
| `UserDriverProofs` | `ProgramsInductive`, `CheckersAgree`, `InBoundsProved` | the invariant, `VerdictsAgree`, `CheckedInBounds` | |
| | `ResultsAreOwn` | `ResultIsOwn` | |
| | `NumbersAreRight`, `CountsAreExact` | `ClientIdsLive`, `BindsExact` | |
| `SwEmuMTProofs` | `WorkersInStep`, `WorkersImplementSequence` | the invariant, `ProdIsSequential` (refinement) | lengths are natural numbers |

"quiet" and "drained" are the modes of `KdJobs` (section 2) outside which the code does
otherwise (section 6), and "tidy" is that of `KdBuffers`: clients destroy their command buffers before
they close the file, for the reason `kd_close_order` shows. `FetchDepth >= 3` leaves out only the smallest
FIFO: the source has 16 (`vxe_ctrl_unit.v:34`). The product's threads are any of the eight that the schedulers count
(`ProductAssumption`), and its FIFOs have at least two slots, as those of `vxe_fifo` need.

### The driver

* *Numbers.* `SeqAccounting` is not inductive alone: `Accounting` adds `TypeOK`, that a fetch finds
  a non-empty queue (`FetchFinds`: only the scheduler removes jobs, and it saw one), and that
  a thread's argument names a buffer where the step uses it (`ArgsNameBuffers`).
* *Locks* adds `CbufExclusive`, that a handler locks buffers of its own file
  (`OwnBuffers`), that a context in release has no unfinished job and no thread
  inside (`ClosingIsDrained`), and that a locked buffer exists (`LockedExist`). Most
  actions neither lock nor unlock; `LocksUntouched` states once what such a step must leave alone.
* *Wakes*: a job that is queued while the scheduler waits has a thread about to wake it, and a number
  that is finished while a fence waits for it has the scheduler about to wake all. Nothing but
  `Accounting` is needed.
* *Counts*: `NumJobsExact` counts sets of jobs and of threads, so that each action is a set with one element
  more or less. `JobLimit` follows from `Room`: not the counter but the jobs with the calls that were
  *let in* stay within the limit. The counter itself may pass it, while a call that will be turned away
  has incremented it.
* *Release* adds to the counts that the file of a thread inside a handler is open (`HandlersOfOpen`), and that
  the counter of a context in teardown is zero and stays so (`FreedUncounted`): nobody is left who could raise it, and a
  zero means that both sets it counts are empty (`UncountedIsEmpty`).
* *Device* follows a job through the device. `CurIsHeld`: `cur_job` is the scheduler's job exactly from
  `SchedSetCur` to `SchedClear`. `InterruptsOwned`: bits that are pending and not yet acknowledged
  are of the job the scheduler waits for, who will not go on before the handler has marked it.
  This is where "quiet" enters, and where the step of `kd_ack_hung` would break it. The verdict of a job
  is then true of it (`VerdictsTrue`), and the fences rest on that.
* *Consistent* is a ledger of the buffers of a file. The count of a buffer is the number of its `Uses`: places in
  the lists of command buffers, in the local variables of handlers, jobs, and bindings leaked. A
  step changes the list of at most one command buffer and the variables of one thread, so that the uses change
  by their share (`UsesChange`, `PartStep`); sums over all buffers are never unfolded. `Homes` places each live
  buffer in one slot, or in the hands of the one thread about to free it; `Phases`, `Records` and
  `Handlers` say what holds while a file closes, of command buffers, and at each place of a handler.

### The control unit

* *Inv* follows addresses. Requests are for consecutive words, so each queue and register on the way, from
  the fetch unit through the memory hub and back, holds a run of addresses, and each begins where the
  one before it ends (`Chain`). `Rooms` says which unit must have room for one more word; `Quiet` what the
  execute unit has waited for. `Requests` is the delicate part: while words are discarded behind an end (drain), a
  request must not be offered to an empty `rq_fifo`. That fails when `rq_fifo` has two slots, since it is
  empty after two reads with a request still waiting before it: hence `FetchDepth >= 3`.
* *Ordered* says where the commands of the program under way stand: with some address `d` the next to be
  decoded, those for a unit that it has not taken are in the registers and FIFOs on its way, each once and
  in order (`Line`), and those from `d` on are received or still to be fetched. `Held` says that while the
  execute unit deals with a command the dispatcher halts, and what was dispatched before has moved to where a SYNC looks.
  That is the reason why `SyncBarrier` holds although the register between dispatch and forwarding counts for nothing.
* *Told* follows the bits of the interrupt: they are set between the start of a program and its interrupt (`Reporting`),
  each for a reason that holds of this program (`FaultAt`, and `Ahead`: no word from before `base` is still to be
  dispatched), and are cleared before the next start. `EndTold` assumes `QuietSyncs`, which is what the driver
  enforces: a SYNC in the middle that interrupts would take along the bits that a fault has set.

### The product of a vector unit

* *Types, Rooms, QueuesFit*, errors or not: a machine that is not in STLL has room for one word, since the flag that
  stops it is computed when there was room for two. `op_fifo` has no such machine: its writer sees
  in the same clock that it is full, so that nothing is lost although "one from full" is read from the wrong bit
  (`vxe_vpu_prod_eu_rs_dist.v:970`).
* *Flow* holds until memory answers with an error (`FlowUntilError`). The idea that makes it tractable: a FIFO is a
  queue, an output register a queue of one, and an edge of the clock takes at most one value from each
  and puts in at most one (`Moves`). If the first of two queues is fed from the second, both together move in the
  same way (`Join`), so that the dozens of FIFOs, registers and ports become five long queues: requests to memory (`Up`),
  responses (`Back`, `Near`), the masks of a lane (`MaskLine`) and its pairs with their masks (`PairLine`). Joined
  queues do not tell where in them a value is, which is why stalls need no case of their own.
  * *Line* of a lane says what these hold, from the registers of the thread: the address generator is at an even word of the
    vector or at its begin (`Asking`); the pairs between the one asked for last and the one to meet its mask next
    are, in order, in `Near`, `Back`, memory, `Up` and the lane's FIFO (`Fetching`), and shared queues are read by
    lane (`Carries`); masks and pairs are those of the vector (`Matching`); both halves of
    the operand FIFO, its toggle, and the FIFO of the multiplier have the next words (`Taking`). The toggle is right
    because only the first and the last pair of a vector may lack a half (`PartedWords`).
  * *Piped*: what is in the pipe for a thread is the pair behind those in its accumulator. The
    scheduler of the multiplier serves a thread once in eight clocks, and the pipe is seven deep (`Turn`).
  * *Counted*: requests on the fly are those on the wire to memory, in memory, and on the wire back. So a response never comes
    to a counter at zero, where the load-store unit would not take it.
  * *AheadOfMasks, OneByOne, Control*: what the busy signals leave out. A product is done when three units rest; the
    load-store unit, the mask FIFOs and the registers between units are not asked (`vxe_vpu_prod_eu.v:179`). A mask
    is never ahead of its request, and pairs arrive one at a time, so that a word between two units is still seen by one of
    them: if nobody is busy, nothing is under way (`Clean`, lemma `NothingLeft`). Then the address generator has asked for
    everything, and the accumulators hold all that was wanted.
  * *Undisturbed*: no unit is in one of its ways of dealing with errors, until there is one.
* None of the assumptions of `Flow` is about memory: which lane is answered, and when, is free.

### The checkers and the emulator

* *ProgInv*, while a program is fed: the verdicts are the same (`Agreed`, with `Alike` for what the two records have in
  common under different names); unless the driver has refused it, each resource
  that was set is where the command asked (`Placed`), what the driver knows of a thread is in the thread's registers
  (`Tracked`), and every product and store so far fits (`FitsIn`). When both have made a command buffer: the
  resources are the same on both sides, and what the program reaches in each lies in its buffer, or
  the resource is one of those that `CheckedInBounds` leaves out (`Running`).
  The first half of the module writes the effect of each command on each checker as one record, so that
  the agreement is a comparison of records.
* *OwnInv*, on top of it: the memory of the resources holds the program's own values, and so does the accumulator of
  each thread that the driver knows to be set (`OwnValues`). A product of a program that is taken multiplies what
  lies in its resources (`Tracked`, `FitsIn`), so that every partial sum is its own (`ProdOwn`); the last of the
  threads that store to one place has such a sum (`StoreOwn`).
* The proof found an error in the model: registers got their resources by the emulator's counter, and this
  is stale when only the driver takes a program (one that begins with NOP). `Feed` now counts as the driver does, and
  `MCPreludes` has such a program, with which TLC finds `CheckedInBounds` violated by the old definition.
* *MTInv* (`SwEmuMTProofs`) says for each place of the caller where each worker is in its exchange with him (`Local`).
  Between products a worker rests: both semaphores are down, and it is before its wait or about to be. In a product it
  is not yet asked, `Called` (the signal is up), `Begun`, `Summing` (the accumulator is the sum of the first `k` elements),
  `Answered` (the result is there, and the signal is up or about to be) or `Collected`. So no signal
  is ever given to a semaphore that is up, and none is left behind. At destruction exactly the last one left is `Woken`, on
  whichever side of its wait it was. A step of a worker moves only that worker (`WorkerFrame`, `Untouched`).
  When the caller has collected the last one, each file of registers is what `execPROD_ST` makes of it
  (`ProductIsOver`), and that step is the product of `SwEmuSeq`; all other steps within a product are stutters.
* Loops over elements are recursive functions, and loops over threads take the first or the last of a set. That these
  exist is proved once, with the least number of a set of natural numbers (`LeastNumbers`): the least place where a
  recursion would fail has one before it where it does not (`PartialProdIs`, `FirstAndLast`). The proof of
  `WorkersImplementSequence` made the model better too: the loops of the caller were sequences of all threads, which
  said nothing that a set does not.
* *TableInv*: below `next` each number is with the client or waits, once, to be handed out
  (`Numbers`), and the count of each live buffer is the number of its uses (`WellBound`); the entries that point
  to deleted buffers (section 6) have numbers that no client holds.

### FIFOs

The facts about rings come first, for both FIFOs: reading the first, appending, and where the slot behind the last one
is. In `vxe_fifo` the flag `wr_nrd` is exactly the bit that tells the full ring from the empty one; in `vxe_fifo_2`
the write pointer is at most the depth ahead, modulo twice the depth.

### Only model-checked

* Liveness, and what needs ENABLED, is out of reach of the proof system: `JobsRetire`, `FencesReturn`,
  `EveryProgramEnds`, `CallsReturn`, `ProductEnds`.
* `ProgramComputesStages` and `VerifiedIsAccepted` speak of what folds over stages, rows and commands compute, for
  every length: induction over data.

## 6. What the code does otherwise than it says

| Run | Where | What |
|---|---|---|
| `kd_close_hangs` | `vxe_context.c:47`, `vxe_device.c:124` | release sleeps with `wait_event`, which is not interruptible, on `user_wq`, and the scheduler wakes that queue with `wake_up_interruptible`: a file closed with a job in flight never finishes closing |
| `kd_ack_hung` | `vxe_device.c:41-51` | the handler wakes the scheduler before it reads and acknowledges the interrupts: the acknowledgement can swallow the next job's, which is then logged as hung |
| `kd_close_order` | `vxe_context.c:50` | release frees buffers in the order of ids; a command buffer freed later unbinds buffers that are freed already |
| `vxe_cu_pending` | `vxe_cu_exec_unit.v:149` | after a fault the end of a program is "no commands pending and units are idle", but the register between dispatch and forwarding is counted by neither unit: the end may be told with a command in it. If that command meets a memory error, the error is told with the end of the next program |
| `vxe_prod_late` | `vxe_top.v:41-47` | the note allows as many requests on the fly as an operand has slots (40), and 32 are configured; but at most about 25 requests for one operand can be on the fly (4 + 1 + 16 + 4 places for its masks), so that the other operand is never stopped by the limit: it fills its FIFOs, the shared response path is blocked, and the product hangs. With 16 requests (`NumReq`) the same schedule ends |

Outside the restricted modes of `KdJobs` these hold no longer, for reasons the same lines
show: with `CloseMode = "any"` the scheduler decrements `num_jobs` before it unbinds the command buffer under
the context's mutex (`vxe_device.c:108`): a release that comes in between does not wait, and frees the context
under the scheduler (`CtxOutlivesJob`); with `TimeoutMode = "any"` a late interrupt is attributed to the next job
or to a freed one (`DoneMeansRan`, `IsrJobLive`). A late acknowledgement also loses the
error bits of the next job.

`ProductsInOrder` and `ProductEnds` fail after a memory error. The multiplier drops what it has
while an error is reported, and goes back to work as soon as its input machines rest for one cycle
(`vxe_vpu_prod_eu_fmac.v:627`); the distributor drops responses and masks, but what is in its operand FIFOs, and in
those behind them, still goes on to the multiplier. With the properties stated without `~erred`, TLC finds (vectors of
two words at 0 and 21, error on the lane of Rs) a word that stays alone in `opr_fifo`: the unit is busy until reset,
or, if a partner arrives with the next program, multiplies it with a word that is not its own.

Other things met on the way, without a run:

* `vxe_buffer.c:145`: mapping a mapped buffer returns with `buffers_idr_lock` held, and every later call on
  the file blocks. In `KdBuffers` this is `MapMode = "any"`; the run uses the other mode.
* `vxe_ioctl.c:318`: if `copy_to_user` fails after the job was queued, the job runs and the user is told EFAULT.
  `vxe_prog.c:511` passes the error pointer of a failed allocation to the destructor.
* `swemu_prog.cxx:362` and `vxe_prog.c:455`: the error variable is not initialised for an empty program (the
  emulator: also one that begins with AF or NOP).
* `swemu_backend.cxx:389`, `:396`, `:410`: a creation that fails deletes the buffer and leaves the pointer in the
  table. Its number is handed out once more and refused, and closing the device deletes the
  buffer again.
* `pipeline.cxx:321` does not look at the result of `allocThread` behind a finished batch, `pipeline.cxx:310` only logs a
  malformed special operation, and the code generator puts no SYNC between stages: it
  relies on the vector units to execute commands one after the other.
* `pipeline.cxx:158` takes a product of two vectors whose destination has length zero at the very end of its buffer. The
  product stores one element all the same, so that `vxe_prog.c:401` (`rd_len == 0`) and the emulator refuse the program
  that was made of it.
* `vxe_regio.v:137`: START is ignored while the engine is busy, without a sign to the host.
* `vxe_vpu_lsu.v:250`: a response that is on its way into the last FIFO (`fifo_rrs_wr`) does not count as busy; in
  `VxeProduct` nothing starts in that cycle. `vxe_vpu_lsu.v:504`: write data are held back by the
  limit on addresses, which has counted them already.

## 7. What is not modelled

* The memory hub beyond what its clients see, the AXI switch and the AXI interfaces. Of the
  hazards there, `vxe_mem_hub_mas_us.v:217` (two FIFOs in step) and `vxe_mem_hub_mas_ds.v:178` (one client stalls all)
  are listed in `PROJECT.json` without a property. That a full FIFO meets write data behind a read of the same
  unit (`vxe_mem_hub_vpu_us.v:195`) cannot happen: a vector unit executes one command at a time.
* In the vector unit: the command dispatcher (`vxe_vpu_cmd_dispatch.v:134`), the store unit, which merges the words of
  two threads, the activation unit, and the write path of the load-store unit. In `regio` and
  `intr_unit`: masks, fault registers and reads.
* In `sw/ud`: the wrappers of instance, device, context and buffer, and the back end for the hardware, which
  is a wrapper of the ioctls. Failures of allocation inside the checkers.
* Floating-point arithmetic and the values of the activation functions (data), shift registers, the assembler, test
  programs, board files, the APB test peripheral, and `slm/sc`, a second description of the engine at transaction
  level. 617,000 of the repository's 642,000 implementation lines are headers with the weights of
  an MNIST network (`slm/sc/src/so/mlp_test`): they hold no behaviour, and no model can cover a
  large share of the lines.

Each part has its status and reason in `PROJECT.json`.

## 8. Plan

Done: (1) `KdJobs` with its locks and proofs, (2) `KdBuffers`, (3) the FIFOs with their
abstract queue and proofs, (4) the control unit, (5) the program checkers, the pipelines and the
emulator, (6) the product of a vector unit with its proofs. Next, in this order:

1. `VxeMemHub`: the three clients' request FIFOs, the two up-streams to the masters, the
   response path and its distribution by client. Abstract specification: one queue of
   requests per client, each answered once and in order. To check: no response reaches
   another client, data and status stay in step, every request is answered. To prove: the
   routing invariant (each response in flight belongs to one outstanding request). Then
   `VxeAxiSwitch` with the transaction ids below it.
2. The rest of the vector unit: the command dispatcher and its errors, the store unit with the
   write path of `VpuLsu`; with `VxeProduct` it refines the vector unit as `VxeCtrlUnit` sees it.
3. `VxeSystem`: driver and engine joined at the interrupt registers (`intr_unit`), with
   `DevComplete` of `KdJobs` refined by the end of a program in `VxeCtrlUnit`.
4. Proofs: `VerifiedIsAccepted` and `ProgramComputesStages`, with the fold over the commands of a batch written as
   a function of the length, as in `SwEmuExec`.
