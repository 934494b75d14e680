---------------------------- MODULE KdJobsProofs ----------------------------
(***************************************************************************)
(* Proofs about KdJobs, for every set of files, threads and buffers and    *)
(* every job limit: the numbers of jobs, the locks and lifetimes; then the *)
(* scheduler thread, the interrupt handler and the device: no wake-up is   *)
(* lost, jobs are counted exactly, and, while a timeout expires only on a  *)
(* device that can do no more, an interrupt is never taken for that of     *)
(* another job.                                                            *)
(***************************************************************************)
EXTENDS KdJobs, SequenceTheorems, FiniteSetTheorems, TLAPS

\* The scheduler fetches only from a queue it found non-empty.
FetchFinds == spc = "fetch" => job_queue # << >>

\* A RUNPGM, create or update call has a buffer as its argument.
ArgsNameBuffers ==
    \A t \in Thread : pc[t] \in {"lookup", "queue", "hold"} => arg[t].cbuf \in Cbuf

\* Type correctness and the accounting of jobs by sequence numbers, with what
\* makes them inductive.
Accounting == TypeOK /\ SeqAccounting /\ FetchFinds /\ ArgsNameBuffers

\* Changing one element of a sequence keeps its type and its length.
LEMMA UpdateSeq ==
    ASSUME NEW S, NEW s \in Seq(S), NEW i, NEW e,
           i \in 1..Len(s) => e \in S
    PROVE  /\ [s EXCEPT ![i] = e] \in Seq(S)
           /\ Len([s EXCEPT ![i] = e]) = Len(s)
<1>1. CASE i \in 1..Len(s)
  BY <1>1, ExceptSeq
<1>2. CASE i \notin 1..Len(s)
  <2>1. [s EXCEPT ![i] = e] = s
    BY <1>2, LenProperties
  <2> QED
    BY <2>1
<1> QED
  BY <1>1, <1>2

\* The handler stores the interrupts of a job.
LEMMA UpdateIntr ==
    ASSUME NEW jobs \in Seq(JobType), NEW i, NEW v \in SUBSET Bits
    PROVE  /\ [jobs EXCEPT ![i].intr_state = v] \in Seq(JobType)
           /\ Len([jobs EXCEPT ![i].intr_state = v]) = Len(jobs)
<1> DEFINE j == jobs[i]
           e == [j EXCEPT !.intr_state = v]
<1>1. i \in 1..Len(jobs) => j \in JobType
  BY ElementOfSeq
<1>2. i \in 1..Len(jobs) => e \in JobType
  BY <1>1 DEF JobType
<1>3. [jobs EXCEPT ![i].intr_state = v] = [jobs EXCEPT ![i] = e]
  OBVIOUS
<1> HIDE DEF e
<1> QED
  BY <1>2, <1>3, UpdateSeq

\* The handler marks a job done.
LEMMA UpdateDone ==
    ASSUME NEW jobs \in Seq(JobType), NEW i, NEW v \in BOOLEAN
    PROVE  /\ [jobs EXCEPT ![i].done = v] \in Seq(JobType)
           /\ Len([jobs EXCEPT ![i].done = v]) = Len(jobs)
<1> DEFINE j == jobs[i]
           e == [j EXCEPT !.done = v]
<1>1. i \in 1..Len(jobs) => j \in JobType
  BY ElementOfSeq
<1>2. i \in 1..Len(jobs) => e \in JobType
  BY <1>1 DEF JobType
<1>3. [jobs EXCEPT ![i].done = v] = [jobs EXCEPT ![i] = e]
  OBVIOUS
<1> HIDE DEF e
<1> QED
  BY <1>2, <1>3, UpdateSeq

\* The device ends a job's program.
LEMMA UpdateRan ==
    ASSUME NEW jobs \in Seq(JobType), NEW i, NEW v \in SUBSET Bits
    PROVE  /\ [jobs EXCEPT ![i].ran = v] \in Seq(JobType)
           /\ Len([jobs EXCEPT ![i].ran = v]) = Len(jobs)
<1> DEFINE j == jobs[i]
           e == [j EXCEPT !.ran = v]
<1>1. i \in 1..Len(jobs) => j \in JobType
  BY ElementOfSeq
<1>2. i \in 1..Len(jobs) => e \in JobType
  BY <1>1 DEF JobType
<1>3. [jobs EXCEPT ![i].ran = v] = [jobs EXCEPT ![i] = e]
  OBVIOUS
<1> HIDE DEF e
<1> QED
  BY <1>2, <1>3, UpdateSeq

\* The scheduler logs a job.
LEMMA UpdateVerdict ==
    ASSUME NEW jobs \in Seq(JobType), NEW i, NEW v \in {None, "ok", "error", "hung"}
    PROVE  /\ [jobs EXCEPT ![i].verdict = v] \in Seq(JobType)
           /\ Len([jobs EXCEPT ![i].verdict = v]) = Len(jobs)
<1> DEFINE j == jobs[i]
           e == [j EXCEPT !.verdict = v]
<1>1. i \in 1..Len(jobs) => j \in JobType
  BY ElementOfSeq
<1>2. i \in 1..Len(jobs) => e \in JobType
  BY <1>1 DEF JobType
<1>3. [jobs EXCEPT ![i].verdict = v] = [jobs EXCEPT ![i] = e]
  OBVIOUS
<1> HIDE DEF e
<1> QED
  BY <1>2, <1>3, UpdateSeq

LEMMA InitAccounting == Init => Accounting
<1> SUFFICES ASSUME Init
             PROVE  Accounting
  OBVIOUS
<1>1. NoArg \in ArgType
  BY DEF NoArg, ArgType
<1>2. TypeOK
  <2>1. job_queue \in Seq(Nat) /\ job \in Seq(JobType)
    BY EmptySeq DEF Init
  <2>2. pc \in [Thread -> ThreadPC] /\ arg \in [Thread -> ArgType]
    BY <1>1 DEF Init, ThreadPC
  <2>3. num_jobs \in [Ctx -> Int] /\ ctx_state \in [Ctx -> CtxStates]
    BY DEF Init, CtxStates
  <2> QED
    BY <2>1, <2>2, <2>3 DEF Init, TypeOK, SchedPC, IsrPC
<1>3. SeqAccounting /\ FetchFinds /\ ArgsNameBuffers
  BY DEF Init, SeqAccounting, FetchFinds, Held, HoldingSeq, HoldingJob,
         HoldingLock, Counted, ArgsNameBuffers
<1> QED
  BY <1>2, <1>3 DEF Accounting

\* A thread that leaves the driver is back where it was, with no argument.
LEMMA LeavesTypes ==
    ASSUME pc \in [Thread -> ThreadPC], arg \in [Thread -> ArgType],
           NEW t \in Thread, Leaves(t)
    PROVE  pc' \in [Thread -> ThreadPC] /\ arg' \in [Thread -> ArgType]
<1>1. NoArg \in ArgType /\ "idle" \in ThreadPC
  BY DEF NoArg, ArgType, None, ThreadPC
<1> QED
  BY <1>1 DEF Leaves

LEMMA NextAccounting == Accounting /\ [Next]_vars => Accounting'
<1>a. SUFFICES ASSUME Accounting, [Next]_vars
               PROVE  Accounting'
  OBVIOUS
<1>b. /\ job \in Seq(JobType)
      /\ num_jobs \in [Ctx -> Int]
      /\ pc \in [Thread -> ThreadPC] /\ arg \in [Thread -> ArgType]
      /\ \A t \in Thread : FileOf[t] \in Ctx
  BY <1>a, FilesAssumption DEF Accounting, TypeOK
<1> USE FilesAssumption
    DEF Accounting, TypeOK, SeqAccounting, FetchFinds, ArgsNameBuffers, Held, HoldingSeq,
        HoldingJob, HoldingLock, Counted, SchedPC, ThreadPC, Admitted, Fencing,
        IsrPC, CtxStates, ArgType, None, Bits, submitVars, schedVars, isrVars,
        devVars
<1>1. ASSUME NEW t \in Thread, HoldExit(t) PROVE Accounting'
  BY <1>a, <1>1 DEF HoldExit, Enters, Leaves, NoArg
<1>2. ASSUME NEW t \in Thread, RunpgmReject(t) PROVE Accounting'
  BY <1>a, <1>2 DEF RunpgmReject, Enters, Leaves, NoArg
<1>3. ASSUME NEW t \in Thread, FenceSignal(t) PROVE Accounting'
  BY <1>a, <1>3 DEF FenceSignal, Enters, Leaves, NoArg
<1>4. ASSUME NEW t \in Thread, FenceCheck(t) PROVE Accounting'
  <2>1. NoArg \in ArgType
    BY DEF NoArg
  <2>2. pc' \in [Thread -> ThreadPC]
    BY <1>b, <1>4 DEF FenceCheck, Leaves
  <2>3. arg' \in [Thread -> ArgType]
    BY <1>b, <1>4, <2>1 DEF FenceCheck, Leaves
  <2>4. ArgsNameBuffers'
    BY <1>a, <1>4 DEF FenceCheck, Leaves
  <2> QED
    BY <1>a, <1>4, <2>2, <2>3, <2>4 DEF FenceCheck
<1>5. ASSUME NEW t \in Thread, RunpgmWake(t) PROVE Accounting'
  <2>1. Leaves(t)
    BY <1>5 DEF RunpgmWake
  <2>2. pc' \in [Thread -> ThreadPC] /\ arg' \in [Thread -> ArgType]
    BY <1>b, <2>1, LeavesTypes
  <2>3. spc' \in SchedPC
    BY <1>a, <1>5 DEF RunpgmWake, WakeIdleSched
  <2>4. ArgsNameBuffers'
    BY <1>a, <1>5 DEF RunpgmWake, Leaves
  <2>5. SeqAccounting' /\ FetchFinds'
    BY <1>a, <1>5 DEF RunpgmWake, WakeIdleSched
  <2> QED
    BY <1>a, <1>5, <2>2, <2>3, <2>4, <2>5 DEF RunpgmWake
<1>6. ASSUME NEW t \in Thread, RunpgmLookup(t) PROVE Accounting'
  <2>1. locked' \subseteq Cbuf /\ pc' \in [Thread -> ThreadPC]
    BY <1>a, <1>6 DEF RunpgmLookup, MayLock
  <2> QED
    BY <1>a, <1>6, <2>1 DEF RunpgmLookup
<1>7. ASSUME NEW t \in Thread, RunpgmFault(t) PROVE Accounting'
  BY <1>a, <1>7 DEF RunpgmFault
<1>8. ASSUME NEW t \in Thread, RunpgmQueue(t) PROVE Accounting'
  <2>1. NewJob(arg[t].cbuf) \in JobType
    BY <1>a, <1>8 DEF RunpgmQueue, NewJob, JobType
  <2>2. /\ job' \in Seq(JobType)
        /\ Len(job') = Len(job) + 1
    BY <1>a, <1>8, <2>1, AppendProperties DEF RunpgmQueue
  <2>3. /\ job_queue' \in Seq(Nat)
        /\ Len(job_queue') = Len(job_queue) + 1
        /\ job_queue' # << >>
        /\ \A i \in 1..Len(job_queue) : job_queue'[i] = job_queue[i]
        /\ job_queue'[Len(job_queue) + 1] = active_seq + 1
    BY <1>a, <1>8, AppendProperties DEF RunpgmQueue
  <2> QED
    <3> DEFINE base == finished_seq + Held
    <3>1. /\ base \in Nat /\ base' = base /\ active_seq' = active_seq + 1
          /\ job_queue \in Seq(Nat)
          /\ active_seq = base + Len(job_queue) /\ Len(job) = active_seq
          /\ \A i \in 1..Len(job_queue) : job_queue[i] = base + i
      BY <1>a, <1>8 DEF RunpgmQueue
    <3>2. spc' \in HoldingSeq => sjob' = finished_seq' + 1
      BY <1>a, <1>8 DEF RunpgmQueue
    <3>3. Len(job_queue) \in Nat
      BY <3>1, LenProperties
    <3> HIDE DEF base
    <3>4. ASSUME NEW i \in 1..Len(job_queue')
          PROVE  job_queue'[i] = base + i
      <4>1. CASE i \in 1..Len(job_queue)
        BY <2>3, <3>1, <4>1
      <4>2. CASE i = Len(job_queue) + 1
        BY <2>3, <3>1, <3>3, <4>2
      <4> QED
        BY <2>3, <3>3, <4>1, <4>2
    <3>5. SeqAccounting' /\ FetchFinds'
      <4>1. active_seq' = base + Len(job_queue') /\ Len(job') = active_seq'
        BY <2>2, <2>3, <3>1, <3>3
      <4> QED
        BY <2>3, <3>1, <3>2, <3>4, <4>1 DEF base
    <3>6. pc' \in [Thread -> ThreadPC] /\ active_seq' \in Nat
      BY <1>a, <1>8 DEF RunpgmQueue
    <3>7. TypeOK'
      BY <1>a, <1>8, <2>2, <2>3, <3>6 DEF RunpgmQueue
    <3>8. ArgsNameBuffers'
      BY <1>a, <1>8 DEF RunpgmQueue
    <3> QED
      BY <3>5, <3>7, <3>8
<1>9. ASSUME NEW t \in Thread, NEW b \in Cbuf, CreateEnter(t, b) PROVE Accounting'
  BY <1>a, <1>9 DEF CreateEnter, Enters, Leaves, NoArg
<1>10. ASSUME NEW t \in Thread, NEW b \in Cbuf, UpdateEnter(t, b) PROVE Accounting'
  BY <1>a, <1>10 DEF UpdateEnter, Enters, Leaves, NoArg
<1>11. ASSUME NEW t \in Thread, NEW b \in Cbuf, BufferDestroy(t, b) PROVE Accounting'
  BY <1>a, <1>11 DEF BufferDestroy, Enters, Leaves, NoArg
<1>12. ASSUME NEW t \in Thread, NEW b \in Cbuf, RunpgmEnter(t, b) PROVE Accounting'
  BY <1>a, <1>12 DEF RunpgmEnter, Enters, Leaves, NoArg
<1>13. ASSUME NEW t \in Thread, NEW s \in 1..active_seq, FenceEnter(t, s) PROVE Accounting'
  BY <1>a, <1>13 DEF FenceEnter, Enters, Leaves, NoArg
<1>14. ASSUME NEW c \in Ctx, Open(c) PROVE Accounting'
  BY <1>a, <1>14 DEF Open
<1>15. ASSUME NEW c \in Ctx, Close(c) PROVE Accounting'
  BY <1>a, <1>15 DEF Close
<1>16. ASSUME NEW c \in Ctx, ReleaseCheck(c) PROVE Accounting'
  BY <1>a, <1>16 DEF ReleaseCheck
<1>17. ASSUME NEW c \in Ctx, ReleaseFree(c) PROVE Accounting'
  BY <1>a, <1>17 DEF ReleaseFree
<1>18. ASSUME Unregister PROVE Accounting'
  <2>1. spc' \in SchedPC /\ stop' \in BOOLEAN
    BY <1>a, <1>18 DEF Unregister, WakeIdleSched
  <2>2. SeqAccounting' /\ FetchFinds' /\ ArgsNameBuffers'
    BY <1>a, <1>18 DEF Unregister, WakeIdleSched
  <2> QED
    BY <1>a, <1>18, <2>1, <2>2 DEF Unregister
<1>19. ASSUME SchedWait PROVE Accounting'
  BY <1>a, <1>19 DEF SchedWait
<1>20. ASSUME SchedFetch PROVE Accounting'
  BY <1>a, <1>20 DEF SchedFetch
<1>21. ASSUME SchedSetCur PROVE Accounting'
  BY <1>a, <1>21 DEF SchedSetCur
<1>22. ASSUME SchedStart PROVE Accounting'
  BY <1>a, <1>22 DEF SchedStart
<1>23. ASSUME SchedWaitDone PROVE Accounting'
  BY <1>a, <1>23 DEF SchedWaitDone
<1>24. ASSUME SchedTimeout PROVE Accounting'
  <2>1. sjob \in 1..Len(job)
    BY <1>a, <1>24 DEF SchedTimeout
  <2>2. job[sjob] \in JobType
    BY <1>b, <2>1, ElementOfSeq
  <2>3. res' \in BOOLEAN
    BY <1>a, <1>24, <2>2 DEF SchedTimeout, JobType
  <2> QED
    BY <1>a, <1>24, <2>3 DEF SchedTimeout
<1>25. ASSUME SchedClear PROVE Accounting'
  BY <1>a, <1>25 DEF SchedClear
<1>26. ASSUME SchedCheck PROVE Accounting'
  BY <1>a, <1>26, UpdateVerdict, ZenonT(60) DEF SchedCheck
<1>27. ASSUME SchedDec PROVE Accounting'
  <2>1. num_jobs' \in [Ctx -> Int]
    <3>1. sjob \in 1..Len(job)
      BY <1>a, <1>27 DEF SchedDec
    <3>2. job[sjob] \in JobType
      BY <1>b, <3>1, ElementOfSeq
    <3>3. CtxOf(sjob) \in Ctx
      BY <3>2 DEF CtxOf, JobType
    <3> QED
      BY <1>b, <1>27, <3>3 DEF SchedDec
  <2> QED
    BY <1>a, <1>27, <2>1 DEF SchedDec
<1>28. ASSUME SchedUnbind PROVE Accounting'
  BY <1>a, <1>28 DEF SchedUnbind
<1>29. ASSUME SchedKfree PROVE Accounting'
  BY <1>a, <1>29 DEF SchedKfree
<1>30. ASSUME SchedInc PROVE Accounting'
  <2>1. SeqAccounting'
    BY <1>a, <1>30 DEF SchedInc
  <2> QED
    BY <1>a, <1>30, <2>1 DEF SchedInc
<1>31. ASSUME SchedWake PROVE Accounting'
  BY <1>a, <1>31 DEF SchedWake, WakeFences
<1>32. ASSUME IsrEnter PROVE Accounting'
  BY <1>a, <1>32 DEF IsrEnter
<1>33. ASSUME IsrReadRaw PROVE Accounting'
  <2>1. raw \in SUBSET Bits /\ job' = [job EXCEPT ![ijob].intr_state = raw]
    BY <1>a, <1>33 DEF IsrReadRaw
  <2>2. job' \in Seq(JobType) /\ Len(job') = Len(job)
    BY <1>b, <2>1, UpdateIntr
  <2> QED
    BY <1>a, <1>33, <2>2 DEF IsrReadRaw
<1>34. ASSUME IsrDone PROVE Accounting'
  BY <1>a, <1>34, UpdateDone DEF IsrDone
<1>35. ASSUME IsrReadAct PROVE Accounting'
  BY <1>a, <1>35 DEF IsrReadAct
<1>36. ASSUME IsrAck PROVE Accounting'
  BY <1>a, <1>36 DEF IsrAck
<1>37. ASSUME IsrWake PROVE Accounting'
  BY <1>a, <1>37 DEF IsrWake, WakeSched
<1>38. ASSUME DevComplete PROVE Accounting'
  <2>1. PICK bits \in SUBSET Bits : /\ raw' = raw \cup bits
                                    /\ job' = [job EXCEPT ![hw].ran = bits]
    BY <1>a, <1>38 DEF DevComplete
  <2>2. job' \in Seq(JobType) /\ Len(job') = Len(job)
    BY <1>b, <2>1, UpdateRan
  <2> QED
    BY <1>a, <1>38, <2>1, <2>2 DEF DevComplete
<1>39. CASE UNCHANGED vars
  BY <1>a, <1>39 DEF vars
<1> QED
  BY <1>a, <1>1, <1>2, <1>3, <1>4, <1>5, <1>6, <1>7, <1>8, <1>9, <1>10, <1>11, <1>12, <1>13, <1>14, <1>15, <1>16, <1>17, <1>18, <1>19, <1>20, <1>21, <1>22, <1>23, <1>24, <1>25, <1>26, <1>27, <1>28, <1>29, <1>30, <1>31, <1>32, <1>33, <1>34, <1>35, <1>36, <1>37, <1>38, <1>39
     DEF Next, ThreadNext, ThreadEnds, CtxNext, Sched, Isr

\* The driver's variables keep their types, in every behaviour.
THEOREM TypeCorrect == Spec => []TypeOK
<1>1. Accounting => TypeOK
  BY DEF Accounting
<1> QED
  BY InitAccounting, NextAccounting, <1>1, PTL DEF Spec

\* RUNPGM, the scheduler's fetch and its increment of finished_seq keep the
\* numbers of the jobs between finished_seq and active_seq a gapless interval.
THEOREM SequenceNumbers == Spec => []SeqAccounting
<1>1. Accounting => SeqAccounting
  BY DEF Accounting
<1> QED
  BY InitAccounting, NextAccounting, <1>1, PTL DEF Spec

-----------------------------------------------------------------------------
(***************************************************************************)
(* Locks of command buffers and lifetimes of contexts, for files that are  *)
(* closed only after their jobs have finished.                             *)
(***************************************************************************)

\* A handler locks a buffer of its own file only.
OwnBuffers == \A t \in LockingThreads : OwnerOf[arg[t].cbuf] = FileOf[t]

\* A context that is being released has no job left and no thread inside.
ClosingIsDrained ==
    \A c \in Ctx : ctx_state[c] \notin {"closed", "open"} =>
       /\ \A s \in 1..Len(job) : CtxOf(s) = c => s <= finished_seq
       /\ \A t \in Thread : FileOf[t] = c => pc[t] = "idle"

\* A destroyed buffer is not locked.
LockedExist == locked \subseteq cbufs

Locks == /\ Accounting
         /\ CbufExclusive
         /\ OwnBuffers
         /\ ClosingIsDrained
         /\ LockedExist

\* The invariant depends only on who locks what: a step that leaves that alone,
\* and brings no thread into a closing context, preserves it.
LEMMA LocksUntouched ==
    ASSUME Locks, Accounting',
           UNCHANGED <<locked, finished_seq, ctx_state>>,
           locked \subseteq cbufs => locked \subseteq cbufs',
           Len(job') = Len(job),
           \A s \in 1..Len(job) : job'[s].cbuf = job[s].cbuf,
           LockingJobs' = LockingJobs,
           LockingThreads' = LockingThreads,
           \A t \in LockingThreads : arg'[t].cbuf = arg[t].cbuf,
           \A t \in Thread : pc[t] = "idle" /\ pc'[t] # "idle"
                               => ctx_state[FileOf[t]] = "open"
    PROVE  Locks'
<1>0. LockingJobs \subseteq 1..Len(job)
  BY LenProperties DEF LockingJobs, Locks, Accounting, TypeOK
<1>1. CbufExclusive'
  BY <1>0 DEF Locks, CbufExclusive
<1>2. OwnBuffers'
  BY DEF Locks, OwnBuffers
<1>3. ClosingIsDrained'
  BY DEF Locks, ClosingIsDrained, CtxOf
<1>4. LockedExist'
  BY DEF Locks, LockedExist
<1> QED
  BY <1>1, <1>2, <1>3, <1>4 DEF Locks

LEMMA InitLocks == Init => Locks
<1> SUFFICES ASSUME Init
             PROVE  Locks
  OBVIOUS
<1>1. LockingThreads = {} /\ LockingJobs = {}
  BY DEF Init, LockingThreads, LockingJobs
<1>2. CbufExclusive /\ OwnBuffers /\ ClosingIsDrained /\ LockedExist
  BY <1>1 DEF Init, CbufExclusive, OwnBuffers, ClosingIsDrained, LockedExist
<1> QED
  BY <1>2, InitAccounting DEF Locks

LEMMA NextLocks ==
    ASSUME CloseMode = "drained", Locks, [Next]_vars
    PROVE  Locks'
<1>a. Accounting'
  BY NextAccounting DEF Locks
<1>b. /\ job \in Seq(JobType) /\ Len(job) \in Nat /\ DOMAIN job = 1..Len(job)
      /\ finished_seq \in Nat /\ Len(job) = active_seq
      /\ spc \in HoldingSeq => sjob = finished_seq + 1 /\ sjob \in 1..Len(job)
      /\ pc \in [Thread -> ThreadPC] /\ arg \in [Thread -> ArgType]
  BY LenProperties DEF Locks, Accounting, TypeOK, SeqAccounting, Held
<1>c. FileOf \in [Thread -> Ctx] /\ OwnerOf \in [Cbuf -> Ctx]
  BY FilesAssumption
<1> USE DEF LockingJobs, LockingThreads, HoldingSeq, HoldingJob, HoldingLock,
            Counted, submitVars, schedVars, isrVars, devVars
<1>1. ASSUME NEW t \in Thread, RunpgmReject(t) PROVE Locks'
  BY <1>a, <1>b, <1>1, LocksUntouched DEF RunpgmReject, Enters, Leaves, NoArg
<1>2. ASSUME NEW t \in Thread, FenceSignal(t) PROVE Locks'
  BY <1>a, <1>b, <1>2, LocksUntouched DEF FenceSignal, Enters, Leaves, NoArg
<1>3. ASSUME NEW t \in Thread, FenceCheck(t) PROVE Locks'
  BY <1>a, <1>b, <1>3, LocksUntouched DEF FenceCheck, Enters, Leaves, NoArg
<1>4. ASSUME NEW t \in Thread, RunpgmWake(t) PROVE Locks'
  <2>1. /\ UNCHANGED <<locked, cbufs, finished_seq, ctx_state, job, sjob>>
        /\ pc' = [pc EXCEPT ![t] = "idle"]
        /\ arg' = [arg EXCEPT ![t] = NoArg]
        /\ pc[t] = "wake"
    BY <1>4 DEF RunpgmWake, Leaves
  <2>2. LockingThreads' = LockingThreads
    BY <1>b, <2>1
  <2>3. \A u \in LockingThreads : arg'[u].cbuf = arg[u].cbuf
    BY <1>b, <2>1
  <2>4. LockingJobs' = LockingJobs
    BY <1>4, <2>1 DEF RunpgmWake, WakeIdleSched
  <2>5. \A u \in Thread : pc[u] = "idle" => pc'[u] = "idle"
    BY <1>b, <2>1
  <2> HIDE DEF LockingThreads, LockingJobs
  <2> QED
    BY <1>a, <2>1, <2>2, <2>3, <2>4, <2>5, LocksUntouched
<1>5. ASSUME NEW t \in Thread, RunpgmFault(t) PROVE Locks'
  BY <1>a, <1>b, <1>5, LocksUntouched DEF RunpgmFault
<1>6. ASSUME NEW t \in Thread, NEW b \in Cbuf, RunpgmEnter(t, b) PROVE Locks'
  BY <1>a, <1>b, <1>6, LocksUntouched DEF RunpgmEnter, Enters, Leaves, NoArg
<1>7. ASSUME NEW t \in Thread, NEW b \in Cbuf, BufferDestroy(t, b) PROVE Locks'
  BY <1>a, <1>b, <1>7, LocksUntouched DEF BufferDestroy, MayLock
<1>8. ASSUME NEW t \in Thread, NEW s \in 1..active_seq, FenceEnter(t, s) PROVE Locks'
  BY <1>a, <1>b, <1>8, LocksUntouched DEF FenceEnter, Enters, Leaves, NoArg
<1>9. ASSUME Unregister PROVE Locks'
  BY <1>a, <1>b, <1>9, LocksUntouched DEF Unregister, WakeIdleSched
<1>10. ASSUME SchedWait PROVE Locks'
  BY <1>a, <1>b, <1>10, LocksUntouched DEF SchedWait
<1>11. ASSUME SchedFetch PROVE Locks'
  BY <1>a, <1>b, <1>11, LocksUntouched DEF SchedFetch
<1>12. ASSUME SchedSetCur PROVE Locks'
  BY <1>a, <1>b, <1>12, LocksUntouched DEF SchedSetCur
<1>13. ASSUME SchedStart PROVE Locks'
  BY <1>a, <1>b, <1>13, LocksUntouched DEF SchedStart
<1>14. ASSUME SchedWaitDone PROVE Locks'
  BY <1>a, <1>b, <1>14, LocksUntouched DEF SchedWaitDone
<1>15. ASSUME SchedTimeout PROVE Locks'
  BY <1>a, <1>b, <1>15, LocksUntouched DEF SchedTimeout
<1>16. ASSUME SchedClear PROVE Locks'
  BY <1>a, <1>b, <1>16, LocksUntouched DEF SchedClear
<1>17. ASSUME SchedCheck PROVE Locks'
  BY <1>a, <1>b, <1>17, LocksUntouched DEF SchedCheck
<1>18. ASSUME SchedDec PROVE Locks'
  BY <1>a, <1>b, <1>18, LocksUntouched DEF SchedDec
<1>19. ASSUME SchedKfree PROVE Locks'
  BY <1>a, <1>b, <1>19, LocksUntouched DEF SchedKfree
<1>20. ASSUME SchedWake PROVE Locks'
  BY <1>a, <1>b, <1>20, LocksUntouched DEF SchedWake, WakeFences
<1>21. ASSUME IsrEnter PROVE Locks'
  BY <1>a, <1>b, <1>21, LocksUntouched DEF IsrEnter
<1>22. ASSUME IsrReadRaw PROVE Locks'
  BY <1>a, <1>b, <1>22, LocksUntouched DEF IsrReadRaw
<1>23. ASSUME IsrDone PROVE Locks'
  BY <1>a, <1>b, <1>23, LocksUntouched DEF IsrDone
<1>24. ASSUME IsrReadAct PROVE Locks'
  BY <1>a, <1>b, <1>24, LocksUntouched DEF IsrReadAct
<1>25. ASSUME IsrAck PROVE Locks'
  BY <1>a, <1>b, <1>25, LocksUntouched DEF IsrAck
<1>26. ASSUME IsrWake PROVE Locks'
  BY <1>a, <1>b, <1>26, LocksUntouched DEF IsrWake, WakeSched
<1>27. ASSUME DevComplete PROVE Locks'
  BY <1>a, <1>b, <1>27, LocksUntouched DEF DevComplete
<1>28. ASSUME NEW t \in Thread, NEW b \in Cbuf, CreateEnter(t, b) PROVE Locks'
  <2>1. /\ b \notin locked /\ OwnerOf[b] = FileOf[t]
        /\ pc[t] = "idle" /\ ctx_state[FileOf[t]] = "open"
        /\ locked' = locked \cup {b} /\ cbufs' = cbufs \cup {b}
        /\ pc' = [pc EXCEPT ![t] = "hold"]
        /\ arg' = [arg EXCEPT ![t] = [cbuf |-> b, seq |-> 0]]
        /\ UNCHANGED <<job, ctx_state, finished_seq, spc, sjob>>
    BY <1>28 DEF CreateEnter, Enters, Locks, LockedExist
  <2>2. LockingJobs' = LockingJobs /\ LockingThreads' = LockingThreads \cup {t}
    BY <1>b, <2>1
  <2>3. /\ t \notin LockingThreads /\ arg'[t].cbuf = b
        /\ \A u \in LockingThreads : arg'[u].cbuf = arg[u].cbuf
    BY <1>b, <2>1
  <2>4. ClosingIsDrained'
    BY <1>b, <1>c, <2>1 DEF Locks, ClosingIsDrained, CtxOf
  <2>5. OwnBuffers'
    BY <2>1, <2>2, <2>3 DEF Locks, OwnBuffers
  <2>6. LockedExist'
    BY <2>1 DEF Locks, LockedExist
  <2> HIDE DEF LockingThreads, LockingJobs
  <2>7. CbufExclusive'
    BY <2>1, <2>2, <2>3 DEF Locks, CbufExclusive
  <2> QED
    BY <1>a, <2>4, <2>5, <2>6, <2>7 DEF Locks
<1>29. ASSUME NEW t \in Thread, NEW b \in Cbuf, UpdateEnter(t, b) PROVE Locks'
  <2>1. /\ b \notin locked /\ b \in cbufs /\ OwnerOf[b] = FileOf[t]
        /\ pc[t] = "idle" /\ ctx_state[FileOf[t]] = "open"
        /\ locked' = locked \cup {b}
        /\ pc' = [pc EXCEPT ![t] = "hold"]
        /\ arg' = [arg EXCEPT ![t] = [cbuf |-> b, seq |-> 0]]
        /\ UNCHANGED <<job, cbufs, ctx_state, finished_seq, spc, sjob>>
    BY <1>29 DEF UpdateEnter, MayLock, Enters
  <2>2. LockingJobs' = LockingJobs /\ LockingThreads' = LockingThreads \cup {t}
    BY <1>b, <2>1
  <2>3. /\ t \notin LockingThreads /\ arg'[t].cbuf = b
        /\ \A u \in LockingThreads : arg'[u].cbuf = arg[u].cbuf
    BY <1>b, <2>1
  <2>4. ClosingIsDrained'
    BY <1>b, <1>c, <2>1 DEF Locks, ClosingIsDrained, CtxOf
  <2>5. OwnBuffers' /\ LockedExist'
    BY <2>1, <2>2, <2>3 DEF Locks, OwnBuffers, LockedExist
  <2> HIDE DEF LockingThreads, LockingJobs
  <2>6. CbufExclusive'
    BY <2>1, <2>2, <2>3 DEF Locks, CbufExclusive
  <2> QED
    BY <1>a, <2>4, <2>5, <2>6 DEF Locks
<1>30. ASSUME NEW t \in Thread, HoldExit(t) PROVE Locks'
  <2>1. /\ pc[t] = "hold" /\ pc' = [pc EXCEPT ![t] = "idle"]
        /\ arg' = [arg EXCEPT ![t] = NoArg] /\ locked' = locked \ {arg[t].cbuf}
        /\ UNCHANGED <<job, cbufs, ctx_state, finished_seq, spc, sjob>>
    BY <1>30 DEF HoldExit, Leaves
  <2>2. /\ LockingJobs' = LockingJobs /\ LockingThreads' = LockingThreads \ {t}
        /\ t \in LockingThreads
    BY <1>b, <2>1
  <2>3. \A u \in LockingThreads' : arg'[u] = arg[u]
    BY <1>b, <2>1, <2>2
  <2>4. ClosingIsDrained'
    BY <1>b, <2>1 DEF Locks, ClosingIsDrained, CtxOf
  <2>5. OwnBuffers' /\ LockedExist'
    BY <2>1, <2>2, <2>3 DEF Locks, OwnBuffers, LockedExist
  <2> HIDE DEF LockingThreads, LockingJobs
  <2>6. CbufExclusive'
    BY <2>1, <2>2, <2>3 DEF Locks, CbufExclusive
  <2> QED
    BY <1>a, <2>4, <2>5, <2>6 DEF Locks
<1>31. ASSUME NEW t \in Thread, RunpgmLookup(t) PROVE Locks'
  <2> DEFINE b == arg[t].cbuf
  <2>1. /\ pc[t] = "lookup"
        /\ UNCHANGED <<job, cbufs, arg, ctx_state, finished_seq, spc, sjob>>
    BY <1>31 DEF RunpgmLookup
  <2>2. CASE MayLock(t, b)
    <3>1. /\ b \notin locked /\ b \in cbufs /\ OwnerOf[b] = FileOf[t]
          /\ locked' = locked \cup {b} /\ pc' = [pc EXCEPT ![t] = "queue"]
      BY <1>31, <2>2 DEF RunpgmLookup, MayLock
    <3>2. /\ LockingJobs' = LockingJobs /\ LockingThreads' = LockingThreads \cup {t}
          /\ t \notin LockingThreads
      BY <1>b, <2>1, <3>1
    <3>3. ClosingIsDrained'
      BY <1>b, <2>1, <3>1 DEF Locks, ClosingIsDrained, CtxOf
    <3>4. OwnBuffers' /\ LockedExist'
      BY <2>1, <3>1, <3>2 DEF Locks, OwnBuffers, LockedExist
    <3> HIDE DEF LockingThreads, LockingJobs
    <3>5. CbufExclusive'
      BY <2>1, <3>1, <3>2 DEF Locks, CbufExclusive
    <3> QED
      BY <1>a, <3>3, <3>4, <3>5 DEF Locks
  <2>3. CASE ~MayLock(t, b)
    <3>1. locked' = locked /\ pc' = [pc EXCEPT ![t] = "reject"]
      BY <1>31, <2>3 DEF RunpgmLookup
    <3>2. LockingJobs' = LockingJobs /\ LockingThreads' = LockingThreads
      BY <1>b, <2>1, <3>1
    <3>3. ClosingIsDrained'
      BY <1>b, <2>1, <3>1 DEF Locks, ClosingIsDrained, CtxOf
    <3>4. OwnBuffers' /\ LockedExist' /\ CbufExclusive'
      BY <2>1, <3>1, <3>2 DEF Locks, OwnBuffers, LockedExist, CbufExclusive
    <3> QED
      BY <1>a, <3>3, <3>4 DEF Locks
  <2> QED
    BY <2>2, <2>3
<1>32. ASSUME NEW t \in Thread, RunpgmQueue(t) PROVE Locks'
  <2> DEFINE n == active_seq + 1
  <2>1. /\ pc[t] = "queue" /\ n = Len(job) + 1
        /\ job' = Append(job, NewJob(arg[t].cbuf))
        /\ pc' = [pc EXCEPT ![t] = "wake"]
        /\ UNCHANGED <<locked, cbufs, arg, ctx_state, finished_seq, spc, sjob>>
    BY <1>b, <1>32 DEF RunpgmQueue
  <2>2. NewJob(arg[t].cbuf) \in JobType /\ NewJob(arg[t].cbuf).cbuf = arg[t].cbuf
    <3>1. arg[t].cbuf \in Cbuf
      BY <1>a, <1>b, <2>1 DEF Locks, Accounting, ArgsNameBuffers
    <3> QED
      BY <3>1 DEF NewJob, JobType
  <2>3. /\ Len(job') = n /\ DOMAIN job' = 1..n
        /\ job'[n].cbuf = arg[t].cbuf
        /\ \A s \in 1..Len(job) : job'[s] = job[s]
    BY <1>b, <2>1, <2>2, AppendProperties, LenProperties
  <2>4. n > finished_seq /\ (spc \in HoldingSeq => n # sjob)
    <3>1. active_seq \in Nat /\ active_seq = finished_seq + Held + Len(job_queue)
          /\ Len(job_queue) \in Nat /\ Held \in Nat
      BY LenProperties DEF Locks, Accounting, TypeOK, SeqAccounting, Held
    <3> QED
      BY <1>b, <3>1
  <2> HIDE DEF n
  <2>5. /\ LockingJobs' = LockingJobs \cup {n} /\ n \notin LockingJobs
        /\ LockingJobs \subseteq 1..Len(job)
    BY <1>b, <2>1, <2>3, <2>4
  <2>6. LockingThreads = LockingThreads' \cup {t} /\ t \notin LockingThreads'
    BY <1>b, <2>1
  <2>7. ctx_state[FileOf[t]] \in {"closed", "open"} /\ OwnerOf[arg[t].cbuf] = FileOf[t]
    BY <1>c, <2>1, <2>6 DEF Locks, ClosingIsDrained, OwnBuffers
  <2>8. OwnBuffers' /\ LockedExist'
    BY <2>1, <2>6 DEF Locks, OwnBuffers, LockedExist
  <2>9. ClosingIsDrained'
    BY <1>b, <1>c, <2>1, <2>3, <2>7 DEF Locks, ClosingIsDrained, CtxOf
  <2> HIDE DEF LockingThreads, LockingJobs
  <2>10. CbufExclusive'
    <3>1. /\ \A s \in LockingJobs : job'[s].cbuf = job[s].cbuf
          /\ locked' = locked /\ arg' = arg
      BY <2>1, <2>3, <2>5
    <3>2. CbufExclusive  BY DEF Locks
    <3> QED
      BY <2>3, <2>5, <2>6, <3>1, <3>2 DEF CbufExclusive
  <2> QED
    BY <1>a, <2>8, <2>9, <2>10 DEF Locks
<1>33. ASSUME NEW c \in Ctx, Open(c) PROVE Locks'
  <2>1. /\ ctx_state[c] = "closed" /\ ctx_state' = [ctx_state EXCEPT ![c] = "open"]
        /\ UNCHANGED <<job, pc, arg, finished_seq, spc, sjob, cbufs, locked>>
    BY <1>33 DEF Open, submitVars, schedVars
  <2>2. \A d \in Ctx : ctx_state'[d] \notin {"closed", "open"} => ctx_state'[d] = ctx_state[d]
    BY <2>1 DEF Locks, Accounting, TypeOK
  <2>3. LockingJobs' = LockingJobs /\ LockingThreads' = LockingThreads
    BY <2>1 DEF LockingJobs, LockingThreads
  <2>4. CbufExclusive' /\ OwnBuffers' /\ LockedExist'
    BY <2>1, <2>3 DEF Locks, CbufExclusive, OwnBuffers, LockedExist
  <2>5. ClosingIsDrained'
    BY <2>1, <2>2 DEF Locks, ClosingIsDrained, CtxOf
  <2> QED
    BY <1>a, <2>4, <2>5 DEF Locks
<1>34. ASSUME NEW c \in Ctx, Close(c) PROVE Locks'
  BY <1>a, <1>b, <1>c, <1>34 DEF Locks, CbufExclusive, OwnBuffers, ClosingIsDrained,
     LockedExist, CtxOf, Close, Drained
<1>35. ASSUME NEW c \in Ctx, ReleaseCheck(c) PROVE Locks'
  <2>1. /\ ctx_state[c] = "wait" /\ ctx_state' \in [Ctx -> CtxStates]
        /\ \A d \in Ctx \ {c} : ctx_state'[d] = ctx_state[d]
        /\ UNCHANGED <<job, pc, arg, finished_seq, spc, sjob, cbufs, locked>>
    BY <1>a, <1>35 DEF ReleaseCheck, Accounting, TypeOK, Locks
  <2>2. LockingJobs' = LockingJobs /\ LockingThreads' = LockingThreads
    BY <2>1 DEF LockingJobs, LockingThreads
  <2>3. CbufExclusive' /\ OwnBuffers' /\ LockedExist'
    BY <2>1, <2>2 DEF Locks, CbufExclusive, OwnBuffers, LockedExist
  <2>4. ClosingIsDrained'
    BY <2>1 DEF Locks, ClosingIsDrained, CtxOf
  <2> QED
    BY <1>a, <2>3, <2>4 DEF Locks
<1>36. ASSUME NEW c \in Ctx, ReleaseFree(c) PROVE Locks'
  <2>1. /\ ctx_state[c] = "free" /\ ctx_state' = [ctx_state EXCEPT ![c] = "gone"]
        /\ cbufs' = {b \in cbufs : OwnerOf[b] # c}
        /\ locked' = {b \in locked : OwnerOf[b] # c}
        /\ UNCHANGED <<job, pc, arg, finished_seq, spc, sjob>>
    BY <1>36 DEF ReleaseFree
  <2>2. /\ \A s \in LockingJobs : OwnerOf[job[s].cbuf] # c
        /\ \A t \in LockingThreads : OwnerOf[arg[t].cbuf] # c
    <3>1. /\ \A s \in 1..Len(job) : CtxOf(s) = c => s <= finished_seq
          /\ \A t \in Thread : FileOf[t] = c => pc[t] = "idle"
      BY <2>1 DEF Locks, ClosingIsDrained
    <3>2. finished_seq \in Nat  BY DEF Locks, Accounting, TypeOK
    <3>3. \A s \in LockingJobs : OwnerOf[job[s].cbuf] # c
      BY <1>b, <3>1, <3>2 DEF LockingJobs, CtxOf
    <3>4. \A t \in LockingThreads : OwnerOf[arg[t].cbuf] # c
      BY <3>1 DEF LockingThreads, Locks, OwnBuffers
    <3> QED
      BY <3>3, <3>4
  <2>3. LockingJobs' = LockingJobs /\ LockingThreads' = LockingThreads
    BY <2>1 DEF LockingJobs, LockingThreads
  <2>4. CbufExclusive'
    BY <2>1, <2>2, <2>3 DEF Locks, CbufExclusive
  <2>5. OwnBuffers'
    BY <2>1, <2>3 DEF Locks, OwnBuffers
  <2>6. ClosingIsDrained'
    BY <1>a, <2>1 DEF Locks, Accounting, TypeOK, ClosingIsDrained, CtxOf
  <2>7. LockedExist'
    BY <2>1 DEF Locks, LockedExist
  <2> QED
    BY <1>a, <2>4, <2>5, <2>6, <2>7 DEF Locks
<1>37. ASSUME SchedUnbind PROVE Locks'
  <2>1. /\ spc = "unbind" /\ spc' \in {"kfree", "oops"}
        /\ locked' = locked \ {job[sjob].cbuf}
        /\ UNCHANGED <<job, pc, arg, ctx_state, finished_seq, sjob, cbufs>>
    BY <1>37 DEF SchedUnbind
  <2>2. /\ sjob \in LockingJobs /\ LockingJobs' = LockingJobs \ {sjob}
        /\ LockingThreads' = LockingThreads
    BY <1>b, <2>1
  <2>3. OwnBuffers' /\ LockedExist'
    BY <2>1, <2>2 DEF Locks, OwnBuffers, LockedExist
  <2>4. ClosingIsDrained'
    BY <2>1 DEF Locks, ClosingIsDrained, CtxOf
  <2> HIDE DEF LockingThreads, LockingJobs
  <2>5. CbufExclusive'
    BY <2>1, <2>2 DEF Locks, CbufExclusive
  <2> QED
    BY <1>a, <2>3, <2>4, <2>5 DEF Locks
<1>38. ASSUME SchedInc PROVE Locks'
  <2>1. /\ UNCHANGED <<locked, cbufs, ctx_state, job, pc, arg>>
        /\ spc = "inc" /\ spc' = "wake" /\ finished_seq' = finished_seq + 1
    BY <1>38 DEF SchedInc, submitVars
  <2>2. sjob = finished_seq + 1 /\ finished_seq \in Nat /\ DOMAIN job \subseteq Nat
    BY <1>b, <2>1
  <2>3. LockingJobs' = LockingJobs
    BY <2>1, <2>2
  <2>4. LockingThreads' = LockingThreads
    BY <2>1
  <2>5. \A s \in 1..Len(job) : s =< finished_seq => s =< finished_seq'
    BY <2>1, <2>2
  <2> HIDE DEF LockingThreads, LockingJobs
  <2>6. (CbufExclusive /\ OwnBuffers /\ LockedExist)'
    BY <1>a, <2>1, <2>3, <2>4 DEF Locks, CbufExclusive, OwnBuffers, LockedExist
  <2>7. ClosingIsDrained'
    BY <1>a, <2>1, <2>5 DEF Locks, ClosingIsDrained, CtxOf
  <2> QED
    BY <1>a, <2>6, <2>7 DEF Locks
<1>39. CASE UNCHANGED vars
  BY <1>a, <1>b, <1>39, LocksUntouched DEF vars
<1> QED
  BY <1>1, <1>2, <1>3, <1>4, <1>5, <1>6, <1>7, <1>8, <1>9, <1>10,
     <1>11, <1>12, <1>13, <1>14, <1>15, <1>16, <1>17, <1>18, <1>19, <1>20,
     <1>21, <1>22, <1>23, <1>24, <1>25, <1>26, <1>27, <1>28, <1>29, <1>30,
     <1>31, <1>32, <1>33, <1>34, <1>35, <1>36, <1>37, <1>38, <1>39
     DEF Next, ThreadNext, ThreadEnds, CtxNext, Sched, Isr

\* For files that are closed only after their jobs have finished, a command
\* buffer is locked exactly while one job or one handler owns it, so RUNPGM,
\* update and destroy never meet a job that is still running from the buffer.
THEOREM LocksExclusive ==
    ASSUME CloseMode = "drained"
    PROVE  Spec => []CbufExclusive
<1>1. Locks => CbufExclusive
  BY DEF Locks
<1> QED
  BY InitLocks, NextLocks, <1>1, PTL DEF Spec

\* Under the same condition vxe_context_destroy never frees the context of the
\* job the scheduler holds.
THEOREM ContextOutlives ==
    ASSUME CloseMode = "drained"
    PROVE  Spec => []CtxOutlivesJob
<1>1. Locks => CtxOutlivesJob
  <2> SUFFICES ASSUME Locks, spc \in HoldingLock
               PROVE  ctx_state[CtxOf(sjob)] \notin {"free", "gone"}
    BY DEF CtxOutlivesJob
  <2>1. job \in Seq(JobType) /\ finished_seq \in Nat /\ sjob = finished_seq + 1
    BY DEF Locks, Accounting, TypeOK, SeqAccounting, HoldingSeq, HoldingJob
  <2>2. sjob \in 1..Len(job)
    <3>1. Len(job) = finished_seq + 1 + Len(job_queue) /\ Len(job_queue) \in Nat
      BY LenProperties DEF Locks, Accounting, TypeOK, SeqAccounting, Held,
         HoldingSeq, HoldingJob
    <3> QED
      BY <2>1, <3>1
  <2>3. CtxOf(sjob) \in Ctx
    <3>1. job[sjob] \in JobType
      BY <2>1, <2>2, ElementOfSeq
    <3> QED
      BY <3>1, FilesAssumption DEF CtxOf, JobType
  <2> QED
    BY <2>1, <2>2, <2>3 DEF Locks, ClosingIsDrained
<1> QED
  BY InitLocks, NextLocks, <1>1, PTL DEF Spec

-----------------------------------------------------------------------------
(* Sleeping and waking, for every way timeouts and closes may happen.      *)


\* What a step of a user thread leaves alone, but for RUNPGM's queueing and
\* waking.
LEMMA ThreadFrame ==
    ASSUME NEW t \in Thread, ThreadNext(t)
    PROVE  /\ UNCHANGED <<ctx_state, finished_seq, cur_job, sjob, res, stop, isrVars,
                          devVars>>
           /\ RunpgmQueue(t) \/ UNCHANGED <<active_seq, job_queue, job>>
           /\ RunpgmWake(t) \/ UNCHANGED spc
BY DEF ThreadNext, ThreadEnds, HoldExit, RunpgmLookup, RunpgmReject, RunpgmQueue,
   RunpgmWake, FenceCheck, CreateEnter, UpdateEnter, BufferDestroy, RunpgmEnter,
   FenceEnter, RunpgmFault, FenceSignal, submitVars, schedVars, isrVars, devVars

\* Opening and closing a file leaves the scheduler and the device alone.
LEMMA CtxFrame ==
    ASSUME NEW c \in Ctx, CtxNext(c)
    PROVE  UNCHANGED <<active_seq, job_queue, num_jobs, pc, arg, job, schedVars,
                       isrVars, devVars>>
BY DEF CtxNext, Open, Close, ReleaseCheck, ReleaseFree, submitVars

\* Only the interrupt handler changes what jobs are done.
LEMMA DoneStays ==
    ASSUME Accounting, [Next]_vars, ~IsrDone, NEW s \in 1..Len(job)
    PROVE  job'[s].done = job[s].done
<1>1. job \in Seq(JobType) /\ Len(job) \in Nat /\ DOMAIN job = 1..Len(job)
  BY LenProperties DEF Accounting, TypeOK
<1> USE DEF submitVars, schedVars, isrVars, devVars
<1>2. ASSUME NEW t \in Thread, ThreadNext(t) PROVE job'[s] = job[s]
  <2>1. CASE RunpgmQueue(t)
    BY <1>1, <2>1, AppendProperties DEF RunpgmQueue
  <2> QED
    BY <1>2, <2>1, ThreadFrame
<1>3. ASSUME NEW c \in Ctx, CtxNext(c) PROVE job' = job
  BY <1>3, CtxFrame
<1>4. CASE Sched
  <2>1. CASE SchedCheck
    BY <1>1, <2>1 DEF SchedCheck
  <2> QED
    BY <1>4, <2>1 DEF Sched, SchedWait, SchedFetch, SchedSetCur, SchedStart,
       SchedWaitDone, SchedClear, SchedDec, SchedUnbind, SchedKfree, SchedInc, SchedWake
<1>5. CASE Isr
  <2>1. CASE IsrReadRaw
    BY <1>1, <2>1 DEF IsrReadRaw
  <2> QED
    BY <1>5, <2>1 DEF Isr, IsrEnter, IsrWake, IsrReadAct, IsrAck
<1>6. CASE DevComplete
  BY <1>1, <1>6 DEF DevComplete
<1> QED
  BY <1>2, <1>3, <1>4, <1>5, <1>6 DEF Next, Unregister, SchedTimeout, vars

\* The wait queues: whoever sleeps on what has happened is about to be woken.
Wakes == Accounting /\ SchedWakeComes /\ FenceWakeComes

LEMMA InitWakes == Init => Wakes
BY InitAccounting DEF Init, Wakes, SchedWakeComes, FenceWakeComes

LEMMA NextSchedWakes == Wakes /\ [Next]_vars => SchedWakeComes'
<1>a. SUFFICES ASSUME Wakes, [Next]_vars
               PROVE  SchedWakeComes'
  OBVIOUS
<1>b. /\ job \in Seq(JobType) /\ Len(job) \in Nat /\ DOMAIN job = 1..Len(job)
      /\ spc \in HoldingSeq => sjob \in 1..Len(job)
      /\ pc \in [Thread -> ThreadPC]
  BY <1>a, LenProperties DEF Wakes, Accounting, TypeOK, SeqAccounting, Held
<1>c. spc \in HoldingSeq /\ ~IsrDone => job'[sjob].done = job[sjob].done
  BY <1>a, <1>b, DoneStays DEF Wakes
<1> USE DEF SchedWakeComes, submitVars, schedVars, isrVars, devVars, HoldingSeq,
            HoldingJob, HoldingLock, Counted
<1>1. ASSUME NEW t \in Thread, ThreadNext(t) PROVE SchedWakeComes'
  <2>1. CASE RunpgmQueue(t)
    <3>1. ~IsrDone /\ pc'[t] = "wake" /\ UNCHANGED <<spc, sjob, stop, ipc>>
      BY <1>b, <2>1 DEF RunpgmQueue, IsrDone
    <3> QED
      BY <1>a, <1>c, <3>1 DEF Wakes
  <2>2. CASE RunpgmWake(t)
    BY <1>a, <1>b, <1>c, <2>2 DEF RunpgmWake, WakeIdleSched, Leaves, Wakes
  <2>3. CASE ~RunpgmQueue(t) /\ ~RunpgmWake(t)
    <3>1. UNCHANGED <<job_queue, job, spc, sjob, stop, ipc>>
      BY <1>1, <2>3, ThreadFrame
    <3>2. \A u \in Thread : pc[u] = "wake" => pc'[u] = "wake"
      BY <1>b, <1>1, <2>3 DEF ThreadNext, ThreadEnds, HoldExit, RunpgmLookup,
         RunpgmReject, FenceCheck, CreateEnter, UpdateEnter, BufferDestroy, RunpgmEnter,
         FenceEnter, RunpgmFault, FenceSignal, Leaves, Enters
    <3> QED
      BY <1>a, <3>1, <3>2 DEF Wakes
  <2> QED
    BY <2>1, <2>2, <2>3
<1>2. ASSUME NEW c \in Ctx, CtxNext(c) PROVE SchedWakeComes'
  BY <1>a, <1>2, CtxFrame DEF Wakes
<1>3. CASE Unregister
  BY <1>a, <1>3 DEF Unregister, WakeIdleSched, Wakes
<1>4. CASE SchedWait
  BY <1>a, <1>4 DEF SchedWait, Wakes
<1>5. CASE SchedWaitDone
  BY <1>a, <1>5 DEF SchedWaitDone, Wakes
<1>6. CASE Sched /\ ~SchedWait /\ ~SchedWaitDone
  <2>1. spc' \notin {"wait_sleep", "done_sleep"}
    BY <1>6 DEF Sched, SchedFetch, SchedSetCur, SchedStart, SchedClear, SchedCheck,
       SchedDec, SchedUnbind, SchedKfree, SchedInc, SchedWake
  <2> QED
    BY <2>1
<1>7. CASE SchedTimeout
  BY <1>7 DEF SchedTimeout
<1>8. CASE IsrDone
  BY <1>a, <1>8 DEF IsrDone, Wakes
<1>9. CASE IsrWake
  BY <1>a, <1>9 DEF IsrWake, WakeSched, Wakes
<1>10. CASE IsrEnter \/ IsrReadRaw \/ IsrReadAct \/ IsrAck
  <2>1. UNCHANGED <<job_queue, pc, spc, sjob, stop>> /\ ipc # "wake"
    BY <1>10 DEF IsrEnter, IsrReadRaw, IsrReadAct, IsrAck
  <2>2. ~IsrDone
    BY <1>10 DEF IsrEnter, IsrReadRaw, IsrReadAct, IsrAck, IsrDone
  <2> QED
    BY <1>a, <1>c, <2>1, <2>2 DEF Wakes
<1>11. CASE DevComplete
  BY <1>a, <1>c, <1>11 DEF DevComplete, IsrDone, Wakes
<1>12. CASE UNCHANGED vars
  BY <1>a, <1>12 DEF vars, Wakes
<1> QED
  BY <1>a, <1>1, <1>2, <1>3, <1>4, <1>5, <1>6, <1>7, <1>8, <1>9, <1>10, <1>11, <1>12
     DEF Next, Sched, Isr

LEMMA NextFenceWakes == Wakes /\ [Next]_vars => FenceWakeComes'
<1>a. SUFFICES ASSUME Wakes, [Next]_vars
               PROVE  FenceWakeComes'
  OBVIOUS
<1>b. pc \in [Thread -> ThreadPC] /\ arg \in [Thread -> ArgType]
  BY <1>a DEF Wakes, Accounting, TypeOK
<1> USE DEF FenceWakeComes, submitVars, schedVars, isrVars, devVars
<1>1. ASSUME NEW t \in Thread, ThreadNext(t) PROVE FenceWakeComes'
  <2>1. UNCHANGED finished_seq /\ (spc = "wake" => spc' = "wake")
    BY <1>1, ThreadFrame DEF RunpgmWake, WakeIdleSched
  <2>2. \A u \in Thread : pc'[u] = "fence_sleep" =>
           /\ arg'[u] = arg[u]
           /\ pc[u] = "fence_sleep" \/ finished_seq < arg[u].seq
    BY <1>b, <1>1 DEF ThreadNext, ThreadEnds, HoldExit, RunpgmLookup, RunpgmReject,
       RunpgmQueue, RunpgmWake, FenceCheck, CreateEnter, UpdateEnter, BufferDestroy,
       RunpgmEnter, FenceEnter, RunpgmFault, FenceSignal, Leaves, Enters
  <2>3. finished_seq \in Nat /\ \A u \in Thread : arg[u].seq \in Nat
    BY <1>a, <1>b DEF Wakes, Accounting, TypeOK, ArgType
  <2> QED
    BY <1>a, <2>1, <2>2, <2>3 DEF Wakes
<1>2. ASSUME NEW c \in Ctx, CtxNext(c) PROVE FenceWakeComes'
  BY <1>a, <1>2, CtxFrame DEF Wakes
<1>3. CASE Unregister
  BY <1>a, <1>3 DEF Unregister, WakeIdleSched, Wakes
<1>4. CASE SchedWake
  BY <1>b, <1>4 DEF SchedWake, WakeFences
<1>5. CASE SchedInc
  BY <1>5 DEF SchedInc
<1>6. CASE Sched /\ ~SchedWake /\ ~SchedInc
  BY <1>a, <1>6 DEF Sched, SchedWait, SchedFetch, SchedSetCur, SchedStart,
     SchedWaitDone, SchedClear, SchedCheck, SchedDec, SchedUnbind, SchedKfree, Wakes
<1>7. CASE SchedTimeout
  BY <1>a, <1>7 DEF SchedTimeout, Wakes
<1>8. CASE Isr
  <2>1. UNCHANGED <<pc, arg, finished_seq>> /\ (spc = "wake" => spc' = "wake")
    BY <1>8 DEF Isr, IsrEnter, IsrReadRaw, IsrDone, IsrWake, WakeSched, IsrReadAct, IsrAck
  <2> QED
    BY <1>a, <2>1 DEF Wakes
<1>9. CASE DevComplete
  BY <1>a, <1>9 DEF DevComplete, Wakes
<1>10. CASE UNCHANGED vars
  BY <1>a, <1>10 DEF vars, Wakes
<1> QED
  BY <1>a, <1>1, <1>2, <1>3, <1>4, <1>5, <1>6, <1>7, <1>8, <1>9, <1>10 DEF Next, Sched

\* No wake-up is lost, whatever the order in which users queue jobs, jobs end or
\* time out, and the driver is removed.
THEOREM NoLostWakeup == Spec => []WakesCome
<1>1. Wakes /\ [Next]_vars => Wakes'
  BY NextAccounting, NextSchedWakes, NextFenceWakes DEF Wakes
<1>2. Wakes => WakesCome
  BY DEF Wakes, WakesCome
<1> QED
  BY InitWakes, <1>1, <1>2, PTL DEF Spec

-----------------------------------------------------------------------------
(***************************************************************************)
(* Counting jobs, for every way timeouts and closes may happen.  A thread  *)
(* in "lookup" or "queue" was let in by the test of the counter; one in    *)
(* "reject" has raised the counter and is about to lower it again.         *)
(***************************************************************************)
AcceptedThreads(c) == {t \in Thread : FileOf[t] = c /\ pc[t] \in {"lookup", "queue"}}

\* The jobs of a context and the calls that were let in are within the limit.
Room ==
    \A c \in Ctx : Cardinality(CountedJobs(c)) + Cardinality(AcceptedThreads(c))
                     <= MaxJobs

\* The scheduler's local job is NULL when it holds none.
NoJobHeld == spc \notin HoldingSeq => sjob = 0

Counts == Accounting /\ OwnBuffers /\ NoJobHeld /\ NumJobsExact /\ Room

\* The sets that are counted are finite.
LEMMA CountedFinite ==
    ASSUME Accounting, NEW c
    PROVE  /\ IsFiniteSet(CountedJobs(c)) /\ Cardinality(CountedJobs(c)) \in Nat
           /\ IsFiniteSet(AdmittedThreads(c)) /\ Cardinality(AdmittedThreads(c)) \in Nat
           /\ IsFiniteSet(AcceptedThreads(c)) /\ Cardinality(AcceptedThreads(c)) \in Nat
           /\ Cardinality(AcceptedThreads(c)) <= Cardinality(AdmittedThreads(c))
<1>1. CountedJobs(c) \subseteq 1..Len(job) /\ Len(job) \in Nat
  BY LenProperties DEF CountedJobs, Accounting, TypeOK
<1>2. IsFiniteSet(1..Len(job))
  BY <1>1, FS_Interval
<1>3. AdmittedThreads(c) \subseteq Thread
  BY DEF AdmittedThreads
<1>4. AcceptedThreads(c) \subseteq AdmittedThreads(c)
  BY DEF AdmittedThreads, AcceptedThreads, Admitted
<1>5. IsFiniteSet(CountedJobs(c)) /\ IsFiniteSet(AdmittedThreads(c))
  BY <1>1, <1>2, <1>3, FS_Subset, ThreadsAssumption
<1>6. /\ IsFiniteSet(AcceptedThreads(c))
      /\ Cardinality(AcceptedThreads(c)) <= Cardinality(AdmittedThreads(c))
  BY <1>4, <1>5, FS_Subset
<1> QED
  BY <1>5, <1>6, FS_CardinalityType

\* No step but RUNPGM's queueing adds a job, and none changes what a job runs.
LEMMA CbufStays ==
    ASSUME Accounting, [Next]_vars
    PROVE  /\ \A s \in 1..Len(job) : job'[s].cbuf = job[s].cbuf
           /\ (\A t \in Thread : ~RunpgmQueue(t)) => Len(job') = Len(job)
<1>1. /\ job \in Seq(JobType) /\ Len(job) \in Nat /\ DOMAIN job = 1..Len(job)
      /\ job' \in Seq(JobType)
  BY LenProperties, NextAccounting DEF Accounting, TypeOK
<1> USE DEF submitVars, schedVars, isrVars, devVars
<1>2. ASSUME NEW t \in Thread, ThreadNext(t)
      PROVE  /\ \A s \in 1..Len(job) : job'[s] = job[s]
             /\ RunpgmQueue(t) \/ job' = job
  <2>1. CASE RunpgmQueue(t)
    BY <1>1, <2>1, AppendProperties DEF RunpgmQueue
  <2> QED
    BY <1>2, <2>1, ThreadFrame
<1>3. ASSUME NEW c \in Ctx, CtxNext(c) PROVE job' = job
  BY <1>3, CtxFrame
<1>4. CASE SchedCheck
  BY <1>1, <1>4, LenProperties DEF SchedCheck
<1>5. CASE Sched /\ ~SchedCheck
  BY <1>5 DEF Sched, SchedWait, SchedFetch, SchedSetCur, SchedStart,
     SchedWaitDone, SchedClear, SchedDec, SchedUnbind, SchedKfree, SchedInc, SchedWake
<1>6. CASE IsrReadRaw
  BY <1>1, <1>6, LenProperties DEF IsrReadRaw
<1>7. CASE IsrDone
  BY <1>1, <1>7, LenProperties DEF IsrDone
<1>8. CASE Isr /\ ~IsrReadRaw /\ ~IsrDone
  BY <1>8 DEF Isr, IsrEnter, IsrWake, IsrReadAct, IsrAck
<1>9. CASE DevComplete
  BY <1>1, <1>9, LenProperties DEF DevComplete
<1> QED
  BY <1>2, <1>3, <1>4, <1>5, <1>6, <1>7, <1>8, <1>9
     DEF Next, Unregister, SchedTimeout, vars

LEMMA InitCounts == Init => Counts
<1> SUFFICES ASSUME Init
             PROVE  Counts
  OBVIOUS
<1>1. \A c : CountedJobs(c) = {} /\ AdmittedThreads(c) = {} /\ AcceptedThreads(c) = {}
  BY DEF Init, CountedJobs, AdmittedThreads, AcceptedThreads, Admitted
<1>2. \A c : /\ Cardinality(CountedJobs(c)) = 0
             /\ Cardinality(AdmittedThreads(c)) = 0
             /\ Cardinality(AcceptedThreads(c)) = 0
  BY <1>1, FS_EmptySet
<1>3. NumJobsExact /\ Room
  BY <1>2, LimitsAssumption DEF Init, NumJobsExact, Room
<1>4. OwnBuffers /\ NoJobHeld
  BY DEF Init, OwnBuffers, LockingThreads, NoJobHeld
<1> QED
  BY <1>3, <1>4, InitAccounting DEF Counts

\* A step that changes neither the counter nor the sets keeps the counts.
LEMMA CountsSame ==
    ASSUME Counts, num_jobs' = num_jobs,
           \A c \in Ctx : /\ CountedJobs(c)' = CountedJobs(c)
                          /\ AdmittedThreads(c)' = AdmittedThreads(c)
                          /\ AcceptedThreads(c)' \subseteq AcceptedThreads(c)
    PROVE  NumJobsExact' /\ Room'
<1>1. NumJobsExact'
  BY DEF Counts, NumJobsExact
<1>2. ASSUME NEW c \in Ctx
      PROVE  Cardinality(AcceptedThreads(c)') <= Cardinality(AcceptedThreads(c))
  BY CountedFinite, FS_Subset DEF Counts
<1>3. ASSUME NEW c \in Ctx
      PROVE  Cardinality(AcceptedThreads(c)') \in Nat
  BY CountedFinite, FS_Subset, FS_CardinalityType DEF Counts
<1>4. Room'
  BY <1>2, <1>3, CountedFinite, LimitsAssumption DEF Counts, Room
<1> QED
  BY <1>1, <1>4

\* A step that leaves the jobs, and which of them are counted, alone.
LEMMA JobsCountedSame ==
    ASSUME Accounting, [Next]_vars, NEW c, UNCHANGED finished_seq,
           \A t \in Thread : ~RunpgmQueue(t),
           \A s \in 1..Len(job) : (s = sjob => spc \in Counted)'
                                    <=> (s = sjob => spc \in Counted)
    PROVE  CountedJobs(c)' = CountedJobs(c)
<1>1. DOMAIN job' = DOMAIN job /\ DOMAIN job = 1..Len(job)
  BY CbufStays, NextAccounting, LenProperties DEF Accounting, TypeOK
<1>2. \A s \in 1..Len(job) : CtxOf(s)' = CtxOf(s)
  BY CbufStays DEF CtxOf
<1> QED
  BY <1>1, <1>2 DEF CountedJobs

\* Queueing a job adds it to those that are counted for the file of its thread.
LEMMA QueueCounted ==
    ASSUME Counts, NEW t \in Thread, RunpgmQueue(t), [Next]_vars, NEW c \in Ctx
    PROVE  /\ active_seq + 1 \notin CountedJobs(c)
           /\ CountedJobs(c)' = IF c = FileOf[t] THEN CountedJobs(c) \cup {active_seq + 1}
                                ELSE CountedJobs(c)
<1> DEFINE n == active_seq + 1
<1>1. /\ job \in Seq(JobType) /\ Len(job) = active_seq /\ DOMAIN job = 1..Len(job)
      /\ active_seq \in Nat /\ finished_seq \in Nat /\ Len(job_queue) \in Nat
      /\ active_seq = finished_seq + Held + Len(job_queue) /\ Held \in {0, 1}
      /\ spc \in HoldingSeq => sjob = finished_seq + 1
  BY LenProperties DEF Counts, Accounting, TypeOK, SeqAccounting, Held
<1>2. sjob # n
  BY <1>1 DEF Counts, NoJobHeld, Held
<1>3. /\ pc[t] = "queue" /\ arg[t].cbuf \in Cbuf /\ OwnerOf[arg[t].cbuf] = FileOf[t]
  BY DEF RunpgmQueue, Counts, Accounting, ArgsNameBuffers, OwnBuffers, LockingThreads
<1>4. /\ DOMAIN job' = 1..n /\ job'[n].cbuf = arg[t].cbuf
      /\ \A s \in 1..Len(job) : job'[s] = job[s]
  <2>1. NewJob(arg[t].cbuf) \in JobType /\ NewJob(arg[t].cbuf).cbuf = arg[t].cbuf
    BY <1>3 DEF NewJob, JobType
  <2>2. job' = Append(job, NewJob(arg[t].cbuf))
    BY DEF RunpgmQueue
  <2> HIDE DEF n
  <2> QED
    BY <1>1, <2>1, <2>2, AppendProperties, LenProperties DEF n
<1>5. UNCHANGED <<finished_seq, sjob, spc>>
  BY DEF RunpgmQueue, schedVars
<1>6. n > finished_seq /\ DOMAIN job' = DOMAIN job \cup {n} /\ n \notin DOMAIN job
  BY <1>1, <1>4
<1>7. /\ OwnerOf[job'[n].cbuf] = FileOf[t]
      /\ \A s \in 1..Len(job) : OwnerOf[job'[s].cbuf] = OwnerOf[job[s].cbuf]
  BY <1>3, <1>4
<1> HIDE DEF n
<1>8. n \notin CountedJobs(c)
  BY <1>6 DEF CountedJobs
<1>9. CountedJobs(c)' = IF c = FileOf[t] THEN CountedJobs(c) \cup {n} ELSE CountedJobs(c)
  BY <1>1, <1>2, <1>5, <1>6, <1>7 DEF CountedJobs, CtxOf
<1> QED
  BY <1>8, <1>9 DEF n

\* One more or one fewer, if it is this one that is counted.
LEMMA SizeAfter ==
    ASSUME NEW S, IsFiniteSet(S), NEW x, NEW b \in BOOLEAN
    PROVE  /\ x \notin S => Cardinality(IF b THEN S \cup {x} ELSE S)
                             = IF b THEN Cardinality(S) + 1 ELSE Cardinality(S)
           /\ (b => x \in S) => Cardinality(IF b THEN S \ {x} ELSE S)
                               = IF b THEN Cardinality(S) - 1 ELSE Cardinality(S)
<1>1. CASE b
  BY <1>1, FS_AddElement, FS_RemoveElement
<1>2. CASE ~b
  BY <1>2
<1> QED
  BY <1>1, <1>2

\* The calls of user threads keep the counts.
LEMMA ThreadCounts ==
    ASSUME Counts, [Next]_vars, NEW t \in Thread, ThreadNext(t)
    PROVE  NumJobsExact' /\ Room'
<1>1. /\ pc \in [Thread -> ThreadPC] /\ num_jobs \in [Ctx -> Int]
      /\ FileOf \in [Thread -> Ctx] /\ MaxJobs \in Nat
      /\ Accounting /\ Accounting'
  BY NextAccounting, FilesAssumption, LimitsAssumption DEF Counts, Accounting, TypeOK
<1> DEFINE f == FileOf[t]
           J(c) == Cardinality(CountedJobs(c))
           D(c) == Cardinality(AdmittedThreads(c))
           A(c) == Cardinality(AcceptedThreads(c))
<1>2. \A c \in Ctx : /\ J(c) \in Nat /\ D(c) \in Nat /\ A(c) \in Nat /\ A(c) <= D(c)
                     /\ num_jobs[c] = J(c) + D(c) /\ J(c) + A(c) <= MaxJobs
  BY <1>1, CountedFinite DEF Counts, NumJobsExact, Room
<1>3. ASSUME ~RunpgmQueue(t), NEW c \in Ctx PROVE CountedJobs(c)' = CountedJobs(c)
  <2>1. UNCHANGED <<finished_seq, job, sjob>>
    BY <1>3, ThreadFrame DEF schedVars
  <2>2. spc' \in Counted <=> spc \in Counted
    BY <1>3, ThreadFrame DEF RunpgmWake, WakeIdleSched, Counted
  <2> QED
    BY <2>1, <2>2 DEF CountedJobs, CtxOf
<1> USE DEF submitVars, schedVars, isrVars, devVars
<1>4. ASSUME NEW b \in Cbuf, RunpgmEnter(t, b) PROVE NumJobsExact' /\ Room'
  <2>1. /\ pc[t] = "idle" /\ num_jobs' = [num_jobs EXCEPT ![f] = @ + 1]
        /\ pc' = [pc EXCEPT ![t] = IF num_jobs[f] + 1 > MaxJobs THEN "reject"
                                   ELSE "lookup"]
    BY <1>4 DEF RunpgmEnter, Enters
  <2>2. ~RunpgmQueue(t)
    BY <2>1 DEF RunpgmQueue
  <2>3. ASSUME NEW c \in Ctx
        PROVE  /\ t \notin AdmittedThreads(c)
               /\ AdmittedThreads(c)' = IF c = f THEN AdmittedThreads(c) \cup {t}
                                        ELSE AdmittedThreads(c)
    BY <1>1, <2>1 DEF AdmittedThreads, Admitted
  <2>4. ASSUME NEW c \in Ctx
        PROVE  /\ t \notin AcceptedThreads(c)
               /\ AcceptedThreads(c)' = IF c = f /\ num_jobs[f] + 1 <= MaxJobs
                                        THEN AcceptedThreads(c) \cup {t}
                                        ELSE AcceptedThreads(c)
    BY <1>1, <2>1 DEF AcceptedThreads
  <2>5. ASSUME NEW c \in Ctx
        PROVE  Cardinality(AdmittedThreads(c)') = IF c = f THEN D(c) + 1 ELSE D(c)
    <3>1. IsFiniteSet(AdmittedThreads(c))
      BY <1>1, CountedFinite
    <3>2. (c = f) \in BOOLEAN
      OBVIOUS
    <3>3. Cardinality(IF c = f THEN AdmittedThreads(c) \cup {t} ELSE AdmittedThreads(c))
            = IF c = f THEN D(c) + 1 ELSE D(c)
      BY <2>3, <3>1, <3>2, SizeAfter
    <3> QED
      BY <2>3, <3>3
  <2>6. ASSUME NEW c \in Ctx
        PROVE  Cardinality(AcceptedThreads(c)')
                 = IF c = f /\ num_jobs[f] + 1 <= MaxJobs THEN A(c) + 1 ELSE A(c)
    <3> DEFINE b2 == c = f /\ num_jobs[f] + 1 <= MaxJobs
    <3>1. IsFiniteSet(AcceptedThreads(c))
      BY <1>1, CountedFinite
    <3>2. b2 \in BOOLEAN
      OBVIOUS
    <3>4. t \notin AcceptedThreads(c)
          /\ AcceptedThreads(c)' = IF b2 THEN AcceptedThreads(c) \cup {t}
                                   ELSE AcceptedThreads(c)
      BY <2>4
    <3> HIDE DEF b2
    <3>3. Cardinality(IF b2 THEN AcceptedThreads(c) \cup {t} ELSE AcceptedThreads(c))
            = IF b2 THEN A(c) + 1 ELSE A(c)
      BY <3>1, <3>2, <3>4, SizeAfter
    <3> QED
      BY <3>3, <3>4 DEF b2
  <2>7. \A c \in Ctx : Cardinality(CountedJobs(c)') = J(c)
    BY <1>3, <2>2
  <2> HIDE DEF J, D, A
  <2>8. NumJobsExact'
    BY <1>1, <1>2, <2>1, <2>5, <2>7 DEF NumJobsExact
  <2>9. Room'
    BY <1>1, <1>2, <2>6, <2>7 DEF Room
  <2> QED
    BY <2>8, <2>9
<1>5. ASSUME RunpgmReject(t) PROVE NumJobsExact' /\ Room'
  <2>1. /\ pc[t] = "reject" /\ num_jobs' = [num_jobs EXCEPT ![f] = @ - 1]
        /\ pc' = [pc EXCEPT ![t] = "idle"]
    BY <1>5 DEF RunpgmReject, Leaves
  <2>2. ~RunpgmQueue(t)
    BY <2>1 DEF RunpgmQueue
  <2>3. ASSUME NEW c \in Ctx
        PROVE  /\ c = f => t \in AdmittedThreads(c)
               /\ AdmittedThreads(c)' = IF c = f THEN AdmittedThreads(c) \ {t}
                                        ELSE AdmittedThreads(c)
               /\ AcceptedThreads(c)' = AcceptedThreads(c)
    BY <1>1, <2>1 DEF AdmittedThreads, Admitted, AcceptedThreads
  <2>4. ASSUME NEW c \in Ctx
        PROVE  Cardinality(AdmittedThreads(c)') = IF c = f THEN D(c) - 1 ELSE D(c)
    BY <1>1, <2>3, CountedFinite, FS_RemoveElement
  <2>5. \A c \in Ctx : /\ Cardinality(CountedJobs(c)') = J(c)
                       /\ Cardinality(AcceptedThreads(c)') = A(c)
    BY <1>3, <2>2, <2>3
  <2> HIDE DEF J, D, A
  <2>6. NumJobsExact'
    BY <1>1, <1>2, <2>1, <2>4, <2>5 DEF NumJobsExact
  <2>7. Room'
    BY <1>1, <1>2, <2>5 DEF Room
  <2> QED
    BY <2>6, <2>7
<1>6. ASSUME RunpgmQueue(t) PROVE NumJobsExact' /\ Room'
  <2>1. pc[t] = "queue" /\ num_jobs' = num_jobs /\ pc' = [pc EXCEPT ![t] = "wake"]
    BY <1>6 DEF RunpgmQueue
  <2>2. ASSUME NEW c \in Ctx
        PROVE  /\ c = f => t \in AdmittedThreads(c) /\ t \in AcceptedThreads(c)
               /\ AdmittedThreads(c)' = IF c = f THEN AdmittedThreads(c) \ {t}
                                        ELSE AdmittedThreads(c)
               /\ AcceptedThreads(c)' = IF c = f THEN AcceptedThreads(c) \ {t}
                                        ELSE AcceptedThreads(c)
    BY <1>1, <2>1 DEF AdmittedThreads, Admitted, AcceptedThreads
  <2>3. ASSUME NEW c \in Ctx
        PROVE  /\ Cardinality(AdmittedThreads(c)') = IF c = f THEN D(c) - 1 ELSE D(c)
               /\ Cardinality(AcceptedThreads(c)') = IF c = f THEN A(c) - 1 ELSE A(c)
    BY <1>1, <2>2, CountedFinite, FS_RemoveElement
  <2>4. ASSUME NEW c \in Ctx
        PROVE  Cardinality(CountedJobs(c)') = IF c = f THEN J(c) + 1 ELSE J(c)
    BY <1>1, <1>6, QueueCounted, CountedFinite, FS_AddElement
  <2> HIDE DEF J, D, A
  <2>5. NumJobsExact'
    BY <1>1, <1>2, <2>1, <2>3, <2>4 DEF NumJobsExact
  <2>6. Room'
    BY <1>1, <1>2, <2>3, <2>4 DEF Room
  <2> QED
    BY <2>5, <2>6
<1>7. ASSUME ~RunpgmReject(t), ~RunpgmQueue(t), \A b \in Cbuf : ~RunpgmEnter(t, b)
      PROVE  NumJobsExact' /\ Room'
  <2>1. ASSUME NEW c \in Ctx
        PROVE  /\ AdmittedThreads(c)' = AdmittedThreads(c)
               /\ AcceptedThreads(c)' \subseteq AcceptedThreads(c)
    BY <1>1, <1>7 DEF ThreadNext, ThreadEnds, HoldExit, RunpgmLookup,
       RunpgmWake, FenceCheck, CreateEnter, UpdateEnter, BufferDestroy,
       FenceEnter, RunpgmFault, FenceSignal, Leaves, Enters, AdmittedThreads, Admitted,
       AcceptedThreads
  <2>2. num_jobs' = num_jobs
    BY <1>7 DEF ThreadNext, ThreadEnds, HoldExit, RunpgmLookup,
       RunpgmWake, FenceCheck, CreateEnter, UpdateEnter, BufferDestroy,
       FenceEnter, RunpgmFault, FenceSignal
  <2> QED
    BY <1>3, <1>7, <2>1, <2>2, CountsSame
<1> QED
  BY <1>4, <1>5, <1>6, <1>7

\* A buffer is locked for a handler only if it is one of the handler's file.
LEMMA NextOwnBuffers ==
    ASSUME Accounting, OwnBuffers, [Next]_vars
    PROVE  OwnBuffers'
<1>1. /\ pc \in [Thread -> ThreadPC] /\ arg \in [Thread -> ArgType]
      /\ FileOf \in [Thread -> Ctx] /\ OwnerOf \in [Cbuf -> Ctx]
  BY FilesAssumption DEF Accounting, TypeOK
<1> USE DEF OwnBuffers, LockingThreads, submitVars, schedVars, isrVars, devVars
<1>2. ASSUME NEW t \in Thread, ThreadNext(t) PROVE OwnBuffers'
  <2>1. ASSUME NEW b \in Cbuf, CreateEnter(t, b) \/ UpdateEnter(t, b) PROVE OwnBuffers'
    BY <1>1, <2>1 DEF CreateEnter, UpdateEnter, Enters, MayLock
  <2>2. CASE RunpgmLookup(t)
    BY <1>1, <2>2 DEF RunpgmLookup, MayLock
  <2>3. CASE HoldExit(t) \/ RunpgmReject(t) \/ RunpgmWake(t) \/ FenceSignal(t)
    BY <1>1, <2>3 DEF HoldExit, RunpgmReject, RunpgmWake, FenceSignal, Leaves
  <2>4. CASE RunpgmQueue(t) \/ RunpgmFault(t)
    BY <1>1, <2>4 DEF RunpgmQueue, RunpgmFault
  <2>5. CASE FenceCheck(t)
    BY <1>1, <2>5 DEF FenceCheck, Leaves
  <2>6. ASSUME NEW b \in Cbuf, RunpgmEnter(t, b) \/ BufferDestroy(t, b)
        PROVE  OwnBuffers'
    BY <1>1, <2>6 DEF RunpgmEnter, BufferDestroy, Enters
  <2>7. ASSUME NEW s \in 1..active_seq, FenceEnter(t, s) PROVE OwnBuffers'
    BY <1>1, <2>7 DEF FenceEnter, Enters
  <2> QED
    BY <1>2, <2>1, <2>2, <2>3, <2>4, <2>5, <2>6, <2>7 DEF ThreadNext, ThreadEnds
<1>3. ASSUME NEW c \in Ctx, CtxNext(c) PROVE OwnBuffers'
  BY <1>3, CtxFrame
<1>4. CASE SchedWake
  BY <1>1, <1>4 DEF SchedWake, WakeFences
<1>5. CASE Sched /\ ~SchedWake
  BY <1>5 DEF Sched, SchedWait, SchedFetch, SchedSetCur, SchedStart,
     SchedWaitDone, SchedClear, SchedCheck, SchedDec, SchedUnbind, SchedKfree, SchedInc
<1>6. CASE Isr
  BY <1>6 DEF Isr, IsrEnter, IsrReadRaw, IsrDone, IsrWake, IsrReadAct, IsrAck
<1> QED
  BY <1>2, <1>3, <1>4, <1>5, <1>6
     DEF Next, Unregister, SchedTimeout, DevComplete, vars

LEMMA NextNoJobHeld ==
    ASSUME NoJobHeld, [Next]_vars
    PROVE  NoJobHeld'
<1> USE DEF NoJobHeld, HoldingSeq, HoldingJob, HoldingLock, Counted, submitVars,
            schedVars, isrVars, devVars
<1>1. ASSUME NEW t \in Thread, ThreadNext(t) PROVE NoJobHeld'
  BY <1>1, ThreadFrame DEF RunpgmWake, WakeIdleSched
<1>2. ASSUME NEW c \in Ctx, CtxNext(c) PROVE NoJobHeld'
  BY <1>2, CtxFrame
<1>3. CASE Sched
  BY <1>3 DEF Sched, SchedWait, SchedFetch, SchedSetCur, SchedStart, SchedWaitDone,
     SchedClear, SchedCheck, SchedDec, SchedUnbind, SchedKfree, SchedInc, SchedWake
<1>4. CASE Isr
  BY <1>4 DEF Isr, IsrEnter, IsrReadRaw, IsrDone, IsrWake, WakeSched, IsrReadAct, IsrAck
<1> QED
  BY <1>1, <1>2, <1>3, <1>4
     DEF Next, Unregister, WakeIdleSched, SchedTimeout, DevComplete, vars

\* Steps of the other actors that take or retire no job.
LEMMA QuietCounts ==
    ASSUME Counts, [Next]_vars,
           UNCHANGED <<num_jobs, finished_seq>>,
           \A t \in Thread : FileOf[t] \in Ctx /\ ~RunpgmQueue(t),
           \A t \in Thread : pc'[t] = pc[t] \/ {pc[t], pc'[t]} \subseteq Fencing,
           \A s \in 1..Len(job) : (s = sjob => spc \in Counted)'
                                    <=> (s = sjob => spc \in Counted)
    PROVE  NumJobsExact' /\ Room'
<1>1. ASSUME NEW c \in Ctx
      PROVE  CountedJobs(c)' = CountedJobs(c)
  BY JobsCountedSame DEF Counts
<1>2. ASSUME NEW c \in Ctx
      PROVE  /\ AdmittedThreads(c)' = AdmittedThreads(c)
             /\ AcceptedThreads(c)' \subseteq AcceptedThreads(c)
  BY DEF AdmittedThreads, AcceptedThreads, Admitted, Fencing
<1> QED
  BY <1>1, <1>2, CountsSame

\* The counter is lowered when its job is no longer counted.
LEMMA DecCounts ==
    ASSUME Counts, [Next]_vars, SchedDec
    PROVE  NumJobsExact' /\ Room'
<1> DEFINE f == CtxOf(sjob)
           J(c) == Cardinality(CountedJobs(c))
           D(c) == Cardinality(AdmittedThreads(c))
           A(c) == Cardinality(AcceptedThreads(c))
<1>1. /\ num_jobs \in [Ctx -> Int] /\ MaxJobs \in Nat /\ Accounting
      /\ DOMAIN job = 1..Len(job) /\ finished_seq \in Nat
      /\ sjob \in 1..Len(job) /\ sjob = finished_seq + 1
  BY LimitsAssumption, LenProperties DEF Counts, Accounting, TypeOK, SeqAccounting,
     SchedDec, Held, HoldingSeq, HoldingJob, HoldingLock, Counted
<1>2. \A c \in Ctx : /\ J(c) \in Nat /\ D(c) \in Nat /\ A(c) \in Nat /\ A(c) <= D(c)
                     /\ num_jobs[c] = J(c) + D(c) /\ J(c) + A(c) <= MaxJobs
  BY <1>1, CountedFinite DEF Counts, NumJobsExact, Room
<1>3. f \in Ctx
  <2>1. job[sjob] \in JobType
    BY <1>1, ElementOfSeq DEF Accounting, TypeOK
  <2> QED
    BY <2>1, FilesAssumption DEF CtxOf, JobType
<1>4. /\ num_jobs' = [num_jobs EXCEPT ![f] = @ - 1]
      /\ UNCHANGED <<job, pc, finished_seq, sjob>>
      /\ spc = "dec" /\ spc' = "unbind"
  BY DEF SchedDec, isrVars, devVars
<1>5. ASSUME NEW c \in Ctx
      PROVE  /\ c = f => sjob \in CountedJobs(c)
             /\ CountedJobs(c)' = IF c = f THEN CountedJobs(c) \ {sjob} ELSE CountedJobs(c)
  BY <1>1, <1>4 DEF CountedJobs, CtxOf, Counted
<1>6. ASSUME NEW c \in Ctx
      PROVE  Cardinality(CountedJobs(c)') = IF c = f THEN J(c) - 1 ELSE J(c)
  <2>1. IsFiniteSet(CountedJobs(c))
    BY <1>1, CountedFinite
  <2>2. (c = f) \in BOOLEAN
    OBVIOUS
  <2>3. Cardinality(IF c = f THEN CountedJobs(c) \ {sjob} ELSE CountedJobs(c))
          = IF c = f THEN J(c) - 1 ELSE J(c)
    BY <1>5, <2>1, <2>2, SizeAfter
  <2> QED
    BY <1>5, <2>3
<1>7. \A c \in Ctx : /\ Cardinality(AdmittedThreads(c)') = D(c)
                     /\ Cardinality(AcceptedThreads(c)') = A(c)
  BY <1>4 DEF AdmittedThreads, AcceptedThreads
<1> HIDE DEF J, D, A, f
<1>8. NumJobsExact'
  <2>1. ASSUME NEW c \in Ctx
        PROVE  num_jobs'[c] = IF c = f THEN num_jobs[c] - 1 ELSE num_jobs[c]
    BY <1>1, <1>4
  <2>2. ASSUME NEW c \in Ctx
        PROVE  num_jobs'[c] = Cardinality(CountedJobs(c)') + D(c)
    BY <1>2, <1>6, <2>1
  <2> QED
    BY <1>7, <2>2 DEF NumJobsExact
<1>9. Room'
  BY <1>1, <1>2, <1>6, <1>7 DEF Room
<1> QED
  BY <1>8, <1>9

LEMMA NextCounts == Counts /\ [Next]_vars => Counts'
<1>a. SUFFICES ASSUME Counts, [Next]_vars
               PROVE  NumJobsExact' /\ Room'
  BY NextAccounting, NextOwnBuffers, NextNoJobHeld DEF Counts
<1>b. /\ DOMAIN job = 1..Len(job) /\ finished_seq \in Nat
      /\ spc \in HoldingSeq => sjob = finished_seq + 1
      /\ spc \notin HoldingSeq => sjob = 0
      /\ pc \in [Thread -> ThreadPC]
      /\ \A t \in Thread : FileOf[t] \in Ctx
  BY <1>a, LenProperties, FilesAssumption
     DEF Counts, Accounting, TypeOK, SeqAccounting, NoJobHeld
<1> USE DEF submitVars, schedVars, isrVars, devVars, HoldingSeq, HoldingJob,
            HoldingLock, Counted
<1>1. ASSUME NEW t \in Thread, ThreadNext(t) PROVE NumJobsExact' /\ Room'
  BY <1>a, <1>1, ThreadCounts
<1>2. ASSUME NEW c \in Ctx, CtxNext(c) PROVE NumJobsExact' /\ Room'
  BY <1>a, <1>b, <1>2, CtxFrame, QuietCounts DEF RunpgmQueue
<1>3. CASE Unregister
  BY <1>a, <1>b, <1>3, QuietCounts DEF Unregister, WakeIdleSched, RunpgmQueue
<1>4. CASE SchedDec
  BY <1>a, <1>4, DecCounts
<1>5. CASE SchedInc
  <2>1. /\ UNCHANGED <<job, pc, num_jobs>> /\ spc = "inc" /\ spc' = "wake"
        /\ sjob = finished_seq + 1 /\ finished_seq' = finished_seq + 1 /\ sjob' = 0
    BY <1>b, <1>5 DEF SchedInc
  <2>2. ASSUME NEW c \in Ctx
        PROVE  CountedJobs(c)' = CountedJobs(c)
    BY <1>b, <2>1 DEF CountedJobs, CtxOf
  <2>3. ASSUME NEW c \in Ctx
        PROVE  AdmittedThreads(c)' = AdmittedThreads(c)
               /\ AcceptedThreads(c)' = AcceptedThreads(c)
    BY <2>1 DEF AdmittedThreads, AcceptedThreads
  <2> QED
    BY <1>a, <2>1, <2>2, <2>3, CountsSame
<1>6. CASE SchedFetch
  BY <1>a, <1>b, <1>6, QuietCounts DEF SchedFetch, RunpgmQueue
<1>7. CASE SchedWake
  BY <1>a, <1>b, <1>7, QuietCounts DEF SchedWake, WakeFences, RunpgmQueue, Fencing
<1>8. CASE Sched /\ ~SchedDec /\ ~SchedInc /\ ~SchedFetch /\ ~SchedWake
  <2>1. /\ UNCHANGED <<num_jobs, finished_seq, active_seq, pc, sjob>>
        /\ spc \in HoldingSeq => (spc \in Counted <=> spc' \in Counted)
    BY <1>b, <1>8 DEF Sched, SchedWait, SchedSetCur, SchedStart, SchedWaitDone,
       SchedClear, SchedCheck, SchedUnbind, SchedKfree
  <2> QED
    BY <1>a, <1>b, <2>1, QuietCounts DEF RunpgmQueue
<1>9. CASE SchedTimeout
  BY <1>a, <1>b, <1>9, QuietCounts DEF SchedTimeout, RunpgmQueue
<1>10. CASE Isr
  <2>1. /\ UNCHANGED <<num_jobs, finished_seq, active_seq, pc, sjob>>
        /\ spc \in Counted <=> spc' \in Counted
    BY <1>10 DEF Isr, IsrEnter, IsrReadRaw, IsrDone, IsrWake, WakeSched, IsrReadAct, IsrAck
  <2> QED
    BY <1>a, <1>b, <2>1, QuietCounts DEF RunpgmQueue
<1>11. CASE DevComplete
  BY <1>a, <1>b, <1>11, QuietCounts, ZenonT(60) DEF DevComplete, RunpgmQueue
<1>12. CASE UNCHANGED vars
  BY <1>a, <1>b, <1>12, QuietCounts DEF vars, RunpgmQueue
<1> QED
  BY <1>a, <1>1, <1>2, <1>3, <1>4, <1>5, <1>6, <1>7, <1>8, <1>9, <1>10, <1>11, <1>12
     DEF Next, Sched

\* num_jobs is exact in every interleaving of submissions, failures and retirement,
\* so a release waits for all jobs of its file and for nothing else.
THEOREM JobsCounted == Spec => []NumJobsExact
<1>1. Counts => NumJobsExact
  BY DEF Counts
<1> QED
  BY InitCounts, NextCounts, <1>1, PTL DEF Spec

\* However RUNPGM calls race around the counter, a file never has more jobs than
\* max_jobs_per_ctx.
THEOREM LimitHolds == Spec => []JobLimit
<1>1. Counts => JobLimit
  <2> SUFFICES ASSUME Counts, NEW c \in Ctx
               PROVE  Cardinality(CountedJobs(c)) <= MaxJobs
    BY DEF JobLimit
  <2> QED
    BY CountedFinite, LimitsAssumption DEF Counts, Room
<1> QED
  BY InitCounts, NextCounts, <1>1, PTL DEF Spec

-----------------------------------------------------------------------------
(* Closing against jobs in flight, for every way timeouts and closes may   *)
(* happen.                                                                 *)

\* No thread is inside a handler of a file that is not open.
HandlersOfOpen ==
    \A t \in Thread : ctx_state[FileOf[t]] # "open" => pc[t] = "idle"

\* The counter of a context that is torn down stays where the release read it.
FreedUncounted ==
    \A c \in Ctx : ctx_state[c] \in {"free", "gone"} => num_jobs[c] = 0

Release == Counts /\ HandlersOfOpen /\ FreedUncounted

\* A count of zero leaves nothing to wait for.
LEMMA UncountedIsEmpty ==
    ASSUME Counts, NEW c \in Ctx, num_jobs[c] = 0
    PROVE  CountedJobs(c) = {} /\ AdmittedThreads(c) = {}
<1>1. /\ Cardinality(CountedJobs(c)) \in Nat /\ Cardinality(AdmittedThreads(c)) \in Nat
      /\ IsFiniteSet(CountedJobs(c)) /\ IsFiniteSet(AdmittedThreads(c))
  BY CountedFinite DEF Counts
<1>2. 0 = Cardinality(CountedJobs(c)) + Cardinality(AdmittedThreads(c))
  BY DEF Counts, NumJobsExact
<1>3. Cardinality(CountedJobs(c)) = 0 /\ Cardinality(AdmittedThreads(c)) = 0
  BY <1>1, <1>2
<1> QED
  BY <1>1, <1>3, FS_EmptySet

\* A step of a user thread: it enters through an open file, and its error paths
\* lower a counter that was raised for it.
LEMMA ThreadRelease ==
    ASSUME Release, NEW t \in Thread, ThreadNext(t)
    PROVE  HandlersOfOpen' /\ FreedUncounted'
<1>1. /\ pc \in [Thread -> ThreadPC] /\ num_jobs \in [Ctx -> Int]
      /\ FileOf[t] \in Ctx
  BY FilesAssumption DEF Release, Counts, Accounting, TypeOK
<1>2. ctx_state' = ctx_state
  BY ThreadFrame
<1>3. ctx_state[FileOf[t]] = "open"
  <2>1. CASE pc[t] = "idle"
    BY <2>1 DEF ThreadNext, ThreadEnds, HoldExit, RunpgmLookup, RunpgmReject,
       RunpgmQueue, RunpgmWake, FenceCheck, CreateEnter, UpdateEnter, BufferDestroy,
       RunpgmEnter, FenceEnter, RunpgmFault, FenceSignal, Enters
  <2> QED
    BY <2>1 DEF Release, HandlersOfOpen
<1>4. \A u \in Thread : u # t => pc'[u] = pc[u]
  BY <1>1 DEF ThreadNext, ThreadEnds, HoldExit, RunpgmLookup, RunpgmReject, RunpgmQueue,
     RunpgmWake, FenceCheck, CreateEnter, UpdateEnter, BufferDestroy, RunpgmEnter,
     FenceEnter, RunpgmFault, FenceSignal, Enters, Leaves
<1>5. HandlersOfOpen'
  BY <1>2, <1>3, <1>4 DEF Release, HandlersOfOpen
<1>6. \A c \in Ctx : c # FileOf[t] => num_jobs'[c] = num_jobs[c]
  BY <1>1 DEF ThreadNext, ThreadEnds, HoldExit, RunpgmLookup, RunpgmReject, RunpgmQueue,
     RunpgmWake, FenceCheck, CreateEnter, UpdateEnter, BufferDestroy, RunpgmEnter,
     FenceEnter, RunpgmFault, FenceSignal
<1>7. FreedUncounted'
  BY <1>2, <1>3, <1>6 DEF Release, FreedUncounted
<1> QED
  BY <1>5, <1>7

LEMMA NextRelease == Release /\ [Next]_vars => Release'
<1>a. SUFFICES ASSUME Release, [Next]_vars
               PROVE  HandlersOfOpen' /\ FreedUncounted'
  BY NextCounts DEF Release
<1>b. /\ pc \in [Thread -> ThreadPC] /\ num_jobs \in [Ctx -> Int]
      /\ ctx_state \in [Ctx -> CtxStates]
      /\ FileOf \in [Thread -> Ctx]
  BY <1>a, FilesAssumption DEF Release, Counts, Accounting, TypeOK
<1> USE DEF submitVars, schedVars, isrVars, devVars
<1>1. ASSUME NEW t \in Thread, ThreadNext(t) PROVE HandlersOfOpen' /\ FreedUncounted'
  BY <1>a, <1>1, ThreadRelease
<1>2. ASSUME NEW c \in Ctx, CtxNext(c) PROVE HandlersOfOpen' /\ FreedUncounted'
  <2>1. /\ UNCHANGED <<num_jobs, pc>>
        /\ \A d \in Ctx : d # c => ctx_state'[d] = ctx_state[d]
    BY <1>b, <1>2, CtxFrame DEF CtxNext, Open, Close, ReleaseCheck, ReleaseFree
  <2>2. \A t \in Thread : FileOf[t] = c /\ ctx_state'[c] # "open" => pc[t] = "idle"
    BY <1>a, <1>b, <1>2
       DEF CtxNext, Open, Close, ReleaseCheck, ReleaseFree, Release, HandlersOfOpen
  <2>3. ctx_state'[c] \in {"free", "gone"} => num_jobs[c] = 0
    BY <1>a, <1>b, <1>2
       DEF CtxNext, Open, Close, ReleaseCheck, ReleaseFree, Release, FreedUncounted
  <2> QED
    BY <1>a, <1>b, <2>1, <2>2, <2>3 DEF Release, HandlersOfOpen, FreedUncounted
<1>3. CASE SchedDec
  <2> DEFINE f == CtxOf(sjob)
  <2>1. /\ num_jobs' = [num_jobs EXCEPT ![f] = @ - 1]
        /\ UNCHANGED <<pc, ctx_state>> /\ spc = "dec"
    BY <1>3 DEF SchedDec
  <2>2. ~(f \in Ctx /\ num_jobs[f] = 0)
    <3>1. sjob \in DOMAIN job /\ sjob = finished_seq + 1 /\ finished_seq \in Nat
      BY <1>a, <2>1, LenProperties DEF Release, Counts, Accounting, TypeOK, SeqAccounting,
         Held, HoldingSeq, HoldingJob, HoldingLock, Counted
    <3>2. sjob \in CountedJobs(f)
      BY <2>1, <3>1 DEF CountedJobs, Counted
    <3> QED
      BY <1>a, <3>2, UncountedIsEmpty DEF Release
  <2> HIDE DEF f
  <2> QED
    BY <1>a, <1>b, <2>1, <2>2 DEF Release, HandlersOfOpen, FreedUncounted
<1>4. CASE SchedWake
  <2>1. /\ UNCHANGED <<num_jobs, ctx_state>>
        /\ \A t \in Thread : pc[t] = "idle" => pc'[t] = "idle"
    BY <1>b, <1>4 DEF SchedWake, WakeFences
  <2> QED
    BY <1>a, <2>1 DEF Release, HandlersOfOpen, FreedUncounted
<1>5. ASSUME UNCHANGED <<num_jobs, ctx_state, pc>>
      PROVE  HandlersOfOpen' /\ FreedUncounted'
  BY <1>a, <1>5 DEF Release, HandlersOfOpen, FreedUncounted
<1>6. CASE Sched /\ ~SchedDec /\ ~SchedWake
  BY <1>5, <1>6 DEF Sched, SchedWait, SchedFetch, SchedSetCur, SchedStart,
     SchedWaitDone, SchedClear, SchedCheck, SchedUnbind, SchedKfree, SchedInc
<1>7. CASE Isr
  BY <1>5, <1>7 DEF Isr, IsrEnter, IsrReadRaw, IsrDone, IsrWake, IsrReadAct, IsrAck
<1>8. CASE Unregister \/ SchedTimeout \/ DevComplete \/ UNCHANGED vars
  BY <1>5, <1>8 DEF Unregister, SchedTimeout, DevComplete, vars
<1> QED
  BY <1>a, <1>1, <1>2, <1>3, <1>4, <1>6, <1>7, <1>8 DEF Next

\* However a close races with jobs in flight, failing submissions, timeouts and the
\* scheduler, a context is torn down only when none of its jobs is counted.
THEOREM ReleaseWaitsForJobs == Spec => []ReleaseWaits
<1>1. Init => Release
  BY InitCounts DEF Init, Release, HandlersOfOpen, FreedUncounted
<1>2. Release => ReleaseWaits
  BY UncountedIsEmpty DEF Release, FreedUncounted, ReleaseWaits
<1> QED
  BY <1>1, <1>2, NextRelease, PTL DEF Spec

-----------------------------------------------------------------------------
(***************************************************************************)
(* The device and the interrupt handler, where the timeout of a job        *)
(* expires only on a device that can do no more: TimeoutMode is "quiet".   *)
(***************************************************************************)
Executing == {"wait_done", "done_sleep"}
Logged == {"dec", "unbind", "kfree", "inc", "oops"}

\* cur_job is the scheduler's job from before the start to after the wait.
CurIsHeld ==
    cur_job = IF spc \in Executing \cup {"start", "clear"} THEN sjob ELSE 0

\* The device executes nothing but the job the scheduler waits for.
DeviceRunsHeld ==
    hw # 0 => /\ spc \in Executing /\ hw = sjob
              /\ job[hw].ran = {} /\ ~job[hw].done

\* The pending interrupts the handler has not seen, or not yet marked as seen.
Unhandled == CASE ipc = "ack" -> raw \ iact
               [] ipc \in {"wake", "read_act"} -> {}
               [] OTHER -> raw

\* They are those of the job the scheduler waits for.
InterruptsOwned ==
    /\ Unhandled # {} => /\ spc \in Executing /\ hw = 0 /\ ~job[sjob].done
                         /\ Unhandled \subseteq job[sjob].ran
    /\ ipc \in {"read_raw", "done"} => raw # {} /\ ijob = sjob

\* A job that was not started has no results.
FreshJobs ==
    \A s \in 1..Len(job) :
       finished_seq < s /\ (s = sjob => spc \in {"set_cur", "start"}) =>
          job[s].ran = {} /\ ~job[s].done /\ job[s].intr_state = {}

\* A job's results are its own.
ResultsOwn ==
    \A s \in 1..Len(job) : /\ job[s].intr_state \subseteq job[s].ran
                           /\ job[s].done => job[s].ran # {}

\* A job that the scheduler has logged has a verdict, and "ok" is true of it.
VerdictsTrue ==
    \A s \in 1..Len(job) :
       s <= finished_seq \/ (s = sjob /\ spc \in Logged) =>
          /\ job[s].verdict # None
          /\ job[s].verdict = "ok" => "completed" \in job[s].ran

Device == /\ Accounting /\ NoJobHeld
          /\ CurIsHeld
          /\ DeviceRunsHeld
          /\ InterruptsOwned
          /\ FreshJobs
          /\ ResultsOwn
          /\ VerdictsTrue

LEMMA InitDevice == Init => Device
<1> SUFFICES ASSUME Init
             PROVE  Device
  OBVIOUS
<1>1. Len(job) = 0
  BY EmptySeq DEF Init
<1>2. CurIsHeld /\ DeviceRunsHeld /\ InterruptsOwned /\ NoJobHeld
  BY DEF Init, CurIsHeld, DeviceRunsHeld, InterruptsOwned, Unhandled, NoJobHeld,
     Executing
<1>3. FreshJobs /\ ResultsOwn /\ VerdictsTrue
  BY <1>1 DEF FreshJobs, ResultsOwn, VerdictsTrue
<1> QED
  BY <1>2, <1>3, InitAccounting DEF Device

\* Steps that leave jobs, device and handler alone, and move the scheduler, if at
\* all, within one phase of a job.
LEMMA DeviceUntouched ==
    ASSUME Device, Accounting', NoJobHeld',
           UNCHANGED <<job, hw, raw, ipc, ijob, iact, cur_job, sjob, finished_seq>>,
           \/ spc' = spc
           \/ {spc, spc'} \subseteq Executing
           \/ {spc, spc'} \subseteq Logged
           \/ {spc, spc'} \cap HoldingSeq = {}
    PROVE  Device'
<1> USE DEF Executing, Logged, HoldingSeq, HoldingJob, HoldingLock, Counted
<1>1. CurIsHeld'
  BY DEF Device, CurIsHeld
<1>2. DeviceRunsHeld' /\ InterruptsOwned'
  BY DEF Device, DeviceRunsHeld, InterruptsOwned, Unhandled
<1>3. FreshJobs' /\ ResultsOwn'
  BY LenProperties DEF Device, FreshJobs, ResultsOwn, NoJobHeld, Accounting, TypeOK
<1>4. VerdictsTrue'
  BY DEF Device, VerdictsTrue, NoJobHeld
<1> QED
  BY <1>1, <1>2, <1>3, <1>4 DEF Device

\* What the invariant needs of the accounting, in one place.
LEMMA DeviceFacts ==
    ASSUME Device
    PROVE  /\ job \in Seq(JobType) /\ Len(job) \in Nat /\ DOMAIN job = 1..Len(job)
           /\ finished_seq \in Nat
           /\ spc \in HoldingSeq => sjob = finished_seq + 1 /\ sjob \in 1..Len(job)
           /\ spc \notin HoldingSeq => sjob = 0
           /\ \A s \in 1..Len(job) : job[s] \in JobType
           /\ raw \subseteq Bits /\ hw \in Nat /\ pc \in [Thread -> ThreadPC]
BY LenProperties, ElementOfSeq
   DEF Device, Accounting, TypeOK, SeqAccounting, Held, NoJobHeld

\* RUNPGM adds a job that was not started.
LEMMA QueueDevice ==
    ASSUME Device, Accounting', NoJobHeld', NEW t \in Thread, RunpgmQueue(t)
    PROVE  Device'
<1> DEFINE n == active_seq + 1
           b == arg[t].cbuf
<1>1. b \in Cbuf
  BY DEF Device, Accounting, ArgsNameBuffers, RunpgmQueue
<1>2. /\ Len(job) = active_seq /\ active_seq >= finished_seq
      /\ UNCHANGED <<hw, raw, ipc, ijob, iact, cur_job, sjob, finished_seq, spc>>
      /\ active_seq \in Nat
  BY LenProperties DEF Device, Accounting, TypeOK, SeqAccounting, Held, RunpgmQueue,
     schedVars, isrVars, devVars
<1>3. NewJob(b) \in JobType
  BY <1>1 DEF NewJob, JobType
<1>4. job' = Append(job, NewJob(b))
  BY DEF RunpgmQueue
<1>5. /\ Len(job') = n /\ job'[n] = NewJob(b) /\ n \in Nat /\ n > finished_seq
      /\ \A s \in 1..Len(job) : job'[s] = job[s]
  <2>1. job \in Seq(JobType) /\ finished_seq \in Nat /\ Len(job) \in Nat
    BY DeviceFacts
  <2>2. /\ Len(job') = Len(job) + 1 /\ job'[Len(job) + 1] = NewJob(b)
        /\ \A s \in 1..Len(job) : job'[s] = job[s]
    BY <1>3, <1>4, <2>1, AppendProperties
  <2> QED
    BY <1>2, <2>1, <2>2
<1>6. NewJob(b).ran = {} /\ ~NewJob(b).done /\ NewJob(b).intr_state = {}
  BY DEF NewJob
<1> HIDE DEF n, b
<1>7. \A s \in 1..Len(job') : s \in 1..Len(job) \/ s = n
  BY <1>2, <1>5 DEF n
<1>8. n # sjob /\ ~(n <= finished_seq)
  BY <1>2, DeviceFacts DEF n
<1>9. CurIsHeld' /\ DeviceRunsHeld' /\ InterruptsOwned'
  BY <1>2, <1>5, DeviceFacts DEF Device, CurIsHeld, DeviceRunsHeld, InterruptsOwned,
     Unhandled, Executing, HoldingSeq, HoldingJob, HoldingLock, Counted
<1>10. FreshJobs' /\ ResultsOwn'
  BY <1>2, <1>5, <1>6, <1>7 DEF Device, FreshJobs, ResultsOwn
<1>11. VerdictsTrue'
  BY <1>2, <1>5, <1>7, <1>8 DEF Device, VerdictsTrue
<1> QED
  BY <1>9, <1>10, <1>11 DEF Device

\* The scheduler's steps from fetching a job to its retirement.
LEMMA SchedDevice ==
    ASSUME Device, Accounting', NoJobHeld', Sched \/ SchedTimeout,
           TimeoutMode = "quiet"
    PROVE  Device'
<1>a. UNCHANGED <<hw, raw, ipc, ijob, iact>> \/ SchedStart
  BY DEF Sched, SchedWait, SchedFetch, SchedSetCur, SchedStart, SchedWaitDone,
     SchedClear, SchedCheck, SchedDec, SchedUnbind, SchedKfree, SchedInc, SchedWake,
     SchedTimeout, isrVars, devVars
<1> USE DEF Executing, Logged, HoldingSeq, HoldingJob, HoldingLock, Counted,
            submitVars, schedVars, isrVars, devVars
<1>1. CASE SchedWait \/ SchedDec \/ SchedUnbind \/ SchedKfree \/ SchedWake
  BY <1>1, DeviceUntouched DEF SchedWait, SchedDec, SchedUnbind, SchedKfree, SchedWake
<1>2. CASE SchedFetch
  <2>1. /\ spc = "fetch" /\ spc' = "set_cur"
        /\ UNCHANGED <<job, hw, raw, ipc, ijob, iact, cur_job, finished_seq>>
    BY <1>2 DEF SchedFetch
  <2>2. CurIsHeld' /\ DeviceRunsHeld' /\ InterruptsOwned'
    BY <2>1 DEF Device, CurIsHeld, DeviceRunsHeld, InterruptsOwned, Unhandled
  <2>3. FreshJobs' /\ ResultsOwn' /\ VerdictsTrue'
    BY <2>1, DeviceFacts DEF Device, FreshJobs, ResultsOwn, VerdictsTrue
  <2> QED
    BY <2>2, <2>3 DEF Device
<1>3. CASE SchedSetCur
  <2>1. /\ spc = "set_cur" /\ spc' = "start" /\ cur_job' = sjob
        /\ UNCHANGED <<job, hw, raw, ipc, ijob, iact, sjob, finished_seq>>
    BY <1>3 DEF SchedSetCur
  <2>2. CurIsHeld' /\ DeviceRunsHeld' /\ InterruptsOwned'
    BY <2>1 DEF Device, CurIsHeld, DeviceRunsHeld, InterruptsOwned, Unhandled
  <2>3. FreshJobs' /\ ResultsOwn' /\ VerdictsTrue'
    BY <2>1 DEF Device, FreshJobs, ResultsOwn, VerdictsTrue
  <2> QED
    BY <2>2, <2>3 DEF Device
<1>4. CASE SchedStart
  <2>1. /\ spc = "start" /\ spc' = "wait_done"
        /\ UNCHANGED <<job, raw, ipc, ijob, iact, cur_job, sjob, finished_seq>>
    BY <1>4 DEF SchedStart
  <2>2. hw' = sjob /\ Unhandled = {} /\ Unhandled' = {}
    BY <1>4, <2>1 DEF SchedStart, Device, DeviceRunsHeld, InterruptsOwned, Unhandled
  <2>3. job[sjob].ran = {} /\ ~job[sjob].done
    BY <2>1, DeviceFacts DEF Device, FreshJobs
  <2>4. CurIsHeld' /\ DeviceRunsHeld'
    BY <2>1, <2>2, <2>3 DEF Device, CurIsHeld, DeviceRunsHeld
  <2>5. InterruptsOwned'
    BY <2>1, <2>2 DEF Device, InterruptsOwned
  <2>6. FreshJobs' /\ ResultsOwn' /\ VerdictsTrue'
    BY <2>1 DEF Device, FreshJobs, ResultsOwn, VerdictsTrue
  <2> QED
    BY <2>4, <2>5, <2>6 DEF Device
<1>5. CASE SchedWaitDone \/ SchedTimeout
  <2>1. /\ spc \in Executing
        /\ UNCHANGED <<job, hw, raw, ipc, ijob, iact, cur_job, sjob, finished_seq>>
        /\ spc' \in {"clear", "done_sleep"}
    BY <1>5 DEF SchedWaitDone, SchedTimeout
  <2>2. CASE spc' = "done_sleep"
    BY <2>1, <2>2, DeviceUntouched
  <2>3. CASE spc' = "clear"
    <3>1. job[sjob].done \/ (hw = 0 /\ raw = {} /\ ipc = "idle")
      BY <1>5, <2>3 DEF SchedWaitDone, SchedTimeout, Quiet
    <3>2. hw = 0 /\ Unhandled = {}
      BY <3>1 DEF Device, DeviceRunsHeld, InterruptsOwned, Unhandled
    <3>3. CurIsHeld' /\ DeviceRunsHeld'
      BY <2>1, <2>3, <3>2 DEF Device, CurIsHeld, DeviceRunsHeld
    <3>4. InterruptsOwned'
      BY <2>1, <3>2 DEF Device, InterruptsOwned, Unhandled
    <3>5. FreshJobs' /\ ResultsOwn' /\ VerdictsTrue'
      BY <2>1, <2>3 DEF Device, FreshJobs, ResultsOwn, VerdictsTrue
    <3> QED
      BY <3>3, <3>4, <3>5 DEF Device
  <2> QED
    BY <2>1, <2>2, <2>3
<1>6. CASE SchedClear
  <2>1. /\ spc = "clear" /\ spc' = "check" /\ cur_job' = 0
        /\ UNCHANGED <<job, hw, raw, ipc, ijob, iact, sjob, finished_seq>>
    BY <1>6 DEF SchedClear
  <2>2. CurIsHeld' /\ DeviceRunsHeld' /\ InterruptsOwned'
    BY <2>1 DEF Device, CurIsHeld, DeviceRunsHeld, InterruptsOwned, Unhandled
  <2>3. FreshJobs' /\ ResultsOwn' /\ VerdictsTrue'
    BY <2>1 DEF Device, FreshJobs, ResultsOwn, VerdictsTrue
  <2> QED
    BY <2>2, <2>3 DEF Device
<1>7. CASE SchedCheck
  <2> DEFINE v == job'[sjob].verdict
  <2>1. /\ spc = "check" /\ spc' = "dec"
        /\ UNCHANGED <<hw, raw, ipc, ijob, iact, cur_job, sjob, finished_seq>>
        /\ sjob \in 1..Len(job)
    BY <1>7, DeviceFacts DEF SchedCheck
  <2>2. /\ Len(job') = Len(job)
        /\ \A s \in 1..Len(job) : s # sjob => job'[s] = job[s]
        /\ job'[sjob].ran = job[sjob].ran /\ job'[sjob].done = job[sjob].done
        /\ job'[sjob].intr_state = job[sjob].intr_state
    <3>1. Len(job') = Len(job)
      BY <1>7, DeviceFacts, LenProperties DEF SchedCheck, Device, Accounting, TypeOK
    <3> QED
      BY <1>7, <2>1, <3>1, DeviceFacts DEF SchedCheck, JobType
  <2>3. v # None /\ (v = "ok" => job[sjob].intr_state = {"completed"})
    BY <1>7, <2>1, DeviceFacts DEF SchedCheck, JobType, None
  <2>4. CurIsHeld' /\ DeviceRunsHeld' /\ InterruptsOwned'
    BY <2>1 DEF Device, CurIsHeld, DeviceRunsHeld, InterruptsOwned, Unhandled
  <2>5. FreshJobs' /\ ResultsOwn'
    BY <2>1, <2>2 DEF Device, FreshJobs, ResultsOwn
  <2>6. v = "ok" => "completed" \in job'[sjob].ran
    BY <2>1, <2>2, <2>3 DEF Device, ResultsOwn
  <2>7. VerdictsTrue'
    BY <2>1, <2>2, <2>3, <2>6, DeviceFacts DEF Device, VerdictsTrue
  <2> QED
    BY <2>4, <2>5, <2>7 DEF Device
<1>8. CASE SchedInc
  <2>1. /\ spc = "inc" /\ spc' = "wake" /\ sjob' = 0 /\ finished_seq' = sjob
        /\ UNCHANGED <<job, hw, raw, ipc, ijob, iact, cur_job>>
    BY <1>8, DeviceFacts DEF SchedInc
  <2>2. CurIsHeld' /\ DeviceRunsHeld' /\ InterruptsOwned'
    BY <2>1 DEF Device, CurIsHeld, DeviceRunsHeld, InterruptsOwned, Unhandled
  <2>3. FreshJobs' /\ ResultsOwn' /\ VerdictsTrue'
    BY <2>1, DeviceFacts DEF Device, FreshJobs, ResultsOwn, VerdictsTrue
  <2> QED
    BY <2>2, <2>3 DEF Device
<1> QED
  BY <1>1, <1>2, <1>3, <1>4, <1>5, <1>6, <1>7, <1>8 DEF Sched

\* The handler's steps.
LEMMA IsrDevice ==
    ASSUME Device, Accounting', NoJobHeld', Isr
    PROVE  Device'
<1>a. UNCHANGED <<finished_seq, cur_job, sjob, hw>>
  BY DEF Isr, IsrEnter, IsrReadRaw, IsrDone, IsrWake, IsrReadAct, IsrAck, schedVars, devVars
<1> USE DEF Executing, submitVars, schedVars, isrVars, devVars
<1>1. CASE IsrEnter
  <2>1. /\ ipc = "idle" /\ raw # {} /\ ijob' = cur_job
        /\ ipc' = IF cur_job = 0 THEN "read_act" ELSE "read_raw"
        /\ UNCHANGED <<job, spc, iact, raw>>
    BY <1>1 DEF IsrEnter
  <2>2. spc \in Executing /\ cur_job = sjob /\ sjob # 0
    BY <2>1, DeviceFacts DEF Device, InterruptsOwned, Unhandled, CurIsHeld, HoldingSeq,
       HoldingJob, HoldingLock, Counted
  <2>3. InterruptsOwned'
    BY <1>a, <2>1, <2>2 DEF Device, InterruptsOwned, Unhandled
  <2> QED
    BY <1>a, <2>1, <2>3 DEF Device, CurIsHeld, DeviceRunsHeld, FreshJobs, ResultsOwn,
       VerdictsTrue
<1>2. CASE IsrReadRaw
  <2>1. /\ ipc = "read_raw" /\ ipc' = "done"
        /\ job' = [job EXCEPT ![ijob].intr_state = raw]
        /\ UNCHANGED <<spc, ijob, iact, raw>>
    BY <1>2 DEF IsrReadRaw
  <2>2. /\ ijob = sjob /\ raw # {} /\ spc \in Executing /\ hw = 0
        /\ raw \subseteq job[sjob].ran /\ sjob \in 1..Len(job)
        /\ ~job[sjob].done
    BY <2>1, DeviceFacts DEF Device, InterruptsOwned, Unhandled, HoldingSeq,
       HoldingJob, HoldingLock, Counted
  <2>3. /\ Len(job') = Len(job)
        /\ \A s \in 1..Len(job) : s # sjob => job'[s] = job[s]
        /\ job'[sjob].ran = job[sjob].ran /\ job'[sjob].done = job[sjob].done
        /\ job'[sjob].intr_state = raw
    <3>1. Len(job') = Len(job)
      BY <2>1, DeviceFacts, LenProperties DEF Device, Accounting, TypeOK
    <3> QED
      BY <2>1, <2>2, <3>1, DeviceFacts DEF JobType
  <2>4. CurIsHeld' /\ DeviceRunsHeld' /\ InterruptsOwned'
    BY <1>a, <2>1, <2>2, <2>3 DEF Device, CurIsHeld, DeviceRunsHeld, InterruptsOwned,
       Unhandled
  <2>5. FreshJobs' /\ ResultsOwn'
    BY <1>a, <2>1, <2>2, <2>3 DEF Device, FreshJobs, ResultsOwn
  <2>6. VerdictsTrue'
    BY <1>a, <2>1, <2>2, <2>3, DeviceFacts DEF Device, VerdictsTrue, Logged, HoldingSeq,
       HoldingJob, HoldingLock, Counted
  <2> QED
    BY <2>4, <2>5, <2>6 DEF Device
<1>3. CASE IsrDone
  <2>1. /\ ipc = "done" /\ ipc' = "wake"
        /\ job' = [job EXCEPT ![ijob].done = TRUE]
        /\ UNCHANGED <<spc, ijob, iact, raw>>
    BY <1>3 DEF IsrDone
  <2>2. /\ ijob = sjob /\ spc \in Executing /\ hw = 0
        /\ job[sjob].ran # {} /\ sjob \in 1..Len(job)
    BY <2>1, DeviceFacts DEF Device, InterruptsOwned, Unhandled, HoldingSeq,
       HoldingJob, HoldingLock, Counted
  <2>3. /\ Len(job') = Len(job)
        /\ \A s \in 1..Len(job) : s # sjob => job'[s] = job[s]
        /\ job'[sjob].ran = job[sjob].ran
        /\ job'[sjob].intr_state = job[sjob].intr_state
    <3>1. Len(job') = Len(job)
      BY <2>1, DeviceFacts, LenProperties DEF Device, Accounting, TypeOK
    <3> QED
      BY <2>1, <2>2, <3>1, DeviceFacts DEF JobType
  <2>4. CurIsHeld' /\ DeviceRunsHeld' /\ InterruptsOwned'
    BY <1>a, <2>1, <2>2 DEF Device, CurIsHeld, DeviceRunsHeld, InterruptsOwned, Unhandled
  <2>5. FreshJobs' /\ ResultsOwn'
    BY <1>a, <2>1, <2>2, <2>3 DEF Device, FreshJobs, ResultsOwn
  <2>6. VerdictsTrue'
    BY <1>a, <2>1, <2>2, <2>3, DeviceFacts DEF Device, VerdictsTrue, Logged, HoldingSeq,
       HoldingJob, HoldingLock, Counted
  <2> QED
    BY <2>4, <2>5, <2>6 DEF Device
<1>4. CASE IsrWake
  <2>1. /\ ipc = "wake" /\ ipc' = "read_act"
        /\ UNCHANGED <<job, ijob, iact, raw>>
        /\ \/ spc' = spc
           \/ spc = "wait_sleep" /\ spc' = "wait"
           \/ spc = "done_sleep" /\ spc' = "wait_done"
    BY <1>4 DEF IsrWake, WakeSched
  <2>2. CurIsHeld' /\ DeviceRunsHeld' /\ InterruptsOwned'
    BY <1>a, <2>1 DEF Device, CurIsHeld, DeviceRunsHeld, InterruptsOwned, Unhandled
  <2>3. FreshJobs' /\ ResultsOwn' /\ VerdictsTrue'
    BY <1>a, <2>1 DEF Device, FreshJobs, ResultsOwn, VerdictsTrue, Logged
  <2> QED
    BY <2>2, <2>3 DEF Device
<1>5. CASE IsrReadAct \/ IsrAck
  <2>1. UNCHANGED <<job, spc>> /\ Unhandled' \subseteq Unhandled
    BY <1>5 DEF IsrReadAct, IsrAck, Unhandled
  <2>2. ipc' \notin {"read_raw", "done"}
    BY <1>5 DEF IsrReadAct, IsrAck
  <2> QED
    BY <1>a, <2>1, <2>2 DEF Device, CurIsHeld, DeviceRunsHeld, InterruptsOwned,
       FreshJobs, ResultsOwn, VerdictsTrue
<1> QED
  BY <1>1, <1>2, <1>3, <1>4, <1>5 DEF Isr

\* The end of a program raises its interrupts.
LEMMA DevCompleteDevice ==
    ASSUME Device, Accounting', NoJobHeld', DevComplete
    PROVE  Device'
<1>1. PICK bits \in SUBSET Bits \ {{}} : /\ raw' = raw \cup bits
                                         /\ job' = [job EXCEPT ![hw].ran = bits]
  BY DEF DevComplete
<1>2. /\ hw # 0 /\ hw' = 0
      /\ UNCHANGED <<spc, sjob, cur_job, finished_seq, ipc, ijob, iact>>
  BY DEF DevComplete, schedVars, isrVars
<1>3. /\ hw = sjob /\ spc \in Executing /\ sjob \in 1..Len(job)
      /\ job[sjob].ran = {} /\ ~job[sjob].done /\ Unhandled = {}
  BY <1>2, DeviceFacts DEF Device, DeviceRunsHeld, InterruptsOwned, HoldingSeq, HoldingJob,
     HoldingLock, Counted, Executing
<1>4. /\ Len(job') = Len(job)
      /\ \A s \in 1..Len(job) : s # sjob => job'[s] = job[s]
      /\ job'[sjob].ran = bits /\ job'[sjob].done = job[sjob].done
      /\ job'[sjob].intr_state = job[sjob].intr_state
  <2>1. Len(job') = Len(job)
    BY <1>1, DeviceFacts, LenProperties DEF Device, Accounting, TypeOK
  <2> QED
    BY <1>1, <1>3, <2>1, DeviceFacts DEF JobType
<1>5. job[sjob].intr_state = {}
  BY <1>3 DEF Device, ResultsOwn
<1>6. CurIsHeld' /\ DeviceRunsHeld'
  BY <1>2 DEF Device, CurIsHeld, DeviceRunsHeld
<1>7. Unhandled' \subseteq bits
  BY <1>1, <1>2, <1>3 DEF Unhandled
<1>8. ipc \notin {"read_raw", "done"}
  BY <1>3 DEF Device, InterruptsOwned, Unhandled
<1>9. InterruptsOwned'
  BY <1>2, <1>3, <1>4, <1>7, <1>8 DEF InterruptsOwned
<1>10. FreshJobs' /\ ResultsOwn'
  BY <1>1, <1>2, <1>3, <1>4, <1>5 DEF Device, FreshJobs, ResultsOwn, Executing
<1>11. VerdictsTrue'
  BY <1>2, <1>3, <1>4, DeviceFacts DEF Device, VerdictsTrue, Logged, Executing, HoldingSeq,
     HoldingJob, HoldingLock, Counted
<1> QED
  BY <1>6, <1>9, <1>10, <1>11 DEF Device

LEMMA NextDevice ==
    ASSUME TimeoutMode = "quiet", Device, [Next]_vars
    PROVE  Device'
<1>a. Accounting' /\ NoJobHeld'
  BY NextAccounting, NextNoJobHeld DEF Device
<1>1. ASSUME NEW t \in Thread, ThreadNext(t) PROVE Device'
  <2>1. CASE RunpgmQueue(t)
    BY <1>a, <2>1, QueueDevice
  <2>2. CASE ~RunpgmQueue(t)
    <3>1. \/ spc' = spc
          \/ {spc, spc'} \cap HoldingSeq = {}
      BY <1>1, ThreadFrame DEF RunpgmWake, WakeIdleSched, HoldingSeq, HoldingJob,
         HoldingLock, Counted
    <3> QED
      BY <1>a, <1>1, <2>2, <3>1, ThreadFrame, DeviceUntouched DEF isrVars, devVars
  <2> QED
    BY <2>1, <2>2
<1>2. ASSUME NEW c \in Ctx, CtxNext(c) PROVE Device'
  BY <1>a, <1>2, CtxFrame, DeviceUntouched DEF schedVars, isrVars, devVars
<1>3. CASE Unregister
  BY <1>a, <1>3, DeviceUntouched DEF Unregister, WakeIdleSched, HoldingSeq, HoldingJob,
     HoldingLock, Counted, isrVars, devVars
<1>4. CASE Sched \/ SchedTimeout
  BY <1>a, <1>4, SchedDevice
<1>5. CASE Isr
  BY <1>a, <1>5, IsrDevice
<1>6. CASE DevComplete
  BY <1>a, <1>6, DevCompleteDevice
<1>7. CASE UNCHANGED vars
  BY <1>a, <1>7, DeviceUntouched DEF vars, schedVars, isrVars, devVars
<1> QED
  BY <1>1, <1>2, <1>3, <1>4, <1>5, <1>6, <1>7 DEF Next

\* A job is marked done only for the interrupts of its own program, and has no
\* others in its intr_state, although the handler takes every interrupt for one of
\* cur_job.
THEOREM DoneIsOwn ==
    ASSUME TimeoutMode = "quiet"
    PROVE  Spec => []DoneMeansRan
<1>1. Device => DoneMeansRan
  BY DeviceFacts DEF Device, ResultsOwn, DoneMeansRan
<1> QED
  BY InitDevice, NextDevice, <1>1, PTL DEF Spec

\* When a fence returns, the device and the scheduler have let go of the job, and
\* a job that the log says nothing of ran to its completion.
THEOREM FencesTellTruth ==
    ASSUME TimeoutMode = "quiet"
    PROVE  Spec => []FenceMeansDone
<1>1. Device => FenceMeansDone
  <2> SUFFICES ASSUME Device, NEW s \in 1..finished_seq
               PROVE  /\ hw # s /\ sjob # s /\ cur_job # s
                      /\ job[s].verdict # None
                      /\ job[s].verdict = "ok" => "completed" \in job[s].ran
    BY DEF FenceMeansDone
  <2>1. s \in 1..Len(job) /\ s <= finished_seq /\ s # 0
    BY DeviceFacts DEF Device, Accounting, TypeOK, SeqAccounting, Held
  <2>2. sjob # s
    BY DeviceFacts
  <2>3. cur_job # s /\ hw # s
    BY <2>1, <2>2 DEF Device, CurIsHeld, DeviceRunsHeld
  <2> QED
    BY <2>1, <2>2, <2>3 DEF Device, VerdictsTrue
<1> QED
  BY InitDevice, NextDevice, <1>1, PTL DEF Spec

\* The handler never writes a job object that the scheduler has freed.
THEOREM HandlerJobLives ==
    ASSUME TimeoutMode = "quiet"
    PROVE  Spec => []IsrJobLive
<1>1. Device => IsrJobLive
  BY DEF Device, InterruptsOwned, Unhandled, IsrJobLive, Executing, HoldingJob,
     HoldingLock, Counted
<1> QED
  BY InitDevice, NextDevice, <1>1, PTL DEF Spec

\* For files that are closed only after their jobs have finished, the program the
\* device executes exists and is locked for its job.
THEOREM ProgramPinned ==
    ASSUME TimeoutMode = "quiet", CloseMode = "drained"
    PROVE  Spec => []DeviceProgramPinned
<1>1. Device /\ Locks => DeviceProgramPinned
  <2> SUFFICES ASSUME Device, Locks, hw # 0
               PROVE  /\ job[hw].cbuf \in cbufs \cap locked
                      /\ \A t \in LockingThreads : arg[t].cbuf # job[hw].cbuf
    BY DEF DeviceProgramPinned
  <2>1. hw = sjob /\ spc \in Executing
    BY DEF Device, DeviceRunsHeld
  <2>2. hw \in LockingJobs
    BY <2>1, DeviceFacts DEF LockingJobs, HoldingSeq, HoldingJob, HoldingLock, Counted,
       Executing
  <2> QED
    BY <2>2 DEF Locks, CbufExclusive, LockedExist
<1>2. Spec => []Locks
  BY InitLocks, NextLocks, PTL DEF Spec
<1> QED
  BY InitDevice, NextDevice, <1>1, <1>2, PTL DEF Spec

=============================================================================
