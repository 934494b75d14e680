------------------------------ MODULE SwEmuMT -------------------------------
(***************************************************************************)
(* The executor of the emulator with a worker per VPU thread               *)
(* (sw/ud/src/backend/swemu/swemu_exec.cxx and .hxx, swemu_sema.hxx).  The *)
(* caller executes the commands itself and hands a vector product to the   *)
(* workers; a worker has two semaphores that count to one, and a flag to   *)
(* stop it.  The destructor stops the workers, last one first, and so does *)
(* the constructor when a thread cannot be created.                        *)
(***************************************************************************)
EXTENDS SwEmuExec, Sequences

CONSTANTS
    Program,            \* the programs that run
    InitialMemory,      \* the memory at first
    MaxCalls            \* bound: calls of execute

Commands == UNION {{p[i] : i \in DOMAIN p} : p \in Program}

ASSUME ProgramAssumption ==
    /\ Program \subseteq Seq(Commands)
    /\ \A c \in Commands : c.op = "setvl" => c.arg \in Nat

VARIABLES
    pc,                 \* where the caller is
    left,               \* the workers that its present loop has yet to visit
    rest, regs, mem,    \* the rest of the program, and what it works on
    ready, done, stop,  \* MTSupport
    wpc, k,             \* where every worker is, and its loop counter
    before,             \* history: the registers when the product began
    calls

mtVars == <<pc, left, rest, regs, mem, ready, done, stop, wpc, k, before, calls>>

SEQ == INSTANCE SwEmuSeq WITH
    regs <- IF pc \in {"signal", "wait"} THEN before ELSE regs

All(v) == [t \in Threads |-> v]

MTInit == /\ pc = "closed" /\ left = {} /\ rest = << >> /\ calls = 0
          /\ regs = SEQ!Clear /\ mem = InitialMemory /\ before = SEQ!Clear
          /\ ready = All(0) /\ done = All(0) /\ stop = All(FALSE)
          /\ wpc = All("none") /\ k = All(0)

\* Sema::up forgets a signal above the limit.
Up(sema, t) == [sema EXCEPT ![t] = 1]

-----------------------------------------------------------------------------
\* The caller.

Open == /\ pc = "closed" /\ pc' = "starting" /\ left' = Threads
        /\ regs' = SEQ!Clear
        /\ ready' = All(0) /\ done' = All(0) /\ stop' = All(FALSE)
        /\ wpc' = All("none")
        /\ UNCHANGED <<rest, mem, k, before, calls>>

StartThread == /\ pc = "starting"
               /\ wpc' = [wpc EXCEPT ![FirstOf(left)] = "top"]
               /\ left' = left \ {FirstOf(left)}
               /\ pc' = IF left' = {} THEN "idle" ELSE pc
               /\ UNCHANGED <<rest, regs, mem, ready, done, stop, k, before, calls>>

\* delete[]: an element whose thread was never started is not joinable.
Joinable == {t \in Threads : wpc[t] # "none"}

Delete == /\ left' = Joinable
          /\ pc' = IF left' = {} THEN "closed" ELSE "stop"
          /\ UNCHANGED <<rest, regs, mem, ready, done, stop, wpc, k, before, calls>>

StartFails == pc = "starting" /\ Delete

Close == pc = "idle" /\ Delete

StopFlag == /\ pc = "stop" /\ pc' = "wake"
            /\ stop' = [stop EXCEPT ![LastOf(left)] = TRUE]
            /\ UNCHANGED <<left, rest, regs, mem, ready, done, wpc, k, before, calls>>

\* Mutant: the flag is set, but the worker is not woken.
WakeNot == /\ pc = "wake" /\ pc' = "join"
           /\ UNCHANGED <<left, rest, regs, mem, ready, done, stop, wpc, k, before,
                          calls>>

Wake == /\ pc = "wake" /\ pc' = "join"
        /\ ready' = Up(ready, LastOf(left))
        /\ UNCHANGED <<left, rest, regs, mem, done, stop, wpc, k, before, calls>>

Join == /\ pc = "join" /\ wpc[LastOf(left)] = "exit"
        /\ left' = left \ {LastOf(left)}
        /\ pc' = IF left' = {} THEN "closed" ELSE "stop"
        /\ UNCHANGED <<rest, regs, mem, ready, done, stop, wpc, k, before, calls>>

Call == /\ pc = "idle" /\ calls < MaxCalls /\ calls' = calls + 1
        /\ pc' = "run" /\ rest' \in Program
        /\ UNCHANGED <<left, regs, mem, ready, done, stop, wpc, k, before>>

Return == /\ pc = "run" /\ rest = << >> /\ pc' = "idle"
          /\ UNCHANGED <<left, rest, regs, mem, ready, done, stop, wpc, k, before, calls>>

Simple == /\ pc = "run" /\ rest # << >> /\ Head(rest).op # "prod"
          /\ LET c == Head(rest)
                 x == Execute([regs |-> regs, mem |-> mem], c, SEQ!AsIs(c))
             IN  regs' = x.regs /\ mem' = x.mem
          /\ rest' = Tail(rest)
          /\ UNCHANGED <<pc, left, ready, done, stop, wpc, k, before, calls>>

Targets(c) == {t \in Threads : t[1] \in Broadcast(c.dst) \cap VpuMask}

StartProd == /\ pc = "run" /\ rest # << >> /\ Head(rest).op = "prod"
             /\ pc' = "signal" /\ left' = Targets(Head(rest)) /\ before' = regs
             /\ UNCHANGED <<rest, regs, mem, ready, done, stop, wpc, k, calls>>

SignalReady ==
    /\ pc = "signal"
    /\ IF left # {}
       THEN /\ ready' = Up(ready, FirstOf(left))
            /\ left' = left \ {FirstOf(left)}
            /\ UNCHANGED pc
       ELSE /\ pc' = "wait" /\ left' = Targets(Head(rest))
            /\ UNCHANGED ready
    /\ UNCHANGED <<rest, regs, mem, done, stop, wpc, k, before, calls>>

\* Mutant: only the last worker is waited for.
WaitLast ==
    /\ pc = "wait"
    /\ IF left # {}
       THEN /\ left = {FirstOf(left)} => done[FirstOf(left)] = 1
            /\ done' = [done EXCEPT ![FirstOf(left)] = 0]
            /\ left' = left \ {FirstOf(left)}
            /\ UNCHANGED <<pc, rest>>
       ELSE /\ pc' = "run" /\ rest' = Tail(rest)
            /\ UNCHANGED <<left, done>>
    /\ UNCHANGED <<regs, mem, ready, stop, wpc, k, before, calls>>

WaitDone ==
    /\ pc = "wait"
    /\ IF left # {}
       THEN /\ done[FirstOf(left)] = 1
            /\ done' = [done EXCEPT ![FirstOf(left)] = 0]
            /\ left' = left \ {FirstOf(left)}
            /\ UNCHANGED <<pc, rest>>
       ELSE /\ pc' = "run" /\ rest' = Tail(rest)
            /\ UNCHANGED <<left, done>>
    /\ UNCHANGED <<regs, mem, ready, stop, wpc, k, before, calls>>

-----------------------------------------------------------------------------
\* A worker.

Goto(t, p) == wpc' = [wpc EXCEPT ![t] = p]

\* The loop condition, and the same test after the wait.
TestStop(t) == /\ wpc[t] \in {"top", "again"}
               /\ Goto(t, IF stop[t] THEN "exit"
                          ELSE IF wpc[t] = "top" THEN "ready" ELSE "product")
               /\ UNCHANGED <<pc, left, rest, regs, mem, ready, done, stop, k, before,
                              calls>>

WaitReady(t) == /\ wpc[t] = "ready" /\ ready[t] = 1
                /\ ready' = [ready EXCEPT ![t] = 0]
                /\ Goto(t, "again") /\ k' = [k EXCEPT ![t] = 0]
                /\ UNCHANGED <<pc, left, rest, regs, mem, done, stop, before, calls>>

\* One element of compVecProd.
Product(t) ==
    /\ wpc[t] = "product"
    /\ IF regs[t].en /\ k[t] < regs[t].vlen
       THEN /\ regs' = [regs EXCEPT ![t].acc =
                  Mac(@, mem[Element(regs[t].rs, k[t])],
                         mem[Element(regs[t].rt, k[t])])]
            /\ k' = [k EXCEPT ![t] = @ + 1]
            /\ UNCHANGED wpc
       ELSE Goto(t, "done") /\ UNCHANGED <<regs, k>>
    /\ UNCHANGED <<pc, left, rest, mem, ready, done, stop, before, calls>>

SignalDone(t) == /\ wpc[t] = "done"
                 /\ done' = Up(done, t) /\ Goto(t, "top")
                 /\ UNCHANGED <<pc, left, rest, regs, mem, ready, stop, k, before, calls>>

-----------------------------------------------------------------------------

Worker(t) == TestStop(t) \/ WaitReady(t) \/ Product(t) \/ SignalDone(t)

\* The steps of a call that has begun; the client makes the others.
Caller == \/ StartThread \/ StopFlag \/ Wake \/ Join
          \/ Return \/ Simple \/ StartProd \/ SignalReady \/ WaitDone

MTNext == \/ Open \/ StartFails \/ Close \/ Call
          \/ Caller
          \/ \E t \in Threads : Worker(t)

MTSpec == MTInit /\ [][MTNext]_mtVars

-----------------------------------------------------------------------------

\* Whatever the workers do and in which order, the caller sees the program
\* executed command by command: a product is over, for every thread, before
\* the command behind it starts, and no worker touches a register afterwards.
ProdIsSequential == SEQ!SeqInit(InitialMemory) /\ [][SEQ!SeqNext]_(SEQ!seqVars)

\* Every call returns, the constructor, the destructor and execute: no signal
\* is lost between the caller and its workers, and none is left behind.
CallsReturn == pc \notin {"closed", "idle"} ~> pc \in {"closed", "idle"}
=============================================================================
