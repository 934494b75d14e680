----------------------------- MODULE SwEmuExec ------------------------------
(***************************************************************************)
(* The program executor of the software emulator                           *)
(* (sw/ud/src/backend/swemu/swemu_exec.cxx): what one command does to the  *)
(* registers of the threads and to the memory.  A pointer is <<buffer,     *)
(* element>>.  The arithmetic is a parameter, so that a value can be a     *)
(* number or what is known about one.                                      *)
(***************************************************************************)
EXTENDS VxeInstr

CONSTANTS
    VpuMask,            \* the VPUs that take part
    Mac(_, _, _),       \* an accumulator after a multiplication is added
    Act(_, _)           \* an accumulator after an activation function

\* Only threads of enabled VPUs, and of these only the enabled threads, take
\* part in PROD, STORE and ACTF.
Working(regs, dst) == {t \in Threads : /\ t[1] \in Broadcast(dst) \cap VpuMask
                                       /\ regs[t].en}

Element(ptr, i) == <<ptr[1], ptr[2] + i>>

\* The accumulator after so many elements.
PartialProd(s, mem) ==
    LET sum[n \in 0 .. s.vlen] ==
            IF n = 0 THEN s.acc
            ELSE Mac(sum[n - 1], mem[Element(s.rs, n - 1)], mem[Element(s.rt, n - 1)])
    IN  sum

VecProd(s, mem) == PartialProd(s, mem)[s.vlen]

\* Loops over the threads go by VPU, then by thread.
Before(s, t) == s[1] < t[1] \/ (s[1] = t[1] /\ s[2] < t[2])

FirstOf(threads) == CHOOSE t \in threads : \A u \in threads : ~Before(u, t)
LastOf(threads) == CHOOSE t \in threads : \A u \in threads : ~Before(t, u)

\* x is the registers and the memory; res gives data and index of a resource.
Set(x, t, reg, value) ==
    IF t[1] \in VpuMask THEN [x EXCEPT !.regs[t][reg] = value] ELSE x

Pointer(res, c) == <<res[c.arg].data, res[c.arg].index>>

Prod(x, dst) ==
    [x EXCEPT !.regs = [t \in Threads |->
        IF t \in Working(x.regs, dst)
        THEN [x.regs[t] EXCEPT !.acc = VecProd(x.regs[t], x.mem)]
        ELSE x.regs[t]]]

\* The threads store one after the other: the last one wins.
Store(x, dst) ==
    LET Writers(ptr) == {t \in Working(x.regs, dst) : x.regs[t].rd = ptr}
    IN  [x EXCEPT !.mem = [ptr \in DOMAIN @ |->
            IF Writers(ptr) = {} THEN @[ptr] ELSE x.regs[LastOf(Writers(ptr))].acc]]

Actf(x, dst, af) ==
    [x EXCEPT !.regs = [t \in Threads |->
        IF t \in Working(x.regs, dst)
        THEN [x.regs[t] EXCEPT !.acc = Act(af, @)]
        ELSE x.regs[t]]]

Execute(x, c, res) ==
    CASE c.op = "seten" -> Set(x, c.dst, "en", c.arg = 1)
      [] c.op = "setacc" -> Set(x, c.dst, "acc", c.arg)
      [] c.op = "setvl" -> Set(x, c.dst, "vlen", c.arg)
      [] c.op = "setrs" -> Set(x, c.dst, "rs", Pointer(res, c))
      [] c.op = "setrt" -> Set(x, c.dst, "rt", Pointer(res, c))
      [] c.op = "setrd" -> Set(x, c.dst, "rd", Pointer(res, c))
      [] c.op = "prod" -> Prod(x, c.dst)
      [] c.op = "store" -> Store(x, c.dst)
      [] c.op = "af" -> Actf(x, c.dst, c.arg)
      [] OTHER -> x
=============================================================================
