------------------------------ MODULE Programs ------------------------------
(***************************************************************************)
(* One program on its way through both checkers.  A program of any length  *)
(* is fed, command by command, to the checker of the emulator (sw), to the *)
(* checker of the kernel driver (kd) and, as patched by the driver, to the *)
(* registers of the threads (x).  It may end after any command; from then  *)
(* on its resources are rebound any number of times.                       *)
(*                                                                         *)
(* The registers start with what an earlier program left in them, and a    *)
(* value is only what is known about it: TRUE if it was computed from the  *)
(* commands and the resources of this program.  The memory is named by     *)
(* resource: <<r, i>> is element i of resource r, wherever it is bound,    *)
(* and resource -1 is whatever the earlier program pointed at.             *)
(***************************************************************************)
EXTENDS VxeInstr, FiniteSets, Sequences

CONSTANTS
    BufLen,             \* [buffer -> length]
    Bindings,           \* what a resource may be bound to: <<buffer, index>>
    NrRes,              \* the number of resources of the program
    MaxLen,             \* the longest vector, and the length left behind
    Menu,               \* the commands the program is made of
    Preludes            \* sequences of commands it may begin with

\* The commands that are fed.
Fed == Menu \cup UNION {{s[i] : i \in DOMAIN s} : s \in Preludes}

\* A command that sets a register names a thread; an enable bit is a bit, no
\* vector is longer than MaxLen, and a value that a command carries is known.
WellFormed(c) ==
    /\ c = Command(c.op, c.dst, c.arg)
    /\ c.op \in {"seten", "setacc", "setvl", "setrs", "setrt", "setrd"} => c.dst \in Threads
    /\ c.op = "seten" => c.arg \in {0, 1}
    /\ c.op = "setvl" => c.arg \in 0 .. MaxLen
    /\ c.op = "setacc" => c.arg = TRUE

ASSUME ProgramsAssumption ==
    /\ NrRes \in Nat /\ MaxLen \in Nat
    /\ BufLen \in [DOMAIN BufLen -> Nat]
    /\ Bindings \subseteq (DOMAIN BufLen) \X Nat
    /\ \A c \in Fed : WellFormed(c)
    /\ Preludes \subseteq Seq(Fed)

VARIABLES
    phase,              \* "check", or "run" when both made a command buffer
    kd, sw, x,          \* the two checkers, and registers with memory
    kres, sres,         \* the resources that the two command buffers keep
    reach,              \* how far the program goes into every resource
    first,              \* "none", "sure", "unsure": what the program begins with
    early,              \* an AF came before the enable bits were set
    todo                \* what is left of the prelude

progVars == <<phase, kd, sw, x, kres, sres, reach, first, early, todo>>

KD == INSTANCE KdProg
SW == INSTANCE SwEmuProg
EX == INSTANCE SwEmuExec WITH VpuMask <- Vpus,
                              Mac <- LAMBDA a, b, c : a /\ b /\ c,
                              Act <- LAMBDA f, a : a

Res == 0 .. NrRes - 1

\* The resource that a pointer left by an earlier program leads to.
Left == -1

InSymbols == [r \in Res |-> [data |-> r, index |-> 0]]

\* Every thread is left enabled: a disabled one does less.
LeftRegisters == [t \in Threads |->
    [en |-> TRUE, acc |-> FALSE, vlen |-> MaxLen,
     rs |-> <<Left, 0>>, rt |-> <<Left, 0>>, rd |-> <<Left, 0>>]]

Memory == [p \in (Res \cup {Left}) \X (0 .. MaxLen) |-> p[1] # Left]

Nothing == [r \in Res \cup {Left} |-> -1]

Machine == [regs |-> LeftRegisters, mem |-> Memory]

\* The empty program, bound to b.
Fresh(b, word) ==
    [kd |-> KD!ProgStateCreate([r \in Res |-> b[r][1]], [r \in Res |-> b[r][2]],
                               word),
     sw |-> SW!Reset([r \in Res |-> SW!Resource(b[r][1], b[r][2])], word)]

\* How far the command goes into each resource, with the registers as they are.
Touched(c) ==
    LET on == EX!Working(x.regs, c.dst)
        At(reg, len) == {<<x.regs[t][reg][1], len[t]>> : t \in on}
        vlen == [t \in Threads |-> x.regs[t].vlen]
    IN  CASE c.op = "prod" -> At("rs", vlen) \cup At("rt", vlen)
          [] c.op = "store" -> At("rd", [t \in Threads |-> 1])
          [] OTHER -> {}

Farther(c) ==
    [r \in DOMAIN reach |->
        LET n == {reach[r]} \cup {p[2] : p \in {q \in Touched(c) : q[1] = r}}
        IN  CHOOSE m \in n : \A k \in n : k <= m]

\* The threads of an AF whose enable bit this program has not set.
NotYetSet(c) == {t \in Threads : /\ c.op = "af"
                                 /\ t[1] \in Broadcast(c.dst)
                                 /\ kd.ts[t].en_st < 0}

\* Whether these apply it depends on a bit that an earlier program left.
Unsettled(c, y) ==
    [y EXCEPT !.regs = [t \in Threads |->
        IF t \in NotYetSet(c) THEN [y.regs[t] EXCEPT !.acc = FALSE] ELSE y.regs[t]]]

Silent == {"af", "nop"}

\* The next command goes to both checkers, and if the driver takes it, to the
\* registers.
Feed(c) ==
    /\ phase = "check" /\ kd.err # "EINVAL"
    /\ IF todo = << >> THEN todo' = todo ELSE c = Head(todo) /\ todo' = Tail(todo)
    /\ kd' = KD!Prepare(kd, c)
    /\ sw' = SW!PrepareProg(sw, c)
    /\ IF KD!Assembled(kd')
       THEN /\ x' = Unsettled(c, EX!Execute(x, KD!Patched(kd, c), InSymbols))
            /\ reach' = Farther(c)
       ELSE UNCHANGED <<x, reach>>
    /\ first' = IF first # "none" THEN first
                ELSE IF c.op \in Silent THEN "unsure" ELSE "sure"
    /\ early' = (early \/ NotYetSet(c) # {})
    /\ UNCHANGED <<phase, kres, sres>>

\* The program ends here, and both drivers have taken it.
Create ==
    /\ phase = "check" /\ KD!Assembled(kd) /\ SW!Prepared(sw)
    /\ phase' = "run"
    /\ kres' = [bufs |-> kd.bufs, vlens |-> kd.vlens, addrs |-> kd.addrs]
    /\ sres' = sw.res
    /\ kd' = Fresh([r \in Res |-> <<kd.bufs[r], kd.indexes[r]>>], "ok").kd
    /\ sw' = SW!Reset(sw.res, "ok")
    /\ x' = Machine /\ todo' = << >>
    /\ UNCHANGED <<reach, first, early>>

\* The same command buffer gets new bindings; each driver may refuse them.
Rebind(b) ==
    LET bufs == [r \in Res |-> b[r][1]]
        indexes == [r \in Res |-> b[r][2]]
    IN  /\ phase = "run"
        /\ kres' = IF KD!SwapRefused(kres, bufs, indexes) THEN kres
                   ELSE KD!SwapRes(kres, bufs, indexes)
        /\ sres' = IF SW!UpdateRefused(sres, bufs, indexes) THEN sres
                   ELSE SW!Update(sres, bufs, indexes)
        /\ UNCHANGED <<phase, kd, sw, x, reach, first, early, todo>>

NoBuffer == [bufs |-> << >>, vlens |-> << >>, addrs |-> << >>]

ProgInit == \E b \in [Res -> Bindings], word \in {"ok", "garbage"},
               p \in Preludes :
    /\ phase = "check"
    /\ kd = Fresh(b, word).kd /\ sw = Fresh(b, word).sw
    /\ x = Machine
    /\ kres = NoBuffer /\ sres = << >>
    /\ reach = Nothing /\ first = "none" /\ early = FALSE
    /\ todo = p

ProgNext == \/ \E c \in Menu \cup {todo[i] : i \in DOMAIN todo} : Feed(c)
            \/ Create
            \/ \E b \in [Res -> Bindings] : Rebind(b)

ProgSpec == ProgInit /\ [][ProgNext]_progVars

-----------------------------------------------------------------------------

\* The driver keeps the length of the last PROD of a resource, not of the
\* longest one: an update verifies no more than that.
Shrunk(r) == reach[r] > kres.vlens[r]

InBounds(addr, buf, len) == addr[1] = buf /\ addr[2] + len <= BufLen[buf]

\* A program that the driver has taken so far reads and writes only inside the
\* buffers that its resources are bound to, through the addresses the driver
\* has put into its commands, and follows no address that an earlier program
\* left in a register.  This stays so when the bindings are exchanged, for
\* every resource whose longest vector is also the last one it was used with.
CheckedInBounds ==
    /\ kd.err # "EINVAL" => reach[Left] < 0
    /\ kd.err # "EINVAL" /\ phase = "check" =>
           \A r \in Res : reach[r] >= 0 =>
               InBounds(kd.addrs[r], kd.bufs[r], reach[r])
    /\ phase = "run" =>
           \A r \in Res : reach[r] >= 0 =>
               \/ InBounds(kres.addrs[r], kres.bufs[r], reach[r])
               \/ Shrunk(r)

\* The emulator and the kernel driver, two programs written apart, take the
\* same programs and the same updates, expect the same lengths, and have every
\* used resource at the same place.  Left out are programs that are empty or
\* begin with AF or NOP: the emulator judges these by an unassigned variable.
VerdictsAgree ==
    /\ phase = "check" /\ first = "sure" =>
           /\ KD!Assembled(kd) <=> SW!Prepared(sw)
           /\ KD!Assembled(kd) =>
                  \A r \in Res : kd.vlens[r] = sw.res[r].vlen
    /\ phase = "run" =>
           \A r \in Res : kres.vlens[r] >= 0 =>
               kres.addrs[r] = <<sres[r].data, sres[r].index>>

\* No value that a checked program stores depends on what an earlier program
\* left in the registers, unless an AF came before the enable bits were set:
\* the checkers ask nothing of AF.
ResultIsOwn ==
    kd.err # "EINVAL" /\ ~early =>
        \A p \in DOMAIN x.mem : p[1] # Left => x.mem[p]
=============================================================================
