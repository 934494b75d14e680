------------------------------ MODULE SwEmuSeq ------------------------------
(***************************************************************************)
(* What the executor of the emulator promises: the commands of a program   *)
(* take effect one at a time, in their order, a vector product for all     *)
(* threads at once, as execPROD_ST (swemu_exec.cxx) does it on one thread. *)
(***************************************************************************)
EXTENDS SwEmuExec, Sequences

CONSTANT Program        \* the programs that run

VARIABLES rest, regs, mem

seqVars == <<rest, regs, mem>>

Clear == [t \in Threads |->
    [en |-> FALSE, acc |-> 0, vlen |-> 0, rs |-> <<"null", 0>>,
     rt |-> <<"null", 0>>, rd |-> <<"null", 0>>]]

SeqInit(memory) == rest = << >> /\ regs = Clear /\ mem = memory

\* The number of a resource of these programs is a pointer already.
AsIs(c) == [ptr \in {c.arg} |-> [data |-> ptr[1], index |-> ptr[2]]]

Take == /\ rest = << >> /\ rest' \in Program
        /\ UNCHANGED <<regs, mem>>

Exec == /\ rest # << >>
        /\ LET c == Head(rest)
               x == Execute([regs |-> regs, mem |-> mem], c, AsIs(c))
           IN  regs' = x.regs /\ mem' = x.mem
        /\ rest' = Tail(rest)

\* A new executor.
Renew == /\ rest = << >> /\ regs' = Clear
         /\ UNCHANGED <<rest, mem>>

SeqNext == Take \/ Exec \/ Renew
=============================================================================
