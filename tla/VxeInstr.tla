------------------------------ MODULE VxeInstr ------------------------------
(***************************************************************************)
(* The commands of a program, as the fields that the checkers, the         *)
(* emulator and the code generator tell apart                              *)
(* (sw/ud/workaround/vxe_instr.hxx).  A destination is <<VPU, thread>>; in *)
(* a command for whole VPUs the thread field says: all VPUs, or this one.  *)
(***************************************************************************)
EXTENDS Integers

CONSTANTS NrVpu, NrThr

ASSUME InstrAssumption == /\ NrVpu \in Nat \ {0}
                          /\ NrThr \in Nat /\ NrThr >= 2

Vpus == 0 .. NrVpu - 1
Threads == Vpus \X (0 .. NrThr - 1)

Command(op, dst, arg) == [op |-> op, dst |-> dst, arg |-> arg]

AllVpus == <<0, 0>>
OneVpu(vpu) == <<vpu, 1>>

\* The VPUs that a command which can broadcast is for.
Broadcast(dst) == IF dst[2] = 0 THEN Vpus ELSE {dst[1]}

SETEN(t, en) == Command("seten", t, en)
SETACC(t, acc) == Command("setacc", t, acc)
SETVL(t, len) == Command("setvl", t, len)
SETRS(t) == Command("setrs", t, 0)
SETRT(t) == Command("setrt", t, 0)
SETRD(t) == Command("setrd", t, 0)
PROD(dst) == Command("prod", dst, 0)
STORE(dst) == Command("store", dst, 0)
ACTF(dst, af) == Command("af", dst, af)
SYNC(flags) == Command("sync", AllVpus, flags)
NOP == Command("nop", AllVpus, 0)
=============================================================================
