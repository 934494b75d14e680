----------------------------- MODULE UdCodegen ------------------------------
(***************************************************************************)
(* The code generator of the user driver (sw/ud/src/codegen.cxx): it hands *)
(* out the threads of the enabled VPUs one by one, remembers which of them *)
(* the program has enabled so far, and collects the bindings in the order  *)
(* in which its commands name them.                                        *)
(***************************************************************************)
EXTENDS VxeInstr, SequencesExt

\* The threads of the VPUs, in the order of the two nested loops.
InOrder(vpus) == SetToSortSeq({t \in Threads : t[1] \in vpus},
    LAMBDA s, t : NrThr * s[1] + s[2] < NrThr * t[1] + t[2])

CodeGenerator(vpus, vpuMask) ==
    LET threads == InOrder(vpus \cap vpuMask)
    IN  [inactive |-> InOrder(vpus \ vpuMask),
         threads |-> threads,
         en |-> [i \in DOMAIN threads |-> -1],
         curThread |-> 0,
         program |-> << >>,
         bindings |-> << >>]

Emit(cg, cmds) == [cg EXCEPT !.program = @ \o cmds]

\* Threads of the VPUs that the mask leaves out must be explicitly disabled.
Prepare(cg) == Emit(cg, [i \in DOMAIN cg.inactive |-> SETEN(cg.inactive[i], 0)])

AvailThreads(cg) == Len(cg.threads) - cg.curThread

\* A row is one product: the accumulator, three bindings and the length.
\* With no thread left nothing happens.
AllocThread(cg, row) ==
    LET n == cg.curThread + 1
        t == cg.threads[n]
        enable == IF cg.en[n] # 1 THEN <<SETEN(t, 1)>> ELSE << >>
    IN  IF AvailThreads(cg) = 0 THEN cg
        ELSE [Emit(cg, enable \o <<SETACC(t, row.acc), SETRS(t), SETRT(t),
                                   SETRD(t), SETVL(t, row.len)>>)
              EXCEPT !.curThread = n, !.en[n] = 1,
                     !.bindings = @ \o <<row.rs, row.rt, row.rd>>]

\* Mutant: only threads whose bit was never set are disabled.
FinalizeUnset(cg) ==
    LET idle == {n \in DOMAIN cg.threads : n > cg.curThread /\ cg.en[n] < 0}
        order == SetToSortSeq(idle, <)
    IN  [Emit(cg, [i \in DOMAIN order |-> SETEN(cg.threads[order[i]], 0)])
         EXCEPT !.curThread = 0,
                !.en = [n \in DOMAIN @ |-> IF n \in idle THEN 0 ELSE @[n]]]

\* The threads that got no work in this batch are disabled, unless they are.
Finalize(cg) ==
    LET idle == {n \in DOMAIN cg.threads : n > cg.curThread /\ cg.en[n] # 0}
        order == SetToSortSeq(idle, <)
    IN  [Emit(cg, [i \in DOMAIN order |-> SETEN(cg.threads[order[i]], 0)])
         EXCEPT !.curThread = 0,
                !.en = [n \in DOMAIN @ |-> IF n \in idle THEN 0 ELSE @[n]]]

=============================================================================
