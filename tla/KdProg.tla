------------------------------- MODULE KdProg -------------------------------
(***************************************************************************)
(* The program checker of the kernel driver (sw/kd/vxe_prog.c): what       *)
(* vxe_prog_assemble learns from a program command by command, the address *)
(* it puts into each command that names a resource, and what               *)
(* vxe_prog_swap_res does with new buffers.  A resource is a number; its   *)
(* patched command is the field addrs, so that cmdixs needs no state.      *)
(***************************************************************************)
EXTENDS VxeInstr

CONSTANT BufLen     \* the length of every buffer, in elements

Unset == [idx |-> -1, len |-> 0]
NoAddr == <<"none", 0>>

\* The word is what prog_prepare finds in err, which it does not initialise.
ProgStateCreate(bufs, indexes, word) ==
    [ts |-> [t \in Threads |-> [en_st |-> -1, a_set |-> FALSE, vlen |-> -1,
                                rs |-> Unset, rt |-> Unset, rd |-> Unset]],
     curres |-> 0,
     bufs |-> bufs,
     indexes |-> indexes,
     vlens |-> [r \in DOMAIN bufs |-> -1],
     addrs |-> [r \in DOMAIN bufs |-> NoAddr],
     err |-> word]

Reject(p) == [p EXCEPT !.err = "EINVAL"]

\* Mutant: the index is not taken off the length.
SetOperandWhole(p, t, reg) ==
    LET ri == p.curres
        blen == BufLen[p.bufs[ri]]
        idx == p.indexes[ri]
    IN  IF ri \notin DOMAIN p.bufs \/ idx > blen THEN Reject(p)
        ELSE [p EXCEPT !.curres = ri + 1,
                       !.ts[t][reg] = [idx |-> ri, len |-> blen],
                       !.addrs[ri] = <<p.bufs[ri], idx>>]

SetOperand(p, t, reg) ==
    LET ri == p.curres
        blen == BufLen[p.bufs[ri]]
        idx == p.indexes[ri]
    IN  IF ri \notin DOMAIN p.bufs THEN Reject(p)
        ELSE IF idx > blen THEN Reject(p)
        ELSE [p EXCEPT !.curres = ri + 1,
                       !.ts[t][reg] = [idx |-> ri, len |-> blen - idx],
                       !.addrs[ri] = <<p.bufs[ri], idx>>]

\* The command with its address, that is, with the resource the address is of.
Patched(p, c) == IF c.op \in {"setrs", "setrt", "setrd"}
                 THEN [c EXCEPT !.arg = p.curres] ELSE c

ThreadsOf(vpus) == {t \in Threads : t[1] \in vpus}

OperandsFit(s) == /\ s.a_set
                  /\ s.rs.idx >= 0 /\ s.rt.idx >= 0
                  /\ s.vlen >= 0
                  /\ s.rs.len >= s.vlen /\ s.rt.len >= s.vlen

VerifProd(p, vpus) ==
    LET enabled == {t \in ThreadsOf(vpus) : p.ts[t].en_st = 1}
        Readers(r) == {t \in enabled : r \in {p.ts[t].rs.idx, p.ts[t].rt.idx}}
    IN  IF \/ \E t \in ThreadsOf(vpus) : p.ts[t].en_st < 0
           \/ \E t \in enabled : ~OperandsFit(p.ts[t])
        THEN Reject(p)
        ELSE [p EXCEPT !.vlens = [r \in DOMAIN @ |->
                 IF Readers(r) = {} THEN @[r]
                 ELSE p.ts[CHOOSE t \in Readers(r) : TRUE].vlen]]

\* Mutant: nobody asks for the accumulator.
DestFitsAnyAcc(s) == s.rd.idx >= 0 /\ s.rd.len # 0

DestFits(s) == s.a_set /\ s.rd.idx >= 0 /\ s.rd.len # 0

VerifStore(p, vpus) ==
    LET enabled == {t \in ThreadsOf(vpus) : p.ts[t].en_st = 1}
    IN  IF \/ \E t \in ThreadsOf(vpus) : p.ts[t].en_st < 0
           \/ \E t \in enabled : ~DestFits(p.ts[t])
        THEN Reject(p)
        ELSE [p EXCEPT !.vlens = [r \in DOMAIN @ |->
                 IF \E t \in enabled : p.ts[t].rd.idx = r THEN 1 ELSE @[r]]]

Handle(p, c) ==
    CASE c.op = "setacc" -> [p EXCEPT !.ts[c.dst].a_set = TRUE]
      [] c.op = "setvl" -> [p EXCEPT !.ts[c.dst].vlen = c.arg]
      [] c.op = "seten" -> [p EXCEPT !.ts[c.dst].en_st = c.arg]
      [] c.op = "setrs" -> SetOperand(p, c.dst, "rs")
      [] c.op = "setrt" -> SetOperand(p, c.dst, "rt")
      [] c.op = "setrd" -> SetOperand(p, c.dst, "rd")
      [] c.op = "prod" -> VerifProd(p, Broadcast(c.dst))
      [] c.op = "store" -> VerifStore(p, Broadcast(c.dst))
      [] c.op = "sync" -> IF c.arg # {} THEN Reject(p) ELSE p
      [] c.op \in {"af", "nop"} -> p
      [] OTHER -> Reject(p)

\* One round of the loop: err is cleared, and an error leaves the loop.
Prepare(p, c) == IF p.err = "EINVAL" THEN p
                 ELSE Handle([p EXCEPT !.err = "ok"], c)

Assembled(p) == p.err = "ok"

\* The indexes and sizes of all used resources are verified first.
SwapRefused(p, bufs, indexes) ==
    \E r \in DOMAIN p.vlens :
        /\ p.vlens[r] >= 0
        /\ \/ indexes[r] > BufLen[bufs[r]]
           \/ BufLen[bufs[r]] - indexes[r] < p.vlens[r]

SwapRes(p, bufs, indexes) ==
    [p EXCEPT !.bufs = bufs,
              !.addrs = [r \in DOMAIN @ |->
                  IF p.vlens[r] < 0 THEN @[r] ELSE <<bufs[r], indexes[r]>>]]
=============================================================================
