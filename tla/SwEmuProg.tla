----------------------------- MODULE SwEmuProg ------------------------------
(***************************************************************************)
(* The program checker of the software emulator                            *)
(* (sw/ud/src/backend/swemu/swemu_prog.cxx, class ProgramAssembler) and    *)
(* the exchange of resources in cmdBufferUpdate (swemu_backend.cxx).  The  *)
(* command buffer keeps an array of records R; a command that names a      *)
(* resource is patched with its number.                                    *)
(***************************************************************************)
EXTENDS VxeInstr

CONSTANT BufLen

\* struct R as cmdBufferCreate fills it.
Resource(data, index) == [data |-> data, index |-> index, vlen |-> -1]

\* The word is what prepareProg finds in err, which it does not initialise.
Reset(res, word) ==
    [threads |-> [t \in Threads |->
        [en_st |-> -1, a_set |-> 0, rs_idx |-> -1, rs_len |-> 0,
         rt_idx |-> -1, rt_len |-> 0, rd_idx |-> -1, rd_len |-> 0,
         vlen |-> -1]],
     currentRes |-> 0,
     res |-> res,
     err |-> word]

Error(a) == [a EXCEPT !.err = "EINVAL"]
Done(a) == [a EXCEPT !.err = "ok"]

\* Mutant: an index at the end of the buffer is refused.
OperandStrict(a, t, idx, len) ==
    LET ri == a.currentRes
        r == a.res[ri]
    IN  IF ri \notin DOMAIN a.res THEN Error(a)
        ELSE IF r.index >= BufLen[r.data] THEN Error(a)
        ELSE [Done(a) EXCEPT !.currentRes = @ + 1,
                             !.threads[t][idx] = ri,
                             !.threads[t][len] = BufLen[r.data] - r.index]

Operand(a, t, idx, len) ==
    LET ri == a.currentRes
        r == a.res[ri]
    IN  IF ri \notin DOMAIN a.res THEN Error(a)
        ELSE IF r.index > BufLen[r.data] THEN Error(a)
        ELSE [Done(a) EXCEPT !.currentRes = @ + 1,
                             !.threads[t][idx] = ri,
                             !.threads[t][len] = BufLen[r.data] - r.index]

\* The command as the executor will see it: with the number of its resource.
Patched(a, c) == IF c.op \in {"setrs", "setrt", "setrd"}
                 THEN [c EXCEPT !.arg = a.currentRes] ELSE c

Smaller(x, y) == IF x < y THEN x ELSE y

\* The thread passes if it is disabled, or enabled with all that Needs asks.
Passes(s, Needs(_)) == s.en_st = 0 \/ (s.en_st = 1 /\ Needs(s))

ProdNeeds(s) == /\ s.a_set = 1 /\ s.rs_idx >= 0 /\ s.rt_idx >= 0
                /\ s.vlen >= 0
                /\ Smaller(s.rs_len, s.rt_len) >= s.vlen

StoreNeeds(s) == s.a_set = 1 /\ s.rd_idx >= 0 /\ s.rd_len # 0

\* Every enabled thread of the VPUs leaves a length at its resources.
Record(a, on, Of(_), Length(_)) ==
    [Done(a) EXCEPT !.res = [r \in DOMAIN @ |->
        LET users == {t \in on : r \in Of(a.threads[t])}
        IN  IF users = {} THEN @[r]
            ELSE [@[r] EXCEPT !.vlen =
                     Length(a.threads[CHOOSE t \in users : TRUE])]]]

Verif(a, dst, Needs(_), Of(_), Length(_)) ==
    LET ts == {t \in Threads : t[1] \in Broadcast(dst)}
    IN  IF \A t \in ts : Passes(a.threads[t], Needs)
        THEN Record(a, {t \in ts : a.threads[t].en_st = 1}, Of, Length)
        ELSE Error(a)

PrepPROD(a, dst) == Verif(a, dst, ProdNeeds,
                          LAMBDA s : {s.rs_idx, s.rt_idx}, LAMBDA s : s.vlen)

PrepSTORE(a, dst) == Verif(a, dst, StoreNeeds,
                           LAMBDA s : {s.rd_idx}, LAMBDA s : 1)

\* One round of prepareProg.  AF and NOP do not assign err, so that the test
\* after the switch sees the word that was there.
PrepareProg(a, c) ==
    IF a.err = "EINVAL" THEN a
    ELSE CASE c.op = "setacc" -> [Done(a) EXCEPT !.threads[c.dst].a_set = 1]
           [] c.op = "setvl" -> [Done(a) EXCEPT !.threads[c.dst].vlen = c.arg]
           [] c.op = "setrs" -> Operand(a, c.dst, "rs_idx", "rs_len")
           [] c.op = "setrt" -> Operand(a, c.dst, "rt_idx", "rt_len")
           [] c.op = "setrd" -> Operand(a, c.dst, "rd_idx", "rd_len")
           [] c.op = "seten" -> [Done(a) EXCEPT !.threads[c.dst].en_st = c.arg]
           [] c.op = "prod" -> PrepPROD(a, c.dst)
           [] c.op = "store" -> PrepSTORE(a, c.dst)
           [] c.op = "sync" -> IF c.arg # {} THEN Error(a) ELSE Done(a)
           [] c.op \in {"af", "nop"} -> IF a.err = "ok" THEN a ELSE Error(a)
           [] OTHER -> Error(a)

Prepared(a) == a.err = "ok"

UpdateRefused(res, data, index) ==
    \E i \in DOMAIN res :
        /\ res[i].vlen >= 0
        /\ \/ index[i] > BufLen[data[i]]
           \/ BufLen[data[i]] - index[i] < res[i].vlen

\* Resources that the program does not use keep their buffer.
Update(res, data, index) ==
    [i \in DOMAIN res |-> IF res[i].vlen < 0 THEN res[i]
                          ELSE [res[i] EXCEPT !.data = data[i],
                                              !.index = index[i]]]
=============================================================================
