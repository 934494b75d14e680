-------------------------- MODULE UserDriverProofs --------------------------
(***************************************************************************)
(* Proofs about the two models that MCUserDriver joins.                    *)
(*                                                                         *)
(* Programs: the two checkers agree, and what the checker of the kernel    *)
(* driver has taken stays inside the buffers.  The first part writes the   *)
(* effect of every command on either checker as one record.  The second    *)
(* follows three invariants: Agreed says what the checkers have in common, *)
(* Placed where the used resources are, and Tracked that what the driver   *)
(* knows of a thread is in its registers.                                  *)
(*                                                                         *)
(* SwEmuBackend, in the last part: the tables of the emulator, for any     *)
(* size of the table and any number of resources.                          *)
(***************************************************************************)
EXTENDS Programs, SwEmuBackend, LeastNumbers, FiniteSetTheorems, SequenceTheorems

Buffers == DOMAIN BufLen
Errors == {"ok", "garbage", "EINVAL"}
Setters == {"seten", "setacc", "setvl"}
Operands == {"setrs", "setrt", "setrd"}
Verifying == {"prod", "store"}

LEMMA Names ==
    /\ KD!Threads = Threads /\ SW!Threads = Threads /\ EX!Threads = Threads
    /\ \A d : /\ KD!Broadcast(d) = Broadcast(d) /\ SW!Broadcast(d) = Broadcast(d)
              /\ EX!Broadcast(d) = Broadcast(d)
BY DEF KD!Threads, SW!Threads, EX!Threads, Threads, KD!Vpus, SW!Vpus, EX!Vpus, Vpus,
       KD!Broadcast, SW!Broadcast, EX!Broadcast, Broadcast

-----------------------------------------------------------------------------
(* The checker of the kernel driver.                                       *)

KdReg == [idx : Int, len : Int]
KdThread == [en_st : {-1, 0, 1}, a_set : BOOLEAN, vlen : Int,
             rs : KdReg, rt : KdReg, rd : KdReg]
KdAddr == (Buffers \X Nat) \cup {KD!NoAddr}
KdState == [ts : [Threads -> KdThread], curres : Nat,
            bufs : [Res -> Buffers], indexes : [Res -> Nat], vlens : [Res -> Int],
            addrs : [Res -> KdAddr], err : Errors]

\* p with new values in the fields that a command may change.
KdRec(p, ts, curres, vlens, addrs, err) ==
    [ts |-> ts, curres |-> curres, bufs |-> p.bufs, indexes |-> p.indexes,
     vlens |-> vlens, addrs |-> addrs, err |-> err]

KdOk(p) == [p EXCEPT !.err = "ok"]
KdBad(p) == KdRec(p, p.ts, p.curres, p.vlens, p.addrs, "EINVAL")
KdTs(p, ts) == KdRec(p, ts, p.curres, p.vlens, p.addrs, "ok")

LEMMA KdHandles ==
    ASSUME NEW p, NEW c, p.err # "EINVAL"
    PROVE  LET q == KdOk(p) IN
      /\ c.op = "setacc" => KD!Prepare(p, c) = [q EXCEPT !.ts = [q.ts EXCEPT ![c.dst] = [q.ts[c.dst] EXCEPT !.a_set = TRUE]]]
      /\ c.op = "setvl" => KD!Prepare(p, c) = [q EXCEPT !.ts = [q.ts EXCEPT ![c.dst] = [q.ts[c.dst] EXCEPT !.vlen = c.arg]]]
      /\ c.op = "seten" => KD!Prepare(p, c) = [q EXCEPT !.ts = [q.ts EXCEPT ![c.dst] = [q.ts[c.dst] EXCEPT !.en_st = c.arg]]]
      /\ c.op = "setrs" => KD!Prepare(p, c) = KD!SetOperand(q, c.dst, "rs")
      /\ c.op = "setrt" => KD!Prepare(p, c) = KD!SetOperand(q, c.dst, "rt")
      /\ c.op = "setrd" => KD!Prepare(p, c) = KD!SetOperand(q, c.dst, "rd")
      /\ c.op = "prod" => KD!Prepare(p, c) = KD!VerifProd(q, Broadcast(c.dst))
      /\ c.op = "store" => KD!Prepare(p, c) = KD!VerifStore(q, Broadcast(c.dst))
      /\ c.op = "sync" => KD!Prepare(p, c) = IF c.arg # {} THEN KD!Reject(q) ELSE q
      /\ c.op \in Silent => KD!Prepare(p, c) = q
      /\ c.op \notin Setters \cup Operands \cup Verifying \cup Silent \cup {"sync"} =>
             KD!Prepare(p, c) = KD!Reject(q)
BY Names DEF KD!Prepare, KD!Handle, KdOk, Silent, Setters, Operands, Verifying

LEMMA KdFields ==
    ASSUME NEW p, NEW ts, NEW curres, NEW vlens, NEW addrs, NEW err, NEW v
    PROVE  LET q == KdRec(p, ts, curres, vlens, addrs, err)
           IN  /\ [q EXCEPT !.ts = v] = KdRec(p, v, curres, vlens, addrs, err)
               /\ [q EXCEPT !.curres = v] = KdRec(p, ts, v, vlens, addrs, err)
               /\ [q EXCEPT !.vlens = v] = KdRec(p, ts, curres, v, addrs, err)
               /\ [q EXCEPT !.addrs = v] = KdRec(p, ts, curres, vlens, v, err)
               /\ [q EXCEPT !.err = v] = KdRec(p, ts, curres, vlens, addrs, v)
               /\ q.ts = ts /\ q.curres = curres /\ q.bufs = p.bufs
               /\ q.indexes = p.indexes /\ q.vlens = vlens /\ q.addrs = addrs
               /\ q.err = err
BY DEF KdRec

LEMMA KdOkIs ==
    ASSUME NEW p \in KdState
    PROVE  /\ KdOk(p) = KdTs(p, p.ts)
           /\ KD!Reject(KdOk(p)) = KdBad(p)
<1>1. KdOk(p) = KdTs(p, p.ts)  BY DEF KdOk, KdTs, KdRec, KdState
<1> QED  BY <1>1, KdFields DEF KD!Reject, KdBad, KdTs

\* The thread d gets a new state.
KdSet(p, d, s) == KdTs(p, [p.ts EXCEPT ![d] = s])

LEMMA KdSetters ==
    ASSUME NEW p \in KdState, p.err # "EINVAL", NEW c
    PROVE  /\ c.op = "setacc" => KD!Prepare(p, c) = KdSet(p, c.dst, [p.ts[c.dst] EXCEPT !.a_set = TRUE])
           /\ c.op = "setvl" => KD!Prepare(p, c) = KdSet(p, c.dst, [p.ts[c.dst] EXCEPT !.vlen = c.arg])
           /\ c.op = "seten" => KD!Prepare(p, c) = KdSet(p, c.dst, [p.ts[c.dst] EXCEPT !.en_st = c.arg])
           /\ c.op \in Silent => KD!Prepare(p, c) = KdTs(p, p.ts)
           /\ c.op = "sync" => KD!Prepare(p, c) = IF c.arg # {} THEN KdBad(p) ELSE KdTs(p, p.ts)
           /\ c.op \notin Setters \cup Operands \cup Verifying \cup Silent \cup {"sync"} =>
                  KD!Prepare(p, c) = KdBad(p)
<1>1. /\ KdOk(p).ts = p.ts
      /\ \A v : [KdOk(p) EXCEPT !.ts = v] = KdTs(p, v)
  <2> DEFINE q == KdRec(p, p.ts, p.curres, p.vlens, p.addrs, "ok")
  <2>1. KdOk(p) = q  BY KdOkIs DEF KdTs
  <2>2. q.ts = p.ts  BY KdFields
  <2>3. \A v : [q EXCEPT !.ts = v] = KdTs(p, v)  BY KdFields DEF KdTs
  <2> HIDE DEF q
  <2> QED  BY <2>1, <2>2, <2>3
<1>2. /\ c.op = "setacc" => KD!Prepare(p, c) = KdSet(p, c.dst, [p.ts[c.dst] EXCEPT !.a_set = TRUE])
      /\ c.op = "setvl" => KD!Prepare(p, c) = KdSet(p, c.dst, [p.ts[c.dst] EXCEPT !.vlen = c.arg])
      /\ c.op = "seten" => KD!Prepare(p, c) = KdSet(p, c.dst, [p.ts[c.dst] EXCEPT !.en_st = c.arg])
  <2> DEFINE q == KdOk(p)
  <2>1. \A s : [q EXCEPT !.ts = [q.ts EXCEPT ![c.dst] = s]] = KdSet(p, c.dst, s)
    BY <1>1 DEF KdSet
  <2>2. q.ts[c.dst] = p.ts[c.dst]  BY <1>1
  <2>3. c.op = "setacc" => KD!Prepare(p, c) = KdSet(p, c.dst, [p.ts[c.dst] EXCEPT !.a_set = TRUE])
    <3> DEFINE s == [q.ts[c.dst] EXCEPT !.a_set = TRUE]
    <3>1. c.op = "setacc" => KD!Prepare(p, c) = [q EXCEPT !.ts = [q.ts EXCEPT ![c.dst] = s]]
      BY KdHandles
    <3>2. s = [p.ts[c.dst] EXCEPT !.a_set = TRUE]  BY <2>2
    <3>3. [q EXCEPT !.ts = [q.ts EXCEPT ![c.dst] = s]] = KdSet(p, c.dst, s)
      <4> HIDE DEF q, s
      <4> QED  BY <2>1
    <3> HIDE DEF q, s
    <3> QED  BY <3>1, <3>2, <3>3
  <2>4. c.op = "setvl" => KD!Prepare(p, c) = KdSet(p, c.dst, [p.ts[c.dst] EXCEPT !.vlen = c.arg])
    <3> DEFINE s == [q.ts[c.dst] EXCEPT !.vlen = c.arg]
    <3>1. c.op = "setvl" => KD!Prepare(p, c) = [q EXCEPT !.ts = [q.ts EXCEPT ![c.dst] = s]]
      BY KdHandles
    <3>2. s = [p.ts[c.dst] EXCEPT !.vlen = c.arg]  BY <2>2
    <3>3. [q EXCEPT !.ts = [q.ts EXCEPT ![c.dst] = s]] = KdSet(p, c.dst, s)
      <4> HIDE DEF q, s
      <4> QED  BY <2>1
    <3> HIDE DEF q, s
    <3> QED  BY <3>1, <3>2, <3>3
  <2>5. c.op = "seten" => KD!Prepare(p, c) = KdSet(p, c.dst, [p.ts[c.dst] EXCEPT !.en_st = c.arg])
    <3> DEFINE s == [q.ts[c.dst] EXCEPT !.en_st = c.arg]
    <3>1. c.op = "seten" => KD!Prepare(p, c) = [q EXCEPT !.ts = [q.ts EXCEPT ![c.dst] = s]]
      BY KdHandles
    <3>2. s = [p.ts[c.dst] EXCEPT !.en_st = c.arg]  BY <2>2
    <3>3. [q EXCEPT !.ts = [q.ts EXCEPT ![c.dst] = s]] = KdSet(p, c.dst, s)
      <4> HIDE DEF q, s
      <4> QED  BY <2>1
    <3> HIDE DEF q, s
    <3> QED  BY <3>1, <3>2, <3>3
  <2> QED  BY <2>3, <2>4, <2>5
<1>3. c.op \in Silent => KD!Prepare(p, c) = KdTs(p, p.ts)
  BY KdHandles, KdOkIs
<1>4. c.op = "sync" => KD!Prepare(p, c) = IF c.arg # {} THEN KdBad(p) ELSE KdTs(p, p.ts)
  BY KdHandles, KdOkIs
<1>5. c.op \notin Setters \cup Operands \cup Verifying \cup Silent \cup {"sync"} =>
          KD!Prepare(p, c) = KdBad(p)
  BY KdHandles, KdOkIs
<1> QED  BY <1>2, <1>3, <1>4, <1>5

\* The resource that p takes next, as an operand.
KdOperand(p) == [idx |-> p.curres, len |-> BufLen[p.bufs[p.curres]] - p.indexes[p.curres]]

KdNoOperand(p) == p.curres \notin Res \/ p.indexes[p.curres] > BufLen[p.bufs[p.curres]]

KdWith(p, d, reg) ==
    KdRec(p, [p.ts EXCEPT ![d] = [p.ts[d] EXCEPT ![reg] = KdOperand(p)]],
          p.curres + 1, p.vlens,
          [p.addrs EXCEPT ![p.curres] = <<p.bufs[p.curres], p.indexes[p.curres]>>], "ok")

LEMMA KdSetOperand ==
    ASSUME NEW p \in KdState, NEW d, NEW reg
    PROVE  KD!SetOperand(KdOk(p), d, reg) = IF KdNoOperand(p) THEN KdBad(p) ELSE KdWith(p, d, reg)
<1> DEFINE q == KdOk(p)
           l == KdOperand(p)
           ts2 == [p.ts EXCEPT ![d] = [p.ts[d] EXCEPT ![reg] = l]]
           ad == <<p.bufs[p.curres], p.indexes[p.curres]>>
           ad2 == [p.addrs EXCEPT ![p.curres] = ad]
<1>1. DOMAIN p.bufs = Res  BY DEF KdState
<1>2. /\ q.ts = p.ts /\ q.curres = p.curres /\ q.bufs = p.bufs /\ q.indexes = p.indexes
      /\ q.vlens = p.vlens /\ q.addrs = p.addrs
  BY KdOkIs, KdFields DEF KdTs
<1>3. CASE KdNoOperand(p)
  <2>1. KD!SetOperand(q, d, reg) = KD!Reject(q)
    BY <1>1, <1>2, <1>3 DEF KD!SetOperand, KdNoOperand
  <2> QED  BY <1>3, <2>1, KdOkIs
<1>4. CASE ~KdNoOperand(p)
  <2>0. KD!SetOperand(q, d, reg) = [q EXCEPT !.curres = p.curres + 1, !.ts[d][reg] = l,
                                             !.addrs[p.curres] = ad]
    BY <1>1, <1>2, <1>4 DEF KD!SetOperand, KdNoOperand, KdOperand
  <2> DEFINE q1 == KdRec(p, p.ts, p.curres + 1, p.vlens, p.addrs, "ok")
             q2 == KdRec(p, ts2, p.curres + 1, p.vlens, p.addrs, "ok")
  <2>1. [q EXCEPT !.curres = p.curres + 1] = q1
    BY KdOkIs, KdFields DEF KdTs
  <2>2. [q1 EXCEPT !.ts[d][reg] = l] = q2
    <3>1. q1.ts = p.ts  BY KdFields
    <3> HIDE DEF l
    <3>2. [q1 EXCEPT !.ts = [p.ts EXCEPT ![d] = [p.ts[d] EXCEPT ![reg] = l]]] = q2
      <4> DEFINE X == [p.ts EXCEPT ![d] = [p.ts[d] EXCEPT ![reg] = l]]
      <4>1. ts2 = X  OBVIOUS
      <4> HIDE DEF X, ts2
      <4>2. [q1 EXCEPT !.ts = X] = KdRec(p, X, p.curres + 1, p.vlens, p.addrs, "ok")
        BY KdFields
      <4> QED  BY <4>1, <4>2 DEF X
    <3> HIDE DEF q1, q2
    <3> QED  BY <3>1, <3>2
  <2>3. [q2 EXCEPT !.addrs[p.curres] = ad] = KdRec(p, ts2, p.curres + 1, p.vlens, ad2, "ok")
    <3> HIDE DEF ts2
    <3> QED  BY KdFields
  <2> QED  BY <1>4, <2>0, <2>1, <2>2, <2>3 DEF KdWith
<1> QED  BY <1>3, <1>4

LEMMA KdOperands ==
    ASSUME NEW p \in KdState, p.err # "EINVAL", NEW c
    PROVE  /\ c.op = "setrs" => KD!Prepare(p, c) = IF KdNoOperand(p) THEN KdBad(p) ELSE KdWith(p, c.dst, "rs")
           /\ c.op = "setrt" => KD!Prepare(p, c) = IF KdNoOperand(p) THEN KdBad(p) ELSE KdWith(p, c.dst, "rt")
           /\ c.op = "setrd" => KD!Prepare(p, c) = IF KdNoOperand(p) THEN KdBad(p) ELSE KdWith(p, c.dst, "rd")
<1>1. \A reg : KD!SetOperand(KdOk(p), c.dst, reg) = IF KdNoOperand(p) THEN KdBad(p) ELSE KdWith(p, c.dst, reg)
  BY KdSetOperand
<1> QED  BY <1>1, KdHandles

-----------------------------------------------------------------------------
\* The threads that a command is for, and those of them that p enables.
Meant(c) == {t \in Threads : t[1] \in Broadcast(c.dst)}
KdOn(p, c) == {t \in Meant(c) : p.ts[t].en_st = 1}

KdProdBad(p, c) == \/ \E t \in Meant(c) : p.ts[t].en_st < 0
                   \/ \E t \in KdOn(p, c) : ~KD!OperandsFit(p.ts[t])
KdReaders(p, c, r) == {t \in KdOn(p, c) : r \in {p.ts[t].rs.idx, p.ts[t].rt.idx}}
KdProdLens(p, c) == [r \in Res |-> IF KdReaders(p, c, r) = {} THEN p.vlens[r]
                                   ELSE p.ts[CHOOSE t \in KdReaders(p, c, r) : TRUE].vlen]
KdStoreBad(p, c) == \/ \E t \in Meant(c) : p.ts[t].en_st < 0
                    \/ \E t \in KdOn(p, c) : ~KD!DestFits(p.ts[t])
KdStoreLens(p, c) == [r \in Res |-> IF \E t \in KdOn(p, c) : p.ts[t].rd.idx = r THEN 1
                                    ELSE p.vlens[r]]
KdLens(p, v) == KdRec(p, p.ts, p.curres, v, p.addrs, "ok")

LEMMA KdVerifies ==
    ASSUME NEW p \in KdState, p.err # "EINVAL", NEW c
    PROVE  /\ c.op = "prod" => KD!Prepare(p, c) = IF KdProdBad(p, c) THEN KdBad(p)
                                                 ELSE KdLens(p, KdProdLens(p, c))
           /\ c.op = "store" => KD!Prepare(p, c) = IF KdStoreBad(p, c) THEN KdBad(p)
                                                  ELSE KdLens(p, KdStoreLens(p, c))
<1> DEFINE q == KdOk(p)
<1>1. q.ts = p.ts /\ q.vlens = p.vlens /\ DOMAIN q.vlens = Res
  BY KdOkIs, KdFields DEF KdTs, KdState
<1>2. \A v : [q EXCEPT !.vlens = v] = KdLens(p, v)
  BY KdOkIs, KdFields DEF KdTs, KdLens
<1>3. KD!ThreadsOf(Broadcast(c.dst)) = Meant(c)
  BY Names DEF KD!ThreadsOf, Meant
<1> HIDE DEF q
<1>4. KD!VerifProd(q, Broadcast(c.dst)) = IF KdProdBad(p, c) THEN KD!Reject(q)
                                          ELSE [q EXCEPT !.vlens = KdProdLens(p, c)]
  BY <1>1, <1>3 DEF KD!VerifProd, KdProdBad, KdOn, KdProdLens, KdReaders
<1>5. KD!VerifStore(q, Broadcast(c.dst)) = IF KdStoreBad(p, c) THEN KD!Reject(q)
                                           ELSE [q EXCEPT !.vlens = KdStoreLens(p, c)]
  BY <1>1, <1>3 DEF KD!VerifStore, KdStoreBad, KdOn, KdStoreLens
<1> QED  BY <1>2, <1>4, <1>5, KdHandles, KdOkIs, ZenonT(60) DEF q

-----------------------------------------------------------------------------
(* The checker of the emulator.                                            *)

SwThread == [en_st : {-1, 0, 1}, a_set : {0, 1}, rs_idx : Int, rs_len : Int,
             rt_idx : Int, rt_len : Int, rd_idx : Int, rd_len : Int, vlen : Int]
SwRes == [data : Buffers, index : Nat, vlen : Int]
SwState == [threads : [Threads -> SwThread], currentRes : Nat, res : [Res -> SwRes],
            err : Errors]

SwRec(threads, currentRes, res, err) ==
    [threads |-> threads, currentRes |-> currentRes, res |-> res, err |-> err]

SwBad(a) == SwRec(a.threads, a.currentRes, a.res, "EINVAL")
SwTs(a, threads) == SwRec(threads, a.currentRes, a.res, "ok")
SwSet(a, d, s) == SwTs(a, [a.threads EXCEPT ![d] = s])

LEMMA SwHandles ==
    ASSUME NEW a, NEW c, a.err # "EINVAL"
    PROVE  LET q == SW!Done(a) IN
      /\ c.op = "setacc" => SW!PrepareProg(a, c) = [q EXCEPT !.threads = [q.threads EXCEPT ![c.dst] = [q.threads[c.dst] EXCEPT !.a_set = 1]]]
      /\ c.op = "setvl" => SW!PrepareProg(a, c) = [q EXCEPT !.threads = [q.threads EXCEPT ![c.dst] = [q.threads[c.dst] EXCEPT !.vlen = c.arg]]]
      /\ c.op = "seten" => SW!PrepareProg(a, c) = [q EXCEPT !.threads = [q.threads EXCEPT ![c.dst] = [q.threads[c.dst] EXCEPT !.en_st = c.arg]]]
      /\ c.op = "setrs" => SW!PrepareProg(a, c) = SW!Operand(a, c.dst, "rs_idx", "rs_len")
      /\ c.op = "setrt" => SW!PrepareProg(a, c) = SW!Operand(a, c.dst, "rt_idx", "rt_len")
      /\ c.op = "setrd" => SW!PrepareProg(a, c) = SW!Operand(a, c.dst, "rd_idx", "rd_len")
      /\ c.op = "prod" => SW!PrepareProg(a, c) = SW!PrepPROD(a, c.dst)
      /\ c.op = "store" => SW!PrepareProg(a, c) = SW!PrepSTORE(a, c.dst)
      /\ c.op = "sync" => SW!PrepareProg(a, c) = IF c.arg # {} THEN SW!Error(a) ELSE q
      /\ c.op \in Silent => SW!PrepareProg(a, c) = IF a.err = "ok" THEN a ELSE SW!Error(a)
      /\ c.op \notin Setters \cup Operands \cup Verifying \cup Silent \cup {"sync"} =>
             SW!PrepareProg(a, c) = SW!Error(a)
BY DEF SW!PrepareProg, Silent, Setters, Operands, Verifying

LEMMA SwFields ==
    ASSUME NEW threads, NEW currentRes, NEW res, NEW err, NEW v
    PROVE  LET q == SwRec(threads, currentRes, res, err)
           IN  /\ [q EXCEPT !.threads = v] = SwRec(v, currentRes, res, err)
               /\ [q EXCEPT !.currentRes = v] = SwRec(threads, v, res, err)
               /\ [q EXCEPT !.res = v] = SwRec(threads, currentRes, v, err)
               /\ [q EXCEPT !.err = v] = SwRec(threads, currentRes, res, v)
               /\ q.threads = threads /\ q.currentRes = currentRes /\ q.res = res
               /\ q.err = err
BY DEF SwRec

LEMMA SwDoneIs ==
    ASSUME NEW a \in SwState
    PROVE  /\ a = SwRec(a.threads, a.currentRes, a.res, a.err)
           /\ SW!Done(a) = SwTs(a, a.threads)
           /\ SW!Error(a) = SwBad(a)
<1>1. a = SwRec(a.threads, a.currentRes, a.res, a.err)  BY DEF SwState, SwRec
<1> DEFINE b == SwRec(a.threads, a.currentRes, a.res, a.err)
<1>2. [b EXCEPT !.err = "ok"] = SwTs(a, a.threads) /\ [b EXCEPT !.err = "EINVAL"] = SwBad(a)
  BY SwFields DEF SwTs, SwBad
<1> QED  BY <1>1, <1>2 DEF SW!Done, SW!Error

LEMMA SwSetters ==
    ASSUME NEW a \in SwState, a.err # "EINVAL", NEW c
    PROVE  /\ c.op = "setacc" => SW!PrepareProg(a, c) = SwSet(a, c.dst, [a.threads[c.dst] EXCEPT !.a_set = 1])
           /\ c.op = "setvl" => SW!PrepareProg(a, c) = SwSet(a, c.dst, [a.threads[c.dst] EXCEPT !.vlen = c.arg])
           /\ c.op = "seten" => SW!PrepareProg(a, c) = SwSet(a, c.dst, [a.threads[c.dst] EXCEPT !.en_st = c.arg])
           /\ c.op \in Silent => SW!PrepareProg(a, c) = IF a.err = "ok" THEN SwTs(a, a.threads) ELSE SwBad(a)
           /\ c.op = "sync" => SW!PrepareProg(a, c) = IF c.arg # {} THEN SwBad(a) ELSE SwTs(a, a.threads)
           /\ c.op \notin Setters \cup Operands \cup Verifying \cup Silent \cup {"sync"} =>
                  SW!PrepareProg(a, c) = SwBad(a)
<1>1. /\ SW!Done(a).threads = a.threads
      /\ \A v : [SW!Done(a) EXCEPT !.threads = v] = SwTs(a, v)
  BY SwDoneIs, SwFields DEF SwTs
<1>2. a.err = "ok" => a = SwTs(a, a.threads)
  BY SwDoneIs DEF SwTs
<1>3. /\ c.op = "setacc" => SW!PrepareProg(a, c) = SwSet(a, c.dst, [a.threads[c.dst] EXCEPT !.a_set = 1])
      /\ c.op = "setvl" => SW!PrepareProg(a, c) = SwSet(a, c.dst, [a.threads[c.dst] EXCEPT !.vlen = c.arg])
      /\ c.op = "seten" => SW!PrepareProg(a, c) = SwSet(a, c.dst, [a.threads[c.dst] EXCEPT !.en_st = c.arg])
  <2> DEFINE q == SW!Done(a)
  <2>1. \A s : [q EXCEPT !.threads = [q.threads EXCEPT ![c.dst] = s]] = SwSet(a, c.dst, s)
    BY <1>1 DEF SwSet
  <2>2. q.threads[c.dst] = a.threads[c.dst]  BY <1>1
  <2>3. c.op = "setacc" => SW!PrepareProg(a, c) = SwSet(a, c.dst, [a.threads[c.dst] EXCEPT !.a_set = 1])
    <3> DEFINE s == [q.threads[c.dst] EXCEPT !.a_set = 1]
    <3>1. c.op = "setacc" =>
             SW!PrepareProg(a, c) = [q EXCEPT !.threads = [q.threads EXCEPT ![c.dst] = s]]
      BY SwHandles
    <3>2. s = [a.threads[c.dst] EXCEPT !.a_set = 1]  BY <2>2
    <3>3. [q EXCEPT !.threads = [q.threads EXCEPT ![c.dst] = s]] = SwSet(a, c.dst, s)
      <4> HIDE DEF q, s
      <4> QED  BY <2>1
    <3> HIDE DEF q, s
    <3> QED  BY <3>1, <3>2, <3>3
  <2>4. c.op = "setvl" => SW!PrepareProg(a, c) = SwSet(a, c.dst, [a.threads[c.dst] EXCEPT !.vlen = c.arg])
    <3> DEFINE s == [q.threads[c.dst] EXCEPT !.vlen = c.arg]
    <3>1. c.op = "setvl" =>
             SW!PrepareProg(a, c) = [q EXCEPT !.threads = [q.threads EXCEPT ![c.dst] = s]]
      BY SwHandles
    <3>2. s = [a.threads[c.dst] EXCEPT !.vlen = c.arg]  BY <2>2
    <3>3. [q EXCEPT !.threads = [q.threads EXCEPT ![c.dst] = s]] = SwSet(a, c.dst, s)
      <4> HIDE DEF q, s
      <4> QED  BY <2>1
    <3> HIDE DEF q, s
    <3> QED  BY <3>1, <3>2, <3>3
  <2>5. c.op = "seten" => SW!PrepareProg(a, c) = SwSet(a, c.dst, [a.threads[c.dst] EXCEPT !.en_st = c.arg])
    <3> DEFINE s == [q.threads[c.dst] EXCEPT !.en_st = c.arg]
    <3>1. c.op = "seten" =>
             SW!PrepareProg(a, c) = [q EXCEPT !.threads = [q.threads EXCEPT ![c.dst] = s]]
      BY SwHandles
    <3>2. s = [a.threads[c.dst] EXCEPT !.en_st = c.arg]  BY <2>2
    <3>3. [q EXCEPT !.threads = [q.threads EXCEPT ![c.dst] = s]] = SwSet(a, c.dst, s)
      <4> HIDE DEF q, s
      <4> QED  BY <2>1
    <3> HIDE DEF q, s
    <3> QED  BY <3>1, <3>2, <3>3
  <2> QED  BY <2>3, <2>4, <2>5
<1>4. c.op \in Silent => SW!PrepareProg(a, c) = IF a.err = "ok" THEN SwTs(a, a.threads) ELSE SwBad(a)
  <2>1. c.op \in Silent => SW!PrepareProg(a, c) = IF a.err = "ok" THEN a ELSE SW!Error(a)
    BY SwHandles
  <2>2. SW!Error(a) = SwBad(a)  BY SwDoneIs
  <2> QED  BY <1>2, <2>1, <2>2
<1>5. c.op = "sync" => SW!PrepareProg(a, c) = IF c.arg # {} THEN SwBad(a) ELSE SwTs(a, a.threads)
  BY SwHandles, SwDoneIs
<1>6. c.op \notin Setters \cup Operands \cup Verifying \cup Silent \cup {"sync"} =>
          SW!PrepareProg(a, c) = SwBad(a)
  BY SwHandles, SwDoneIs
<1> QED  BY <1>3, <1>4, <1>5, <1>6

SwNoOperand(a) == \/ a.currentRes \notin Res
                  \/ a.res[a.currentRes].index > BufLen[a.res[a.currentRes].data]

SwWith(a, d, idx, len) ==
    SwRec([a.threads EXCEPT ![d] = [[a.threads[d] EXCEPT ![idx] = a.currentRes] EXCEPT
               ![len] = BufLen[a.res[a.currentRes].data] - a.res[a.currentRes].index]],
          a.currentRes + 1, a.res, "ok")

LEMMA SwOperand ==
    ASSUME NEW a \in SwState, NEW d \in Threads, NEW idx, NEW len
    PROVE  SW!Operand(a, d, idx, len) = IF SwNoOperand(a) THEN SwBad(a) ELSE SwWith(a, d, idx, len)
<1> DEFINE q == SW!Done(a)
           ri == a.currentRes
           n == BufLen[a.res[ri].data] - a.res[ri].index
           t1 == [a.threads EXCEPT ![d] = [a.threads[d] EXCEPT ![idx] = ri]]
           t2 == [a.threads EXCEPT ![d] = [[a.threads[d] EXCEPT ![idx] = ri] EXCEPT ![len] = n]]
<1>1. DOMAIN a.res = Res /\ DOMAIN a.threads = Threads  BY DEF SwState
<1>2. CASE SwNoOperand(a)
  <2>1. SW!Operand(a, d, idx, len) = SW!Error(a)
    BY <1>1, <1>2 DEF SW!Operand, SwNoOperand
  <2> QED  BY <1>2, <2>1, SwDoneIs
<1>3. CASE ~SwNoOperand(a)
  <2>0. q.currentRes = a.currentRes
    BY SwDoneIs, SwFields DEF SwTs
  <2>1. SW!Operand(a, d, idx, len) = [q EXCEPT !.currentRes = ri + 1, !.threads[d][idx] = ri,
                                               !.threads[d][len] = n]
    BY <1>1, <1>3, <2>0 DEF SW!Operand, SwNoOperand
  <2> DEFINE q1 == SwRec(a.threads, ri + 1, a.res, "ok")
             q2 == SwRec(t1, ri + 1, a.res, "ok")
             q3 == SwRec(t2, ri + 1, a.res, "ok")
  <2>2. [q EXCEPT !.currentRes = ri + 1] = q1
    BY SwDoneIs, SwFields DEF SwTs
  <2>3. [q1 EXCEPT !.threads[d][idx] = ri] = q2
    <3>1. q1.threads = a.threads  BY SwFields
    <3>2. [q1 EXCEPT !.threads = [a.threads EXCEPT ![d] = [a.threads[d] EXCEPT ![idx] = ri]]] = q2
      <4> DEFINE X == [a.threads EXCEPT ![d] = [a.threads[d] EXCEPT ![idx] = ri]]
      <4>1. t1 = X  OBVIOUS
      <4> HIDE DEF X, t1
      <4>2. [q1 EXCEPT !.threads = X] = SwRec(X, ri + 1, a.res, "ok")
        BY SwFields
      <4> QED  BY <4>1, <4>2 DEF X
    <3> HIDE DEF q1, q2
    <3> QED  BY <3>1, <3>2
  <2>4. [q2 EXCEPT !.threads[d][len] = n] = q3
    <3>1. q2.threads = t1  BY SwFields
    <3>2. [t1 EXCEPT ![d] = [t1[d] EXCEPT ![len] = n]] = t2
      <4>1. t1[d] = [a.threads[d] EXCEPT ![idx] = ri]  BY <1>1
      <4> DEFINE Y == [a.threads[d] EXCEPT ![idx] = ri]
      <4> HIDE DEF Y, n
      <4>2. [[a.threads EXCEPT ![d] = Y] EXCEPT ![d] = [Y EXCEPT ![len] = n]]
              = [a.threads EXCEPT ![d] = [Y EXCEPT ![len] = n]]
        BY <1>1
      <4> QED  BY <4>1, <4>2 DEF Y
    <3>3. [q2 EXCEPT !.threads = t2] = q3  
      <4> HIDE DEF t1, t2
      <4> QED  BY SwFields
    <3> HIDE DEF q2, q3, t1, t2, n
    <3> QED  BY <3>1, <3>2, <3>3
  <2>5. [[[q EXCEPT !.currentRes = ri + 1] EXCEPT !.threads[d][idx] = ri] EXCEPT !.threads[d][len] = n] = q3
    BY <2>2, <2>3, <2>4
  <2>6. SW!Operand(a, d, idx, len) = q3
    <3> HIDE DEF q, q3, n
    <3> QED  BY <2>1, <2>5
  <2> QED  BY <1>3, <2>6 DEF SwWith
<1> QED  BY <1>2, <1>3

LEMMA SwOperands ==
    ASSUME NEW a \in SwState, a.err # "EINVAL", NEW c, c.dst \in Threads
    PROVE  /\ c.op = "setrs" => SW!PrepareProg(a, c) = IF SwNoOperand(a) THEN SwBad(a) ELSE SwWith(a, c.dst, "rs_idx", "rs_len")
           /\ c.op = "setrt" => SW!PrepareProg(a, c) = IF SwNoOperand(a) THEN SwBad(a) ELSE SwWith(a, c.dst, "rt_idx", "rt_len")
           /\ c.op = "setrd" => SW!PrepareProg(a, c) = IF SwNoOperand(a) THEN SwBad(a) ELSE SwWith(a, c.dst, "rd_idx", "rd_len")
<1>1. SW!Operand(a, c.dst, "rs_idx", "rs_len") = IF SwNoOperand(a) THEN SwBad(a) ELSE SwWith(a, c.dst, "rs_idx", "rs_len")
  BY SwOperand
<1>2. SW!Operand(a, c.dst, "rt_idx", "rt_len") = IF SwNoOperand(a) THEN SwBad(a) ELSE SwWith(a, c.dst, "rt_idx", "rt_len")
  BY SwOperand
<1>3. SW!Operand(a, c.dst, "rd_idx", "rd_len") = IF SwNoOperand(a) THEN SwBad(a) ELSE SwWith(a, c.dst, "rd_idx", "rd_len")
  BY SwOperand
<1>4. c.op = "setrs" => SW!PrepareProg(a, c) = SW!Operand(a, c.dst, "rs_idx", "rs_len")
  BY SwHandles
<1>5. c.op = "setrt" => SW!PrepareProg(a, c) = SW!Operand(a, c.dst, "rt_idx", "rt_len")
  BY SwHandles
<1>6. c.op = "setrd" => SW!PrepareProg(a, c) = SW!Operand(a, c.dst, "rd_idx", "rd_len")
  BY SwHandles
<1> QED  BY <1>1, <1>2, <1>3, <1>4, <1>5, <1>6

-----------------------------------------------------------------------------

SwOn(a, c) == {t \in Meant(c) : a.threads[t].en_st = 1}
SwFits(s) == /\ s.a_set = 1 /\ s.rs_idx >= 0 /\ s.rt_idx >= 0 /\ s.vlen >= 0
             /\ SW!Smaller(s.rs_len, s.rt_len) >= s.vlen
SwReaders(a, c, r) == {t \in SwOn(a, c) : r \in {a.threads[t].rs_idx, a.threads[t].rt_idx}}
SwWriters(a, c, r) == {t \in SwOn(a, c) : r \in {a.threads[t].rd_idx}}
SwProdLens(a, c) == [r \in Res |-> IF SwReaders(a, c, r) = {} THEN a.res[r]
                        ELSE [a.res[r] EXCEPT !.vlen = a.threads[CHOOSE t \in SwReaders(a, c, r) : TRUE].vlen]]
SwStoreLens(a, c) == [r \in Res |-> IF SwWriters(a, c, r) = {} THEN a.res[r]
                         ELSE [a.res[r] EXCEPT !.vlen = 1]]
SwProdGood(a, c) == \A t \in Meant(c) : \/ a.threads[t].en_st = 0
                                        \/ a.threads[t].en_st = 1 /\ SwFits(a.threads[t])
SwStoreGood(a, c) == \A t \in Meant(c) : \/ a.threads[t].en_st = 0
                                         \/ a.threads[t].en_st = 1 /\ SW!StoreNeeds(a.threads[t])
SwLens(a, res) == SwRec(a.threads, a.currentRes, res, "ok")

LEMMA SwVerifies ==
    ASSUME NEW a \in SwState, a.err # "EINVAL", NEW c
    PROVE  /\ c.op = "prod" => SW!PrepareProg(a, c) = IF SwProdGood(a, c) THEN SwLens(a, SwProdLens(a, c))
                                                      ELSE SwBad(a)
           /\ c.op = "store" => SW!PrepareProg(a, c) = IF SwStoreGood(a, c) THEN SwLens(a, SwStoreLens(a, c))
                                                       ELSE SwBad(a)
<1>1. DOMAIN a.res = Res  BY DEF SwState
<1>2. {t \in SW!Threads : t[1] \in SW!Broadcast(c.dst)} = Meant(c)
  BY Names DEF Meant
<1>3. SW!Done(a).res = a.res /\ \A v : [SW!Done(a) EXCEPT !.res = v] = SwLens(a, v)
  BY SwDoneIs, SwFields DEF SwTs, SwLens
<1>4. SW!PrepPROD(a, c.dst) = IF SwProdGood(a, c) THEN [SW!Done(a) EXCEPT !.res = SwProdLens(a, c)]
                              ELSE SW!Error(a)
  <2>1. CASE SwProdGood(a, c)
    <3>1. SW!PrepPROD(a, c.dst) = [SW!Done(a) EXCEPT !.res = [r \in DOMAIN SW!Done(a).res |->
              IF {t \in {t \in Meant(c) : a.threads[t].en_st = 1} : r \in {a.threads[t].rs_idx, a.threads[t].rt_idx}} = {}
              THEN SW!Done(a).res[r]
              ELSE [SW!Done(a).res[r] EXCEPT !.vlen = a.threads[CHOOSE t \in {t \in {t \in Meant(c) : a.threads[t].en_st = 1} : r \in {a.threads[t].rs_idx, a.threads[t].rt_idx}} : TRUE].vlen]]]
      BY <1>2, <2>1, ZenonT(60)
         DEF SW!PrepPROD, SW!Verif, SW!Record, SW!Passes, SW!ProdNeeds, SwProdGood, SwFits
    <3> DEFINE q == SW!Done(a)
               z == q.res
    <3>2. z = a.res /\ DOMAIN z = Res  BY <1>1, <1>3
    <3>3. SW!PrepPROD(a, c.dst) = [q EXCEPT !.res = [r \in DOMAIN z |->
              IF SwReaders(a, c, r) = {} THEN z[r]
              ELSE [z[r] EXCEPT !.vlen = a.threads[CHOOSE t \in SwReaders(a, c, r) : TRUE].vlen]]]
      BY <3>1 DEF SwReaders, SwOn
    <3> HIDE DEF z
    <3>4. SwProdLens(a, c) = [r \in DOMAIN z |->
              IF SwReaders(a, c, r) = {} THEN z[r]
              ELSE [z[r] EXCEPT !.vlen = a.threads[CHOOSE t \in SwReaders(a, c, r) : TRUE].vlen]]
      BY <3>2 DEF SwProdLens
    <3> QED  BY <2>1, <3>3, <3>4
  <2>2. CASE ~SwProdGood(a, c)
    BY <1>2, <2>2 DEF SW!PrepPROD, SW!Verif, SW!Passes, SW!ProdNeeds, SwProdGood, SwFits
  <2> QED  BY <2>1, <2>2
<1>5. SW!PrepSTORE(a, c.dst) = IF SwStoreGood(a, c) THEN [SW!Done(a) EXCEPT !.res = SwStoreLens(a, c)]
                               ELSE SW!Error(a)
  BY <1>1, <1>2, <1>3 DEF SW!PrepSTORE, SW!Verif, SW!Record, SW!Passes,
     SwStoreGood, SwStoreLens, SwWriters, SwOn
<1> QED  BY <1>3, <1>4, <1>5, SwHandles, SwDoneIs, ZenonT(60)

-----------------------------------------------------------------------------
(* Types.                                                                  *)

LEMMA KdRecTypes ==
    ASSUME NEW p \in KdState, NEW ts \in [Threads -> KdThread], NEW curres \in Nat,
           NEW vlens \in [Res -> Int], NEW addrs \in [Res -> KdAddr], NEW err \in Errors
    PROVE  KdRec(p, ts, curres, vlens, addrs, err) \in KdState
BY DEF KdRec, KdState

LEMMA KdThreads ==
    ASSUME NEW s \in KdThread
    PROVE  /\ [s EXCEPT !.a_set = TRUE] \in KdThread
           /\ \A n \in Int : [s EXCEPT !.vlen = n] \in KdThread
           /\ \A n \in {0, 1} : [s EXCEPT !.en_st = n] \in KdThread
           /\ \A l \in KdReg : /\ [s EXCEPT !.rs = l] \in KdThread
                               /\ [s EXCEPT !.rt = l] \in KdThread
                               /\ [s EXCEPT !.rd = l] \in KdThread
BY DEF KdThread

LEMMA SwRecTypes ==
    ASSUME NEW threads \in [Threads -> SwThread], NEW currentRes \in Nat,
           NEW res \in [Res -> SwRes], NEW err \in Errors
    PROVE  SwRec(threads, currentRes, res, err) \in SwState
BY DEF SwRec, SwState

LEMMA SwThreads ==
    ASSUME NEW s \in SwThread
    PROVE  /\ [s EXCEPT !.a_set = 1] \in SwThread
           /\ \A n \in Int : [s EXCEPT !.vlen = n] \in SwThread
           /\ \A n \in {0, 1} : [s EXCEPT !.en_st = n] \in SwThread
           /\ \A i, n \in Int : /\ [[s EXCEPT !.rs_idx = i] EXCEPT !.rs_len = n] \in SwThread
                                /\ [[s EXCEPT !.rt_idx = i] EXCEPT !.rt_len = n] \in SwThread
                                /\ [[s EXCEPT !.rd_idx = i] EXCEPT !.rd_len = n] \in SwThread
BY DEF SwThread

\* The fields of what Prepare returns, when it is not a refusal.
KdIs(q, p, ts, curres, vlens, addrs) ==
    /\ q.ts = ts /\ q.curres = curres /\ q.bufs = p.bufs /\ q.indexes = p.indexes
    /\ q.vlens = vlens /\ q.addrs = addrs /\ q.err = "ok"

LEMMA KdRefused ==
    ASSUME NEW p \in KdState
    PROVE  KdBad(p) \in KdState /\ KdBad(p).err = "EINVAL"
<1>1. KdBad(p) \in KdState  BY KdRecTypes DEF KdBad, KdState, Errors
<1> QED  BY <1>1, KdFields DEF KdBad

LEMMA KdSetIs ==
    ASSUME NEW p \in KdState, NEW d \in Threads, NEW s \in KdThread
    PROVE  /\ KdSet(p, d, s) \in KdState
           /\ KdIs(KdSet(p, d, s), p, [p.ts EXCEPT ![d] = s], p.curres, p.vlens, p.addrs)
<1>1. [p.ts EXCEPT ![d] = s] \in [Threads -> KdThread]  BY DEF KdState
<1>2. KdSet(p, d, s) \in KdState
  BY <1>1, KdRecTypes DEF KdSet, KdTs, KdState, Errors
<1> QED  BY <1>2, KdFields DEF KdSet, KdTs, KdIs

LEMMA KdTsIs ==
    ASSUME NEW p \in KdState
    PROVE  /\ KdTs(p, p.ts) \in KdState
           /\ KdIs(KdTs(p, p.ts), p, p.ts, p.curres, p.vlens, p.addrs)
<1>1. KdTs(p, p.ts) \in KdState  BY KdRecTypes DEF KdTs, KdState, Errors
<1> QED  BY <1>1, KdFields DEF KdTs, KdIs

LEMMA KdOperandType ==
    ASSUME NEW p \in KdState, ~KdNoOperand(p)
    PROVE  /\ p.curres \in Res /\ p.bufs[p.curres] \in Buffers /\ p.indexes[p.curres] \in Nat
           /\ BufLen[p.bufs[p.curres]] \in Nat
           /\ p.indexes[p.curres] <= BufLen[p.bufs[p.curres]]
           /\ KdOperand(p) \in KdReg
<1>1. p.curres \in Res /\ p.bufs[p.curres] \in Buffers /\ p.indexes[p.curres] \in Nat
  BY DEF KdState, KdNoOperand
<1>2. BufLen[p.bufs[p.curres]] \in Nat  BY <1>1, ProgramsAssumption DEF Buffers
<1>3. p.curres \in Nat  BY DEF KdState
<1> QED  BY <1>1, <1>2, <1>3 DEF KdOperand, KdReg, KdNoOperand

LEMMA KdWithIs ==
    ASSUME NEW p \in KdState, NEW d \in Threads, NEW reg \in {"rs", "rt", "rd"}, ~KdNoOperand(p)
    PROVE  /\ KdWith(p, d, reg) \in KdState
           /\ KdIs(KdWith(p, d, reg), p, [p.ts EXCEPT ![d] = [p.ts[d] EXCEPT ![reg] = KdOperand(p)]],
                   p.curres + 1, p.vlens,
                   [p.addrs EXCEPT ![p.curres] = <<p.bufs[p.curres], p.indexes[p.curres]>>])
<1>1. p.ts[d] \in KdThread  BY DEF KdState
<1>2. [p.ts[d] EXCEPT ![reg] = KdOperand(p)] \in KdThread
  BY <1>1, KdThreads, KdOperandType
<1>3. [p.ts EXCEPT ![d] = [p.ts[d] EXCEPT ![reg] = KdOperand(p)]] \in [Threads -> KdThread]
  BY <1>2 DEF KdState
<1>4. <<p.bufs[p.curres], p.indexes[p.curres]>> \in KdAddr
  BY KdOperandType DEF KdAddr
<1>5. [p.addrs EXCEPT ![p.curres] = <<p.bufs[p.curres], p.indexes[p.curres]>>] \in [Res -> KdAddr]
  BY <1>4 DEF KdState
<1>6. p.curres + 1 \in Nat /\ p.vlens \in [Res -> Int]  BY DEF KdState
<1>7. KdWith(p, d, reg) \in KdState
  BY <1>3, <1>5, <1>6, KdRecTypes DEF KdWith, Errors
<1> QED  BY <1>7, KdFields DEF KdWith, KdIs

LEMMA KdLensIs ==
    ASSUME NEW p \in KdState, NEW v \in [Res -> Int]
    PROVE  KdLens(p, v) \in KdState /\ KdIs(KdLens(p, v), p, p.ts, p.curres, v, p.addrs)
<1>1. KdLens(p, v) \in KdState  BY KdRecTypes DEF KdLens, KdState, Errors
<1> QED  BY <1>1, KdFields DEF KdLens, KdIs

LEMMA KdLensTypes ==
    ASSUME NEW p \in KdState, NEW c
    PROVE  KdProdLens(p, c) \in [Res -> Int] /\ KdStoreLens(p, c) \in [Res -> Int]
<1>1. ASSUME NEW r \in Res, KdReaders(p, c, r) # {}
      PROVE  p.ts[CHOOSE t \in KdReaders(p, c, r) : TRUE].vlen \in Int
  <2>1. (CHOOSE t \in KdReaders(p, c, r) : TRUE) \in KdReaders(p, c, r)  BY <1>1
  <2>2. (CHOOSE t \in KdReaders(p, c, r) : TRUE) \in Threads
    BY <2>1 DEF KdReaders, KdOn, Meant
  <2> QED  BY <2>2 DEF KdState, KdThread
<1>2. \A r \in Res : p.vlens[r] \in Int  BY DEF KdState
<1> QED  BY <1>1, <1>2 DEF KdProdLens, KdStoreLens

\* What the checker of the driver makes of a command.
KdPrepared(p, q) ==
    /\ q \in KdState
    /\ q.err = "EINVAL" \/ (q.err = "ok" /\ q.bufs = p.bufs /\ q.indexes = p.indexes)

LEMMA KdPrepares ==
    ASSUME NEW p \in KdState, p.err # "EINVAL", NEW c \in Fed
    PROVE  KdPrepared(p, KD!Prepare(p, c))
<1> DEFINE q == KD!Prepare(p, c)
<1>1. WellFormed(c)  BY ProgramsAssumption
<1>2. c.op \in Setters \cup Operands => c.dst \in Threads /\ p.ts[c.dst] \in KdThread
  BY <1>1 DEF WellFormed, Setters, Operands, KdState
<1>3. \/ q = KdBad(p)
      \/ q = KdTs(p, p.ts)
      \/ c.dst \in Threads /\ \E s \in KdThread : q = KdSet(p, c.dst, s)
      \/ c.dst \in Threads /\ ~KdNoOperand(p) /\ \E reg \in {"rs", "rt", "rd"} : q = KdWith(p, c.dst, reg)
      \/ \E v \in [Res -> Int] : q = KdLens(p, v)
  <2>1. CASE c.op \in Setters
    <3>1. c.dst \in Threads /\ p.ts[c.dst] \in KdThread  BY <1>2, <2>1
    <3>2. CASE c.op = "setacc"  BY <3>1, <3>2, KdSetters, KdThreads
    <3>3. CASE c.op = "setvl"
      <4>1. c.arg \in Int  BY <1>1, <3>3 DEF WellFormed
      <4> QED  BY <3>1, <3>3, <4>1, KdSetters, KdThreads
    <3>4. CASE c.op = "seten"
      <4>1. c.arg \in {0, 1}  BY <1>1, <3>4 DEF WellFormed
      <4> QED  BY <3>1, <3>4, <4>1, KdSetters, KdThreads
    <3> QED  BY <2>1, <3>2, <3>3, <3>4 DEF Setters
  <2>2. CASE c.op \in Operands
    <3>1. c.op = "setrs" \/ c.op = "setrt" \/ c.op = "setrd"  BY <2>2 DEF Operands
    <3> QED  BY <1>2, <2>2, <3>1, KdOperands
  <2>3. CASE c.op \in Verifying
    BY <2>3, KdVerifies, KdLensTypes DEF Verifying
  <2>4. CASE c.op \notin Setters \cup Operands \cup Verifying
    BY <2>4, KdSetters
  <2> QED  BY <2>1, <2>2, <2>3, <2>4
<1> SUFFICES KdPrepared(p, q)  OBVIOUS
<1> HIDE DEF q
<1>4. CASE q = KdBad(p)  BY <1>4, KdRefused DEF KdPrepared
<1>5. CASE q = KdTs(p, p.ts)  BY <1>5, KdTsIs DEF KdIs, KdPrepared
<1>6. CASE c.dst \in Threads /\ \E s \in KdThread : q = KdSet(p, c.dst, s)
  <2>1. PICK s \in KdThread : q = KdSet(p, c.dst, s)  BY <1>6
  <2>2. /\ KdSet(p, c.dst, s) \in KdState
        /\ KdIs(KdSet(p, c.dst, s), p, [p.ts EXCEPT ![c.dst] = s], p.curres, p.vlens, p.addrs)
    BY <1>6, KdSetIs
  <2> QED  BY <2>1, <2>2 DEF KdIs, KdPrepared
<1>7. CASE c.dst \in Threads /\ ~KdNoOperand(p) /\ \E reg \in {"rs", "rt", "rd"} : q = KdWith(p, c.dst, reg)
  <2>1. PICK reg \in {"rs", "rt", "rd"} : q = KdWith(p, c.dst, reg)  BY <1>7
  <2>2. /\ KdWith(p, c.dst, reg) \in KdState
        /\ KdIs(KdWith(p, c.dst, reg), p, [p.ts EXCEPT ![c.dst] = [p.ts[c.dst] EXCEPT ![reg] = KdOperand(p)]],
                p.curres + 1, p.vlens,
                [p.addrs EXCEPT ![p.curres] = <<p.bufs[p.curres], p.indexes[p.curres]>>])
    BY <1>7, KdWithIs
  <2> QED  BY <2>1, <2>2 DEF KdIs, KdPrepared
<1>8. CASE \E v \in [Res -> Int] : q = KdLens(p, v)
  <2>1. PICK v \in [Res -> Int] : q = KdLens(p, v)  BY <1>8
  <2>2. KdLens(p, v) \in KdState /\ KdIs(KdLens(p, v), p, p.ts, p.curres, v, p.addrs)
    BY KdLensIs
  <2> QED  BY <2>1, <2>2 DEF KdIs, KdPrepared
<1> QED  BY <1>3, <1>4, <1>5, <1>6, <1>7, <1>8

LEMMA KdCurres ==
    ASSUME NEW p \in KdState, p.err # "EINVAL", NEW c \in Fed
    PROVE  \/ KD!Prepare(p, c).curres = p.curres
           \/ KD!Prepare(p, c).curres = p.curres + 1
<1>1. /\ KdBad(p).curres = p.curres /\ KdTs(p, p.ts).curres = p.curres
      /\ \A d, s : KdSet(p, d, s).curres = p.curres
      /\ \A d, reg : KdWith(p, d, reg).curres = p.curres + 1
      /\ \A v : KdLens(p, v).curres = p.curres
  BY KdFields DEF KdBad, KdTs, KdSet, KdWith, KdLens
<1>2. CASE c.op \in Setters
  <2>1. PICK s : KD!Prepare(p, c) = KdSet(p, c.dst, s)  BY <1>2, KdSetters DEF Setters
  <2> QED  BY <1>1, <2>1
<1>3. CASE c.op \in Operands  BY <1>1, <1>3, KdOperands DEF Operands
<1>4. CASE c.op \in Verifying  BY <1>1, <1>4, KdVerifies DEF Verifying
<1>5. CASE c.op \notin Setters \cup Operands \cup Verifying
  BY <1>1, <1>5, KdSetters
<1> QED  BY <1>2, <1>3, <1>4, <1>5

-----------------------------------------------------------------------------
(* What the two checkers have in common.                                   *)

SameThread(s, w) ==
    /\ w.en_st = s.en_st /\ (w.a_set = 1 <=> s.a_set) /\ w.vlen = s.vlen
    /\ w.rs_idx = s.rs.idx /\ w.rs_len = s.rs.len
    /\ w.rt_idx = s.rt.idx /\ w.rt_len = s.rt.len
    /\ w.rd_idx = s.rd.idx /\ w.rd_len = s.rd.len

Same(ts, curres, bufs, indexes, vlens, threads, currentRes, res) ==
    /\ \A t \in Threads : SameThread(ts[t], threads[t])
    /\ currentRes = curres
    /\ \A r \in Res : res[r].data = bufs[r] /\ res[r].index = indexes[r] /\ res[r].vlen = vlens[r]

Alike(p, a) == Same(p.ts, p.curres, p.bufs, p.indexes, p.vlens, a.threads, a.currentRes, a.res)

\* Both refuse, or both take the command and stay alike.
Together(q, b) == \/ q.err = "EINVAL" /\ b.err = "EINVAL"
                  \/ q.err = "ok" /\ b.err = "ok" /\ b \in SwState /\ Alike(q, b)

SwIs(b, threads, currentRes, res) ==
    /\ b.threads = threads /\ b.currentRes = currentRes /\ b.res = res /\ b.err = "ok"

LEMMA SwRefused ==
    ASSUME NEW a  PROVE SwBad(a).err = "EINVAL"
BY SwFields DEF SwBad

LEMMA SwTsIs ==
    ASSUME NEW a \in SwState
    PROVE  SwTs(a, a.threads) \in SwState /\ SwIs(SwTs(a, a.threads), a.threads, a.currentRes, a.res)
<1>1. SwTs(a, a.threads) \in SwState  BY SwRecTypes DEF SwTs, SwState, Errors
<1> QED  BY <1>1, SwFields DEF SwTs, SwIs

LEMMA SwSetIs ==
    ASSUME NEW a \in SwState, NEW d \in Threads, NEW w \in SwThread
    PROVE  /\ SwSet(a, d, w) \in SwState
           /\ SwIs(SwSet(a, d, w), [a.threads EXCEPT ![d] = w], a.currentRes, a.res)
<1>1. [a.threads EXCEPT ![d] = w] \in [Threads -> SwThread]  BY DEF SwState
<1>2. SwSet(a, d, w) \in SwState  BY <1>1, SwRecTypes DEF SwSet, SwTs, SwState, Errors
<1> QED  BY <1>2, SwFields DEF SwSet, SwTs, SwIs

LEMMA SwLensIs ==
    ASSUME NEW a \in SwState, NEW res \in [Res -> SwRes]
    PROVE  SwLens(a, res) \in SwState /\ SwIs(SwLens(a, res), a.threads, a.currentRes, res)
<1>1. SwLens(a, res) \in SwState  BY SwRecTypes DEF SwLens, SwState, Errors
<1> QED  BY <1>1, SwFields DEF SwLens, SwIs

LEMMA SameSet ==
    ASSUME NEW p \in KdState, NEW a \in SwState, Alike(p, a), NEW d \in Threads,
           NEW s \in KdThread, NEW w \in SwThread, SameThread(s, w)
    PROVE  Together(KdSet(p, d, s), SwSet(a, d, w))
<1> DEFINE q == KdSet(p, d, s)
           b == SwSet(a, d, w)
<1>1. KdIs(q, p, [p.ts EXCEPT ![d] = s], p.curres, p.vlens, p.addrs)  BY KdSetIs
<1>2. b \in SwState /\ SwIs(b, [a.threads EXCEPT ![d] = w], a.currentRes, a.res)  BY SwSetIs
<1> HIDE DEF q, b
<1>3. \A t \in Threads : SameThread(q.ts[t], b.threads[t])
  <2> SUFFICES ASSUME NEW t \in Threads  PROVE SameThread(q.ts[t], b.threads[t])  OBVIOUS
  <2>1. q.ts[t] = IF t = d THEN s ELSE p.ts[t]  BY <1>1 DEF KdIs, KdState
  <2>2. b.threads[t] = IF t = d THEN w ELSE a.threads[t]  BY <1>2 DEF SwIs, SwState
  <2>3. SameThread(p.ts[t], a.threads[t])  BY DEF Alike, Same
  <2> QED  BY <2>1, <2>2, <2>3
<1>4. Together(q, b)
  BY <1>1, <1>2, <1>3 DEF KdIs, SwIs, Together, Alike, Same
<1> QED  BY <1>4 DEF q, b

LEMMA SameTs ==
    ASSUME NEW p \in KdState, NEW a \in SwState, Alike(p, a)
    PROVE  Together(KdTs(p, p.ts), SwTs(a, a.threads))
<1> DEFINE q == KdTs(p, p.ts)
           b == SwTs(a, a.threads)
<1>1. KdIs(q, p, p.ts, p.curres, p.vlens, p.addrs)  BY KdTsIs
<1>2. b \in SwState /\ SwIs(b, a.threads, a.currentRes, a.res)  BY SwTsIs
<1> HIDE DEF q, b
<1>3. Together(q, b)  BY <1>1, <1>2 DEF KdIs, SwIs, Together, Alike, Same
<1> QED  BY <1>3 DEF q, b

LEMMA SameRefused ==
    ASSUME NEW p \in KdState, NEW a  PROVE Together(KdBad(p), SwBad(a))
BY KdRefused, SwRefused DEF Together

LEMMA SameSetters ==
    ASSUME NEW p \in KdState, NEW a \in SwState, Alike(p, a), p.err # "EINVAL", a.err # "EINVAL",
           NEW c \in Fed, c.op \in Setters
    PROVE  Together(KD!Prepare(p, c), SW!PrepareProg(a, c))
<1>1. WellFormed(c)  BY ProgramsAssumption
<1> DEFINE d == c.dst
           s == p.ts[d]
           w == a.threads[d]
<1>2. d \in Threads  BY <1>1 DEF WellFormed, Setters
<1>3. s \in KdThread /\ w \in SwThread /\ SameThread(s, w)
  BY <1>2 DEF KdState, SwState, Alike, Same
<1> HIDE DEF d, s, w
<1>4. CASE c.op = "setacc"
  <2>1. SameThread([s EXCEPT !.a_set = TRUE], [w EXCEPT !.a_set = 1])
    BY <1>3 DEF KdThread, SwThread, SameThread
  <2>2. Together(KdSet(p, d, [s EXCEPT !.a_set = TRUE]), SwSet(a, d, [w EXCEPT !.a_set = 1]))
    BY <1>2, <1>3, <2>1, KdThreads, SwThreads, SameSet
  <2> QED  BY <1>4, <2>2, KdSetters, SwSetters DEF d, s, w
<1>5. CASE c.op = "setvl"
  <2>1. c.arg \in Int  BY <1>1, <1>5 DEF WellFormed
  <2>2. SameThread([s EXCEPT !.vlen = c.arg], [w EXCEPT !.vlen = c.arg])
    BY <1>3 DEF KdThread, SwThread, SameThread
  <2>3. Together(KdSet(p, d, [s EXCEPT !.vlen = c.arg]), SwSet(a, d, [w EXCEPT !.vlen = c.arg]))
    BY <1>2, <1>3, <2>1, <2>2, KdThreads, SwThreads, SameSet
  <2> QED  BY <1>5, <2>3, KdSetters, SwSetters DEF d, s, w
<1>6. CASE c.op = "seten"
  <2>1. c.arg \in {0, 1}  BY <1>1, <1>6 DEF WellFormed
  <2>2. SameThread([s EXCEPT !.en_st = c.arg], [w EXCEPT !.en_st = c.arg])
    BY <1>3 DEF KdThread, SwThread, SameThread
  <2>3. Together(KdSet(p, d, [s EXCEPT !.en_st = c.arg]), SwSet(a, d, [w EXCEPT !.en_st = c.arg]))
    BY <1>2, <1>3, <2>1, <2>2, KdThreads, SwThreads, SameSet
  <2> QED  BY <1>6, <2>3, KdSetters, SwSetters DEF d, s, w
<1> QED  BY <1>4, <1>5, <1>6 DEF Setters

LEMMA SameOperand ==
    ASSUME NEW p \in KdState, NEW a \in SwState, Alike(p, a)
    PROVE  /\ KdNoOperand(p) <=> SwNoOperand(a)
           /\ ~KdNoOperand(p) =>
                  /\ a.currentRes = KdOperand(p).idx
                  /\ BufLen[a.res[a.currentRes].data] - a.res[a.currentRes].index = KdOperand(p).len
<1>1. a.currentRes = p.curres  BY DEF Alike, Same
<1>2. p.curres \in Res => /\ a.res[p.curres].data = p.bufs[p.curres]
                          /\ a.res[p.curres].index = p.indexes[p.curres]
  BY DEF Alike, Same
<1> QED  BY <1>1, <1>2 DEF KdNoOperand, SwNoOperand, KdOperand

LEMMA SameWith ==
    ASSUME NEW p \in KdState, NEW a \in SwState, Alike(p, a), ~KdNoOperand(p), NEW d \in Threads,
           NEW reg \in {"rs", "rt", "rd"}, NEW idx, NEW len,
           [[a.threads[d] EXCEPT ![idx] = KdOperand(p).idx] EXCEPT ![len] = KdOperand(p).len] \in SwThread,
           SameThread([p.ts[d] EXCEPT ![reg] = KdOperand(p)],
                      [[a.threads[d] EXCEPT ![idx] = KdOperand(p).idx] EXCEPT ![len] = KdOperand(p).len])
    PROVE  Together(KdWith(p, d, reg), SwWith(a, d, idx, len))
<1> DEFINE q == KdWith(p, d, reg)
           b == SwWith(a, d, idx, len)
           s == [p.ts[d] EXCEPT ![reg] = KdOperand(p)]
           w == [[a.threads[d] EXCEPT ![idx] = KdOperand(p).idx] EXCEPT ![len] = KdOperand(p).len]
<1>1. KdIs(q, p, [p.ts EXCEPT ![d] = s], p.curres + 1, p.vlens,
           [p.addrs EXCEPT ![p.curres] = <<p.bufs[p.curres], p.indexes[p.curres]>>])
  BY KdWithIs
<1>2. b = SwRec([a.threads EXCEPT ![d] = w], a.currentRes + 1, a.res, "ok")
  BY SameOperand DEF SwWith
<1>3. w \in SwThread /\ SameThread(s, w)  OBVIOUS
<1> HIDE DEF q, b, s, w
<1>4. [a.threads EXCEPT ![d] = w] \in [Threads -> SwThread]  BY <1>3 DEF SwState
<1>5. a.currentRes + 1 \in Nat /\ a.res \in [Res -> SwRes]  BY DEF SwState
<1>6. b \in SwState  BY <1>2, <1>4, <1>5, SwRecTypes DEF Errors
<1>7. SwIs(b, [a.threads EXCEPT ![d] = w], a.currentRes + 1, a.res)  BY <1>2, SwFields DEF SwIs
<1>8. \A t \in Threads : SameThread(q.ts[t], b.threads[t])
  <2> SUFFICES ASSUME NEW t \in Threads  PROVE SameThread(q.ts[t], b.threads[t])  OBVIOUS
  <2>1. q.ts[t] = IF t = d THEN s ELSE p.ts[t]  BY <1>1 DEF KdIs, KdState
  <2>2. b.threads[t] = IF t = d THEN w ELSE a.threads[t]  BY <1>7 DEF SwIs, SwState
  <2>3. SameThread(p.ts[t], a.threads[t])  BY DEF Alike, Same
  <2> QED  BY <1>3, <2>1, <2>2, <2>3
<1>9. Together(q, b)
  BY <1>1, <1>6, <1>7, <1>8 DEF KdIs, SwIs, Together, Alike, Same
<1> QED  BY <1>9 DEF q, b

LEMMA SameOperands ==
    ASSUME NEW p \in KdState, NEW a \in SwState, Alike(p, a), p.err # "EINVAL", a.err # "EINVAL",
           NEW c \in Fed, c.op \in Operands
    PROVE  Together(KD!Prepare(p, c), SW!PrepareProg(a, c))
<1>1. WellFormed(c)  BY ProgramsAssumption
<1> DEFINE d == c.dst
           l == KdOperand(p)
<1>2. d \in Threads  BY <1>1 DEF WellFormed, Operands
<1>3. KdNoOperand(p) <=> SwNoOperand(a)  BY SameOperand
<1>4. CASE KdNoOperand(p)
  <2>1. KD!Prepare(p, c) = KdBad(p)  BY <1>4, KdOperands DEF Operands
  <2>2. SW!PrepareProg(a, c) = SwBad(a)  BY <1>2, <1>3, <1>4, SwOperands DEF Operands
  <2> QED  BY <2>1, <2>2, SameRefused
<1>5. CASE ~KdNoOperand(p)
  <2>1. p.ts[d] \in KdThread /\ a.threads[d] \in SwThread /\ SameThread(p.ts[d], a.threads[d])
    BY <1>2 DEF KdState, SwState, Alike, Same
  <2>2. l \in KdReg  BY <1>5, KdOperandType
  <2> HIDE DEF d, l
  <2>3. CASE c.op = "setrs"
    <3>1. SameThread([p.ts[d] EXCEPT !.rs = l], [[a.threads[d] EXCEPT !.rs_idx = l.idx] EXCEPT !.rs_len = l.len])
      BY <2>1, <2>2 DEF KdThread, SwThread, KdReg, SameThread
    <3>2. [[a.threads[d] EXCEPT !.rs_idx = l.idx] EXCEPT !.rs_len = l.len] \in SwThread
      BY <2>1, <2>2, SwThreads DEF KdReg
    <3>3. Together(KdWith(p, d, "rs"), SwWith(a, d, "rs_idx", "rs_len"))
      BY <1>2, <1>5, <3>1, <3>2, SameWith, ZenonT(60) DEF l
    <3> QED  BY <1>2, <1>3, <1>5, <2>3, <3>3, KdOperands, SwOperands DEF d
  <2>4. CASE c.op = "setrt"
    <3>1. SameThread([p.ts[d] EXCEPT !.rt = l], [[a.threads[d] EXCEPT !.rt_idx = l.idx] EXCEPT !.rt_len = l.len])
      BY <2>1, <2>2 DEF KdThread, SwThread, KdReg, SameThread
    <3>2. [[a.threads[d] EXCEPT !.rt_idx = l.idx] EXCEPT !.rt_len = l.len] \in SwThread
      BY <2>1, <2>2, SwThreads DEF KdReg
    <3>3. Together(KdWith(p, d, "rt"), SwWith(a, d, "rt_idx", "rt_len"))
      BY <1>2, <1>5, <3>1, <3>2, SameWith, ZenonT(60) DEF l
    <3> QED  BY <1>2, <1>3, <1>5, <2>4, <3>3, KdOperands, SwOperands DEF d
  <2>5. CASE c.op = "setrd"
    <3>1. SameThread([p.ts[d] EXCEPT !.rd = l], [[a.threads[d] EXCEPT !.rd_idx = l.idx] EXCEPT !.rd_len = l.len])
      BY <2>1, <2>2 DEF KdThread, SwThread, KdReg, SameThread
    <3>2. [[a.threads[d] EXCEPT !.rd_idx = l.idx] EXCEPT !.rd_len = l.len] \in SwThread
      BY <2>1, <2>2, SwThreads DEF KdReg
    <3>3. Together(KdWith(p, d, "rd"), SwWith(a, d, "rd_idx", "rd_len"))
      BY <1>2, <1>5, <3>1, <3>2, SameWith DEF l
    <3> QED  BY <1>2, <1>3, <1>5, <2>5, <3>3, KdOperands, SwOperands DEF d
  <2> QED  BY <2>3, <2>4, <2>5 DEF Operands
<1> QED  BY <1>4, <1>5

LEMMA SameOn ==
    ASSUME NEW p \in KdState, NEW a \in SwState, Alike(p, a), NEW c
    PROVE  /\ KdOn(p, c) = SwOn(a, c)
           /\ \A t \in Meant(c) : /\ SameThread(p.ts[t], a.threads[t])
                                 /\ p.ts[t] \in KdThread /\ a.threads[t] \in SwThread
<1>1. \A t \in Meant(c) : /\ SameThread(p.ts[t], a.threads[t])
                          /\ p.ts[t] \in KdThread /\ a.threads[t] \in SwThread
  BY DEF Meant, Alike, Same, KdState, SwState
<1> QED  BY <1>1 DEF KdOn, SwOn, SameThread

LEMMA SameFits ==
    ASSUME NEW s \in KdThread, NEW w \in SwThread, SameThread(s, w)
    PROVE  /\ KD!OperandsFit(s) <=> SwFits(w)
           /\ KD!DestFits(s) <=> SW!StoreNeeds(w)
<1>1. s.rs.len \in Int /\ s.rt.len \in Int /\ s.vlen \in Int  BY DEF KdThread, KdReg
<1> QED  BY <1>1 DEF SameThread, KD!OperandsFit, SwFits, SW!Smaller, KD!DestFits, SW!StoreNeeds

LEMMA SameLens ==
    ASSUME NEW p \in KdState, NEW a \in SwState, Alike(p, a), NEW v \in [Res -> Int],
           NEW res \in [Res -> SwRes],
           \A r \in Res : res[r].data = a.res[r].data /\ res[r].index = a.res[r].index /\ res[r].vlen = v[r]
    PROVE  Together(KdLens(p, v), SwLens(a, res))
<1> DEFINE q == KdLens(p, v)
           b == SwLens(a, res)
<1>1. KdIs(q, p, p.ts, p.curres, v, p.addrs)  BY KdLensIs
<1>2. b \in SwState /\ SwIs(b, a.threads, a.currentRes, res)  BY SwLensIs
<1> HIDE DEF q, b
<1>3. Together(q, b)  BY <1>1, <1>2 DEF KdIs, SwIs, Together, Alike, Same
<1> QED  BY <1>3 DEF q, b

LEMMA SameVerifying ==
    ASSUME NEW p \in KdState, NEW a \in SwState, Alike(p, a), p.err # "EINVAL", a.err # "EINVAL",
           NEW c \in Fed, c.op \in Verifying
    PROVE  Together(KD!Prepare(p, c), SW!PrepareProg(a, c))
<1>1. KdOn(p, c) = SwOn(a, c)  BY SameOn
<1>2. \A t \in Meant(c) : /\ SameThread(p.ts[t], a.threads[t])
                          /\ p.ts[t] \in KdThread /\ a.threads[t] \in SwThread
  BY SameOn
<1>3. \A t \in Meant(c) : /\ KD!OperandsFit(p.ts[t]) <=> SwFits(a.threads[t])
                          /\ KD!DestFits(p.ts[t]) <=> SW!StoreNeeds(a.threads[t])
                          /\ a.threads[t].en_st = p.ts[t].en_st /\ p.ts[t].en_st \in {-1, 0, 1}
  BY <1>2, SameFits DEF SameThread, KdThread
<1>4. \A r \in Res : a.res[r] \in SwRes /\ a.res[r].vlen = p.vlens[r]
  BY DEF SwState, Alike, Same
<1>5. CASE c.op = "prod"
  <2>1. SwProdGood(a, c) <=> ~KdProdBad(p, c)
    BY <1>3 DEF SwProdGood, KdProdBad, KdOn
  <2>2. \A r \in Res : KdReaders(p, c, r) = SwReaders(a, c, r)
    BY <1>1, <1>2 DEF KdReaders, SwReaders, KdOn, SameThread
  <2>3. ASSUME NEW r \in Res
        PROVE  /\ SwProdLens(a, c)[r] \in SwRes
               /\ SwProdLens(a, c)[r].data = a.res[r].data /\ SwProdLens(a, c)[r].index = a.res[r].index
               /\ SwProdLens(a, c)[r].vlen = KdProdLens(p, c)[r]
    <3> DEFINE t == CHOOSE t \in KdReaders(p, c, r) : TRUE
    <3>1. KdReaders(p, c, r) # {} => t \in Meant(c)  BY DEF KdReaders, KdOn
    <3> HIDE DEF t
    <3>2. KdReaders(p, c, r) # {} => a.threads[t].vlen = p.ts[t].vlen /\ p.ts[t].vlen \in Int
      BY <1>2, <3>1 DEF SameThread, KdThread
    <3>3. KdProdLens(p, c)[r] = IF KdReaders(p, c, r) = {} THEN p.vlens[r] ELSE p.ts[t].vlen
      BY DEF KdProdLens, t
    <3>4. SwProdLens(a, c)[r] = IF KdReaders(p, c, r) = {} THEN a.res[r]
                                ELSE [a.res[r] EXCEPT !.vlen = a.threads[t].vlen]
      BY <2>2 DEF SwProdLens, t
    <3> QED  BY <1>4, <3>2, <3>3, <3>4 DEF SwRes
  <2>4. SwProdLens(a, c) \in [Res -> SwRes]  BY <2>3 DEF SwProdLens
  <2>5. Together(KdLens(p, KdProdLens(p, c)), SwLens(a, SwProdLens(a, c)))
    BY <2>3, <2>4, KdLensTypes, SameLens
  <2> QED  BY <1>5, <2>1, <2>5, KdVerifies, SwVerifies, SameRefused
<1>6. CASE c.op = "store"
  <2>1. SwStoreGood(a, c) <=> ~KdStoreBad(p, c)
    BY <1>3 DEF SwStoreGood, KdStoreBad, KdOn
  <2>2. \A r \in Res : SwWriters(a, c, r) # {} <=> \E t \in KdOn(p, c) : p.ts[t].rd.idx = r
    BY <1>1, <1>2 DEF SwWriters, KdOn, SameThread
  <2>3. ASSUME NEW r \in Res
        PROVE  /\ SwStoreLens(a, c)[r] \in SwRes
               /\ SwStoreLens(a, c)[r].data = a.res[r].data /\ SwStoreLens(a, c)[r].index = a.res[r].index
               /\ SwStoreLens(a, c)[r].vlen = KdStoreLens(p, c)[r]
    <3>1. KdStoreLens(p, c)[r] = IF SwWriters(a, c, r) = {} THEN p.vlens[r] ELSE 1
      BY <2>2 DEF KdStoreLens
    <3>2. SwStoreLens(a, c)[r] = IF SwWriters(a, c, r) = {} THEN a.res[r] ELSE [a.res[r] EXCEPT !.vlen = 1]
      BY DEF SwStoreLens
    <3> QED  BY <1>4, <3>1, <3>2 DEF SwRes
  <2>4. SwStoreLens(a, c) \in [Res -> SwRes]  BY <2>3 DEF SwStoreLens
  <2>5. Together(KdLens(p, KdStoreLens(p, c)), SwLens(a, SwStoreLens(a, c)))
    BY <2>3, <2>4, KdLensTypes, SameLens
  <2> QED  BY <1>6, <2>1, <2>5, KdVerifies, SwVerifies, SameRefused
<1> QED  BY <1>5, <1>6 DEF Verifying

\* Checkers that are alike judge every command alike; of AF and NOP the emulator
\* keeps the word that was there.
LEMMA SameVerdict ==
    ASSUME NEW p \in KdState, NEW a \in SwState, Alike(p, a), p.err # "EINVAL", a.err # "EINVAL",
           NEW c \in Fed
    PROVE  /\ c.op \notin Silent \/ a.err = "ok" => Together(KD!Prepare(p, c), SW!PrepareProg(a, c))
           /\ c.op \in Silent => KD!Prepare(p, c).err = "ok"
           /\ c.op \in Silent /\ a.err # "ok" => SW!PrepareProg(a, c).err = "EINVAL"
<1>1. CASE c.op \in Setters  BY <1>1, SameSetters DEF Setters, Silent
<1>2. CASE c.op \in Operands  BY <1>2, SameOperands DEF Operands, Silent
<1>3. CASE c.op \in Verifying  BY <1>3, SameVerifying DEF Verifying, Silent
<1>4. CASE c.op \in Silent
  <2>1. KD!Prepare(p, c) = KdTs(p, p.ts)  BY <1>4, KdSetters
  <2>2. SW!PrepareProg(a, c) = IF a.err = "ok" THEN SwTs(a, a.threads) ELSE SwBad(a)
    BY <1>4, SwSetters
  <2>3. KdTs(p, p.ts).err = "ok"  BY KdTsIs DEF KdIs
  <2>4. SwBad(a).err = "EINVAL"  BY SwRefused
  <2> QED  BY <1>4, <2>1, <2>2, <2>3, <2>4, SameTs
<1>5. CASE c.op \notin Setters \cup Operands \cup Verifying \cup Silent
  <2>1. CASE c.op = "sync"
    BY <1>5, <2>1, KdSetters, SwSetters, SameTs, SameRefused
  <2>2. CASE c.op # "sync"
    <3>1. c.op \notin Setters \cup Operands \cup Verifying \cup Silent \cup {"sync"}
      BY <1>5, <2>2
    <3>2. KD!Prepare(p, c) = KdBad(p)  BY <3>1, KdSetters
    <3>3. SW!PrepareProg(a, c) = SwBad(a)  BY <3>1, SwSetters
    <3>4. Together(KdBad(p), SwBad(a))  BY SameRefused
    <3> QED  BY <1>5, <3>2, <3>3, <3>4
  <2> QED  BY <1>5, <2>1, <2>2
<1> QED  BY <1>1, <1>2, <1>3, <1>4, <1>5

-----------------------------------------------------------------------------
(* Where the used resources are.                                           *)

Room(p, r) == BufLen[p.bufs[r]] - p.indexes[r]

\* A register that is set names a used resource, with the length that is left of it.
InUse(l, p) == l.idx >= 0 => l.idx \in Res /\ l.idx < p.curres /\ l.len = Room(p, l.idx)

Placed(p) ==
    /\ \A r \in Res : r < p.curres => /\ p.addrs[r] = <<p.bufs[r], p.indexes[r]>>
                                       /\ p.indexes[r] <= BufLen[p.bufs[r]]
    /\ \A r \in Res : p.vlens[r] >= 0 => r < p.curres
    /\ \A t \in Threads : InUse(p.ts[t].rs, p) /\ InUse(p.ts[t].rt, p) /\ InUse(p.ts[t].rd, p)

LEMMA RoomTypes ==
    ASSUME NEW p \in KdState, NEW r \in Res
    PROVE  Room(p, r) \in Int /\ BufLen[p.bufs[r]] \in Nat /\ p.indexes[r] \in Nat /\ r \in Nat
<1>1. p.bufs[r] \in Buffers /\ p.indexes[r] \in Nat  BY DEF KdState
<1>2. BufLen[p.bufs[r]] \in Nat  BY <1>1, ProgramsAssumption DEF Buffers
<1> QED  BY <1>1, <1>2, ProgramsAssumption DEF Room, Res

LEMMA PlacedTs ==
    ASSUME NEW p \in KdState, Placed(p)
    PROVE  Placed(KdTs(p, p.ts))
<1> DEFINE q == KdTs(p, p.ts)
<1>1. KdIs(q, p, p.ts, p.curres, p.vlens, p.addrs)  BY KdTsIs
<1> HIDE DEF q
<1>2. Placed(q)  BY <1>1 DEF KdIs, Placed, InUse, Room
<1> QED  BY <1>2 DEF q

LEMMA PlacedSet ==
    ASSUME NEW p \in KdState, Placed(p), NEW d \in Threads, NEW s \in KdThread,
           s.rs = p.ts[d].rs, s.rt = p.ts[d].rt, s.rd = p.ts[d].rd
    PROVE  Placed(KdSet(p, d, s))
<1> DEFINE q == KdSet(p, d, s)
<1>1. KdIs(q, p, [p.ts EXCEPT ![d] = s], p.curres, p.vlens, p.addrs)  BY KdSetIs
<1> HIDE DEF q
<1>2. \A l : InUse(l, q) <=> InUse(l, p)  BY <1>1 DEF KdIs, InUse, Room
<1>3. \A t \in Threads : q.ts[t].rs = p.ts[t].rs /\ q.ts[t].rt = p.ts[t].rt /\ q.ts[t].rd = p.ts[t].rd
  BY <1>1 DEF KdIs, KdState
<1>4. Placed(q)  BY <1>1, <1>2, <1>3 DEF KdIs, Placed
<1> QED  BY <1>4 DEF q

LEMMA PlacedLens ==
    ASSUME NEW p \in KdState, Placed(p), NEW v \in [Res -> Int],
           \A r \in Res : v[r] >= 0 => r < p.curres
    PROVE  Placed(KdLens(p, v))
<1> DEFINE q == KdLens(p, v)
<1>1. KdIs(q, p, p.ts, p.curres, v, p.addrs)  BY KdLensIs
<1> HIDE DEF q
<1>2. Placed(q)  BY <1>1 DEF KdIs, Placed, InUse, Room
<1> QED  BY <1>2 DEF q

LEMMA PlacedWith ==
    ASSUME NEW p \in KdState, Placed(p), NEW d \in Threads, NEW reg \in {"rs", "rt", "rd"}, ~KdNoOperand(p)
    PROVE  Placed(KdWith(p, d, reg))
<1> DEFINE q == KdWith(p, d, reg)
           l == KdOperand(p)
           addr == <<p.bufs[p.curres], p.indexes[p.curres]>>
           s == [p.ts[d] EXCEPT ![reg] = l]
<1>1. KdIs(q, p, [p.ts EXCEPT ![d] = s], p.curres + 1, p.vlens, [p.addrs EXCEPT ![p.curres] = addr])
  BY KdWithIs
<1>2. /\ p.curres \in Res /\ p.curres \in Nat
      /\ p.indexes[p.curres] <= BufLen[p.bufs[p.curres]]
  BY KdOperandType DEF KdState
<1>3. l.idx = p.curres /\ l.len = Room(p, p.curres)  BY DEF KdOperand, Room
<1>4. p.ts[d] \in KdThread  BY DEF KdState
<1> HIDE DEF q, l
<1>5. \A k : InUse(k, p) /\ k.idx \in Int => InUse(k, q)
  BY <1>1, <1>2 DEF KdIs, InUse, Room
<1>6. InUse(l, q)  BY <1>1, <1>2, <1>3 DEF KdIs, InUse, Room
<1>7. /\ s.rs = (IF reg = "rs" THEN l ELSE p.ts[d].rs)
      /\ s.rt = (IF reg = "rt" THEN l ELSE p.ts[d].rt)
      /\ s.rd = (IF reg = "rd" THEN l ELSE p.ts[d].rd)
  BY <1>4 DEF KdThread
<1> HIDE DEF s
<1>8. ASSUME NEW t \in Threads
      PROVE  InUse(q.ts[t].rs, q) /\ InUse(q.ts[t].rt, q) /\ InUse(q.ts[t].rd, q)
  <2>1. q.ts[t] = IF t = d THEN s ELSE p.ts[t]  BY <1>1 DEF KdIs, KdState
  <2>2. InUse(p.ts[t].rs, p) /\ InUse(p.ts[t].rt, p) /\ InUse(p.ts[t].rd, p)  BY DEF Placed
  <2>3. p.ts[t].rs.idx \in Int /\ p.ts[t].rt.idx \in Int /\ p.ts[t].rd.idx \in Int
    BY DEF KdState, KdThread, KdReg
  <2> QED  BY <1>5, <1>6, <1>7, <2>1, <2>2, <2>3
<1>9. ASSUME NEW r \in Res, r < q.curres
      PROVE  q.addrs[r] = <<q.bufs[r], q.indexes[r]>> /\ q.indexes[r] <= BufLen[q.bufs[r]]
  <2>1. r \in Int  BY RoomTypes
  <2>2. r = p.curres \/ r < p.curres  BY <1>1, <1>2, <1>9, <2>1 DEF KdIs
  <2> QED  BY <1>1, <1>2, <2>1, <2>2 DEF KdIs, Placed, KdState
<1>10. ASSUME NEW r \in Res, q.vlens[r] >= 0  PROVE r < q.curres
  <2>1. r \in Int  BY RoomTypes
  <2> QED  BY <1>1, <1>2, <1>10, <2>1 DEF KdIs, Placed
<1>11. Placed(q)  BY <1>8, <1>9, <1>10 DEF Placed
<1> QED  BY <1>11 DEF q

LEMMA LensPlaced ==
    ASSUME NEW p \in KdState, Placed(p), NEW c, NEW r \in Res
    PROVE  /\ KdProdLens(p, c)[r] >= 0 => r < p.curres
           /\ KdStoreLens(p, c)[r] >= 0 => r < p.curres
<1>1. r \in Nat  BY RoomTypes
<1>2. ASSUME NEW t \in KdOn(p, c), r \in {p.ts[t].rs.idx, p.ts[t].rt.idx, p.ts[t].rd.idx}
      PROVE  r < p.curres
  <2>1. t \in Threads  BY DEF KdOn, Meant
  <2> QED  BY <1>1, <1>2, <2>1 DEF Placed, InUse
<1>3. KdReaders(p, c, r) # {} => r < p.curres  BY <1>2 DEF KdReaders
<1>4. p.vlens[r] >= 0 => r < p.curres  BY DEF Placed
<1> QED  BY <1>2, <1>3, <1>4 DEF KdProdLens, KdStoreLens

-----------------------------------------------------------------------------
(* What the driver knows of a thread is in its registers.                  *)

Fields == {"en", "vlen", "rs", "rt", "rd"}

Shape(y) == /\ "regs" \in DOMAIN y /\ DOMAIN y.regs = Threads
            /\ \A t \in Threads : Fields \subseteq DOMAIN y.regs[t]

Known(s, g) == /\ s.en_st = 0 => g.en = FALSE
               /\ s.vlen >= 0 => g.vlen = s.vlen
               /\ s.rs.idx >= 0 => g.rs = <<s.rs.idx, 0>>
               /\ s.rt.idx >= 0 => g.rt = <<s.rt.idx, 0>>
               /\ s.rd.idx >= 0 => g.rd = <<s.rd.idx, 0>>

Tracked(p, y) == Shape(y) /\ \A t \in Threads : Known(p.ts[t], y.regs[t])

Executed(p, y, c) == EX!Execute(y, KD!Patched(p, c), InSymbols)

\* What Execute does, command by command.
Effects(p, y, c, z) ==
    /\ c.op = "seten" => z = EX!Set(y, c.dst, "en", c.arg = 1)
    /\ c.op = "setacc" => z = EX!Set(y, c.dst, "acc", c.arg)
    /\ c.op = "setvl" => z = EX!Set(y, c.dst, "vlen", c.arg)
    /\ p.curres \in Res =>
           /\ c.op = "setrs" => z = EX!Set(y, c.dst, "rs", <<p.curres, 0>>)
           /\ c.op = "setrt" => z = EX!Set(y, c.dst, "rt", <<p.curres, 0>>)
           /\ c.op = "setrd" => z = EX!Set(y, c.dst, "rd", <<p.curres, 0>>)
    /\ c.op = "prod" => z = EX!Prod(y, c.dst)
    /\ c.op = "store" => z = EX!Store(y, c.dst)
    /\ c.op = "af" => z = EX!Actf(y, c.dst, c.arg)
    /\ c.op \notin Setters \cup Operands \cup Verifying \cup {"af"} => z = y

LEMMA Executes ==
    ASSUME NEW p, NEW y, NEW c, c = Command(c.op, c.dst, c.arg)
    PROVE  Effects(p, y, c, Executed(p, y, c))
<1>1. c.op \notin Operands => KD!Patched(p, c) = c  BY DEF KD!Patched, Operands
<1>2. ASSUME c.op \in Operands
      PROVE  LET k == KD!Patched(p, c) IN k.op = c.op /\ k.dst = c.dst /\ k.arg = p.curres
  BY <1>2 DEF KD!Patched, Operands, Command
<1>3. ASSUME p.curres \in Res, c.op \in Operands
      PROVE  EX!Pointer(InSymbols, KD!Patched(p, c)) = <<p.curres, 0>>
  BY <1>2, <1>3 DEF EX!Pointer, InSymbols
<1> QED  BY <1>1, <1>2, <1>3 DEF Effects, Executed, EX!Execute, Setters, Operands, Verifying

\* A register of one thread is set, the others stay.
LEMMA RegisterSet ==
    ASSUME NEW y, Shape(y), NEW t \in Threads, NEW reg, NEW value
    PROVE  /\ Shape(EX!Set(y, t, reg, value))
           /\ \A u \in Threads : \A f \in Fields :
                  EX!Set(y, t, reg, value).regs[u][f] = IF u = t /\ f = reg THEN value ELSE y.regs[u][f]
<1> DEFINE z == EX!Set(y, t, reg, value)
<1>1. t[1] \in Vpus  BY DEF Threads
<1>2. z = [y EXCEPT !.regs = [y.regs EXCEPT ![t] = [y.regs[t] EXCEPT ![reg] = value]]]
  BY <1>1 DEF EX!Set
<1>3. /\ DOMAIN z = DOMAIN y
      /\ z.regs = [y.regs EXCEPT ![t] = [y.regs[t] EXCEPT ![reg] = value]]
  BY <1>2 DEF Shape
<1> HIDE DEF z
<1>4. \A u \in Threads : z.regs[u] = IF u = t THEN [y.regs[t] EXCEPT ![reg] = value] ELSE y.regs[u]
  BY <1>3 DEF Shape
<1>5. DOMAIN z.regs = Threads  BY <1>3 DEF Shape
<1>6. DOMAIN z.regs[t] = DOMAIN y.regs[t]  BY <1>4
<1>7. Shape(z)  BY <1>3, <1>4, <1>5, <1>6 DEF Shape
<1>8. \A f \in Fields : z.regs[t][f] = IF f = reg THEN value ELSE y.regs[t][f]
  BY <1>4 DEF Shape
<1>9. \A u \in Threads : \A f \in Fields : z.regs[u][f] = IF u = t /\ f = reg THEN value ELSE y.regs[u][f]
  BY <1>4, <1>8
<1> QED  BY <1>7, <1>9 DEF z

\* PROD, STORE and ACTF set accumulators and memory.
SameFields(y, z) == \A u \in Threads : \A f \in Fields : z.regs[u][f] = y.regs[u][f]

LEMMA Accumulates ==
    ASSUME NEW y, Shape(y), NEW z, NEW g,
           z = [y EXCEPT !.regs = [t \in Threads |-> g[t]]],
           \A t \in Threads : DOMAIN g[t] = DOMAIN y.regs[t] /\ \A f \in Fields : g[t][f] = y.regs[t][f]
    PROVE  Shape(z) /\ SameFields(y, z)
<1>1. DOMAIN z = DOMAIN y /\ z.regs = [t \in Threads |-> g[t]]  BY DEF Shape
<1>2. \A t \in Threads : z.regs[t] = g[t]  BY <1>1
<1> QED  BY <1>1, <1>2 DEF Shape, SameFields

LEMMA OthersKeep ==
    ASSUME NEW p \in KdState, NEW y, Shape(y), NEW c \in Fed, c.op \notin Operands, c.op \notin {"seten", "setvl"}
    PROVE  Shape(Executed(p, y, c)) /\ SameFields(y, Executed(p, y, c))
<1>1. WellFormed(c) /\ c = Command(c.op, c.dst, c.arg)  BY ProgramsAssumption DEF WellFormed
<1> DEFINE z == Executed(p, y, c)
<1>0. Effects(p, y, c, z)  BY <1>1, Executes
<1> SUFFICES Shape(z) /\ SameFields(y, z)  OBVIOUS
<1> HIDE DEF z
<1>2. CASE c.op = "setacc"
  <2>1. c.dst \in Threads  BY <1>1, <1>2 DEF WellFormed
  <2>2. z = EX!Set(y, c.dst, "acc", c.arg)  BY <1>0, <1>2 DEF Effects
  <2>3. \A f \in Fields : f # "acc"  BY DEF Fields
  <2> QED  BY <2>1, <2>2, <2>3, RegisterSet DEF SameFields
<1>3. CASE c.op = "prod"
  <2> DEFINE g == [t \in Threads |-> IF t \in EX!Working(y.regs, c.dst)
                     THEN [y.regs[t] EXCEPT !.acc = EX!VecProd(y.regs[t], y.mem)] ELSE y.regs[t]]
  <2>1. z = [y EXCEPT !.regs = [t \in Threads |-> g[t]]]
    BY <1>0, <1>3, Names DEF Effects, EX!Prod
  <2>2. ASSUME NEW t \in Threads
        PROVE  DOMAIN g[t] = DOMAIN y.regs[t] /\ \A f \in Fields : g[t][f] = y.regs[t][f]
    BY DEF Shape, Fields
  <2> HIDE DEF g
  <2> QED  BY <2>1, <2>2, Accumulates
<1>4. CASE c.op = "af"
  <2> DEFINE g == [t \in Threads |-> IF t \in EX!Working(y.regs, c.dst)
                     THEN [y.regs[t] EXCEPT !.acc = y.regs[t].acc] ELSE y.regs[t]]
  <2>1. z = [y EXCEPT !.regs = [t \in Threads |-> g[t]]]
    BY <1>0, <1>4, Names DEF Effects, EX!Actf
  <2>2. ASSUME NEW t \in Threads
        PROVE  DOMAIN g[t] = DOMAIN y.regs[t] /\ \A f \in Fields : g[t][f] = y.regs[t][f]
    BY DEF Shape, Fields
  <2> HIDE DEF g
  <2> QED  BY <2>1, <2>2, Accumulates
<1>5. CASE c.op = "store"
  <2>1. z = EX!Store(y, c.dst)  BY <1>0, <1>5 DEF Effects
  <2>2. DOMAIN EX!Store(y, c.dst) = DOMAIN y /\ EX!Store(y, c.dst).regs = y.regs
    BY DEF EX!Store, Shape
  <2> QED  BY <2>1, <2>2 DEF Shape, SameFields
<1>6. CASE c.op \notin {"setacc", "prod", "af", "store"}
  <2>1. z = y
    BY <1>0, <1>6 DEF Effects, Setters, Operands, Verifying
  <2> QED  BY <2>1 DEF SameFields
<1> QED  BY <1>2, <1>3, <1>4, <1>5, <1>6

\* An accumulator that is not settled is no field of these.
LEMMA UnsettledKeeps ==
    ASSUME NEW c, NEW y, Shape(y)
    PROVE  Shape(Unsettled(c, y)) /\ SameFields(y, Unsettled(c, y))
<1> DEFINE g == [t \in Threads |-> IF t \in NotYetSet(c) THEN [y.regs[t] EXCEPT !.acc = FALSE]
                                  ELSE y.regs[t]]
           z == Unsettled(c, y)
<1>1. z = [y EXCEPT !.regs = [t \in Threads |-> g[t]]]  BY DEF Unsettled
<1>2. ASSUME NEW t \in Threads
      PROVE  DOMAIN g[t] = DOMAIN y.regs[t] /\ \A f \in Fields : g[t][f] = y.regs[t][f]
  BY DEF Shape, Fields
<1> HIDE DEF g, z
<1>3. Shape(z) /\ SameFields(y, z)  BY <1>1, <1>2, Accumulates
<1> QED  BY <1>3 DEF z

LEMMA SameFieldsKnown ==
    ASSUME NEW y, NEW z, SameFields(y, z), NEW t \in Threads, NEW s
    PROVE  Known(s, z.regs[t]) <=> Known(s, y.regs[t])
<1>1. /\ z.regs[t].en = y.regs[t].en /\ z.regs[t].vlen = y.regs[t].vlen
      /\ z.regs[t].rs = y.regs[t].rs /\ z.regs[t].rt = y.regs[t].rt /\ z.regs[t].rd = y.regs[t].rd
  BY DEF SameFields, Fields
<1> QED  BY <1>1 DEF Known

LEMMA KeptTracked ==
    ASSUME NEW p, NEW q, NEW y, NEW z, Tracked(p, y), Shape(z), SameFields(y, z),
           \A t \in Threads : \A g : Known(p.ts[t], g) => Known(q.ts[t], g)
    PROVE  Tracked(q, z)
BY SameFieldsKnown DEF Tracked

\* A thread gets state s, and one of its registers the value that s tells of.
LEMMA SetTracked ==
    ASSUME NEW p \in KdState, NEW q, NEW y, Tracked(p, y), NEW d \in Threads, NEW reg \in Fields, NEW value,
           NEW s, q.ts = [p.ts EXCEPT ![d] = s],
           \A g : /\ \A f \in Fields : g[f] = IF f = reg THEN value ELSE y.regs[d][f]
                => Known(s, g)
    PROVE  Tracked(q, EX!Set(y, d, reg, value))
<1> DEFINE z == EX!Set(y, d, reg, value)
<1>1. /\ Shape(z)
      /\ \A u \in Threads : \A f \in Fields :
             z.regs[u][f] = IF u = d /\ f = reg THEN value ELSE y.regs[u][f]
  BY RegisterSet DEF Tracked
<1> HIDE DEF z
<1>2. ASSUME NEW t \in Threads  PROVE Known(q.ts[t], z.regs[t])
  <2>1. CASE t = d
    <3>1. q.ts[t] = s  BY <2>1 DEF KdState
    <3>2. \A f \in Fields : z.regs[t][f] = IF f = reg THEN value ELSE y.regs[d][f]  BY <1>1, <2>1
    <3> QED  BY <3>1, <3>2
  <2>2. CASE t # d
    <3>1. q.ts[t] = p.ts[t]  BY <2>2 DEF KdState
    <3>2. /\ z.regs[t].en = y.regs[t].en /\ z.regs[t].vlen = y.regs[t].vlen
          /\ z.regs[t].rs = y.regs[t].rs /\ z.regs[t].rt = y.regs[t].rt /\ z.regs[t].rd = y.regs[t].rd
      BY <1>1, <2>2 DEF Fields
    <3> QED  BY <3>1, <3>2 DEF Tracked, Known
  <2> QED  BY <2>1, <2>2
<1>3. Tracked(q, z)  BY <1>1, <1>2 DEF Tracked
<1> QED  BY <1>3 DEF z

LEMMA SettersTrack ==
    ASSUME NEW p \in KdState, p.err # "EINVAL", Placed(p), NEW y, Tracked(p, y),
           NEW c \in Fed, c.op \in Setters
    PROVE  Placed(KD!Prepare(p, c)) /\ Tracked(KD!Prepare(p, c), Executed(p, y, c))
<1>1. WellFormed(c) /\ c = Command(c.op, c.dst, c.arg)  BY ProgramsAssumption DEF WellFormed
<1> DEFINE d == c.dst
           z == Executed(p, y, c)
           q == KD!Prepare(p, c)
<1>2. d \in Threads  BY <1>1 DEF WellFormed, Setters
<1>3. p.ts[d] \in KdThread /\ Known(p.ts[d], y.regs[d]) /\ Shape(y)  BY <1>2 DEF KdState, Tracked
<1>4. Effects(p, y, c, z)  BY <1>1, Executes
<1> SUFFICES Placed(q) /\ Tracked(q, z)  OBVIOUS
<1> HIDE DEF z
<1>5. CASE c.op = "setacc"
  <2> DEFINE s == [p.ts[d] EXCEPT !.a_set = TRUE]
  <2>1. q = KdSet(p, d, s)  BY <1>5, KdSetters
  <2>2. s \in KdThread /\ s.rs = p.ts[d].rs /\ s.rt = p.ts[d].rt /\ s.rd = p.ts[d].rd
    BY <1>3 DEF KdThread
  <2>3. \A g : Known(p.ts[d], g) => Known(s, g)  BY <1>3 DEF Known, KdThread
  <2> HIDE DEF d, q, s
  <2>4. Placed(q)  BY <1>2, <2>1, <2>2, PlacedSet
  <2>5. q.ts = [p.ts EXCEPT ![d] = s]  BY <1>2, <2>1, <2>2, KdSetIs DEF KdIs
  <2>6. \A t \in Threads : \A g : Known(p.ts[t], g) => Known(q.ts[t], g)  BY <2>3, <2>5 DEF KdState
  <2>7. c.op \notin Operands /\ c.op \notin {"seten", "setvl"}  BY <1>5 DEF Operands
  <2>8. Shape(z) /\ SameFields(y, z)  BY <1>3, <2>7, OthersKeep DEF z
  <2> QED  BY <2>4, <2>6, <2>8, KeptTracked
<1>6. CASE c.op = "setvl"
  <2> DEFINE s == [p.ts[d] EXCEPT !.vlen = c.arg]
  <2>1. q = KdSet(p, d, s)  BY <1>6, KdSetters
  <2>2. c.arg \in Int  BY <1>1, <1>6 DEF WellFormed
  <2>3. s \in KdThread /\ s.rs = p.ts[d].rs /\ s.rt = p.ts[d].rt /\ s.rd = p.ts[d].rd
    BY <1>3, <2>2 DEF KdThread
  <2>4. ASSUME NEW g, \A f \in Fields : g[f] = IF f = "vlen" THEN c.arg ELSE y.regs[d][f]
        PROVE  Known(s, g)
    <3>1. /\ g.en = y.regs[d].en /\ g.vlen = c.arg /\ g.rs = y.regs[d].rs /\ g.rt = y.regs[d].rt
          /\ g.rd = y.regs[d].rd
      BY <2>4 DEF Fields
    <3> QED  BY <1>3, <3>1 DEF Known, KdThread
  <2>5. z = EX!Set(y, d, "vlen", c.arg)  BY <1>4, <1>6 DEF Effects
  <2> HIDE DEF d, q, s
  <2>6. Placed(q)  BY <1>2, <2>1, <2>3, PlacedSet
  <2>7. q.ts = [p.ts EXCEPT ![d] = s]  BY <1>2, <2>1, <2>3, KdSetIs DEF KdIs
  <2>8. Tracked(q, z)  BY <1>2, <2>4, <2>5, <2>7, SetTracked DEF Fields
  <2> QED  BY <2>6, <2>8
<1>7. CASE c.op = "seten"
  <2> DEFINE s == [p.ts[d] EXCEPT !.en_st = c.arg]
             value == c.arg = 1
  <2>1. q = KdSet(p, d, s)  BY <1>7, KdSetters
  <2>2. c.arg \in {0, 1}  BY <1>1, <1>7 DEF WellFormed
  <2>3. s \in KdThread /\ s.rs = p.ts[d].rs /\ s.rt = p.ts[d].rt /\ s.rd = p.ts[d].rd
    BY <1>3, <2>2 DEF KdThread
  <2>4. c.arg = 0 => value = FALSE  OBVIOUS
  <2>5. z = EX!Set(y, d, "en", value)  BY <1>4, <1>7 DEF Effects
  <2> HIDE DEF value
  <2>6. ASSUME NEW g, \A f \in Fields : g[f] = IF f = "en" THEN value ELSE y.regs[d][f]
        PROVE  Known(s, g)
    <3>1. /\ g.en = value /\ g.vlen = y.regs[d].vlen /\ g.rs = y.regs[d].rs /\ g.rt = y.regs[d].rt
          /\ g.rd = y.regs[d].rd
      BY <2>6 DEF Fields
    <3> QED  BY <1>3, <2>4, <3>1 DEF Known, KdThread
  <2> HIDE DEF d, q, s
  <2>7. Placed(q)  BY <1>2, <2>1, <2>3, PlacedSet
  <2>8. q.ts = [p.ts EXCEPT ![d] = s]  BY <1>2, <2>1, <2>3, KdSetIs DEF KdIs
  <2>9. Tracked(q, z)  BY <1>2, <2>5, <2>6, <2>8, SetTracked DEF Fields
  <2> QED  BY <2>7, <2>9
<1> QED  BY <1>5, <1>6, <1>7 DEF Setters

LEMMA WithTracked ==
    ASSUME NEW p \in KdState, Placed(p), NEW y, Tracked(p, y), NEW d \in Threads, NEW reg \in {"rs", "rt", "rd"},
           ~KdNoOperand(p)
    PROVE  Tracked(KdWith(p, d, reg), EX!Set(y, d, reg, <<p.curres, 0>>))
<1> DEFINE q == KdWith(p, d, reg)
           s == [p.ts[d] EXCEPT ![reg] = KdOperand(p)]
           value == <<p.curres, 0>>
<1>1. KdIs(q, p, [p.ts EXCEPT ![d] = s], p.curres + 1, p.vlens,
           [p.addrs EXCEPT ![p.curres] = <<p.bufs[p.curres], p.indexes[p.curres]>>])
  BY KdWithIs
<1>2. p.ts[d] \in KdThread /\ Known(p.ts[d], y.regs[d])  BY DEF KdState, Tracked
<1>3. KdOperand(p).idx = p.curres  BY DEF KdOperand
<1>4. ASSUME NEW g, \A f \in Fields : g[f] = IF f = reg THEN value ELSE y.regs[d][f]
      PROVE  Known(s, g)
  <2>1. /\ g.en = y.regs[d].en /\ g.vlen = y.regs[d].vlen
        /\ g.rs = (IF reg = "rs" THEN value ELSE y.regs[d].rs)
        /\ g.rt = (IF reg = "rt" THEN value ELSE y.regs[d].rt)
        /\ g.rd = (IF reg = "rd" THEN value ELSE y.regs[d].rd)
    BY <1>4 DEF Fields
  <2>2. /\ s.en_st = p.ts[d].en_st /\ s.vlen = p.ts[d].vlen
        /\ s.rs = (IF reg = "rs" THEN KdOperand(p) ELSE p.ts[d].rs)
        /\ s.rt = (IF reg = "rt" THEN KdOperand(p) ELSE p.ts[d].rt)
        /\ s.rd = (IF reg = "rd" THEN KdOperand(p) ELSE p.ts[d].rd)
    BY <1>2 DEF KdThread
  <2> HIDE DEF s
  <2> QED  BY <1>2, <1>3, <2>1, <2>2 DEF Known
<1> HIDE DEF q, s, value
<1>5. q.ts = [p.ts EXCEPT ![d] = s]  BY <1>1 DEF KdIs
<1>6. reg \in Fields  BY DEF Fields
<1>7. Tracked(q, EX!Set(y, d, reg, value))  BY <1>4, <1>5, <1>6, SetTracked
<1> QED  BY <1>7 DEF q, value

LEMMA OperandsTrack ==
    ASSUME NEW p \in KdState, p.err # "EINVAL", Placed(p), NEW y, Tracked(p, y),
           NEW c \in Fed, c.op \in Operands, KD!Prepare(p, c).err # "EINVAL"
    PROVE  Placed(KD!Prepare(p, c)) /\ Tracked(KD!Prepare(p, c), Executed(p, y, c))
<1>1. WellFormed(c) /\ c = Command(c.op, c.dst, c.arg)  BY ProgramsAssumption DEF WellFormed
<1>2. c.dst \in Threads  BY <1>1 DEF WellFormed, Operands
<1>3. Effects(p, y, c, Executed(p, y, c))  BY <1>1, Executes
<1>4. ~KdNoOperand(p)  BY KdOperands, KdRefused DEF Operands
<1>5. p.curres \in Res  BY <1>4 DEF KdNoOperand
<1>6. PICK reg \in {"rs", "rt", "rd"} :
          /\ KD!Prepare(p, c) = KdWith(p, c.dst, reg)
          /\ Executed(p, y, c) = EX!Set(y, c.dst, reg, <<p.curres, 0>>)
  BY <1>3, <1>4, <1>5, KdOperands DEF Operands, Effects
<1> QED  BY <1>2, <1>4, <1>6, PlacedWith, WithTracked

LEMMA RestTracks ==
    ASSUME NEW p \in KdState, p.err # "EINVAL", Placed(p), NEW y, Tracked(p, y),
           NEW c \in Fed, c.op \notin Setters \cup Operands, KD!Prepare(p, c).err # "EINVAL"
    PROVE  Placed(KD!Prepare(p, c)) /\ Tracked(KD!Prepare(p, c), Executed(p, y, c))
<1> DEFINE q == KD!Prepare(p, c)
           z == Executed(p, y, c)
<1>1. Shape(z) /\ SameFields(y, z)  BY OthersKeep DEF Setters, Tracked
<1>2. Placed(q) /\ q.ts = p.ts
  <2>1. CASE c.op = "prod"
    <3>1. q = KdLens(p, KdProdLens(p, c))  BY <2>1, KdVerifies, KdRefused
    <3> QED  BY <3>1, KdLensTypes, LensPlaced, PlacedLens, KdLensIs DEF KdIs
  <2>2. CASE c.op = "store"
    <3>1. q = KdLens(p, KdStoreLens(p, c))  BY <2>2, KdVerifies, KdRefused
    <3> QED  BY <3>1, KdLensTypes, LensPlaced, PlacedLens, KdLensIs DEF KdIs
  <2>3. CASE c.op \notin Verifying
    <3>1. q = KdTs(p, p.ts)  BY <2>3, KdSetters, KdRefused DEF Verifying
    <3> QED  BY <3>1, PlacedTs, KdTsIs DEF KdIs
  <2> QED  BY <2>1, <2>2, <2>3 DEF Verifying
<1> HIDE DEF q, z
<1>3. Placed(q) /\ Tracked(q, z)  BY <1>1, <1>2, KeptTracked
<1> QED  BY <1>3 DEF q, z

-----------------------------------------------------------------------------
(* How far a command reaches.                                              *)

LEMMA Greatest ==
    ASSUME NEW T, T \subseteq Int, T # {}, NEW b \in Int, \A k \in T : k <= b
    PROVE  (CHOOSE m \in T : \A k \in T : k <= m) \in T
<1> DEFINE U == {b - k : k \in T}
<1>1. U \subseteq Nat /\ U # {}
  <2>1. \A k \in T : b - k \in Nat  OBVIOUS
  <2>2. PICK k \in T : TRUE  OBVIOUS
  <2>3. b - k \in U  BY <2>2
  <2> QED  BY <2>1, <2>3
<1>2. PICK u \in U : \A v \in U : u <= v  BY <1>1, LeastNumber
<1>3. PICK m \in T : u = b - m  BY <1>2
<1>4. \A k \in T : b - m <= b - k  BY <1>2, <1>3
<1>5. \A k \in T : k <= m  BY <1>4
<1> QED  BY <1>5

\* A vector product of what is known is known.
LEMMA ProductKnown ==
    ASSUME NEW s, s.vlen \in Nat, s.acc = TRUE, NEW mem,
           \A i \in 0 .. s.vlen - 1 : mem[EX!Element(s.rs, i)] = TRUE /\ mem[EX!Element(s.rt, i)] = TRUE
    PROVE  EX!VecProd(s, mem) = TRUE
<1> DEFINE N == 0 .. s.vlen
           Sum(f) == f = [n \in N |-> IF n = 0 THEN s.acc
                             ELSE f[n - 1] /\ mem[EX!Element(s.rs, n - 1)] /\ mem[EX!Element(s.rt, n - 1)]]
           g == EX!PartialProd(s, mem)
           always == [n \in N |-> TRUE]
<1>0. N \subseteq Nat /\ s.vlen \in N  OBVIOUS
<1>1. g = CHOOSE f : Sum(f)  BY DEF EX!PartialProd
<1>2. Sum(always)
  <2>1. \A n \in N : (IF n = 0 THEN s.acc
                      ELSE always[n - 1] /\ mem[EX!Element(s.rs, n - 1)] /\ mem[EX!Element(s.rt, n - 1)]) = TRUE
    <3> SUFFICES ASSUME NEW n \in N
                 PROVE  (IF n = 0 THEN s.acc
                         ELSE always[n - 1] /\ mem[EX!Element(s.rs, n - 1)] /\ mem[EX!Element(s.rt, n - 1)]) = TRUE
      OBVIOUS
    <3>1. CASE n = 0  BY <3>1
    <3>2. CASE n # 0
      <4>1. n - 1 \in 0 .. s.vlen - 1 /\ n - 1 \in N  BY <3>2
      <4>2. mem[EX!Element(s.rs, n - 1)] = TRUE /\ mem[EX!Element(s.rt, n - 1)] = TRUE  BY <4>1
      <4>3. always[n - 1] = TRUE  BY <4>1
      <4> QED  BY <3>2, <4>2, <4>3
    <3> QED  BY <3>1, <3>2
  <2> QED  BY <2>1
<1> HIDE DEF Sum
<1>3. Sum(g)  BY <1>1, <1>2
<1>4. ASSUME NEW n \in N
      PROVE  g[n] = IF n = 0 THEN s.acc
                    ELSE g[n - 1] /\ mem[EX!Element(s.rs, n - 1)] /\ mem[EX!Element(s.rt, n - 1)]
  <2> HIDE DEF g
  <2> QED  BY <1>3 DEF Sum
<1> DEFINE bad == {n \in N : g[n] # TRUE}
<1> HIDE DEF g
<1>5. bad = {}
  <2> SUFFICES ASSUME bad # {} PROVE FALSE  OBVIOUS
  <2>1. bad \subseteq Nat  BY <1>0
  <2>2. PICK m \in bad : \A k \in bad : m <= k  BY <2>1, LeastNumber
  <2>3. m # 0  BY <1>4, <2>2
  <2>4. m - 1 \in N /\ m - 1 \in 0 .. s.vlen - 1 /\ ~(m <= m - 1)  BY <2>3
  <2>5. g[m - 1] = TRUE  BY <2>2, <2>4
  <2>6. mem[EX!Element(s.rs, m - 1)] = TRUE /\ mem[EX!Element(s.rt, m - 1)] = TRUE  BY <2>4
  <2>7. g[m] = (g[m - 1] /\ mem[EX!Element(s.rs, m - 1)] /\ mem[EX!Element(s.rt, m - 1)])  BY <1>4, <2>3
  <2>8. g[m] = TRUE  BY <2>5, <2>6, <2>7
  <2> QED  BY <2>8
<1>6. g[s.vlen] = TRUE
  <2> HIDE DEF N
  <2> QED  BY <1>0, <1>5
<1> QED  BY <1>6 DEF EX!VecProd, g

\* Of threads that store there is a last one.
LEMMA LastIsOne ==
    ASSUME NEW W, W \subseteq Threads, W # {}
    PROVE  EX!LastOf(W) \in W
<1>0. \A t \in Threads : t[1] \in 0 .. NrVpu - 1 /\ t[2] \in 0 .. NrThr - 1  BY DEF Threads, Vpus
<1>a. NrVpu \in Nat /\ NrThr \in Nat  BY InstrAssumption
<1> DEFINE V == {NrVpu - t[1] : t \in W}
<1>1. V \subseteq Nat /\ V # {}
  <2>1. \A t \in W : NrVpu - t[1] \in Nat  BY <1>0, <1>a
  <2>2. PICK t \in W : TRUE  OBVIOUS
  <2>3. NrVpu - t[1] \in V  BY <2>2
  <2> QED  BY <2>1, <2>3
<1>2. PICK v \in V : \A k \in V : v <= k  BY <1>1, LeastNumber
<1> DEFINE U == {NrThr - t[2] : t \in {u \in W : NrVpu - u[1] = v}}
<1>3. U \subseteq Nat /\ U # {}
  <2>1. \A t \in W : NrThr - t[2] \in Nat  BY <1>0, <1>a
  <2>2. PICK t \in W : NrVpu - t[1] = v  BY <1>2
  <2>3. NrThr - t[2] \in U  BY <2>2
  <2> QED  BY <2>1, <2>3
<1>4. PICK n \in U : \A k \in U : n <= k  BY <1>3, LeastNumber
<1>5. PICK t \in W : NrVpu - t[1] = v /\ NrThr - t[2] = n  BY <1>4
<1>6. ASSUME NEW u \in W  PROVE ~EX!Before(t, u)
  <2>1. v <= NrVpu - u[1]  BY <1>2
  <2>2. NrVpu - u[1] = v => n <= NrThr - u[2]  BY <1>4
  <2>3. u[1] \in Int /\ u[2] \in Int /\ t[1] \in Int /\ t[2] \in Int  BY <1>0
  <2> QED  BY <1>5, <1>a, <2>1, <2>2, <2>3 DEF EX!Before
<1>7. \E w \in W : \A u \in W : ~EX!Before(w, u)  BY <1>6
<1> QED  BY <1>7 DEF EX!LastOf

\* f gives for every resource how far it is read or written.
FitsIn(p, f) ==
    /\ f \in [Res \cup {Left} -> Int] /\ f[Left] < 0
    /\ \A r \in Res : f[r] >= 0 => r < p.curres /\ f[r] <= Room(p, r)

LEMMA FitsStay ==
    ASSUME NEW p, NEW q, NEW f, FitsIn(p, f), p.curres \in Nat, q.curres \in Nat, p.curres <= q.curres,
           q.bufs = p.bufs, q.indexes = p.indexes, p \in KdState
    PROVE  FitsIn(q, f)
<1>1. \A r \in Res : r \in Int  BY RoomTypes
<1> QED  BY <1>1 DEF FitsIn, Room

LEMMA NothingTouched ==
    ASSUME NEW c, c.op \notin Verifying, reach \in [Res \cup {Left} -> Int]
    PROVE  Farther(c) = reach
<1>1. Touched(c) = {}  BY DEF Touched, Verifying
<1>2. \A r \in DOMAIN reach : {reach[r]} \cup {u[2] : u \in {v \in Touched(c) : v[1] = r}} = {reach[r]}
  BY <1>1
<1>3. \A r \in DOMAIN reach : (CHOOSE m \in {reach[r]} : \A k \in {reach[r]} : k <= m) = reach[r]
  OBVIOUS
<1>4. Farther(c) = [r \in DOMAIN reach |-> reach[r]]
  BY <1>2, <1>3 DEF Farther
<1> QED  BY <1>4

\* The threads that work are enabled ones of the driver, and fit.
LEMMA WorkingFit ==
    ASSUME NEW p \in KdState, NEW y, Tracked(p, y), NEW c, NEW t \in EX!Working(y.regs, c.dst),
           \/ c.op = "prod" /\ ~KdProdBad(p, c)
           \/ c.op = "store" /\ ~KdStoreBad(p, c)
    PROVE  /\ t \in Threads /\ p.ts[t] \in KdThread /\ Known(p.ts[t], y.regs[t])
           /\ c.op = "prod" => KD!OperandsFit(p.ts[t])
           /\ c.op = "store" => KD!DestFits(p.ts[t])
<1>1. t \in Meant(c) /\ y.regs[t].en /\ t \in Threads
  BY Names DEF EX!Working, Meant
<1>2. p.ts[t] \in KdThread /\ Known(p.ts[t], y.regs[t])
  BY <1>1 DEF KdState, Tracked
<1>3. p.ts[t].en_st # 0  BY <1>1, <1>2 DEF Known
<1>4. p.ts[t].en_st \in {-1, 0, 1}  BY <1>2 DEF KdThread
<1>5. ~(p.ts[t].en_st < 0)  BY <1>1 DEF KdProdBad, KdStoreBad
<1>6. t \in KdOn(p, c)  BY <1>1, <1>3, <1>4, <1>5 DEF KdOn
<1> QED  BY <1>1, <1>2, <1>6 DEF KdProdBad, KdStoreBad

\* What a checked PROD or STORE touches is in the room of a used resource.
LEMMA TouchedFits ==
    ASSUME kd \in KdState, Placed(kd), Tracked(kd, x), NEW c,
           \/ c.op = "prod" /\ ~KdProdBad(kd, c)
           \/ c.op = "store" /\ ~KdStoreBad(kd, c)
    PROVE  \A u \in Touched(c) : u[1] \in Res /\ u[1] < kd.curres /\ u[2] \in Int /\ u[2] <= Room(kd, u[1])
<1>1. ASSUME NEW t \in EX!Working(x.regs, c.dst)
      PROVE  /\ t \in Threads /\ kd.ts[t] \in KdThread /\ Known(kd.ts[t], x.regs[t])
             /\ c.op = "prod" => KD!OperandsFit(kd.ts[t])
             /\ c.op = "store" => KD!DestFits(kd.ts[t])
  BY WorkingFit
<1>2. CASE c.op = "prod"
  <2>1. ASSUME NEW u \in Touched(c)
        PROVE  \E t \in EX!Working(x.regs, c.dst) :
                   u = <<x.regs[t].rs[1], x.regs[t].vlen>> \/ u = <<x.regs[t].rt[1], x.regs[t].vlen>>
    BY <1>1, <1>2 DEF Touched
  <2>2. ASSUME NEW t \in EX!Working(x.regs, c.dst)
        PROVE  /\ x.regs[t].rs[1] \in Res /\ x.regs[t].rs[1] < kd.curres
               /\ x.regs[t].rt[1] \in Res /\ x.regs[t].rt[1] < kd.curres
               /\ x.regs[t].vlen \in Int
               /\ x.regs[t].vlen <= Room(kd, x.regs[t].rs[1])
               /\ x.regs[t].vlen <= Room(kd, x.regs[t].rt[1])
    <3> DEFINE s == kd.ts[t]
    <3>1. t \in Threads /\ s \in KdThread /\ Known(s, x.regs[t]) /\ KD!OperandsFit(s)  BY <1>1, <1>2
    <3>2. InUse(s.rs, kd) /\ InUse(s.rt, kd)  BY <3>1 DEF Placed
    <3> HIDE DEF s
    <3>3. /\ s.rs.idx >= 0 /\ s.rt.idx >= 0 /\ s.vlen >= 0 /\ s.rs.len >= s.vlen /\ s.rt.len >= s.vlen
          /\ s.vlen \in Int /\ s.rs.len \in Int /\ s.rt.len \in Int
      BY <3>1 DEF KD!OperandsFit, KdThread, KdReg
    <3>4. x.regs[t].rs = <<s.rs.idx, 0>> /\ x.regs[t].rt = <<s.rt.idx, 0>> /\ x.regs[t].vlen = s.vlen
      BY <3>1, <3>3 DEF Known
    <3> QED  BY <3>2, <3>3, <3>4 DEF InUse
  <2> QED  BY <2>1, <2>2
<1>3. CASE c.op = "store"
  <2>1. ASSUME NEW u \in Touched(c)
        PROVE  \E t \in EX!Working(x.regs, c.dst) : u = <<x.regs[t].rd[1], 1>>
    BY <1>1, <1>3 DEF Touched
  <2>2. ASSUME NEW t \in EX!Working(x.regs, c.dst)
        PROVE  x.regs[t].rd[1] \in Res /\ x.regs[t].rd[1] < kd.curres /\ 1 <= Room(kd, x.regs[t].rd[1])
    <3> DEFINE s == kd.ts[t]
    <3>1. t \in Threads /\ s \in KdThread /\ Known(s, x.regs[t]) /\ KD!DestFits(s)  BY <1>1, <1>3
    <3>2. InUse(s.rd, kd)  BY <3>1 DEF Placed
    <3> HIDE DEF s
    <3>3. s.rd.idx >= 0 /\ s.rd.len # 0 /\ s.rd.len \in Int  BY <3>1 DEF KD!DestFits, KdThread, KdReg
    <3>4. x.regs[t].rd = <<s.rd.idx, 0>>  BY <3>1, <3>3 DEF Known
    <3>5. s.rd.idx \in Res /\ s.rd.idx < kd.curres /\ s.rd.len = Room(kd, s.rd.idx)
      BY <3>2, <3>3 DEF InUse
    <3>6. kd.indexes[s.rd.idx] <= BufLen[kd.bufs[s.rd.idx]]  BY <3>5 DEF Placed
    <3>7. Room(kd, s.rd.idx) >= 0  BY <3>5, <3>6, RoomTypes DEF Room
    <3> QED  BY <3>3, <3>4, <3>5, <3>7
  <2> QED  BY <2>1, <2>2
<1> QED  BY <1>2, <1>3

LEMMA FartherFits ==
    ASSUME kd \in KdState, Placed(kd), FitsIn(kd, reach), NEW c,
           \A u \in Touched(c) : u[1] \in Res /\ u[1] < kd.curres /\ u[2] \in Int /\ u[2] <= Room(kd, u[1])
    PROVE  FitsIn(kd, Farther(c))
<1> DEFINE n(r) == {reach[r]} \cup {u[2] : u \in {v \in Touched(c) : v[1] = r}}
           m(r) == CHOOSE m \in n(r) : \A k \in n(r) : k <= m
<1>1. Left \notin Res  BY ProgramsAssumption DEF Left, Res
<1>2. reach \in [Res \cup {Left} -> Int]  BY DEF FitsIn
<1>3. Farther(c) = [r \in Res \cup {Left} |-> m(r)]  BY <1>2 DEF Farther
<1>4. m(Left) = reach[Left]
  <2>1. n(Left) = {reach[Left]}  BY <1>1
  <2> QED  BY <1>2, <2>1
<1>5. ASSUME NEW r \in Res
      PROVE  m(r) \in Int /\ (m(r) >= 0 => r < kd.curres /\ m(r) <= Room(kd, r))
  <2>1. reach[r] \in Int /\ (reach[r] >= 0 => r < kd.curres /\ reach[r] <= Room(kd, r))
    BY <1>2 DEF FitsIn
  <2>2. Room(kd, r) \in Int /\ r \in Nat  BY RoomTypes
  <2>3. CASE \E u \in Touched(c) : u[1] = r
    <3>1. r < kd.curres  BY <2>3
    <3>2. 0 <= Room(kd, r)  BY <3>1, RoomTypes DEF Placed, Room
    <3>3. n(r) \subseteq Int /\ n(r) # {} /\ \A k \in n(r) : k <= Room(kd, r)  BY <2>1, <2>2, <3>2
    <3>4. m(r) \in n(r)  BY <2>2, <3>3, Greatest
    <3> QED  BY <3>1, <3>3, <3>4
  <2>4. CASE ~\E u \in Touched(c) : u[1] = r
    <3>1. n(r) = {reach[r]}  BY <2>4
    <3>2. m(r) = reach[r]  BY <2>1, <3>1
    <3> QED  BY <2>1, <3>2
  <2> QED  BY <2>3, <2>4
<1> HIDE DEF m
<1>6. Farther(c) \in [Res \cup {Left} -> Int]  BY <1>2, <1>3, <1>4, <1>5 DEF FitsIn
<1> QED  BY <1>1, <1>3, <1>4, <1>5, <1>6 DEF FitsIn

-----------------------------------------------------------------------------
(* The inductive invariant.                                                *)

\* The driver takes the program: its resources are placed, the registers hold what it
\* knows, and nothing beyond its resources is touched.
Sound == kd.err # "EINVAL" => Placed(kd) /\ Tracked(kd, x) /\ FitsIn(kd, reach)

\* The checkers are alike unless one has refused, and what they have answered depends
\* on the first command.
Agreed ==
    /\ kd.err # "EINVAL" /\ sw.err # "EINVAL" => sw \in SwState /\ Alike(kd, sw)
    /\ first = "none" => kd.err # "EINVAL" /\ sw.err = kd.err
    /\ first = "sure" => kd.err \in {"ok", "EINVAL"} /\ sw.err = kd.err
    /\ first = "unsure" => kd.err \in {"ok", "EINVAL"} /\ sw.err \in {"ok", "EINVAL"}

Checking == kd \in KdState /\ Sound /\ Agreed

KresType == [bufs : [Res -> Buffers], vlens : [Res -> Int], addrs : [Res -> KdAddr]]

\* The two command buffers keep the same lengths and, of the used resources, the same
\* places; every resource that is not left out has room for its longest vector.
Running ==
    /\ kres \in KresType /\ sres \in [Res -> SwRes]
    /\ \A r \in Res : /\ sres[r].vlen = kres.vlens[r]
                      /\ kres.vlens[r] >= 0 => kres.addrs[r] = <<sres[r].data, sres[r].index>>
    /\ reach \in [Res \cup {Left} -> Int] /\ reach[Left] < 0
    /\ \A r \in Res : reach[r] >= 0 => InBounds(kres.addrs[r], kres.bufs[r], reach[r]) \/ Shrunk(r)

ProgInv ==
    /\ phase \in {"check", "run"} /\ first \in {"none", "sure", "unsure"}
    /\ todo \in Seq(Fed)
    /\ phase = "check" => Checking
    /\ phase = "run" => Running

LEMMA FreshIs ==
    ASSUME NEW b \in [Res -> Buffers \X Nat], NEW word \in {"ok", "garbage"}
    PROVE  LET p == Fresh(b, word).kd
               a == Fresh(b, word).sw
           IN  /\ p \in KdState /\ a \in SwState /\ p.err = word /\ a.err = word
               /\ Placed(p) /\ Alike(p, a) /\ Tracked(p, Machine) /\ FitsIn(p, Nothing)
<1> DEFINE p == Fresh(b, word).kd
           a == Fresh(b, word).sw
           bufs == [r \in Res |-> b[r][1]]
           indexes == [r \in Res |-> b[r][2]]
           s == [en_st |-> -1, a_set |-> FALSE, vlen |-> -1, rs |-> KD!Unset, rt |-> KD!Unset, rd |-> KD!Unset]
           w == [en_st |-> -1, a_set |-> 0, rs_idx |-> -1, rs_len |-> 0, rt_idx |-> -1, rt_len |-> 0,
                 rd_idx |-> -1, rd_len |-> 0, vlen |-> -1]
<1>1. p = [ts |-> [t \in Threads |-> s], curres |-> 0, bufs |-> bufs, indexes |-> indexes,
           vlens |-> [r \in Res |-> -1], addrs |-> [r \in Res |-> KD!NoAddr], err |-> word]
  BY Names DEF Fresh, KD!ProgStateCreate
<1>2. a = [threads |-> [t \in Threads |-> w], currentRes |-> 0,
           res |-> [r \in Res |-> [data |-> b[r][1], index |-> b[r][2], vlen |-> -1]], err |-> word]
  BY Names DEF Fresh, SW!Reset, SW!Resource
<1>3. \A r \in Res : b[r][1] \in Buffers /\ b[r][2] \in Nat /\ r \in Nat
  BY ProgramsAssumption DEF Res
<1>4. s \in KdThread /\ w \in SwThread /\ SameThread(s, w)
  BY DEF KdThread, KdReg, KD!Unset, SwThread, SameThread
<1>5. /\ s.rs.idx = -1 /\ s.rt.idx = -1 /\ s.rd.idx = -1 /\ s.vlen = -1 /\ s.en_st = -1
  BY DEF KD!Unset
<1> HIDE DEF p, a, s, w
<1>6. /\ p.ts = [t \in Threads |-> s] /\ p.curres = 0 /\ p.bufs = bufs /\ p.indexes = indexes
      /\ p.vlens = [r \in Res |-> -1] /\ p.addrs = [r \in Res |-> KD!NoAddr] /\ p.err = word
  BY <1>1
<1>7. p \in KdState
  BY <1>1, <1>3, <1>4 DEF KdState, KdAddr, Errors
<1>8. a \in SwState
  BY <1>2, <1>3, <1>4 DEF SwState, SwRes, Errors
<1>9. Alike(p, a)
  BY <1>2, <1>3, <1>4, <1>6 DEF Alike, Same
<1>10. Placed(p)
  BY <1>3, <1>5, <1>6 DEF Placed, InUse
<1>11. Tracked(p, Machine)
  <2>1. Shape(Machine)  BY DEF Shape, Machine, LeftRegisters, Fields
  <2>2. \A g : Known(s, g)  BY <1>5 DEF Known
  <2> QED  BY <1>6, <2>1, <2>2 DEF Tracked
<1>12. FitsIn(p, Nothing)
  BY DEF FitsIn, Nothing
<1>13. a.err = word  BY <1>2
<1> QED  BY <1>6, <1>7, <1>8, <1>9, <1>10, <1>11, <1>12, <1>13 DEF p, a

LEMMA BindingTypes ==
    ASSUME NEW b \in [Res -> Bindings]
    PROVE  b \in [Res -> Buffers \X Nat]
BY ProgramsAssumption DEF Buffers

LEMMA InitInv ==
    ASSUME ProgInit PROVE ProgInv
<1>1. PICK b \in [Res -> Bindings], word \in {"ok", "garbage"}, s \in Preludes :
          /\ phase = "check"
          /\ kd = Fresh(b, word).kd /\ sw = Fresh(b, word).sw
          /\ x = Machine
          /\ reach = Nothing /\ first = "none"
          /\ todo = s
  BY DEF ProgInit
<1>2. b \in [Res -> Buffers \X Nat]  BY BindingTypes
<1>3. /\ kd \in KdState /\ sw \in SwState /\ kd.err = word /\ sw.err = word
      /\ Placed(kd) /\ Alike(kd, sw) /\ Tracked(kd, x) /\ FitsIn(kd, reach)
  BY <1>1, <1>2, FreshIs
<1>4. todo \in Seq(Fed)  BY <1>1, ProgramsAssumption
<1> QED  BY <1>1, <1>3, <1>4 DEF ProgInv, Checking, Sound, Agreed

LEMMA FeedSound ==
    ASSUME kd \in KdState, Sound, kd.err # "EINVAL", NEW c \in Fed, kd' = KD!Prepare(kd, c),
           IF KD!Assembled(kd') THEN x' = Unsettled(c, Executed(kd, x, c)) /\ reach' = Farther(c)
           ELSE UNCHANGED <<x, reach>>
    PROVE  kd' \in KdState /\ Sound' /\ kd'.err \in {"ok", "EINVAL"}
<1>1. KdPrepared(kd, kd')  BY KdPrepares
<1>2. kd' \in KdState /\ (kd'.err = "EINVAL" \/ (kd'.err = "ok" /\ kd'.bufs = kd.bufs /\ kd'.indexes = kd.indexes))
  BY <1>1 DEF KdPrepared
<1>3. Placed(kd) /\ Tracked(kd, x) /\ FitsIn(kd, reach)  BY DEF Sound
<1>4. ASSUME kd'.err = "ok"  PROVE Placed(kd') /\ Tracked(kd', x') /\ FitsIn(kd', reach')
  <2>1. x' = Unsettled(c, Executed(kd, x, c)) /\ reach' = Farther(c)  BY <1>4 DEF KD!Assembled
  <2>2. Placed(kd') /\ Tracked(kd', x')
    <3>1. KD!Prepare(kd, c).err # "EINVAL"  BY <1>4
    <3> DEFINE z == Executed(kd, x, c)
    <3>2. Placed(KD!Prepare(kd, c)) /\ Tracked(KD!Prepare(kd, c), z)
      BY <1>3, <3>1, SettersTrack, OperandsTrack, RestTracks
    <3> HIDE DEF z
    <3>3. Placed(kd') /\ Tracked(kd', z)  BY <3>2
    <3>4. Shape(Unsettled(c, z)) /\ SameFields(z, Unsettled(c, z))  BY <3>3, UnsettledKeeps DEF Tracked
    <3>5. Tracked(kd', Unsettled(c, z))  BY <3>3, <3>4, KeptTracked
    <3> QED  BY <2>1, <3>3, <3>5 DEF z
  <2>3. FitsIn(kd, Farther(c))
    <3>1. CASE c.op \in Verifying
      <4>1. \/ c.op = "prod" /\ ~KdProdBad(kd, c)
            \/ c.op = "store" /\ ~KdStoreBad(kd, c)
        BY <1>4, <3>1, KdVerifies, KdRefused DEF Verifying
      <4>2. \A u \in Touched(c) : u[1] \in Res /\ u[1] < kd.curres /\ u[2] \in Int /\ u[2] <= Room(kd, u[1])
        BY <1>3, <4>1, TouchedFits
      <4> QED  BY <1>3, <4>2, FartherFits
    <3>2. CASE c.op \notin Verifying
      BY <1>3, <3>2, NothingTouched DEF FitsIn
    <3> QED  BY <3>1, <3>2
  <2>4. kd.curres \in Nat /\ kd'.curres \in Nat /\ kd.curres <= kd'.curres
    <3>1. kd.curres \in Nat /\ kd'.curres \in Nat  BY <1>2 DEF KdState
    <3>2. kd'.curres = kd.curres \/ kd'.curres = kd.curres + 1
      BY <1>4, KdCurres
    <3> QED  BY <3>1, <3>2
  <2>5. FitsIn(kd', Farther(c))  BY <1>2, <1>4, <2>3, <2>4, FitsStay
  <2> QED  BY <2>1, <2>2, <2>5
<1> QED  BY <1>2, <1>4 DEF Sound

LEMMA FeedAgreed ==
    ASSUME kd \in KdState, Agreed, kd.err # "EINVAL", first \in {"none", "sure", "unsure"}, NEW c \in Fed,
           kd' = KD!Prepare(kd, c), sw' = SW!PrepareProg(sw, c),
           first' = IF first # "none" THEN first ELSE IF c.op \in Silent THEN "unsure" ELSE "sure"
    PROVE  Agreed'
<1>1. kd' \in KdState /\ kd'.err \in {"ok", "EINVAL"}
  BY KdPrepares DEF KdPrepared
<1>2. CASE sw.err = "EINVAL"
  <2>1. sw' = sw  BY <1>2 DEF SW!PrepareProg
  <2>2. first = "unsure"  BY <1>2 DEF Agreed
  <2> QED  BY <1>1, <1>2, <2>1, <2>2 DEF Agreed
<1>3. CASE sw.err # "EINVAL"
  <2>1. sw \in SwState /\ Alike(kd, sw)  BY <1>3 DEF Agreed
  <2>2. /\ c.op \notin Silent \/ sw.err = "ok" => Together(kd', sw')
        /\ c.op \in Silent => kd'.err = "ok"
        /\ c.op \in Silent /\ sw.err # "ok" => sw'.err = "EINVAL"
    BY <1>3, <2>1, SameVerdict
  <2>3. CASE c.op \notin Silent \/ sw.err = "ok"
    <3>1. \/ kd'.err = "EINVAL" /\ sw'.err = "EINVAL"
          \/ kd'.err = "ok" /\ sw'.err = "ok" /\ sw' \in SwState /\ Alike(kd', sw')
      BY <2>2, <2>3 DEF Together
    <3>2. first' \in {"sure", "unsure"}  OBVIOUS
    <3> QED  BY <3>1, <3>2 DEF Agreed
  <2>4. CASE c.op \in Silent /\ sw.err # "ok"
    <3>1. kd'.err = "ok" /\ sw'.err = "EINVAL"  BY <2>2, <2>4
    <3>2. first # "sure"  BY <1>3, <2>4 DEF Agreed
    <3>3. first' = "unsure"  BY <2>4, <3>2
    <3> QED  BY <3>1, <3>3 DEF Agreed
  <2> QED  BY <2>3, <2>4
<1> QED  BY <1>2, <1>3

LEMMA FeedInv ==
    ASSUME ProgInv, NEW c \in Menu \cup {todo[i] : i \in DOMAIN todo}, Feed(c)
    PROVE  ProgInv'
<1>1. c \in Fed
  <2>1. \A i \in DOMAIN todo : todo[i] \in Fed  BY DEF ProgInv
  <2> QED  BY <2>1 DEF Fed
<1>2. phase = "check" /\ phase' = "check" /\ kd.err # "EINVAL" /\ Checking  BY DEF Feed, ProgInv
<1>3. kd' = KD!Prepare(kd, c) /\ sw' = SW!PrepareProg(sw, c)  BY DEF Feed
<1>4. IF KD!Assembled(kd') THEN x' = Unsettled(c, Executed(kd, x, c)) /\ reach' = Farther(c)
      ELSE UNCHANGED <<x, reach>>
  BY DEF Feed, Executed
<1>5. kd' \in KdState /\ Sound'  BY <1>1, <1>2, <1>3, <1>4, FeedSound DEF Checking
<1>6. first' = IF first # "none" THEN first ELSE IF c.op \in Silent THEN "unsure" ELSE "sure"
  BY DEF Feed
<1>7. first \in {"none", "sure", "unsure"} /\ first' \in {"none", "sure", "unsure"}
  BY <1>6 DEF ProgInv
<1>8. Agreed'  BY <1>1, <1>2, <1>3, <1>6, <1>7, FeedAgreed DEF Checking
<1>9. todo' \in Seq(Fed)
  <2>1. todo \in Seq(Fed)  BY DEF ProgInv
  <2>2. todo' = todo \/ (todo # << >> /\ todo' = Tail(todo))  BY DEF Feed
  <2> QED  BY <2>1, <2>2
<1> QED  BY <1>2, <1>5, <1>7, <1>8, <1>9 DEF ProgInv, Checking

LEMMA CreateInv ==
    ASSUME ProgInv, Create  PROVE ProgInv'
<1>1. /\ phase = "check" /\ kd.err = "ok" /\ sw.err = "ok" /\ phase' = "run"
      /\ kres' = [bufs |-> kd.bufs, vlens |-> kd.vlens, addrs |-> kd.addrs]
      /\ sres' = sw.res /\ reach' = reach /\ first' = first /\ todo' = << >>
  BY DEF Create, KD!Assembled, SW!Prepared
<1>2. /\ kd \in KdState /\ Placed(kd) /\ FitsIn(kd, reach) /\ sw \in SwState /\ Alike(kd, sw)
  BY <1>1 DEF ProgInv, Checking, Sound, Agreed
<1>3. kres' \in KresType  BY <1>1, <1>2 DEF KresType, KdState
<1>4. sres' \in [Res -> SwRes]  BY <1>1, <1>2 DEF SwState
<1>5. kres'.bufs = kd.bufs /\ kres'.vlens = kd.vlens /\ kres'.addrs = kd.addrs  BY <1>1
<1>6. ASSUME NEW r \in Res
      PROVE  /\ sres'[r].vlen = kres'.vlens[r]
             /\ kres'.vlens[r] >= 0 => kres'.addrs[r] = <<sres'[r].data, sres'[r].index>>
  <2>1. sw.res[r].data = kd.bufs[r] /\ sw.res[r].index = kd.indexes[r] /\ sw.res[r].vlen = kd.vlens[r]
    BY <1>2 DEF Alike, Same
  <2>2. kd.vlens[r] >= 0 => kd.addrs[r] = <<kd.bufs[r], kd.indexes[r]>>  BY <1>2 DEF Placed
  <2> QED  BY <1>1, <1>5, <2>1, <2>2
<1>7. ASSUME NEW r \in Res, reach'[r] >= 0
      PROVE  InBounds(kres'.addrs[r], kres'.bufs[r], reach'[r])
  <2>1. reach[r] \in Int /\ r < kd.curres /\ reach[r] <= Room(kd, r)  BY <1>1, <1>2, <1>7 DEF FitsIn
  <2>2. kd.addrs[r] = <<kd.bufs[r], kd.indexes[r]>>  BY <1>2, <2>1 DEF Placed
  <2>3. BufLen[kd.bufs[r]] \in Nat /\ kd.indexes[r] \in Nat  BY <1>2, RoomTypes
  <2> QED  BY <1>1, <1>5, <2>1, <2>2, <2>3 DEF InBounds, Room
<1>8. reach' \in [Res \cup {Left} -> Int] /\ reach'[Left] < 0  BY <1>1, <1>2 DEF FitsIn
<1>9. Running'  BY <1>3, <1>4, <1>6, <1>7, <1>8 DEF Running
<1>10. first' \in {"none", "sure", "unsure"} /\ todo' \in Seq(Fed)  BY <1>1 DEF ProgInv
<1> QED  BY <1>1, <1>9, <1>10 DEF ProgInv

LEMMA RebindInv ==
    ASSUME ProgInv, NEW b \in [Res -> Bindings], Rebind(b)
    PROVE  ProgInv'
<1> DEFINE bufs == [r \in Res |-> b[r][1]]
           indexes == [r \in Res |-> b[r][2]]
<1>1. /\ phase = "run" /\ phase' = "run" /\ first' = first /\ todo' = todo /\ reach' = reach
      /\ kres' = IF KD!SwapRefused(kres, bufs, indexes) THEN kres ELSE KD!SwapRes(kres, bufs, indexes)
      /\ sres' = IF SW!UpdateRefused(sres, bufs, indexes) THEN sres ELSE SW!Update(sres, bufs, indexes)
  BY DEF Rebind
<1>2. Running  BY <1>1 DEF ProgInv
<1>3. DOMAIN kres.vlens = Res /\ DOMAIN kres.addrs = Res /\ DOMAIN sres = Res
  BY <1>2 DEF Running, KresType
<1>4. \A r \in Res : bufs[r] \in Buffers /\ indexes[r] \in Nat /\ BufLen[bufs[r]] \in Nat
  <2>1. b \in [Res -> Buffers \X Nat]  BY BindingTypes
  <2> QED  BY <2>1, ProgramsAssumption DEF Buffers
<1>5. bufs \in [Res -> Buffers]  BY <1>4
<1> HIDE DEF bufs, indexes
<1>6. KD!SwapRefused(kres, bufs, indexes) <=> SW!UpdateRefused(sres, bufs, indexes)
  BY <1>2, <1>3 DEF Running, KD!SwapRefused, SW!UpdateRefused
<1>7. CASE KD!SwapRefused(kres, bufs, indexes)
  <2>1. kres' = kres /\ sres' = sres  BY <1>1, <1>6, <1>7
  <2> QED  BY <1>1, <1>2, <2>1 DEF ProgInv, Running, Shrunk
<1>8. CASE ~KD!SwapRefused(kres, bufs, indexes)
  <2> DEFINE ad == [r \in Res |-> IF kres.vlens[r] < 0 THEN kres.addrs[r] ELSE <<bufs[r], indexes[r]>>]
  <2>1. kres' = [kres EXCEPT !.bufs = bufs, !.addrs = ad]
    BY <1>1, <1>3, <1>8 DEF KD!SwapRes
  <2>2. \A r \in Res : ad[r] \in KdAddr  BY <1>2, <1>4 DEF Running, KresType, KdAddr
  <2>3. ad \in [Res -> KdAddr]  BY <2>2
  <2> HIDE DEF ad
  <2>4. kres' = [bufs |-> bufs, vlens |-> kres.vlens, addrs |-> ad]
    BY <1>2, <2>1 DEF Running, KresType
  <2>5. kres' \in KresType  BY <1>2, <1>5, <2>3, <2>4 DEF Running, KresType
  <2>6. kres'.bufs = bufs /\ kres'.vlens = kres.vlens /\ kres'.addrs = ad  BY <2>4
  <2>7. sres' = SW!Update(sres, bufs, indexes)  BY <1>1, <1>6, <1>8
  <2>8. ASSUME NEW r \in Res
        PROVE  /\ sres'[r] \in SwRes /\ sres'[r].vlen = sres[r].vlen
               /\ sres[r].vlen >= 0 => sres'[r].data = bufs[r] /\ sres'[r].index = indexes[r]
    <3>1. sres'[r] = IF sres[r].vlen < 0 THEN sres[r]
                     ELSE [sres[r] EXCEPT !.data = bufs[r], !.index = indexes[r]]
      BY <1>3, <2>7 DEF SW!Update
    <3>2. sres[r] \in SwRes  BY <1>2 DEF Running
    <3>3. [sres[r] EXCEPT !.data = bufs[r], !.index = indexes[r]]
            = [data |-> bufs[r], index |-> indexes[r], vlen |-> sres[r].vlen]
      <4>1. [sres[r] EXCEPT !.data = bufs[r]]
              = [data |-> bufs[r], index |-> sres[r].index, vlen |-> sres[r].vlen]
        BY <3>2 DEF SwRes
      <4>2. [[data |-> bufs[r], index |-> sres[r].index, vlen |-> sres[r].vlen] EXCEPT !.index = indexes[r]]
              = [data |-> bufs[r], index |-> indexes[r], vlen |-> sres[r].vlen]
        OBVIOUS
      <4>3. [sres[r] EXCEPT !.data = bufs[r], !.index = indexes[r]]
              = [[sres[r] EXCEPT !.data = bufs[r]] EXCEPT !.index = indexes[r]]
        OBVIOUS
      <4> QED  BY <4>1, <4>2, <4>3
    <3>4. CASE sres[r].vlen < 0  BY <3>1, <3>2, <3>4 DEF SwRes
    <3>5. CASE ~(sres[r].vlen < 0)
      <4>1. sres'[r] = [data |-> bufs[r], index |-> indexes[r], vlen |-> sres[r].vlen]  BY <3>1, <3>3, <3>5
      <4> QED  BY <1>4, <3>2, <4>1 DEF SwRes
    <3> QED  BY <3>4, <3>5
  <2>9. sres' \in [Res -> SwRes]  BY <1>3, <2>7, <2>8 DEF SW!Update
  <2>10. ASSUME NEW r \in Res
         PROVE  /\ sres'[r].vlen = kres'.vlens[r]
                /\ kres'.vlens[r] >= 0 => kres'.addrs[r] = <<sres'[r].data, sres'[r].index>>
    <3>1. sres[r].vlen = kres.vlens[r] /\ kres.vlens[r] \in Int  BY <1>2 DEF Running, KresType
    <3>2. kres.vlens[r] >= 0 => ad[r] = <<bufs[r], indexes[r]>>  BY <3>1 DEF ad
    <3> QED  BY <2>6, <2>8, <3>1, <3>2
  <2>11. ASSUME NEW r \in Res, reach'[r] >= 0, ~Shrunk(r)'
         PROVE  InBounds(kres'.addrs[r], kres'.bufs[r], reach'[r])
    <3>1. reach[r] \in Int /\ kres.vlens[r] \in Int  BY <1>2 DEF Running, KresType
    <3>2. reach[r] >= 0 /\ reach[r] <= kres.vlens[r]  BY <1>1, <2>6, <2>11, <3>1 DEF Shrunk
    <3>3. indexes[r] <= BufLen[bufs[r]] /\ BufLen[bufs[r]] - indexes[r] >= kres.vlens[r]
      BY <1>3, <1>4, <1>8, <3>1, <3>2 DEF KD!SwapRefused
    <3>4. ad[r] = <<bufs[r], indexes[r]>>  BY <3>1, <3>2 DEF ad
    <3> QED  BY <1>1, <1>4, <2>6, <3>1, <3>2, <3>3, <3>4 DEF InBounds
  <2>12. reach' \in [Res \cup {Left} -> Int] /\ reach'[Left] < 0  BY <1>1, <1>2 DEF Running
  <2>13. Running'  BY <2>5, <2>9, <2>10, <2>11, <2>12 DEF Running
  <2> QED  BY <1>1, <2>13 DEF ProgInv
<1> QED  BY <1>7, <1>8

\* The invariant holds: it is what the two theorems below rest on.
THEOREM ProgramsInductive == ProgSpec => []ProgInv
<1>1. ProgInit => ProgInv  BY InitInv
<1>2. ProgInv /\ [ProgNext]_progVars => ProgInv'
  <2> SUFFICES ASSUME ProgInv, [ProgNext]_progVars  PROVE ProgInv'  OBVIOUS
  <2>1. CASE \E c \in Menu \cup {todo[i] : i \in DOMAIN todo} : Feed(c)  BY <2>1, FeedInv
  <2>2. CASE Create  BY <2>2, CreateInv
  <2>3. CASE \E b \in [Res -> Bindings] : Rebind(b)  BY <2>3, RebindInv
  <2>4. CASE UNCHANGED progVars
    BY <2>4 DEF progVars, ProgInv, Checking, Sound, Agreed, Running, Shrunk, InBounds
  <2> QED  BY <2>1, <2>2, <2>3, <2>4 DEF ProgNext
<1> QED  BY <1>1, <1>2, PTL DEF ProgSpec

\* VerdictsAgree: for programs of any length and any commands, the two checkers give
\* the same verdict on every program that does not begin with AF or NOP and on every
\* update, expect the same lengths, and have every used resource at the same place
\* (prog_prepare and vxe_prog_swap_res in vxe_prog.c, prepareProg and cmdBufferUpdate
\* in the emulator).
THEOREM CheckersAgree == ProgSpec => []VerdictsAgree
<1>1. ProgInv => VerdictsAgree
  <2> SUFFICES ASSUME ProgInv  PROVE VerdictsAgree  OBVIOUS
  <2>1. ASSUME phase = "check", first = "sure"
        PROVE  /\ KD!Assembled(kd) <=> SW!Prepared(sw)
               /\ KD!Assembled(kd) => \A r \in Res : kd.vlens[r] = sw.res[r].vlen
    BY <2>1 DEF ProgInv, Checking, Agreed, Alike, Same, KD!Assembled, SW!Prepared
  <2>2. ASSUME phase = "run", NEW r \in Res, kres.vlens[r] >= 0
        PROVE  kres.addrs[r] = <<sres[r].data, sres[r].index>>
    BY <2>2 DEF ProgInv, Running
  <2> QED  BY <2>1, <2>2 DEF VerdictsAgree
<1> QED  BY <1>1, ProgramsInductive, PTL

\* CheckedInBounds: whatever vectors a program that vxe_prog_assemble has taken reads
\* or writes, through the addresses put into its commands, are inside the buffers they
\* are bound to, and no address left by an earlier program is followed; the exchange
\* of bindings keeps this, save where the last vector was not the longest.
THEOREM InBoundsProved == ProgSpec => []CheckedInBounds
<1>1. ProgInv => CheckedInBounds
  <2> SUFFICES ASSUME ProgInv  PROVE CheckedInBounds  OBVIOUS
  <2>1. kd.err # "EINVAL" => reach[Left] < 0
    BY DEF ProgInv, Checking, Sound, FitsIn, Running
  <2>2. ASSUME kd.err # "EINVAL", phase = "check", NEW r \in Res, reach[r] >= 0
        PROVE  InBounds(kd.addrs[r], kd.bufs[r], reach[r])
    <3>1. kd \in KdState /\ Placed(kd) /\ FitsIn(kd, reach)  BY <2>2 DEF ProgInv, Checking, Sound
    <3>2. reach[r] \in Int /\ r < kd.curres /\ reach[r] <= Room(kd, r)  BY <2>2, <3>1 DEF FitsIn
    <3>3. kd.addrs[r] = <<kd.bufs[r], kd.indexes[r]>>  BY <3>1, <3>2 DEF Placed
    <3>4. BufLen[kd.bufs[r]] \in Nat /\ kd.indexes[r] \in Nat  BY <3>1, RoomTypes
    <3> QED  BY <3>2, <3>3, <3>4 DEF InBounds, Room
  <2>3. ASSUME phase = "run", NEW r \in Res, reach[r] >= 0
        PROVE  InBounds(kres.addrs[r], kres.bufs[r], reach[r]) \/ Shrunk(r)
    BY <2>3 DEF ProgInv, Running
  <2> QED  BY <2>1, <2>2, <2>3 DEF CheckedInBounds
<1> QED  BY <1>1, ProgramsInductive, PTL

-----------------------------------------------------------------------------
(* Whose values a program computes with.                                   *)

Cells == (Res \cup {Left}) \X (0 .. MaxLen)

\* The resources hold values of the program.
Values(y) == /\ "mem" \in DOMAIN y /\ DOMAIN y.mem = Cells
             /\ \A q \in Cells : q[1] # Left => y.mem[q] = TRUE
             /\ \A t \in Threads : "acc" \in DOMAIN y.regs[t]

\* So does an accumulator that the driver knows to be set.
OwnValues(p, y) ==
    /\ Values(y)
    /\ \A t \in Threads : /\ p.ts[t].a_set => y.regs[t].acc = TRUE
                          /\ p.ts[t].vlen <= MaxLen

SetsAcc(c, t) == c.op = "setacc" /\ t = c.dst

LEMMA KdRemembers ==
    ASSUME NEW p \in KdState, p.err # "EINVAL", NEW c \in Fed, KD!Prepare(p, c).err # "EINVAL",
           NEW t \in Threads
    PROVE  LET s == KD!Prepare(p, c).ts[t]
           IN  /\ s.a_set => p.ts[t].a_set \/ SetsAcc(c, t)
               /\ s.vlen = p.ts[t].vlen \/ s.vlen \in 0 .. MaxLen
<1> DEFINE q == KD!Prepare(p, c)
           d == c.dst
<1>1. WellFormed(c)  BY ProgramsAssumption
<1>2. \A u \in Threads : p.ts[u] \in KdThread  BY DEF KdState
<1>3. CASE c.op \in Setters
  <2>1. d \in Threads  BY <1>1, <1>3 DEF WellFormed, Setters
  <2>2. PICK s \in KdThread : /\ q = KdSet(p, d, s)
                              /\ s.a_set => p.ts[d].a_set \/ c.op = "setacc"
                              /\ s.vlen = p.ts[d].vlen \/ s.vlen \in 0 .. MaxLen
    <3>1. CASE c.op = "setacc"
      <4>1. q = KdSet(p, d, [p.ts[d] EXCEPT !.a_set = TRUE])  BY <3>1, KdSetters
      <4> DEFINE s == [p.ts[d] EXCEPT !.a_set = TRUE]
      <4>2. s \in KdThread  BY <1>2, <2>1, KdThreads
      <4>3. s.vlen = p.ts[d].vlen  BY <1>2, <2>1 DEF KdThread
      <4> HIDE DEF s, q, d
      <4> QED  BY <3>1, <4>1, <4>2, <4>3 DEF s
    <3>2. CASE c.op = "setvl"
      <4>1. q = KdSet(p, d, [p.ts[d] EXCEPT !.vlen = c.arg])  BY <3>2, KdSetters
      <4>2. c.arg \in 0 .. MaxLen /\ c.arg \in Int  BY <1>1, <3>2 DEF WellFormed
      <4> DEFINE s == [p.ts[d] EXCEPT !.vlen = c.arg]
      <4>3. s \in KdThread  BY <1>2, <2>1, <4>2, KdThreads
      <4>4. s.vlen = c.arg /\ s.a_set = p.ts[d].a_set  BY <1>2, <2>1 DEF KdThread
      <4> HIDE DEF s, q, d
      <4> QED  BY <4>1, <4>2, <4>3, <4>4 DEF s
    <3>3. CASE c.op = "seten"
      <4>1. q = KdSet(p, d, [p.ts[d] EXCEPT !.en_st = c.arg])  BY <3>3, KdSetters
      <4>2. c.arg \in {0, 1}  BY <1>1, <3>3 DEF WellFormed
      <4> DEFINE s == [p.ts[d] EXCEPT !.en_st = c.arg]
      <4>3. s \in KdThread  BY <1>2, <2>1, <4>2, KdThreads
      <4>4. s.vlen = p.ts[d].vlen /\ s.a_set = p.ts[d].a_set  BY <1>2, <2>1 DEF KdThread
      <4> HIDE DEF s, q, d
      <4> QED  BY <4>1, <4>3, <4>4 DEF s
    <3> QED  BY <1>3, <3>1, <3>2, <3>3 DEF Setters
  <2>3. q.ts = [p.ts EXCEPT ![d] = s]  BY <2>1, <2>2, KdSetIs DEF KdIs
  <2>4. q.ts[t] = IF t = d THEN s ELSE p.ts[t]  BY <2>3 DEF KdState
  <2> HIDE DEF q, d
  <2> QED  BY <2>2, <2>4 DEF q, d, SetsAcc
<1>4. CASE c.op \in Operands
  <2>1. d \in Threads  BY <1>1, <1>4 DEF WellFormed, Operands
  <2>2. ~KdNoOperand(p) /\ \E reg \in {"rs", "rt", "rd"} : q = KdWith(p, d, reg)
    BY <1>4, KdOperands, KdRefused DEF Operands
  <2>3. PICK reg \in {"rs", "rt", "rd"} : q = KdWith(p, d, reg)  BY <2>2
  <2>4. q.ts = [p.ts EXCEPT ![d] = [p.ts[d] EXCEPT ![reg] = KdOperand(p)]]
    <3>1. KdIs(KdWith(p, d, reg), p, [p.ts EXCEPT ![d] = [p.ts[d] EXCEPT ![reg] = KdOperand(p)]],
               p.curres + 1, p.vlens,
               [p.addrs EXCEPT ![p.curres] = <<p.bufs[p.curres], p.indexes[p.curres]>>])
      BY <2>1, <2>2, KdWithIs
    <3> HIDE DEF q, d
    <3> QED  BY <2>3, <3>1 DEF KdIs
  <2>5. q.ts[t] = IF t = d THEN [p.ts[d] EXCEPT ![reg] = KdOperand(p)] ELSE p.ts[t]
    BY <2>4 DEF KdState
  <2>6. q.ts[t].a_set = p.ts[t].a_set /\ q.ts[t].vlen = p.ts[t].vlen
    <3> HIDE DEF q
    <3> QED  BY <1>2, <2>5 DEF KdThread
  <2> QED  BY <2>6
<1>5. CASE c.op \notin Setters \cup Operands
  <2>1. q.ts = p.ts
    <3>1. CASE c.op = "prod"
      <4>1. q = KdLens(p, KdProdLens(p, c))  BY <3>1, KdVerifies, KdRefused
      <4> QED  BY <4>1, KdLensTypes, KdLensIs DEF KdIs
    <3>2. CASE c.op = "store"
      <4>1. q = KdLens(p, KdStoreLens(p, c))  BY <3>2, KdVerifies, KdRefused
      <4> QED  BY <4>1, KdLensTypes, KdLensIs DEF KdIs
    <3>3. CASE c.op \notin Verifying
      <4>1. q = KdTs(p, p.ts)  BY <1>5, <3>3, KdSetters, KdRefused DEF Verifying
      <4> QED  BY <4>1, KdTsIs DEF KdIs
    <3> QED  BY <3>1, <3>2, <3>3 DEF Verifying
  <2> QED  BY <2>1
<1> QED  BY <1>3, <1>4, <1>5

\* No register but the accumulator of its thread is a value.
LEMMA SetValues ==
    ASSUME NEW y, Shape(y), Values(y), NEW t \in Threads, NEW reg, NEW value
    PROVE  /\ Values(EX!Set(y, t, reg, value))
           /\ \A u \in Threads : EX!Set(y, t, reg, value).regs[u].acc =
                  IF u = t /\ reg = "acc" THEN value ELSE y.regs[u].acc
<1> DEFINE z == EX!Set(y, t, reg, value)
<1>1. t[1] \in Vpus  BY DEF Threads
<1>2. z = [y EXCEPT !.regs = [y.regs EXCEPT ![t] = [y.regs[t] EXCEPT ![reg] = value]]]
  BY <1>1 DEF EX!Set
<1>3. /\ DOMAIN z = DOMAIN y /\ z.mem = y.mem
      /\ z.regs = [y.regs EXCEPT ![t] = [y.regs[t] EXCEPT ![reg] = value]]
  BY <1>2 DEF Shape, Values
<1> HIDE DEF z
<1>4. \A u \in Threads : z.regs[u] = IF u = t THEN [y.regs[t] EXCEPT ![reg] = value] ELSE y.regs[u]
  BY <1>3 DEF Shape
<1>5. \A u \in Threads : "acc" \in DOMAIN z.regs[u]  BY <1>4 DEF Values
<1>6. Values(z)  BY <1>3, <1>5 DEF Values
<1>7. \A u \in Threads : z.regs[u].acc = IF u = t /\ reg = "acc" THEN value ELSE y.regs[u].acc
  BY <1>4 DEF Values
<1> QED  BY <1>6, <1>7 DEF z

LEMMA ProdOwn ==
    ASSUME NEW p \in KdState, Placed(p), NEW y, Tracked(p, y), OwnValues(p, y), NEW c, c.op = "prod",
           ~KdProdBad(p, c)
    PROVE  /\ Values(EX!Prod(y, c.dst))
           /\ \A t \in Threads : p.ts[t].a_set => EX!Prod(y, c.dst).regs[t].acc = TRUE
<1> DEFINE z == EX!Prod(y, c.dst)
           W == EX!Working(y.regs, c.dst)
           acc(t) == EX!VecProd(y.regs[t], y.mem)
<1>1. z = [y EXCEPT !.regs = [t \in Threads |-> IF t \in W THEN [y.regs[t] EXCEPT !.acc = acc(t)]
                                               ELSE y.regs[t]]]
  BY Names DEF EX!Prod
<1>2. /\ DOMAIN z = DOMAIN y /\ z.mem = y.mem
      /\ \A t \in Threads : z.regs[t] = IF t \in W THEN [y.regs[t] EXCEPT !.acc = acc(t)] ELSE y.regs[t]
  BY <1>1 DEF Tracked, Shape, OwnValues, Values
<1>3. ASSUME NEW t \in W  PROVE acc(t) = TRUE
  <2> DEFINE s == p.ts[t]
             g == y.regs[t]
  <2>1. t \in Threads /\ s \in KdThread /\ Known(s, g) /\ KD!OperandsFit(s)  BY WorkingFit
  <2>2. InUse(s.rs, p) /\ InUse(s.rt, p)  BY <2>1 DEF Placed
  <2>3. s.a_set => g.acc = TRUE  BY <2>1 DEF OwnValues
  <2>4. s.vlen <= MaxLen  BY <2>1 DEF OwnValues
  <2> HIDE DEF s
  <2>5. s.a_set /\ s.rs.idx >= 0 /\ s.rt.idx >= 0 /\ s.vlen >= 0 /\ s.vlen \in Int
    BY <2>1 DEF KD!OperandsFit, KdThread
  <2>6. /\ g.acc = TRUE /\ g.vlen = s.vlen /\ g.rs = <<s.rs.idx, 0>> /\ g.rt = <<s.rt.idx, 0>>
        /\ s.rs.idx \in Res /\ s.rt.idx \in Res
    BY <2>1, <2>2, <2>3, <2>5 DEF Known, InUse
  <2>7. ASSUME NEW r \in Res, NEW i \in 0 .. s.vlen - 1
        PROVE  y.mem[EX!Element(<<r, 0>>, i)] = TRUE
    <3>1. EX!Element(<<r, 0>>, i) = <<r, i>>  BY DEF EX!Element
    <3>2. i \in 0 .. MaxLen  BY <2>4, <2>5, ProgramsAssumption
    <3>3. <<r, i>> \in Cells /\ r # Left  BY <3>2, ProgramsAssumption DEF Cells, Res, Left
    <3> QED  BY <3>1, <3>3 DEF OwnValues, Values
  <2> HIDE DEF g
  <2>8. \A i \in 0 .. g.vlen - 1 : /\ y.mem[EX!Element(g.rs, i)] = TRUE
                                   /\ y.mem[EX!Element(g.rt, i)] = TRUE
    BY <2>6, <2>7
  <2>9. g.vlen \in Nat  BY <2>5, <2>6
  <2>10. EX!VecProd(g, y.mem) = TRUE  BY <2>6, <2>8, <2>9, ProductKnown
  <2> QED  BY <2>10 DEF g
<1> HIDE DEF z, W, acc
<1>4. \A t \in Threads : "acc" \in DOMAIN y.regs[t]  BY DEF OwnValues, Values
<1>5. Values(z)  BY <1>2, <1>4 DEF OwnValues, Values
<1>6. ASSUME NEW t \in Threads, p.ts[t].a_set  PROVE z.regs[t].acc = TRUE
  <2>1. y.regs[t].acc = TRUE  BY <1>6 DEF OwnValues
  <2> QED  BY <1>2, <1>3, <1>4, <2>1
<1> QED  BY <1>5, <1>6 DEF z

LEMMA StoreOwn ==
    ASSUME NEW p \in KdState, NEW y, Tracked(p, y), OwnValues(p, y), NEW c, c.op = "store", ~KdStoreBad(p, c)
    PROVE  Values(EX!Store(y, c.dst)) /\ EX!Store(y, c.dst).regs = y.regs
<1> DEFINE z == EX!Store(y, c.dst)
           W(q) == {t \in EX!Working(y.regs, c.dst) : y.regs[t].rd = q}
           m(q) == IF W(q) = {} THEN y.mem[q] ELSE y.regs[EX!LastOf(W(q))].acc
<1>1. z = [y EXCEPT !.mem = [q \in DOMAIN y.mem |-> m(q)]]  BY DEF EX!Store
<1>2. DOMAIN z = DOMAIN y /\ z.regs = y.regs /\ z.mem = [q \in Cells |-> m(q)]
  BY <1>1 DEF Tracked, Shape, OwnValues, Values
<1>3. ASSUME NEW q \in Cells, q[1] # Left  PROVE m(q) = TRUE
  <2>1. CASE W(q) = {}  BY <1>3, <2>1 DEF OwnValues, Values
  <2>2. CASE W(q) # {}
    <3> DEFINE t == EX!LastOf(W(q))
    <3>1. \A u \in W(q) : u \in EX!Working(y.regs, c.dst) /\ u \in Threads  BY WorkingFit
    <3>2. t \in W(q)
      <4> HIDE DEF W
      <4> QED  BY <2>2, <3>1, LastIsOne
    <3>3. t \in EX!Working(y.regs, c.dst)  BY <3>1, <3>2
    <3> HIDE DEF t
    <3>4. t \in Threads /\ KD!DestFits(p.ts[t])  BY <3>3, WorkingFit
    <3>5. y.regs[t].acc = TRUE  BY <3>4 DEF OwnValues, KD!DestFits
    <3> QED  BY <2>2, <3>5 DEF t
  <2> QED  BY <2>1, <2>2
<1> HIDE DEF z, m
<1>4. Values(z)  BY <1>2, <1>3 DEF OwnValues, Values
<1> QED  BY <1>2, <1>4 DEF z

LEMMA ActfOwn ==
    ASSUME NEW y, Shape(y), Values(y), NEW dst, NEW af
    PROVE  /\ Values(EX!Actf(y, dst, af))
           /\ \A t \in Threads : EX!Actf(y, dst, af).regs[t].acc = y.regs[t].acc
<1> DEFINE z == EX!Actf(y, dst, af)
           W == EX!Working(y.regs, dst)
<1>1. z = [y EXCEPT !.regs = [t \in Threads |-> IF t \in W THEN [y.regs[t] EXCEPT !.acc = y.regs[t].acc]
                                               ELSE y.regs[t]]]
  BY Names DEF EX!Actf
<1>2. /\ DOMAIN z = DOMAIN y /\ z.mem = y.mem
      /\ \A t \in Threads : z.regs[t] = IF t \in W THEN [y.regs[t] EXCEPT !.acc = y.regs[t].acc] ELSE y.regs[t]
  BY <1>1 DEF Shape, Values
<1> HIDE DEF z, W
<1>3. \A t \in Threads : "acc" \in DOMAIN z.regs[t] /\ z.regs[t].acc = y.regs[t].acc
  BY <1>2 DEF Values
<1> QED  BY <1>2, <1>3 DEF z, Values

\* Whatever command the driver takes, the values stay the program's own.
LEMMA ExecutedOwn ==
    ASSUME NEW p \in KdState, p.err # "EINVAL", Placed(p), NEW y, Tracked(p, y), OwnValues(p, y),
           NEW c \in Fed, KD!Prepare(p, c).err # "EINVAL"
    PROVE  /\ Values(Executed(p, y, c))
           /\ \A t \in Threads : p.ts[t].a_set \/ SetsAcc(c, t) => Executed(p, y, c).regs[t].acc = TRUE
<1> DEFINE z == Executed(p, y, c)
<1>1. WellFormed(c) /\ c = Command(c.op, c.dst, c.arg)  BY ProgramsAssumption DEF WellFormed
<1>2. Effects(p, y, c, z)  BY <1>1, Executes
<1>3. Shape(y) /\ Values(y) /\ \A t \in Threads : p.ts[t].a_set => y.regs[t].acc = TRUE
  BY DEF Tracked, OwnValues
<1> SUFFICES Values(z) /\ \A t \in Threads : p.ts[t].a_set \/ SetsAcc(c, t) => z.regs[t].acc = TRUE
  OBVIOUS
<1> HIDE DEF z
<1>4. CASE c.op \in Setters \cup Operands
  <2>1. c.dst \in Threads  BY <1>1, <1>4 DEF WellFormed, Setters, Operands
  <2>2. c.op \in Operands => p.curres \in Res
    BY KdOperands, KdRefused DEF Operands, KdNoOperand
  <2>3. PICK reg, value : /\ z = EX!Set(y, c.dst, reg, value)
                          /\ c.op = "setacc" => reg = "acc"
                          /\ reg = "acc" => c.op = "setacc" /\ value = TRUE
    <3>1. CASE c.op = "setacc"
      <4>1. z = EX!Set(y, c.dst, "acc", c.arg) /\ c.arg = TRUE
        BY <1>1, <1>2, <3>1 DEF Effects, WellFormed
      <4> QED  BY <3>1, <4>1
    <3>2. CASE c.op = "setvl"  BY <1>2, <3>2 DEF Effects
    <3>3. CASE c.op = "seten"
      <4> DEFINE v == c.arg = 1
      <4>1. z = EX!Set(y, c.dst, "en", v)  BY <1>2, <3>3 DEF Effects
      <4> HIDE DEF v
      <4> QED  BY <3>3, <4>1
    <3>4. CASE c.op \in Operands  BY <1>2, <2>2, <3>4 DEF Effects, Operands
    <3> QED  BY <1>4, <3>1, <3>2, <3>3, <3>4 DEF Setters
  <2>4. /\ Values(z)
        /\ \A u \in Threads : z.regs[u].acc = IF u = c.dst /\ reg = "acc" THEN value ELSE y.regs[u].acc
    BY <1>3, <2>1, <2>3, SetValues
  <2> QED  BY <1>3, <2>3, <2>4 DEF SetsAcc
<1>5. CASE c.op \notin Setters \cup Operands
  <2>0. \A t : ~SetsAcc(c, t)  BY <1>5 DEF SetsAcc, Setters
  <2>1. CASE c.op = "prod"
    <3>1. ~KdProdBad(p, c)  BY <2>1, KdVerifies, KdRefused
    <3>2. z = EX!Prod(y, c.dst)  BY <1>2, <2>1 DEF Effects
    <3> QED  BY <2>0, <2>1, <3>1, <3>2, ProdOwn
  <2>2. CASE c.op = "store"
    <3>1. ~KdStoreBad(p, c)  BY <2>2, KdVerifies, KdRefused
    <3>2. z = EX!Store(y, c.dst)  BY <1>2, <2>2 DEF Effects
    <3> QED  BY <1>3, <2>0, <2>2, <3>1, <3>2, StoreOwn
  <2>3. CASE c.op = "af"
    <3>1. z = EX!Actf(y, c.dst, c.arg)  BY <1>2, <2>3 DEF Effects
    <3> QED  BY <1>3, <2>0, <3>1, ActfOwn
  <2>4. CASE c.op \notin Verifying \cup {"af"}
    <3>1. z = y  BY <1>2, <1>5, <2>4 DEF Effects
    <3> QED  BY <1>3, <2>0, <3>1
  <2> QED  BY <2>1, <2>2, <2>3, <2>4 DEF Verifying
<1> QED  BY <1>4, <1>5

\* As long as no AF came early, the values of a program that is taken are its own.
OwnInv == kd.err # "EINVAL" /\ ~early => OwnValues(kd, x)

LEMMA FreshOwn ==
    ASSUME NEW b, NEW word
    PROVE  OwnValues(Fresh(b, word).kd, Machine)
<1>1. Values(Machine)
  <2>1. \A q \in Cells : q[1] # Left => Machine.mem[q] = TRUE  BY DEF Machine, Memory, Cells
  <2>2. DOMAIN Machine = {"regs", "mem"} /\ DOMAIN Machine.mem = Cells
    BY DEF Machine, Memory, Cells
  <2>3. \A t \in Threads : "acc" \in DOMAIN Machine.regs[t]  BY DEF Machine, LeftRegisters
  <2> QED  BY <2>1, <2>2, <2>3 DEF Values
<1>2. \A t \in Threads : Fresh(b, word).kd.ts[t].a_set = FALSE /\ Fresh(b, word).kd.ts[t].vlen = -1
  BY Names DEF Fresh, KD!ProgStateCreate
<1>3. -1 <= MaxLen  BY ProgramsAssumption
<1> QED  BY <1>1, <1>2, <1>3 DEF OwnValues

LEMMA FeedOwn ==
    ASSUME ProgInv, OwnInv, NEW c \in Menu \cup {todo[i] : i \in DOMAIN todo}, Feed(c)
    PROVE  OwnInv'
<1> SUFFICES ASSUME kd'.err # "EINVAL", ~early'  PROVE OwnValues(kd', x')
  BY DEF OwnInv
<1>1. c \in Fed
  <2>1. \A i \in DOMAIN todo : todo[i] \in Fed  BY DEF ProgInv
  <2> QED  BY <2>1 DEF Fed
<1>2. phase = "check" /\ kd.err # "EINVAL" /\ kd' = KD!Prepare(kd, c)  BY DEF Feed
<1>3. ~early /\ NotYetSet(c) = {}  BY DEF Feed
<1>4. kd \in KdState /\ Placed(kd) /\ Tracked(kd, x) /\ OwnValues(kd, x)
  BY <1>2, <1>3 DEF ProgInv, Checking, Sound, OwnInv
<1>5. KD!Prepare(kd, c).err = "ok"  BY <1>1, <1>2, <1>4, KdPrepares DEF KdPrepared
<1> DEFINE z == Executed(kd, x, c)
<1>6. x' = Unsettled(c, z)  BY <1>2, <1>5 DEF Feed, KD!Assembled, Executed
<1>7. Values(z) /\ \A t \in Threads : kd.ts[t].a_set \/ SetsAcc(c, t) => z.regs[t].acc = TRUE
  BY <1>1, <1>2, <1>4, <1>5, ExecutedOwn
<1>8. Shape(z)
  <2>1. Tracked(KD!Prepare(kd, c), z)
    BY <1>1, <1>2, <1>4, <1>5, SettersTrack, OperandsTrack, RestTracks
  <2> QED  BY <2>1 DEF Tracked
<1> HIDE DEF z
<1>9. /\ DOMAIN x' = DOMAIN z /\ x'.mem = z.mem
      /\ \A t \in Threads : x'.regs[t] = z.regs[t]
  BY <1>3, <1>6, <1>7, <1>8 DEF Unsettled, Values, Shape
<1>10. Values(x')  BY <1>7, <1>9 DEF Values
<1>11. ASSUME NEW t \in Threads
       PROVE  /\ kd'.ts[t].a_set => x'.regs[t].acc = TRUE
              /\ kd'.ts[t].vlen <= MaxLen
  <2> DEFINE s == kd'.ts[t]
  <2>1. /\ s.a_set => kd.ts[t].a_set \/ SetsAcc(c, t)
        /\ s.vlen = kd.ts[t].vlen \/ s.vlen \in 0 .. MaxLen
    BY <1>1, <1>2, <1>4, <1>5, KdRemembers
  <2>2. kd.ts[t].vlen <= MaxLen  BY <1>4 DEF OwnValues
  <2> HIDE DEF s
  <2>3. s.vlen <= MaxLen  BY <2>1, <2>2
  <2>4. s.a_set => x'.regs[t].acc = TRUE  BY <1>7, <1>9, <2>1
  <2> QED  BY <2>3, <2>4 DEF s
<1> QED  BY <1>10, <1>11 DEF OwnValues

\* ResultIsOwn: whatever a program that vxe_prog_assemble has taken stores, it has
\* computed from its own commands and resources and from nothing that an earlier program
\* left in the registers, for programs and vectors of any length, unless an AF came
\* before the enable bits were set.
THEOREM ResultsAreOwn == ProgSpec => []ResultIsOwn
<1>1. ProgInit => OwnInv
  BY FreshOwn DEF ProgInit, OwnInv
<1>2. ProgInv /\ OwnInv /\ [ProgNext]_progVars => OwnInv'
  <2> SUFFICES ASSUME ProgInv, OwnInv, [ProgNext]_progVars  PROVE OwnInv'  OBVIOUS
  <2>1. CASE \E c \in Menu \cup {todo[i] : i \in DOMAIN todo} : Feed(c)  BY <2>1, FeedOwn
  <2>2. CASE Create  BY <2>2, FreshOwn DEF Create, OwnInv
  <2>3. CASE \E b \in [Res -> Bindings] : Rebind(b)  BY <2>3 DEF Rebind, OwnInv
  <2>4. CASE UNCHANGED progVars  BY <2>4 DEF progVars, OwnInv
  <2> QED  BY <2>1, <2>2, <2>3, <2>4 DEF ProgNext
<1>3. OwnInv => ResultIsOwn
  <2> SUFFICES ASSUME OwnInv, kd.err # "EINVAL", ~early, NEW q \in DOMAIN x.mem, q[1] # Left
               PROVE  x.mem[q]
    BY DEF ResultIsOwn
  <2>1. Values(x)  BY DEF OwnInv, OwnValues
  <2> QED  BY <2>1 DEF Values
<1> QED  BY <1>1, <1>2, <1>3, ProgramsInductive, PTL DEF ProgSpec

-----------------------------------------------------------------------------
(* The tables of the emulator: the numbers of buffers.                     *)

Entry == [kind : {"data", "cmd", "deleted"}, binds : Int,
          res : [Slots -> Int] \cup {<< >>}, used : SUBSET Slots]

TableTypes ==
    /\ next \in 0 .. MaxBuffers
    /\ avail \in Seq(Int)
    /\ held \in SUBSET Int /\ IsFiniteSet(held)
    /\ DOMAIN buffers \in SUBSET (0 .. next - 1)
    /\ buffers \in [DOMAIN buffers -> Entry]
    /\ \A i \in DOMAIN buffers :
           buffers[i].res \in IF buffers[i].kind = "cmd" THEN [Slots -> Int] ELSE {<< >>}

\* Below next, a number is with the client or waits, once, to be handed out.  The
\* client has the live buffers, and an entry whose number waits is a deleted one.
Numbers ==
    /\ \A i, j \in 1 .. Len(avail) : avail[i] = avail[j] => i = j
    /\ \A i \in 1 .. Len(avail) : avail[i] \in 0 .. next - 1 /\ avail[i] \notin held
    /\ held \subseteq 0 .. next - 1
    /\ Cardinality(held) + Len(avail) = next
    /\ held = {i \in DOMAIN buffers : buffers[i].kind # "deleted"}

\* What AllocId returns is new to the client, and leaves the rest in order.
LEMMA Alloc ==
    ASSUME MaxBuffers \in Nat, TableTypes, Numbers, CanAlloc
    PROVE  /\ NextAfter \in 0 .. MaxBuffers /\ next <= NextAfter
           /\ AllocId \in 0 .. NextAfter - 1 /\ AllocId \notin held
           /\ AvailAfter \in Seq(Int)
           /\ Cardinality(held) + Len(AvailAfter) + 1 = NextAfter
           /\ \A i, j \in 1 .. Len(AvailAfter) : AvailAfter[i] = AvailAfter[j] => i = j
           /\ \A i \in 1 .. Len(AvailAfter) :
                 /\ AvailAfter[i] \in 0 .. next - 1 /\ AvailAfter[i] \notin held
                 /\ AvailAfter[i] # AllocId
<1>a. Cardinality(held) \in Nat /\ Len(avail) \in Nat
  BY FS_CardinalityType, LenProperties DEF TableTypes
<1>1. CASE avail # << >>
  <2>1. /\ Head(avail) = avail[1] /\ Tail(avail) \in Seq(Int)
        /\ Len(avail) > 0 /\ Len(Tail(avail)) = Len(avail) - 1
        /\ \A i \in 1 .. Len(Tail(avail)) : Tail(avail)[i] = avail[i + 1]
    BY <1>1, <1>a, HeadTailProperties, EmptySeq, LenProperties DEF TableTypes
  <2>2. \A i \in 1 .. Len(Tail(avail)) : i + 1 \in 1 .. Len(avail) /\ i + 1 # 1
    BY <1>a, <2>1
  <2>3. 1 \in 1 .. Len(avail)  BY <1>a, <2>1
  <2>4. AllocId = avail[1] /\ AvailAfter = Tail(avail) /\ NextAfter = next
    BY <1>1, <2>1 DEF AllocId, AvailAfter, NextAfter
  <2>5. \A i, j \in 1 .. Len(Tail(avail)) : Tail(avail)[i] = Tail(avail)[j] => i = j
    <3>1. SUFFICES ASSUME NEW i \in 1 .. Len(Tail(avail)), NEW j \in 1 .. Len(Tail(avail)),
                          Tail(avail)[i] = Tail(avail)[j]
                   PROVE  i = j
      OBVIOUS
    <3>2. avail[i + 1] = avail[j + 1]  BY <2>1, <3>1
    <3>3. i + 1 = j + 1  BY <2>2, <3>2 DEF Numbers
    <3> QED  BY <3>3
  <2>6. \A i \in 1 .. Len(Tail(avail)) :
           /\ Tail(avail)[i] \in 0 .. next - 1 /\ Tail(avail)[i] \notin held
           /\ Tail(avail)[i] # avail[1]
    BY <2>1, <2>2, <2>3 DEF Numbers
  <2>7. next \in Int /\ 0 <= next /\ next <= MaxBuffers  BY DEF TableTypes
  <2>8. /\ Cardinality(held) + Len(avail) = next
        /\ avail[1] \in 0 .. next - 1 /\ avail[1] \notin held
    BY <2>3 DEF Numbers
  <2>9. Cardinality(held) + Len(Tail(avail)) + 1 = next  BY <1>a, <2>1, <2>8
  <2> QED  BY <2>1, <2>4, <2>5, <2>6, <2>7, <2>8, <2>9
<1>2. CASE avail = << >>
  <2>1. AllocId = next /\ AvailAfter = << >> /\ NextAfter = next + 1 /\ next < MaxBuffers
    BY <1>2 DEF AllocId, AvailAfter, NextAfter, CanAlloc
  <2>2. Len(<< >>) = 0 /\ << >> \in Seq(Int)  BY EmptySeq
  <2> QED  BY <1>2, <1>a, <2>1, <2>2 DEF TableTypes, Numbers
<1> QED  BY <1>1, <1>2

\* A number goes to the end of a queue it is not in.
LEMMA Appended ==
    ASSUME NEW q \in Seq(Int), NEW d \in Int, \A i \in 1 .. Len(q) : q[i] # d,
           \A i, j \in 1 .. Len(q) : q[i] = q[j] => i = j
    PROVE  /\ Append(q, d) \in Seq(Int) /\ Len(Append(q, d)) = Len(q) + 1
           /\ \A i \in 1 .. Len(q) : Append(q, d)[i] = q[i]
           /\ Append(q, d)[Len(q) + 1] = d
           /\ \A i, j \in 1 .. Len(q) + 1 : Append(q, d)[i] = Append(q, d)[j] => i = j
           /\ \A i \in 1 .. Len(q) + 1 :
                 Append(q, d)[i] = d \/ \E j \in 1 .. Len(q) : Append(q, d)[i] = q[j]
<1>1. /\ Append(q, d) \in Seq(Int) /\ Len(Append(q, d)) = Len(q) + 1 /\ Len(q) \in Nat
      /\ \A i \in 1 .. Len(q) : Append(q, d)[i] = q[i]
      /\ Append(q, d)[Len(q) + 1] = d
  BY AppendProperties, LenProperties
<1>2. \A i \in 1 .. Len(q) + 1 : i \in 1 .. Len(q) \/ i = Len(q) + 1
  BY <1>1
<1> QED  BY <1>1, <1>2

-----------------------------------------------------------------------------
(* The tables of the emulator: bindings.                                   *)

LEMMA TimesType ==
    ASSUME ResLen \in Nat, NEW res \in [Slots -> Int] \cup {<< >>}, NEW i
    PROVE  Times(i, res) \in Nat /\ (res = << >> => Times(i, res) = 0)
<1>1. IsFiniteSet(DOMAIN res) /\ (res = << >> => DOMAIN res = {})
  <2>1. IsFiniteSet(Slots)  BY FS_Interval DEF Slots
  <2>2. DOMAIN << >> = {}  BY EmptySeq
  <2> QED  BY <2>1, <2>2, FS_EmptySet
<1>2. IsFiniteSet({k \in DOMAIN res : res[k] = i})
  BY <1>1, FS_Subset
<1>3. res = << >> => {k \in DOMAIN res : res[k] = i} = {}
  BY <1>1
<1> QED  BY <1>2, <1>3, FS_CardinalityType, FS_EmptySet DEF Times

\* Other counts, and nothing else.
LEMMA Counted ==
    ASSUME ResLen \in Nat, NEW table, table \in [DOMAIN table -> Entry],
           NEW old \in [Slots -> Int] \cup {<< >>}, NEW new \in [Slots -> Int] \cup {<< >>}
    PROVE  /\ DOMAIN Count(table, old, new) = DOMAIN table
           /\ Count(table, old, new) \in [DOMAIN table -> Entry]
           /\ \A i \in DOMAIN table :
                 /\ Count(table, old, new)[i].kind = table[i].kind
                 /\ Count(table, old, new)[i].res = table[i].res
                 /\ Count(table, old, new)[i].binds =
                        table[i].binds - Times(i, old) + Times(i, new)
<1>1. \A i : Times(i, old) \in Int /\ Times(i, new) \in Int
  BY TimesType
<1>2. \A i \in DOMAIN table : [table[i] EXCEPT !.binds = @ - Times(i, old) + Times(i, new)]
                                = [kind |-> table[i].kind, res |-> table[i].res,
                                   used |-> table[i].used,
                                   binds |-> table[i].binds - Times(i, old) + Times(i, new)]
  BY DEF Entry
<1> QED  BY <1>1, <1>2 DEF Count, Entry

\* Where the command buffers of the table name i.
Uses(table, i) == {p \in (DOMAIN table) \X Slots :
                      table[p[1]].kind = "cmd" /\ table[p[1]].res[p[2]] = i}

\* Where c names i, when its resources are res.
Own(c, res, i) == {c} \X {k \in DOMAIN res : res[k] = i}

LEMMA OwnCounted ==
    ASSUME ResLen \in Nat, NEW res \in [Slots -> Int] \cup {<< >>}, NEW c, NEW i
    PROVE  IsFiniteSet(Own(c, res, i)) /\ Cardinality(Own(c, res, i)) = Times(i, res)
<1>1. IsFiniteSet(DOMAIN res)
  <2>1. IsFiniteSet(Slots)  BY FS_Interval DEF Slots
  <2>2. DOMAIN << >> = {}  BY EmptySeq
  <2> QED  BY <2>1, <2>2, FS_EmptySet
<1>2. IsFiniteSet({k \in DOMAIN res : res[k] = i})
  BY <1>1, FS_Subset
<1>3. IsFiniteSet({c}) /\ Cardinality({c}) = 1
  BY FS_Singleton
<1>4. Times(i, res) \in Nat  BY TimesType
<1>5. /\ IsFiniteSet(Own(c, res, i))
      /\ Cardinality(Own(c, res, i)) = 1 * Times(i, res)
  BY <1>2, <1>3, FS_Product DEF Own, Times
<1> QED  BY <1>4, <1>5

LEMMA UsesFinite ==
    ASSUME ResLen \in Nat, NEW table, IsFiniteSet(DOMAIN table), NEW i
    PROVE  IsFiniteSet(Uses(table, i))
<1>1. IsFiniteSet(Slots)  BY FS_Interval DEF Slots
<1>2. IsFiniteSet((DOMAIN table) \X Slots)  BY <1>1, FS_Product
<1>3. Uses(table, i) \subseteq (DOMAIN table) \X Slots  BY DEF Uses
<1> QED  BY <1>2, <1>3, FS_Subset

\* The entry c has other resources than before, or is new, or is gone: << >> are the
\* resources of an entry that names nothing.
Moves(before, after, c, old, new) ==
    /\ old \in [Slots -> Int] \cup {<< >>} /\ new \in [Slots -> Int] \cup {<< >>}
    /\ (DOMAIN before) \ {c} = (DOMAIN after) \ {c}
    /\ \A d \in (DOMAIN before) \ {c} : /\ after[d].kind = before[d].kind
                                        /\ after[d].res = before[d].res
    /\ IF c \in DOMAIN before /\ before[c].kind = "cmd"
       THEN old = before[c].res /\ old \in [Slots -> Int] ELSE old = << >>
    /\ IF c \in DOMAIN after /\ after[c].kind = "cmd"
       THEN new = after[c].res /\ new \in [Slots -> Int] ELSE new = << >>

LEMMA UsesMoved ==
    ASSUME ResLen \in Nat, NEW before, NEW after, NEW c, NEW old, NEW new, NEW i,
           IsFiniteSet(DOMAIN before), Moves(before, after, c, old, new)
    PROVE  Cardinality(Uses(after, i)) =
               Cardinality(Uses(before, i)) - Times(i, old) + Times(i, new)
<1> DEFINE Rest == {p \in Uses(before, i) : p[1] # c}
<1>a. DOMAIN << >> = {}  BY EmptySeq
<1>b. old \in [Slots -> Int] \cup {<< >>} /\ new \in [Slots -> Int] \cup {<< >>}
  BY DEF Moves
<1>1. Uses(before, i) = Rest \cup Own(c, old, i)
  <2>1. CASE c \in DOMAIN before /\ before[c].kind = "cmd"
    BY <2>1 DEF Uses, Own, Moves
  <2>2. CASE ~(c \in DOMAIN before /\ before[c].kind = "cmd")
    <3>1. Own(c, old, i) = {}  BY <1>a, <2>2 DEF Own, Moves
    <3>2. \A p \in Uses(before, i) : p[1] # c  BY <2>2 DEF Uses
    <3> QED  BY <3>1, <3>2
  <2> QED  BY <2>1, <2>2
<1>2. Uses(after, i) = Rest \cup Own(c, new, i)
  <2>0. Rest = {p \in Uses(after, i) : p[1] # c}
    BY DEF Uses, Moves
  <2>1. CASE c \in DOMAIN after /\ after[c].kind = "cmd"
    <3>1. {p \in Uses(after, i) : p[1] = c} = Own(c, new, i)
      BY <2>1 DEF Uses, Own, Moves
    <3> QED  BY <2>0, <3>1
  <2>2. CASE ~(c \in DOMAIN after /\ after[c].kind = "cmd")
    <3>1. Own(c, new, i) = {}  BY <1>a, <2>2 DEF Own, Moves
    <3>2. \A p \in Uses(after, i) : p[1] # c  BY <2>2 DEF Uses
    <3> QED  BY <2>0, <3>1, <3>2
  <2> QED  BY <2>1, <2>2
<1>3. Rest \cap Own(c, old, i) = {} /\ Rest \cap Own(c, new, i) = {}
  BY DEF Own
<1>4. IsFiniteSet(Rest)
  <2>1. IsFiniteSet(Uses(before, i))  BY UsesFinite
  <2>2. Rest \subseteq Uses(before, i)  OBVIOUS
  <2> QED  BY <2>1, <2>2, FS_Subset
<1>5. /\ IsFiniteSet(Own(c, old, i)) /\ Cardinality(Own(c, old, i)) = Times(i, old)
      /\ IsFiniteSet(Own(c, new, i)) /\ Cardinality(Own(c, new, i)) = Times(i, new)
  BY <1>b, OwnCounted
<1> HIDE DEF Rest
<1>6. Cardinality(Uses(before, i)) = Cardinality(Rest) + Times(i, old) - Cardinality({})
  BY <1>1, <1>3, <1>4, <1>5, FS_Union
<1>7. Cardinality(Uses(after, i)) = Cardinality(Rest) + Times(i, new) - Cardinality({})
  BY <1>2, <1>3, <1>4, <1>5, FS_Union
<1>8. Cardinality({}) = 0 /\ Cardinality(Rest) \in Nat
  BY <1>4, FS_EmptySet, FS_CardinalityType
<1>9. Times(i, old) \in Nat /\ Times(i, new) \in Nat  BY <1>b, TimesType
<1> QED  BY <1>6, <1>7, <1>8, <1>9

\* Command buffers name live data buffers, and every data buffer has the count of the
\* places that name it.
WellBound(table) ==
    /\ \A c \in DOMAIN table : table[c].kind = "cmd" =>
           \A k \in Slots : /\ table[c].res[k] \in DOMAIN table
                            /\ table[table[c].res[k]].kind = "data"
    /\ \A i \in DOMAIN table : table[i].kind = "data" =>
           table[i].binds = Cardinality(Uses(table, i))

\* A step that makes, changes or removes the entry c, and moves the counts with it.
LEMMA Rebound ==
    ASSUME ResLen \in Nat, NEW before, NEW after, NEW c, NEW old, NEW new,
           IsFiniteSet(DOMAIN before), WellBound(before), Moves(before, after, c, old, new),
           \A d \in (DOMAIN before) \ {c} : before[d].kind = "data" =>
               after[d].binds = before[d].binds - Times(d, old) + Times(d, new),
           c \in DOMAIN before /\ before[c].kind = "data" => before[c].binds = 0,
           c \in DOMAIN after /\ after[c].kind = "data" =>
               c \notin DOMAIN before /\ after[c].binds = 0,
           c \in DOMAIN after /\ after[c].kind = "cmd" =>
               \A k \in Slots : /\ new[k] \in (DOMAIN before) \ {c}
                                /\ before[new[k]].kind = "data"
    PROVE  WellBound(after)
<1>1. ASSUME NEW i, i \in DOMAIN before /\ before[i].kind = "data" /\ before[i].binds = 0
      PROVE  Uses(before, i) = {}
  <2>1. IsFiniteSet(Uses(before, i))  BY UsesFinite
  <2>2. Cardinality(Uses(before, i)) = 0  BY <1>1 DEF WellBound
  <2> QED  BY <2>1, <2>2, FS_EmptySet
<1>2. ASSUME NEW i, i \notin DOMAIN before  PROVE Uses(before, i) = {}
  BY <1>2 DEF WellBound, Uses
<1>3. ASSUME NEW d \in DOMAIN after, after[d].kind = "cmd", NEW k \in Slots
      PROVE  /\ after[d].res[k] \in DOMAIN after
             /\ after[after[d].res[k]].kind = "data"
  <2>1. CASE d = c
    <3>1. after[c].res[k] \in (DOMAIN before) \ {c} /\ before[after[c].res[k]].kind = "data"
      BY <1>3, <2>1 DEF Moves
    <3> QED  BY <2>1, <3>1 DEF Moves
  <2>2. CASE d # c
    <3>1. d \in DOMAIN before /\ before[d].kind = "cmd" /\ after[d].res = before[d].res
      BY <1>3, <2>2 DEF Moves
    <3>2. before[d].res[k] \in DOMAIN before /\ before[before[d].res[k]].kind = "data"
      BY <3>1 DEF WellBound
    <3>3. before[d].res[k] # c
      <4>1. SUFFICES ASSUME before[d].res[k] = c  PROVE FALSE  OBVIOUS
      <4>2. <<d, k>> \in Uses(before, c)  BY <3>1, <4>1 DEF Uses
      <4>3. Uses(before, c) = {}  BY <1>1, <3>2, <4>1
      <4> QED  BY <4>2, <4>3
    <3> QED  BY <3>1, <3>2, <3>3 DEF Moves
  <2> QED  BY <2>1, <2>2
<1>4. ASSUME NEW i \in DOMAIN after, after[i].kind = "data"
      PROVE  after[i].binds = Cardinality(Uses(after, i))
  <2>1. Cardinality(Uses(after, i)) =
            Cardinality(Uses(before, i)) - Times(i, old) + Times(i, new)
    BY UsesMoved
  <2>2. CASE i # c
    <3>1. i \in (DOMAIN before) \ {c} /\ before[i].kind = "data"
      BY <1>4, <2>2 DEF Moves
    <3>2. before[i].binds = Cardinality(Uses(before, i))  BY <3>1 DEF WellBound
    <3> QED  BY <2>1, <3>1, <3>2
  <2>3. CASE i = c
    <3>1. c \notin DOMAIN before /\ after[c].binds = 0 /\ old = << >> /\ new = << >>
      BY <1>4, <2>3 DEF Moves
    <3>2. Times(c, << >>) = 0  BY TimesType
    <3>3. Cardinality(Uses(before, c)) = 0  BY <1>2, <3>1, FS_EmptySet
    <3> QED  BY <2>1, <2>3, <3>1, <3>2, <3>3
  <2> QED  BY <2>2, <2>3
<1> QED  BY <1>3, <1>4 DEF WellBound

-----------------------------------------------------------------------------
(* The tables of the emulator: the invariant.                              *)

TableInv ==
    /\ TableTypes /\ Numbers /\ WellBound(buffers)
    /\ ~isOpen => held = {} /\ avail = << >> /\ next = 0

LEMMA EmptyTable ==
    ASSUME MaxBuffers \in Nat, next = 0, avail = << >>, held = {}, buffers = << >>
    PROVE  TableTypes /\ Numbers /\ WellBound(buffers)
<1>1. DOMAIN << >> = {}  BY EmptySeq
<1>2. << >> \in [{} -> Entry]  BY EmptySeq
<1>3. << >> \in Seq(Int) /\ Len(<< >>) = 0  BY EmptySeq
<1>4. TableTypes  BY <1>1, <1>2, <1>3, FS_EmptySet DEF TableTypes
<1>5. Numbers  BY <1>1, <1>3, FS_EmptySet DEF Numbers
<1>6. WellBound(buffers)  BY <1>1 DEF WellBound
<1> QED  BY <1>4, <1>5, <1>6

\* The domain of the table is finite, and the table has what WellBound is about.
LEMMA TableFacts ==
    ASSUME MaxBuffers \in Nat, TableTypes
    PROVE  /\ IsFiniteSet(DOMAIN buffers)
           /\ \A d \in DOMAIN buffers : buffers[d].kind = "cmd" => buffers[d].res \in [Slots -> Int]
           /\ \A d \in DOMAIN buffers : buffers[d].kind # "cmd" => buffers[d].res = << >>
<1>1. next - 1 \in Int  BY DEF TableTypes
<1>2. IsFiniteSet(0 .. next - 1)  BY <1>1, FS_Interval
<1>3. IsFiniteSet(DOMAIN buffers)  BY <1>2, FS_Subset DEF TableTypes
<1> QED  BY <1>3 DEF TableTypes

\* A new entry.
LEMMA InsertEffect ==
    ASSUME TableTypes, NEW id \in Int, NEW e \in Entry
    PROVE  /\ DOMAIN Insert(id, e) = DOMAIN buffers \cup {id}
           /\ Insert(id, e) \in [DOMAIN buffers \cup {id} -> Entry]
           /\ Insert(id, e)[id] = e
           /\ \A d \in (DOMAIN buffers) \ {id} : Insert(id, e)[d] = buffers[d]
BY DEF Insert, TableTypes

LEMMA CreateNoMemoryInv ==
    ASSUME MaxBuffers \in Nat, TableInv, CreateNoMemory
    PROVE  TableInv'
<1>1. AvailAfter \in Seq(Int) /\ AllocId \in Int /\ next \in Int /\ NextAfter \in Int
  BY Alloc DEF TableInv, CreateNoMemory, TableTypes
<1>b. /\ \A i \in 1 .. Len(AvailAfter) : AvailAfter[i] # AllocId
      /\ \A i, j \in 1 .. Len(AvailAfter) : AvailAfter[i] = AvailAfter[j] => i = j
      /\ avail' = Append(AvailAfter, AllocId)
  BY Alloc DEF TableInv, CreateNoMemory
<1>c. /\ Append(AvailAfter, AllocId) \in Seq(Int)
      /\ Len(Append(AvailAfter, AllocId)) = Len(AvailAfter) + 1
      /\ \A i, j \in 1 .. Len(AvailAfter) + 1 :
            Append(AvailAfter, AllocId)[i] = Append(AvailAfter, AllocId)[j] => i = j
      /\ \A i \in 1 .. Len(AvailAfter) + 1 :
            \/ Append(AvailAfter, AllocId)[i] = AllocId
            \/ \E j \in 1 .. Len(AvailAfter) : Append(AvailAfter, AllocId)[i] = AvailAfter[j]
  BY <1>1, <1>b, Appended
<1>2. /\ avail' \in Seq(Int) /\ Len(avail') = Len(AvailAfter) + 1
      /\ \A i, j \in 1 .. Len(avail') : avail'[i] = avail'[j] => i = j
      /\ \A i \in 1 .. Len(avail') :
            avail'[i] = AllocId \/ \E j \in 1 .. Len(AvailAfter) : avail'[i] = AvailAfter[j]
  BY <1>b, <1>c
<1>3. Len(AvailAfter) \in Nat  BY <1>1, LenProperties
<1>4. TableTypes'
  <2>1. /\ TableTypes /\ UNCHANGED <<buffers, held>> /\ next' = NextAfter
        /\ NextAfter \in 0 .. MaxBuffers /\ next <= NextAfter /\ next \in Int
    BY Alloc DEF TableInv, TableTypes, CreateNoMemory
  <2>2. DOMAIN buffers' \in SUBSET (0 .. next' - 1)
    BY <2>1 DEF TableTypes
  <2> QED  BY <1>2, <2>1, <2>2 DEF TableTypes
<1>5. Numbers'
  <2>1. \A i \in 1 .. Len(avail') : avail'[i] \in 0 .. NextAfter - 1 /\ avail'[i] \notin held
    BY <1>1, <1>2, Alloc DEF TableInv, CreateNoMemory
  <2>2. held \subseteq 0 .. NextAfter - 1
    BY <1>1, Alloc DEF TableInv, CreateNoMemory, Numbers
  <2>3. Cardinality(held) + Len(avail') = NextAfter
    <3>1. Cardinality(held) \in Nat  BY FS_CardinalityType DEF TableInv, TableTypes
    <3>2. Cardinality(held) + Len(AvailAfter) + 1 = NextAfter
      BY Alloc DEF TableInv, CreateNoMemory
    <3> QED  BY <1>2, <1>3, <3>1, <3>2
  <2> QED  BY <1>2, <2>1, <2>2, <2>3 DEF TableInv, CreateNoMemory, Numbers
<1> QED  BY <1>4, <1>5 DEF TableInv, CreateNoMemory, WellBound, Uses

\* A creation that succeeds takes the number out of the queue.
LEMMA Taken ==
    ASSUME MaxBuffers \in Nat, TableInv, CanAlloc,
           next' = NextAfter, avail' = AvailAfter, held' = held \cup {AllocId},
           DOMAIN buffers' = DOMAIN buffers \cup {AllocId},
           \A i \in DOMAIN buffers : buffers'[i].kind = buffers[i].kind,
           AllocId \notin DOMAIN buffers, buffers'[AllocId].kind # "deleted"
    PROVE  Numbers' /\ held' \in SUBSET Int /\ IsFiniteSet(held')
<1>1. /\ AllocId \in 0 .. NextAfter - 1 /\ AllocId \notin held
      /\ next \in Int /\ NextAfter \in Int /\ next <= NextAfter
      /\ held \in SUBSET Int /\ IsFiniteSet(held)
  BY Alloc DEF TableInv, TableTypes
<1>2. /\ held' \in SUBSET Int /\ IsFiniteSet(held')
      /\ Cardinality(held') = Cardinality(held) + 1 /\ Cardinality(held) \in Nat
  BY <1>1, FS_AddElement, FS_CardinalityType
<1>3. /\ Cardinality(held) + Len(AvailAfter) + 1 = NextAfter
      /\ \A i, j \in 1 .. Len(AvailAfter) : AvailAfter[i] = AvailAfter[j] => i = j
      /\ \A i \in 1 .. Len(AvailAfter) :
            /\ AvailAfter[i] \in 0 .. next - 1 /\ AvailAfter[i] \notin held
            /\ AvailAfter[i] # AllocId
      /\ AvailAfter \in Seq(Int)
  BY Alloc DEF TableInv
<1>4. Len(AvailAfter) \in Nat  BY <1>3, LenProperties
<1>5. Cardinality(held') + Len(avail') = next'
  BY <1>2, <1>3, <1>4
<1>6. \A i \in 1 .. Len(avail') : avail'[i] \in 0 .. next' - 1 /\ avail'[i] \notin held'
  BY <1>1, <1>3
<1>7. held' \subseteq 0 .. next' - 1
  BY <1>1 DEF TableInv, Numbers
<1>8. held' = {i \in DOMAIN buffers' : buffers'[i].kind # "deleted"}
  BY DEF TableInv, Numbers
<1> QED  BY <1>2, <1>3, <1>5, <1>6, <1>7, <1>8 DEF Numbers

LEMMA BufferCreateInv ==
    ASSUME MaxBuffers \in Nat, ResLen \in Nat, TableInv, BufferCreate
    PROVE  TableInv'
<1>1. /\ AllocId \in Int /\ AllocId \in 0 .. NextAfter - 1 /\ next \in Int
      /\ NextAfter \in 0 .. MaxBuffers /\ next <= NextAfter /\ AvailAfter \in Seq(Int)
  BY Alloc DEF TableInv, BufferCreate, TableTypes
<1>2. DataBuffer \in Entry /\ DataBuffer.res = << >> /\ DataBuffer.kind = "data"
      /\ DataBuffer.binds = 0
  BY DEF DataBuffer, Entry
<1>3. /\ DOMAIN buffers' = DOMAIN buffers \cup {AllocId}
      /\ buffers' \in [DOMAIN buffers \cup {AllocId} -> Entry]
      /\ buffers'[AllocId] = DataBuffer
      /\ \A d \in DOMAIN buffers : buffers'[d] = buffers[d]
      /\ AllocId \notin DOMAIN buffers
  <2>1. TableTypes /\ AllocId \notin DOMAIN buffers /\ buffers' = Insert(AllocId, DataBuffer)
    BY DEF TableInv, BufferCreate
  <2>2. \A d \in DOMAIN buffers : d # AllocId  BY <2>1
  <2>3. /\ DOMAIN Insert(AllocId, DataBuffer) = DOMAIN buffers \cup {AllocId}
        /\ Insert(AllocId, DataBuffer) \in [DOMAIN buffers \cup {AllocId} -> Entry]
        /\ Insert(AllocId, DataBuffer)[AllocId] = DataBuffer
        /\ \A d \in (DOMAIN buffers) \ {AllocId} :
              Insert(AllocId, DataBuffer)[d] = buffers[d]
    BY <1>1, <1>2, <2>1, InsertEffect
  <2> QED  BY <2>1, <2>2, <2>3
<1>4. Numbers' /\ held' \in SUBSET Int /\ IsFiniteSet(held')
  BY <1>2, <1>3, Taken DEF BufferCreate
<1>5. TableTypes'
  <2>1. DOMAIN buffers' \in SUBSET (0 .. next' - 1)
    BY <1>1, <1>3 DEF TableInv, TableTypes, BufferCreate
  <2>2. \A i \in DOMAIN buffers' : buffers'[i].res \in
                            IF buffers'[i].kind = "cmd" THEN [Slots -> Int] ELSE {<< >>}
    BY <1>2, <1>3 DEF TableInv, TableTypes
  <2> QED  BY <1>1, <1>3, <1>4, <2>1, <2>2 DEF TableTypes, BufferCreate
<1>6. WellBound(buffers')
  <2>1. Moves(buffers, buffers', AllocId, << >>, << >>)
    BY <1>2, <1>3 DEF Moves
  <2>2. \A d \in DOMAIN buffers : buffers[d].binds \in Int
    BY DEF TableInv, TableTypes, Entry
  <2>3. \A d : Times(d, << >>) = 0  BY TimesType
  <2>4. IsFiniteSet(DOMAIN buffers) /\ WellBound(buffers)  BY TableFacts DEF TableInv
  <2>5. \A d \in (DOMAIN buffers) \ {AllocId} : buffers[d].kind = "data" =>
           buffers'[d].binds = buffers[d].binds - Times(d, << >>) + Times(d, << >>)
    BY <1>3, <2>2, <2>3
  <2> QED  BY <1>2, <1>3, <2>1, <2>4, <2>5, Rebound
<1> QED  BY <1>4, <1>5, <1>6 DEF TableInv, BufferCreate, WellBound, Uses

LEMMA BufferDestroyInv ==
    ASSUME MaxBuffers \in Nat, ResLen \in Nat, TableInv, NEW id \in Asked, BufferDestroy(id)
    PROVE  TableInv'
<1> DEFINE old == buffers[id].res
           table == Count(buffers, old, << >>)
<1>1. /\ next \in Int /\ 0 <= next /\ next <= MaxBuffers /\ avail \in Seq(Int) /\ Len(avail) \in Nat
      /\ held \in SUBSET Int /\ IsFiniteSet(held) /\ Cardinality(held) \in Nat
      /\ DOMAIN buffers \in SUBSET (0 .. next - 1) /\ buffers \in [DOMAIN buffers -> Entry]
      /\ id \in DOMAIN buffers
  BY LenProperties, FS_CardinalityType DEF TableInv, TableTypes, BufferDestroy
<1>2. id # Unknown /\ id \in held /\ id \in Int
  BY <1>1 DEF Asked, Unknown
<1>3. /\ old \in [Slots -> Int] \cup {<< >>}
      /\ IF buffers[id].kind = "cmd" THEN old \in [Slots -> Int] ELSE old = << >>
  BY <1>1 DEF TableInv, TableTypes
<1>4. /\ DOMAIN table = DOMAIN buffers /\ table \in [DOMAIN buffers -> Entry]
      /\ \A i \in DOMAIN buffers :
            /\ table[i].kind = buffers[i].kind /\ table[i].res = buffers[i].res
            /\ table[i].binds = buffers[i].binds - Times(i, old) + Times(i, << >>)
  <2>1. << >> \in [Slots -> Int] \cup {<< >>}  OBVIOUS
  <2> HIDE DEF old
  <2>2. /\ DOMAIN Count(buffers, old, << >>) = DOMAIN buffers
        /\ Count(buffers, old, << >>) \in [DOMAIN buffers -> Entry]
        /\ \A i \in DOMAIN buffers :
              /\ Count(buffers, old, << >>)[i].kind = buffers[i].kind
              /\ Count(buffers, old, << >>)[i].res = buffers[i].res
              /\ Count(buffers, old, << >>)[i].binds =
                     buffers[i].binds - Times(i, old) + Times(i, << >>)
    BY <1>1, <1>3, <2>1, Counted
  <2> QED  BY <2>2
<1> HIDE DEF old, table
<1>5. /\ DOMAIN buffers' = DOMAIN buffers \ {id}
      /\ \A i \in DOMAIN buffers' : buffers'[i] = table[i]
      /\ buffers' = [i \in DOMAIN buffers \ {id} |-> table[i]]
  BY DEF BufferDestroy, old, table
<1>6. /\ held' = held \ {id} /\ avail' = Append(avail, id) /\ next' = next /\ isOpen /\ isOpen'
      /\ buffers[id].binds = 0
  BY DEF BufferDestroy
<1>7. /\ avail' \in Seq(Int) /\ Len(avail') = Len(avail) + 1
      /\ \A i, j \in 1 .. Len(avail') : avail'[i] = avail'[j] => i = j
      /\ \A i \in 1 .. Len(avail') : avail'[i] = id \/ \E j \in 1 .. Len(avail) : avail'[i] = avail[j]
  <2>1. /\ \A i \in 1 .. Len(avail) : avail[i] # id
        /\ \A i, j \in 1 .. Len(avail) : avail[i] = avail[j] => i = j
    BY <1>2 DEF TableInv, Numbers
  <2>2. /\ Append(avail, id) \in Seq(Int) /\ Len(Append(avail, id)) = Len(avail) + 1
        /\ \A i, j \in 1 .. Len(avail) + 1 : Append(avail, id)[i] = Append(avail, id)[j] => i = j
        /\ \A i \in 1 .. Len(avail) + 1 :
              Append(avail, id)[i] = id \/ \E j \in 1 .. Len(avail) : Append(avail, id)[i] = avail[j]
    BY <1>1, <1>2, <2>1, Appended
  <2>3. avail' = Append(avail, id)  BY <1>6
  <2> QED  BY <2>2, <2>3
<1>8. IsFiniteSet(held') /\ Cardinality(held') = Cardinality(held) - 1
  BY <1>1, <1>2, <1>6, FS_RemoveElement
<1>9. TableTypes'
  <2>1. buffers' \in [DOMAIN buffers' -> Entry]  BY <1>4, <1>5
  <2>2. DOMAIN buffers' \in SUBSET (0 .. next' - 1)  BY <1>1, <1>5, <1>6
  <2>3. \A i \in DOMAIN buffers' : buffers'[i].res \in
                            IF buffers'[i].kind = "cmd" THEN [Slots -> Int] ELSE {<< >>}
    BY <1>4, <1>5 DEF TableInv, TableTypes
  <2>4. next' \in 0 .. MaxBuffers /\ held' \in SUBSET Int  BY <1>1, <1>6
  <2> QED  BY <1>7, <1>8, <2>1, <2>2, <2>3, <2>4 DEF TableTypes
<1>10. Numbers'
  <2>1. \A i \in 1 .. Len(avail') : avail'[i] \in 0 .. next' - 1 /\ avail'[i] \notin held'
    BY <1>1, <1>6, <1>7 DEF TableInv, Numbers
  <2>2. held' \subseteq 0 .. next' - 1  BY <1>6 DEF TableInv, Numbers
  <2>3. Cardinality(held') + Len(avail') = next'
    BY <1>1, <1>6, <1>7, <1>8 DEF TableInv, Numbers
  <2>4. held' = {i \in DOMAIN buffers' : buffers'[i].kind # "deleted"}
    BY <1>4, <1>5, <1>6 DEF TableInv, Numbers
  <2> QED  BY <1>7, <2>1, <2>2, <2>3, <2>4 DEF Numbers
<1>11. WellBound(buffers')
  <2>1. Moves(buffers, buffers', id, old, << >>)
    BY <1>1, <1>3, <1>4, <1>5 DEF Moves, old
  <2>2. IsFiniteSet(DOMAIN buffers) /\ WellBound(buffers)  BY TableFacts DEF TableInv
  <2>3. id \notin DOMAIN buffers'  BY <1>5
  <2>4. \A d \in (DOMAIN buffers) \ {id} : buffers[d].kind = "data" =>
           buffers'[d].binds = buffers[d].binds - Times(d, old) + Times(d, << >>)
    BY <1>4, <1>5
  <2> QED  BY <1>6, <2>1, <2>2, <2>3, <2>4, Rebound
<1> QED  BY <1>6, <1>9, <1>10, <1>11 DEF TableInv, WellBound, Uses

\* The resources of a new or updated command buffer.
LEMMA Requested ==
    ASSUME NEW res \in [Slots -> Asked], TableTypes, MaxBuffers \in Nat
    PROVE  res \in [Slots -> Int]
BY DEF Asked, Unknown, TableTypes

LEMMA CmdBufferCreateInv ==
    ASSUME MaxBuffers \in Nat, ResLen \in Nat, TableInv, NEW res \in [Slots -> Asked],
           NEW used \in SUBSET Slots, NEW ok \in BOOLEAN, CmdBufferCreate(res, used, ok)
    PROVE  TableInv'
<1> DEFINE a == AllocId
           bound == ok /\ \A i \in Slots : Is(res[i], "data")
           e == IF bound THEN CmdBuffer(res, used) ELSE DeletedBuffer
           new == IF bound THEN res ELSE << >>
           mid == Insert(AllocId, e)
<1>1. /\ a \in Int /\ a \in 0 .. NextAfter - 1 /\ next \in Int
      /\ NextAfter \in 0 .. MaxBuffers /\ next <= NextAfter /\ AvailAfter \in Seq(Int)
      /\ a \notin DOMAIN buffers /\ isOpen /\ isOpen' /\ next' = NextAfter /\ a \notin held
  BY Alloc DEF TableInv, CmdBufferCreate, TableTypes
<1>2. res \in [Slots -> Int]  BY Requested DEF TableInv
<1>3. /\ e \in Entry /\ e.res = new /\ new \in [Slots -> Int] \cup {<< >>}
      /\ e.kind = IF bound THEN "cmd" ELSE "deleted"
      /\ e.res \in IF bound THEN [Slots -> Int] ELSE {<< >>}
  BY <1>2 DEF CmdBuffer, DeletedBuffer, Entry
<1>4. /\ DOMAIN mid = DOMAIN buffers \cup {a}
      /\ mid \in [DOMAIN mid -> Entry] /\ mid[a] = e
      /\ \A d \in DOMAIN buffers : mid[d] = buffers[d]
  <2>1. TableTypes  BY DEF TableInv
  <2>2. \A d \in DOMAIN buffers : d # AllocId  BY <1>1
  <2> HIDE DEF e
  <2>3. /\ DOMAIN Insert(AllocId, e) = DOMAIN buffers \cup {AllocId}
        /\ Insert(AllocId, e) \in [DOMAIN buffers \cup {AllocId} -> Entry]
        /\ Insert(AllocId, e)[AllocId] = e
        /\ \A d \in (DOMAIN buffers) \ {AllocId} : Insert(AllocId, e)[d] = buffers[d]
    <3>1. AllocId \in Int /\ e \in Entry  BY <1>1, <1>3
    <3> QED  BY <2>1, <3>1, InsertEffect
  <2> QED  BY <2>2, <2>3
<1>5. /\ DOMAIN buffers' = DOMAIN buffers \cup {a}
      /\ buffers' \in [DOMAIN buffers' -> Entry]
      /\ buffers'[a].kind = e.kind /\ buffers'[a].res = new
      /\ \A d \in DOMAIN buffers :
            /\ buffers'[d].kind = buffers[d].kind /\ buffers'[d].res = buffers[d].res
            /\ buffers'[d].binds = buffers[d].binds - Times(d, << >>) + Times(d, new)
  <2>1. CASE bound
    <3>1. buffers' = Count(mid, << >>, new)  BY <2>1 DEF CmdBufferCreate
    <3>2. << >> \in [Slots -> Int] \cup {<< >>}  OBVIOUS
    <3> HIDE DEF mid, new, bound, e
    <3>3. /\ DOMAIN Count(mid, << >>, new) = DOMAIN mid
          /\ Count(mid, << >>, new) \in [DOMAIN mid -> Entry]
          /\ \A i \in DOMAIN mid :
                /\ Count(mid, << >>, new)[i].kind = mid[i].kind
                /\ Count(mid, << >>, new)[i].res = mid[i].res
                /\ Count(mid, << >>, new)[i].binds =
                       mid[i].binds - Times(i, << >>) + Times(i, new)
      BY <1>3, <1>4, <3>2, Counted
    <3> QED  BY <1>3, <1>4, <3>1, <3>3
  <2>2. CASE ~bound
    <3>1. buffers' = mid /\ new = << >>  BY <2>2 DEF CmdBufferCreate
    <3>2. \A d : Times(d, << >>) = 0  BY TimesType
    <3>3. \A d \in DOMAIN buffers : buffers[d].binds \in Int  BY DEF TableInv, TableTypes, Entry
    <3> HIDE DEF mid, new, bound, e
    <3> QED  BY <1>3, <1>4, <3>1, <3>2, <3>3
  <2> QED  BY <2>1, <2>2
<1>6. Numbers' /\ held' \in SUBSET Int /\ IsFiniteSet(held') /\ avail' \in Seq(Int)
  <2>1. CASE bound
    <3>1. /\ CanAlloc /\ next' = NextAfter /\ avail' = AvailAfter
          /\ held' = held \cup {AllocId}
      BY <2>1 DEF CmdBufferCreate
    <3>2. e.kind # "deleted"  BY <1>3, <2>1
    <3> QED  BY <1>1, <1>5, <3>1, <3>2, Taken
  <2>2. CASE ~bound
    <3>1. avail' = Append(AvailAfter, AllocId) /\ held' = held
      BY <2>2 DEF CmdBufferCreate
    <3>2. /\ \A i \in 1 .. Len(AvailAfter) : AvailAfter[i] # AllocId
          /\ \A i \in 1 .. Len(AvailAfter) :
                AvailAfter[i] \in 0 .. next - 1 /\ AvailAfter[i] \notin held
          /\ \A i, j \in 1 .. Len(AvailAfter) : AvailAfter[i] = AvailAfter[j] => i = j
          /\ Cardinality(held) + Len(AvailAfter) + 1 = NextAfter
      BY Alloc DEF TableInv, CmdBufferCreate
    <3>3. /\ Append(AvailAfter, AllocId) \in Seq(Int)
          /\ Len(Append(AvailAfter, AllocId)) = Len(AvailAfter) + 1
          /\ \A i, j \in 1 .. Len(AvailAfter) + 1 :
                Append(AvailAfter, AllocId)[i] = Append(AvailAfter, AllocId)[j] => i = j
          /\ \A i \in 1 .. Len(AvailAfter) + 1 :
                \/ Append(AvailAfter, AllocId)[i] = AllocId
                \/ \E j \in 1 .. Len(AvailAfter) : Append(AvailAfter, AllocId)[i] = AvailAfter[j]
      BY <1>1, <3>2, Appended
    <3>4. /\ held \in SUBSET Int /\ IsFiniteSet(held) /\ Cardinality(held) \in Nat
          /\ Len(AvailAfter) \in Nat
      BY <1>1, LenProperties, FS_CardinalityType DEF TableInv, TableTypes
    <3>5. \A i \in 1 .. Len(avail') : avail'[i] \in 0 .. next' - 1 /\ avail'[i] \notin held'
      BY <1>1, <3>1, <3>2, <3>3
    <3>6. Cardinality(held') + Len(avail') = next'
      BY <1>1, <3>1, <3>2, <3>3, <3>4
    <3>7. held' \subseteq 0 .. next' - 1
      BY <1>1, <3>1 DEF TableInv, Numbers
    <3>8. held' = {i \in DOMAIN buffers' : buffers'[i].kind # "deleted"}
      BY <1>1, <1>3, <1>5, <2>2, <3>1 DEF TableInv, Numbers
    <3> QED  BY <3>1, <3>3, <3>4, <3>5, <3>6, <3>7, <3>8 DEF Numbers
  <2> QED  BY <2>1, <2>2
<1> HIDE DEF mid, e, a
<1>7. TableTypes'
  <2>1. DOMAIN buffers' \in SUBSET (0 .. next' - 1)
    BY <1>1, <1>5 DEF TableInv, TableTypes
  <2>2. \A i \in DOMAIN buffers' : buffers'[i].res \in
                            IF buffers'[i].kind = "cmd" THEN [Slots -> Int] ELSE {<< >>}
    BY <1>3, <1>5 DEF TableInv, TableTypes
  <2> QED  BY <1>1, <1>5, <1>6, <2>1, <2>2 DEF TableTypes
<1>8. WellBound(buffers')
  <2>1. Moves(buffers, buffers', a, << >>, new)
    BY <1>1, <1>2, <1>3, <1>5 DEF Moves
  <2>2. IsFiniteSet(DOMAIN buffers) /\ WellBound(buffers)  BY TableFacts DEF TableInv
  <2>3. buffers'[a].kind = "cmd" => \A k \in Slots : /\ new[k] \in (DOMAIN buffers) \ {a}
                                                   /\ buffers[new[k]].kind = "data"
    BY <1>1, <1>3, <1>5 DEF Is
  <2>4. buffers'[a].kind # "data"  BY <1>3, <1>5
  <2>5. a \notin DOMAIN buffers /\ DOMAIN buffers' = DOMAIN buffers \cup {a}  BY <1>1, <1>5
  <2>6. /\ \A d \in (DOMAIN buffers) \ {a} : buffers[d].kind = "data" =>
               buffers'[d].binds = buffers[d].binds - Times(d, << >>) + Times(d, new)
        /\ ~(a \in DOMAIN buffers /\ buffers[a].kind = "data")
        /\ ~(a \in DOMAIN buffers' /\ buffers'[a].kind = "data")
        /\ a \in DOMAIN buffers' /\ buffers'[a].kind = "cmd" =>
               \A k \in Slots : /\ new[k] \in (DOMAIN buffers) \ {a}
                                /\ buffers[new[k]].kind = "data"
    BY <1>5, <2>3, <2>4, <2>5
  <2> HIDE DEF new
  <2> QED  BY <2>1, <2>2, <2>6, Rebound
<1> QED  BY <1>1, <1>6, <1>7, <1>8 DEF TableInv, WellBound, Uses

LEMMA CmdBufferUpdateInv ==
    ASSUME MaxBuffers \in Nat, ResLen \in Nat, TableInv, NEW id \in Asked,
           NEW res \in [Slots -> Asked], NEW fit \in BOOLEAN, CmdBufferUpdate(id, res, fit)
    PROVE  TableInv'
<1> DEFINE old == buffers[id].res
           new == [i \in Slots |-> IF i \in buffers[id].used THEN res[i] ELSE old[i]]
           mid == [buffers EXCEPT ![id].res = new]
<1>1. /\ id \in DOMAIN buffers /\ buffers[id].kind = "cmd" /\ isOpen
      /\ buffers' = Count(mid, old, new)
      /\ \A i \in buffers[id].used : Is(res[i], "data")
      /\ UNCHANGED <<isOpen, avail, next, held>>
  BY DEF CmdBufferUpdate, Is
<1>2. res \in [Slots -> Int]  BY Requested DEF TableInv
<1>3. old \in [Slots -> Int] /\ new \in [Slots -> Int]
  BY <1>1, <1>2 DEF TableInv, TableTypes
<1>4. /\ DOMAIN mid = DOMAIN buffers /\ mid \in [DOMAIN mid -> Entry]
      /\ \A d \in DOMAIN buffers : /\ mid[d].kind = buffers[d].kind /\ mid[d].binds = buffers[d].binds
                                  /\ mid[d].res = IF d = id THEN new ELSE buffers[d].res
  <2>1. buffers \in [DOMAIN buffers -> Entry]  BY DEF TableInv, TableTypes
  <2> HIDE DEF new
  <2> QED  BY <1>1, <1>3, <2>1 DEF Entry
<1>5. /\ DOMAIN buffers' = DOMAIN buffers /\ buffers' \in [DOMAIN buffers' -> Entry]
      /\ \A d \in DOMAIN buffers :
            /\ buffers'[d].kind = buffers[d].kind
            /\ buffers'[d].res = IF d = id THEN new ELSE buffers[d].res
            /\ buffers'[d].binds = buffers[d].binds - Times(d, old) + Times(d, new)
  <2> HIDE DEF mid, old, new
  <2>1. /\ DOMAIN Count(mid, old, new) = DOMAIN mid
        /\ Count(mid, old, new) \in [DOMAIN mid -> Entry]
        /\ \A i \in DOMAIN mid :
              /\ Count(mid, old, new)[i].kind = mid[i].kind
              /\ Count(mid, old, new)[i].res = mid[i].res
              /\ Count(mid, old, new)[i].binds = mid[i].binds - Times(i, old) + Times(i, new)
    BY <1>3, <1>4, Counted
  <2> QED  BY <1>1, <1>4, <2>1
<1>6. \A k \in Slots : /\ new[k] \in (DOMAIN buffers) \ {id}
                       /\ buffers[new[k]].kind = "data"
  BY <1>1 DEF TableInv, WellBound, Is
<1> HIDE DEF mid, new
<1>7. TableTypes'
  <2>1. DOMAIN buffers' \in SUBSET (0 .. next' - 1) /\ avail' \in Seq(Int)
    BY <1>1, <1>5 DEF TableInv, TableTypes
  <2>2. \A i \in DOMAIN buffers' : buffers'[i].res \in
                            IF buffers'[i].kind = "cmd" THEN [Slots -> Int] ELSE {<< >>}
    BY <1>1, <1>3, <1>5 DEF TableInv, TableTypes
  <2> QED  BY <1>1, <1>5, <2>1, <2>2 DEF TableInv, TableTypes
<1>8. Numbers'
  BY <1>1, <1>5 DEF TableInv, Numbers
<1>9. WellBound(buffers')
  <2>1. Moves(buffers, buffers', id, old, new)
    BY <1>1, <1>3, <1>5 DEF Moves
  <2>2. IsFiniteSet(DOMAIN buffers) /\ WellBound(buffers)  BY TableFacts DEF TableInv
  <2>3. buffers'[id].kind = "cmd"  BY <1>1, <1>5
  <2> HIDE DEF old
  <2> QED  BY <1>1, <1>5, <1>6, <2>1, <2>2, <2>3, Rebound
<1> QED  BY <1>1, <1>7, <1>8, <1>9 DEF TableInv, WellBound, Uses

LEMMA TableInit == MaxBuffers \in Nat /\ BeInit => TableInv
BY EmptyTable DEF BeInit, TableInv

LEMMA TableStep ==
    ASSUME MaxBuffers \in Nat, ResLen \in Nat, TableInv, [BeNext]_beVars
    PROVE  TableInv'
<1>1. CASE DeviceOpen \/ DeviceClose
  <2>1. next' = 0 /\ avail' = << >> /\ held' = {} /\ buffers' = << >>
    BY <1>1 DEF DeviceOpen, DeviceClose
  <2>2. /\ DOMAIN << >> = {} /\ << >> \in [{} -> Entry] /\ << >> \in Seq(Int) /\ Len(<< >>) = 0
        /\ IsFiniteSet({}) /\ Cardinality({}) = 0
    BY EmptySeq, FS_EmptySet
  <2>3. TableTypes'  BY <2>1, <2>2 DEF TableTypes
  <2>4. Numbers'  BY <2>1, <2>2 DEF Numbers
  <2>5. WellBound(buffers')  BY <2>1, <2>2 DEF WellBound
  <2> QED  BY <2>1, <2>3, <2>4, <2>5 DEF TableInv, WellBound, Uses
<1>2. CASE BufferCreate  BY <1>2, BufferCreateInv
<1>3. CASE CreateNoMemory  BY <1>3, CreateNoMemoryInv
<1>4. ASSUME NEW id \in Asked, BufferDestroy(id)  PROVE TableInv'
  BY <1>4, BufferDestroyInv
<1>5. ASSUME NEW res \in [Slots -> Asked], NEW used \in SUBSET Slots, NEW ok \in BOOLEAN,
             CmdBufferCreate(res, used, ok)
      PROVE  TableInv'
  BY <1>5, CmdBufferCreateInv
<1>6. ASSUME NEW id \in Asked, NEW res \in [Slots -> Asked], NEW fit \in BOOLEAN,
             CmdBufferUpdate(id, res, fit)
      PROVE  TableInv'
  BY <1>6, CmdBufferUpdateInv
<1>7. CASE UNCHANGED beVars
  <2>1. UNCHANGED <<isOpen, avail, next, buffers, held>>  BY <1>7 DEF beVars
  <2>2. TableTypes'  BY <2>1 DEF TableInv, TableTypes
  <2>3. Numbers'  BY <2>1 DEF TableInv, Numbers
  <2>4. WellBound(buffers')  BY <2>1 DEF TableInv
  <2> QED  BY <2>1, <2>2, <2>3, <2>4 DEF TableInv, WellBound, Uses
<1> QED  BY <1>1, <1>2, <1>3, <1>4, <1>5, <1>6, <1>7 DEF BeNext

\* A number the client holds names a live buffer and is not handed out again, and no
\* number is ever lost, whatever creations fail and in which order buffers go.
THEOREM NumbersAreRight == BeSpec => []ClientIdsLive
<1>1. TableInv => ClientIdsLive
  <2>1. SUFFICES ASSUME TableInv  PROVE ClientIdsLive  OBVIOUS
  <2>2. \A i \in held : Is(i, "data") \/ Is(i, "cmd")
    BY <2>1 DEF TableInv, TableTypes, Numbers, Is, Entry
  <2>3. avail \in Seq(Int) /\ DOMAIN avail = 1 .. Len(avail)
    BY <2>1, LenProperties DEF TableInv, TableTypes
  <2>4. held \cap ToSet(avail) = {}
    BY <2>1, <2>3 DEF TableInv, Numbers, ToSet
  <2> QED  BY <2>1, <2>2, <2>4 DEF ClientIdsLive, TableInv, Numbers
<1>2. BeInit => TableInv  BY TableInit, BackendAssumption
<1>3. TableInv /\ [BeNext]_beVars => TableInv'  BY TableStep, BackendAssumption
<1> QED  BY <1>1, <1>2, <1>3, PTL DEF BeSpec

\* The counts of bindings are exact, and no command buffer names a buffer that is gone,
\* over creations, updates and destructions, with all their failures.
THEOREM CountsAreExact == BeSpec => []BindsExact
<1>1. TableInv => BindsExact
  <2>1. SUFFICES ASSUME TableInv, NEW i \in DOMAIN buffers
                 PROVE  /\ Is(i, "data") => buffers[i].binds =
                               Cardinality({p \in (DOMAIN buffers) \X Slots :
                                   Is(p[1], "cmd") /\ buffers[p[1]].res[p[2]] = i})
                        /\ Is(i, "cmd") => \A k \in Slots : Is(buffers[i].res[k], "data")
    BY DEF BindsExact
  <2>2. {p \in (DOMAIN buffers) \X Slots : Is(p[1], "cmd") /\ buffers[p[1]].res[p[2]] = i}
            = Uses(buffers, i)
    BY DEF Uses, Is
  <2> QED  BY <2>1, <2>2 DEF TableInv, WellBound, Is
<1>2. BeInit => TableInv  BY TableInit, BackendAssumption
<1>3. TableInv /\ [BeNext]_beVars => TableInv'  BY TableStep, BackendAssumption
<1> QED  BY <1>1, <1>2, <1>3, PTL DEF BeSpec
=============================================================================
