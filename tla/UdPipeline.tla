----------------------------- MODULE UdPipeline -----------------------------
(***************************************************************************)
(* A pipeline of the user driver (sw/ud/src/pipeline.cxx), from the        *)
(* description that an application gives to the values it finds in memory: *)
(* the stages are verified, compiled by the code generator, checked by the *)
(* driver, and executed by the emulator, whose registers keep what the     *)
(* pipeline before has left.                                               *)
(*                                                                         *)
(* A vector is a buffer, an offset and a length, a matrix has rows and     *)
(* cols, and a vector is also read as a matrix of one row.  Offsets and    *)
(* sizes are unsigned numbers below Word.                                  *)
(***************************************************************************)
EXTENDS UdCodegen

CONSTANTS
    BufLen,             \* [buffer -> length]
    Word,               \* 2^32 in the code
    MaxVecLen,          \* MAX_VEC_LEN
    DeviceVpus,         \* the VPUs of the device
    Masks,              \* sets of VPUs that a context may ask for
    Pipelines,          \* sequences of stages an application may ask for
    MaxRuns,            \* bound: how often programs run
    MacNum(_, _, _), ActNum(_, _)

VARIABLES
    mask,               \* the VPU mask of the context
    made,               \* the stages of the pipeline that exists, or << >>
    answer,             \* what verification and the checkers last said
    cbuf,               \* the command buffer: program and resources
    device,             \* registers and memory
    wanted,             \* the memory that the stages ask for
    runs

pipeVars == <<mask, made, answer, cbuf, device, wanted, runs>>

KDP == INSTANCE KdProg
SWP == INSTANCE SwEmuProg
DEV == INSTANCE SwEmuExec WITH VpuMask <- DeviceVpus, Mac <- MacNum, Act <- ActNum

-----------------------------------------------------------------------------
\* Verification.

Fits(buf, len, lastIdx) == len <= MaxVecLen /\ lastIdx < BufLen[buf]

VerifVec(v) == Fits(v.buf, v.len, (v.off + v.len - 1) % Word)

\* Mutant: the last element is not looked at.
VerifMtxRow(m) == Fits(m.buf, m.cols, (m.off + m.cols - 1) % Word)

VerifMtx(m) == Fits(m.buf, m.cols, (m.off + m.rows * m.cols - 1) % Word)

BiasIs(bias, rows, cols) == bias = << >> \/ (bias.rows = rows /\ bias.cols = cols)

VerifVxV(d) == /\ VerifVec(d.src1) /\ VerifVec(d.src2) /\ VerifVec(d.dst)
               /\ d.src1.len = d.src2.len
               /\ BiasIs(d.bias, 1, 1)

VerifMxV(d) == /\ VerifMtx(d.src1) /\ VerifVec(d.src2) /\ VerifVec(d.dst)
               /\ d.src1.cols = d.src2.len
               /\ d.dst.len >= d.src1.rows
               /\ BiasIs(d.bias, d.src1.rows, 1)

VerifMxM(d) == /\ VerifMtx(d.src1) /\ VerifMtx(d.src2) /\ VerifMtx(d.dst)
               /\ d.src1.cols = d.src2.cols
               /\ d.dst.rows = d.src1.rows /\ d.dst.cols = d.src2.rows
               /\ BiasIs(d.bias, d.src1.rows, d.src2.rows)

VerifStage(s) == \A i \in DOMAIN s.descs :
    CASE s.type = "vxv" -> VerifVxV(s.descs[i])
      [] s.type = "mxv" -> VerifMxV(s.descs[i])
      [] s.type = "mxm" -> VerifMxM(s.descs[i])

-----------------------------------------------------------------------------
\* Compilation.

Bind(v, n) == <<v.buf, (v.off + n) % Word>>

BiasAt(bias, n) == IF bias = << >> THEN 0 ELSE bias.value + n

Row(d, n, len, i1, i2, id) ==
    [acc |-> BiasAt(d.bias, n), len |-> len,
     rs |-> Bind(d.src1, i1), rt |-> Bind(d.src2, i2), rd |-> Bind(d.dst, id)]

RowsVxV(d) == <<Row(d, 0, d.src1.len, 0, 0, 0)>>

RowsMxV(d) == [r \in 1 .. d.src1.rows |->
                  Row(d, r - 1, d.src1.cols, (r - 1) * d.src1.cols, 0, r - 1)]

\* The rows of the second matrix run in the inner loop.
RowsMxM(d) == [k \in 1 .. d.src1.rows * d.src2.rows |->
                  LET rl == (k - 1) \div d.src2.rows
                      rr == (k - 1) % d.src2.rows
                  IN  Row(d, k - 1, d.src1.cols, rl * d.src1.cols,
                          rr * d.src2.cols, k - 1)]

Rows(s) == FlattenSeq([i \in DOMAIN s.descs |->
    CASE s.type = "vxv" -> RowsVxV(s.descs[i])
      [] s.type = "mxv" -> RowsMxV(s.descs[i])
      [] s.type = "mxm" -> RowsMxM(s.descs[i])])

FinishBatch(cg, spec) ==
    Emit(Finalize(cg), <<PROD(AllVpus)>>
                       \o (IF spec = "none" THEN << >> ELSE <<ACTF(AllVpus, spec)>>)
                       \o <<STORE(AllVpus)>>)

\* A row for which no thread is left waits for the batch to be finished.
CompileRow(cg, spec, row) ==
    AllocThread(IF AvailThreads(cg) = 0 THEN FinishBatch(cg, spec) ELSE cg, row)

CompileStage(cg, s) ==
    FinishBatch(FoldLeft(LAMBDA g, row : CompileRow(g, s.spec, row), cg, Rows(s)),
                s.spec)

Compile(stages, m) ==
    FoldLeft(CompileStage, Prepare(CodeGenerator(DeviceVpus, m)), stages)

\* updateVxV, updateMxV and updateMxM repeat the loops of the compilation.
UpdatedBindings(stages) ==
    FlattenSeq([i \in DOMAIN stages |->
        LET rows == Rows(stages[i])
        IN  FlattenSeq([k \in DOMAIN rows |->
                            <<rows[k].rs, rows[k].rt, rows[k].rd>>])])

-----------------------------------------------------------------------------
\* What the application asks for.  Every operand is read as a matrix, and
\* element (r, c) of the destination is the product of row r of the first and
\* row c of the second operand, added to the bias.

AsMatrix(v) == IF "rows" \in DOMAIN v THEN v
               ELSE [buf |-> v.buf, off |-> v.off, rows |-> 1, cols |-> v.len]

Cell(s, d, r, c, mem) ==
    LET a == AsMatrix(d.src1)
        b == AsMatrix(d.src2)
        n == r * b.rows + c
        At(m, row, k) == mem[<<m.buf, m.off + row * m.cols + k - 1>>]
        dot == FoldLeft(LAMBDA acc, k : MacNum(acc, At(a, r, k), At(b, c, k)),
                        BiasAt(d.bias, n), [k \in 1 .. a.cols |-> k])
    IN  [dst |-> <<d.dst.buf, d.dst.off + n>>,
         value |-> IF s.spec = "none" THEN dot ELSE ActNum(s.spec, dot)]

Cells(s, d, mem) ==
    {Cell(s, d, p[1], p[2], mem) :
        p \in (0 .. AsMatrix(d.src1).rows - 1) \X (0 .. AsMatrix(d.src2).rows - 1)}

StageResult(mem, s) ==
    LET cells == UNION {Cells(s, s.descs[i], mem) : i \in DOMAIN s.descs}
    IN  [p \in DOMAIN mem |->
            IF \E c \in cells : c.dst = p
            THEN (CHOOSE c \in cells : c.dst = p).value ELSE mem[p]]

Operands(d) == {d.src1, d.src2, d.dst}

\* The index of an operand's last element is beyond the numbers there are.
Wraps(stages) == \E s \in ToSet(stages) : \E d \in ToSet(s.descs) :
    \E v \in Operands(d) :
        v.off + AsMatrix(v).rows * AsMatrix(v).cols > Word

\* A product of two vectors is one element, whatever length its destination has:
\* it begins before the end of its buffer.
HasRoom(stages) == \A s \in ToSet(stages) : s.type = "vxv" =>
    \A d \in ToSet(s.descs) : d.dst.off < BufLen[d.dst.buf]

-----------------------------------------------------------------------------
\* The calls of an application.

Field(bindings, k) == [r \in 0 .. Len(bindings) - 1 |-> bindings[r + 1][k]]

KdAssembles(cg) == FoldLeft(KDP!Prepare,
    KDP!ProgStateCreate(Field(cg.bindings, 1), Field(cg.bindings, 2), "garbage"),
    cg.program)

SwAssembles(cg) ==
    LET data == Field(cg.bindings, 1)
        index == Field(cg.bindings, 2)
        a0 == SWP!Reset([r \in DOMAIN data |-> SWP!Resource(data[r], index[r])],
                        "garbage")
    IN  FoldLeft(LAMBDA s, c : [a |-> SWP!PrepareProg(s.a, c),
                                prog |-> Append(s.prog, SWP!Patched(s.a, c))],
                 [a |-> a0, prog |-> << >>], cg.program)

NoAnswer == [wraps |-> FALSE, room |-> FALSE, ud |-> FALSE, kd |-> FALSE, sw |-> FALSE]
NoBuf == [prog |-> << >>, res |-> << >>, kd |-> << >>]

\* The threads' state (ts) is needed for the checks only.
KdKeeps(p) == [f \in {"err", "bufs", "addrs", "vlens"} |-> p[f]]

Answer(stages, ud, kd, sw) == [wraps |-> Wraps(stages), room |-> HasRoom(stages),
                               ud |-> ud, kd |-> ud /\ kd, sw |-> ud /\ sw]

CreatePipeline(stages) ==
    LET verified == \A i \in DOMAIN stages : VerifStage(stages[i])
        cg == Compile(stages, mask)
        kd == KdAssembles(cg)
        sw == SwAssembles(cg)
        taken == verified /\ SWP!Prepared(sw.a)
    IN  /\ made = << >> /\ runs < MaxRuns
        /\ answer' = Answer(stages, verified, KDP!Assembled(kd), SWP!Prepared(sw.a))
        /\ made' = IF taken THEN stages ELSE << >>
        /\ cbuf' = IF taken THEN [prog |-> sw.prog, res |-> sw.a.res, kd |-> KdKeeps(kd)]
                   ELSE NoBuf
        /\ UNCHANGED <<mask, device, wanted, runs>>

\* The shape of a stage is all that its program depends on, besides the bias
\* and the activation, which an update leaves as they were compiled.
Sizes(v) == [k \in DOMAIN v \ {"buf", "off"} |-> v[k]]
Shape(s) == <<s.type, [i \in DOMAIN s.descs |->
    <<Sizes(s.descs[i].src1), Sizes(s.descs[i].src2), Sizes(s.descs[i].dst)>>]>>

SameShape(p, q) == /\ Len(p) = Len(q)
                   /\ \A i \in DOMAIN p : Shape(p[i]) = Shape(q[i])

Rebound(p, q) == [i \in DOMAIN p |-> [p[i] EXCEPT !.descs =
    [k \in DOMAIN @ |-> [q[i].descs[k] EXCEPT !.bias = p[i].descs[k].bias]]]]

UpdateResources(stages) ==
    LET verified == \A i \in DOMAIN stages : VerifStage(stages[i])
        b == UpdatedBindings(stages)
        bufs == Field(b, 1)
        indexes == Field(b, 2)
        kdTakes == /\ KDP!Assembled(cbuf.kd)
                   /\ ~KDP!SwapRefused(cbuf.kd, bufs, indexes)
        swTakes == ~SWP!UpdateRefused(cbuf.res, bufs, indexes)
    IN  /\ made # << >> /\ runs < MaxRuns /\ SameShape(made, stages)
        /\ answer' = Answer(stages, verified, kdTakes, swTakes)
        /\ made' = IF verified /\ swTakes THEN Rebound(made, stages) ELSE made
        /\ cbuf' = [cbuf EXCEPT
               !.res = IF verified /\ swTakes THEN SWP!Update(@, bufs, indexes) ELSE @,
               !.kd = IF verified /\ kdTakes THEN KDP!SwapRes(@, bufs, indexes) ELSE @]
        /\ UNCHANGED <<mask, device, wanted, runs>>

PipelineRun ==
    /\ made # << >> /\ runs < MaxRuns
    /\ device' = FoldLeft(LAMBDA x, c : DEV!Execute(x, c, cbuf.res), device, cbuf.prog)
    /\ wanted' = FoldLeft(StageResult, device.mem, made)
    /\ runs' = runs + 1 /\ answer' = NoAnswer
    /\ UNCHANGED <<mask, made, cbuf>>

DestroyPipeline ==
    /\ made # << >>
    /\ made' = << >> /\ cbuf' = NoBuf /\ answer' = NoAnswer
    /\ UNCHANGED <<mask, device, wanted, runs>>

\* The registers of a new executor, and what the application put into memory.
PipeInit ==
    /\ mask \in Masks
    /\ made = << >> /\ cbuf = NoBuf /\ runs = 0
    /\ answer = NoAnswer
    /\ device =
          [regs |-> [t \in Threads |->
                        [en |-> FALSE, acc |-> 0, vlen |-> 0, rs |-> <<"null", 0>>,
                         rt |-> <<"null", 0>>, rd |-> <<"null", 0>>]],
           mem |-> [p \in UNION {{b} \X (0 .. BufLen[b] - 1) : b \in DOMAIN BufLen}
                       |-> p[2] + 1]]
    /\ wanted = device.mem

PipeNext == \/ \E s \in Pipelines : CreatePipeline(s) \/ UpdateResources(s)
            \/ PipelineRun
            \/ DestroyPipeline

-----------------------------------------------------------------------------

\* A pipeline that the user driver has verified is taken by the kernel driver and
\* by the emulator, each with its own check, at its creation and at an update:
\* every thread of the device is enabled or disabled when a product starts, and
\* every operand is long enough.  Two things get past the verification.  The
\* destination of a VxV stage may be a vector of length zero, and both drivers
\* refuse exactly those that begin at the very end of their buffer, where the one
\* element that is stored has no room; and nothing is said of an offset so large
\* that its sum with the size wraps.
VerifiedIsAccepted ==
    answer.ud /\ ~answer.wraps => /\ answer.kd <=> answer.room
                                  /\ answer.sw <=> answer.room

\* After every run the memory is what the stages ask for, computed row by row
\* from their descriptions, for every split of the rows into batches, every
\* mask, whatever pipelines ran before, and after the resources are updated.
ProgramComputesStages == device.mem = wanted
=============================================================================
