---------------------------- MODULE MCUserDriver ----------------------------
(***************************************************************************)
(* Four models that share the commands of VxeInstr, each on its own: the   *)
(* checkers (Programs), a pipeline (UdPipeline), the workers of the        *)
(* emulator (SwEmuMT) and its buffers (SwEmuBackend).  The first state     *)
(* says which of them runs; the variables of the others rest.              *)
(***************************************************************************)
EXTENDS Programs, SwEmuBackend, SwEmuMT, TLC

VARIABLES
    part,
    mask, made, answer, cbuf, device, wanted, runs

-----------------------------------------------------------------------------
\* The programs that the checkers see: one thread does all the work.

Focus == <<1, 1>>

MCBufLen == "a" :> 2 @@ "b" :> 1

\* Room for one element, for none, and an index beyond the end.
MCBindings == {<<"a", 1>>, <<"b", 1>>, <<"b", 2>>}

MCMenu == {SETEN(Focus, 0), SETEN(Focus, 1), SETACC(Focus, TRUE),
           SETVL(Focus, 0), SETVL(Focus, 1),
           SETRS(Focus), SETRT(Focus), SETRD(Focus),
           PROD(AllVpus), PROD(OneVpu(1)), STORE(AllVpus), STORE(OneVpu(1)),
           ACTF(AllVpus, "relu"), NOP, SYNC({}), SYNC({"stop"}),
           Command("unknown", AllVpus, 0)}

Disable(threads) == SetToSeq({SETEN(t, 0) : t \in threads})
Others == Threads \ {Focus}

\* The other threads are disabled, also behind a NOP, or one is left out, or one
\* is enabled.
MCPreludes == {Disable(Others),
               <<NOP>> \o Disable(Others),
               Disable(Others \ {<<1, 0>>}) \o <<SETEN(<<1, 0>>, 1)>>,
               << >>}

ProgRests == /\ phase = "rest" /\ kd = [err |-> "EINVAL"]
             /\ sw = << >> /\ x = << >> /\ kres = << >> /\ sres = << >>
             /\ reach = << >> /\ first = "none" /\ early = FALSE /\ todo = << >>

-----------------------------------------------------------------------------
\* Arithmetic in which the order of the operands and of the steps shows.

MCMac(acc, a, b) == (7 * acc + 3 * a + 11 * b + a * b) % 97
MCAct(af, acc) == (5 * acc + (IF af = "relu" THEN 1 ELSE 2)) % 97

-----------------------------------------------------------------------------
\* Pipelines: "in" holds the sources, "out" the results.

PipeBufLen == "in" :> 6 @@ "out" :> 4

Vec(b, o, n) == [buf |-> b, off |-> o, len |-> n]
Mtx(b, o, r, c) == [buf |-> b, off |-> o, rows |-> r, cols |-> c]
Desc(s1, s2, d, bias) == [src1 |-> s1, src2 |-> s2, dst |-> d, bias |-> bias]
Bias(r, c) == [rows |-> r, cols |-> c, value |-> 3]
Stage(type, descs, spec) == [type |-> type, descs |-> descs, spec |-> spec]

VxV(off, len, dst, room) ==
    <<Stage("vxv", <<Desc(Vec("in", off, len), Vec("in", 4, len),
                          Vec("out", dst, room), Bias(1, 1))>>, "relu")>>
MxV(off, r, c, dst) ==
    <<Stage("mxv", <<Desc(Mtx("in", off, r, c), Vec("in", 2, c),
                          Vec("out", dst, 4 - dst),
                          IF off = 0 THEN << >> ELSE Bias(r, 1))>>, "lrelu")>>
MxM(off, bias) ==
    <<Stage("mxm", <<Desc(Mtx("in", off, 2, 2), Mtx("in", 1, 2, 2),
                          Mtx("out", 0, 2, 2), bias)>>, "none")>>

TwoStages ==
    <<Stage("vxv", <<Desc(Vec("in", 0, 2), Vec("in", 1, 2), Vec("in", 5, 1), Bias(1, 1)),
                     Desc(Vec("in", 2, 1), Vec("in", 1, 1), Vec("out", 1, 1), Bias(1, 1))>>,
           "relu"),
      Stage("mxv", <<Desc(Mtx("in", 0, 2, 3), Vec("in", 1, 3), Vec("out", 2, 2), << >>)>>,
           "none")>>

\* The last ones wrap: 31 + 2, and 8 rows of 4, are beyond the Word of 32.
MCPipelines ==
    {VxV(off, 2, dst, room) : off \in {4, 5}, dst \in {3, 4}, room \in {0, 1}}
    \cup {VxV(off, len, 1, 1) : off \in {1, 6}, len \in {0, 1}}
    \cup {MxV(off, r, 2, dst) : off \in {0, 1}, r \in {0, 3, 4}, dst \in {0, 1}}
    \cup {MxV(0, 4, 1, 0), MxV(1, 3, 1, 1)}
    \cup {MxM(off, bias) : off \in {0, 2}, bias \in {<< >>, Bias(2, 2), Bias(2, 1)}}
    \cup {TwoStages, VxV(31, 2, 0, 1), MxV(0, 8, 4, 0), MxV(1, 8, 4, 0)}

Pipe == INSTANCE UdPipeline WITH
    BufLen <- PipeBufLen, Word <- 32, MaxVecLen <- 4, DeviceVpus <- Vpus,
    Masks <- {{0, 1}, {0}, {1}}, Pipelines <- MCPipelines, MaxRuns <- 2,
    MacNum <- MCMac, ActNum <- MCAct

PipeRests == /\ mask = {} /\ made = << >> /\ answer = Pipe!NoAnswer
             /\ cbuf = << >> /\ device = [mem |-> << >>] /\ wanted = << >> /\ runs = 0

-----------------------------------------------------------------------------
\* Programs for the workers, with the resources in place of their numbers.

Operand(op, t, i) == Command(op, t, <<"mem", i>>)
Work(t, acc, rs, rt, rd, len) ==
    <<SETEN(t, 1), SETACC(t, acc), Operand("setrs", t, rs), Operand("setrt", t, rt),
      Operand("setrd", t, rd), SETVL(t, len)>>

\* Two products, the second one of VPU 1 after the first one has been stored.
TwoProducts ==
    Work(<<0, 0>>, 1, 0, 1, 2, 2) \o Work(<<0, 1>>, 2, 0, 1, 1, 1)
    \o <<SETEN(<<1, 0>>, 0)>> \o Work(<<1, 1>>, 3, 1, 2, 3, 1)
    \o <<PROD(AllVpus), STORE(AllVpus), ACTF(AllVpus, "relu"),
         PROD(OneVpu(1)), STORE(AllVpus)>>
OneProduct ==
    <<SETEN(<<1, 0>>, 0)>> \o Work(<<1, 1>>, 5, 0, 2, 0, 2)
    \o <<PROD(OneVpu(1)), STORE(OneVpu(1))>>

MCProgram == {TwoProducts, OneProduct}
MCMemory == [p \in {"mem"} \X (0 .. 3) |-> p[2] + 1]

-----------------------------------------------------------------------------

pipeVars == <<mask, made, answer, cbuf, device, wanted, runs>>
vars == <<part, progVars, pipeVars, mtVars, beVars>>

MCInit ==
    /\ part \in {"programs", "pipeline", "workers", "buffers"}
    /\ IF part = "programs" THEN ProgInit ELSE ProgRests
    /\ IF part = "pipeline" THEN Pipe!PipeInit ELSE PipeRests
    /\ MTInit
    /\ BeInit

StepPrograms == /\ part = "programs" /\ ProgNext
                /\ UNCHANGED <<part, pipeVars, mtVars, beVars>>
StepPipeline == /\ part = "pipeline" /\ Pipe!PipeNext
                /\ UNCHANGED <<part, progVars, mtVars, beVars>>
StepWorkers == /\ part = "workers" /\ MTNext
               /\ UNCHANGED <<part, progVars, pipeVars, beVars>>
StepBuffers == /\ part = "buffers" /\ BeNext
               /\ UNCHANGED <<part, progVars, pipeVars, mtVars>>

MCNext == StepPrograms \/ StepPipeline \/ StepWorkers \/ StepBuffers

\* Every thread of the process is scheduled, and a semaphore that is up lets
\* its waiter go: there is one waiter to each.
Fair == /\ WF_mtVars(Caller)
        /\ \A t \in Threads : WF_mtVars(Worker(t))

MCSpec == MCInit /\ [][MCNext]_vars /\ Fair

\* No verified pipeline is refused by a driver.
VerifiedIsAccepted == Pipe!VerifiedIsAccepted

\* The results of a run are those that the stages ask for.
ProgramComputesStages == Pipe!ProgramComputesStages
=============================================================================
