------------------------- MODULE VxeCtrlUnitProofs -------------------------
(***************************************************************************)
(* Proofs about VxeCtrlUnit: what is in the queues of the control unit.    *)
(*                                                                         *)
(* The invariant Inv follows a request from the fetch unit through the     *)
(* memory hub and back.  A word is its address and requests are for        *)
(* consecutive addresses, so every queue and register on the way holds a   *)
(* run of addresses, and each run ends where the next begins (Chain).      *)
(* From it follow that words meet the addresses they were requested for,   *)
(* that the intermediate FIFOs suffice, and that nothing is left of a      *)
(* program when the engine is idle.                                        *)
(*                                                                         *)
(* The theorems assume FetchDepth >= 3; the source has 16 (line 34 of      *)
(* vxe_ctrl_unit.v).  With two slots Requests fails: a full rq_fifo is     *)
(* empty after two reads, while another request still waits before it.     *)
(***************************************************************************)
EXTENDS VxeCtrlUnit, SequenceTheorems, TLAPS

-----------------------------------------------------------------------------
(* Runs of addresses that move through queues.                             *)

\* 1 for what is there
B(b) == IF b THEN 1 ELSE 0

\* A queue of consecutive addresses
Run(q, s) == \A i \in 1..Len(q) : q[i] = s + i - 1

\* A queue that is read when pop says so and there is a value, and written
Moved(q, pop, push, d) == IF push THEN Append(FifoRead(q, pop), d) ELSE FifoRead(q, pop)

LEMMA ReadType ==
    ASSUME NEW q \in Seq(Int), NEW pop \in BOOLEAN
    PROVE  /\ FifoRead(q, pop) \in Seq(Int)
           /\ Len(FifoRead(q, pop)) = Len(q) - B(pop /\ q # << >>)
           /\ \A s \in Int : Run(q, s) => Run(FifoRead(q, pop), s + B(pop /\ q # << >>))
<1>1. CASE pop /\ q # << >>
  <2>1. /\ Tail(q) \in Seq(Int) /\ Len(q) \in Nat /\ Len(q) > 0 /\ Len(Tail(q)) = Len(q) - 1
        /\ \A i \in 1..Len(Tail(q)) : Tail(q)[i] = q[i + 1]
    <3>1. Len(q) \in Nat /\ Len(q) > 0  BY <1>1, EmptySeq, LenProperties
    <3> QED  BY <1>1, <3>1, HeadTailProperties
  <2>2. ASSUME NEW s \in Int, Run(q, s)  PROVE Run(Tail(q), s + 1)
    <3>1. SUFFICES ASSUME NEW i \in 1..Len(Tail(q))  PROVE Tail(q)[i] = s + 1 + i - 1
      BY DEF Run
    <3>2. i + 1 \in 1..Len(q) /\ Tail(q)[i] = q[i + 1]  BY <2>1
    <3>3. q[i + 1] = s + (i + 1) - 1  BY <2>2, <3>2 DEF Run
    <3> QED  BY <2>1, <3>2, <3>3
  <2> QED  BY <1>1, <2>1, <2>2 DEF FifoRead, B
<1>2. CASE ~(pop /\ q # << >>)
  <2>1. FifoRead(q, pop) = q  BY <1>2 DEF FifoRead
  <2>2. Len(q) \in Nat  BY LenProperties
  <2>3. \A s \in Int : s + 0 = s  OBVIOUS
  <2> QED  BY <1>2, <2>1, <2>2, <2>3 DEF B
<1> QED  BY <1>1, <1>2

LEMMA AppendRun ==
    ASSUME NEW q \in Seq(Int), NEW d \in Int
    PROVE  /\ Append(q, d) \in Seq(Int) /\ Len(Append(q, d)) = Len(q) + 1
           /\ \A s \in Int : Run(q, s) /\ d = s + Len(q) => Run(Append(q, d), s)
<1>1. /\ Append(q, d) \in Seq(Int) /\ Len(Append(q, d)) = Len(q) + 1 /\ Len(q) \in Nat
      /\ \A i \in 1..Len(q) : Append(q, d)[i] = q[i]
      /\ Append(q, d)[Len(q) + 1] = d
  BY AppendProperties, LenProperties
<1>2. ASSUME NEW s \in Int, Run(q, s), d = s + Len(q)  PROVE Run(Append(q, d), s)
  <2>1. SUFFICES ASSUME NEW i \in 1..(Len(q) + 1)  PROVE Append(q, d)[i] = s + i - 1
    BY <1>1 DEF Run
  <2>2. CASE i \in 1..Len(q)  BY <1>1, <1>2, <2>2 DEF Run
  <2>3. CASE i = Len(q) + 1  BY <1>1, <1>2, <2>3
  <2> QED  BY <1>1, <2>2, <2>3
<1> QED  BY <1>1, <1>2

LEMMA MovedType ==
    ASSUME NEW q \in Seq(Int), NEW pop \in BOOLEAN, NEW push \in BOOLEAN, NEW d,
           push => d \in Int
    PROVE  /\ Moved(q, pop, push, d) \in Seq(Int)
           /\ Len(Moved(q, pop, push, d)) = Len(q) - B(pop /\ q # << >>) + B(push)
           /\ \A s \in Int : Run(q, s) /\ (push => d = s + Len(q))
                               => Run(Moved(q, pop, push, d), s + B(pop /\ q # << >>))
<1> DEFINE r == FifoRead(q, pop)
           n == B(pop /\ q # << >>)
<1>1. /\ r \in Seq(Int) /\ Len(r) = Len(q) - n
      /\ \A s \in Int : Run(q, s) => Run(r, s + n)
  BY ReadType
<1>2. n \in Int /\ Len(q) \in Nat  BY LenProperties DEF B
<1> HIDE DEF r, n
<1>3. CASE push
  <2>1. d \in Int /\ Moved(q, pop, push, d) = Append(r, d)  BY <1>3 DEF Moved, r
  <2>2. /\ Append(r, d) \in Seq(Int) /\ Len(Append(r, d)) = Len(r) + 1
        /\ \A s \in Int : Run(r, s) /\ d = s + Len(r) => Run(Append(r, d), s)
    BY <1>1, <2>1, AppendRun
  <2>3. ASSUME NEW s \in Int, Run(q, s), d = s + Len(q)  PROVE Run(Append(r, d), s + n)
    <3>1. s + n \in Int /\ d = (s + n) + Len(r)  BY <1>1, <1>2, <2>3
    <3> QED  BY <1>1, <2>2, <2>3, <3>1
  <2> QED  BY <1>1, <1>2, <1>3, <2>1, <2>2, <2>3 DEF n, B
<1>4. CASE ~push
  <2>1. Moved(q, pop, push, d) = r  BY <1>4 DEF Moved, r
  <2>2. B(push) = 0  BY <1>4 DEF B
  <2> QED  BY <1>1, <1>2, <1>4, <2>1, <2>2 DEF n
<1> QED  BY <1>3, <1>4

-----------------------------------------------------------------------------
(* The invariant.                                                          *)

Types ==
    /\ memory \in Images /\ pgm_addr \in Programs(memory)
    /\ fetch_addr \in Int /\ rq_addr \in Int /\ f_rs_in \in Int
    /\ rq_fsm \in {"IDLE", "SEND", "STLL"} /\ rs_fsm \in {"IDLE", "RECV", "STLL"}
    /\ rx_fsm \in {"IDLE", "READ", "STLL", "HALT"} /\ dp_fsm \in {"IDLE", "DECD", "HALT"}
    /\ ctl_fsm \in {"IDLE", "EXEC", "SYNC", "WAIT"}
    /\ {o_rqa_wr, f_rq_wr, f_rs_wr, drain, cu_start, glb_start} \subseteq BOOLEAN
    /\ {flt_fetch, flt_decode, ctl_sync, ctl_sync_stop} \subseteq BOOLEAN
    /\ {rq_fifo, rs_fifo, rss_fifo, hub_rq, hub_rs, cmd_fifo} \subseteq Seq(Int)
    /\ {cvpu_fifo, fwd_fifo, vpu_queue} \subseteq [Vpu -> Seq(Int)]
    /\ {fwd_wr, vpu_cmd_sel} \subseteq [Vpu -> BOOLEAN]
    /\ {fwd_cmd, vpu_cmd} \subseteq [Vpu -> Int]

\* Where in the order of addresses the registers and queues of the fetch unit and
\* the hub stand, if the oldest request not yet dispatched is for s.
Sending(s) == s + Len(rs_fifo)
Storing(s) == Sending(s) + B(f_rs_wr)
Arriving(s) == Storing(s) + Len(rss_fifo)
Serving(s) == Arriving(s) + Len(hub_rs)
Asking(s) == Serving(s) + Len(hub_rq)
Requesting(s) == s + Len(rq_fifo) + B(f_rq_wr)

\* The addresses noted and the words on their way are the same: those from s on.
Chain(s) ==
    /\ Run(rq_fifo, s) /\ (f_rq_wr => rq_addr = s + Len(rq_fifo))
    /\ Run(rs_fifo, s) /\ (f_rs_wr => f_rs_in = Sending(s))
    /\ Run(rss_fifo, Storing(s)) /\ Run(hub_rs, Arriving(s)) /\ Run(hub_rq, Serving(s))
    /\ o_rqa_wr => rq_addr = Asking(s)
    /\ Requesting(s) = Asking(s) + B(o_rqa_wr)
    /\ rq_fsm # "IDLE" => fetch_addr = Requesting(s)

Chained == \E s \in Int : Chain(s)

\* The requests stop only behind what keeps the fetch unit busy: a request is
\* never offered to an empty rq_fifo while what was requested is discarded.
Requests ==
    /\ rq_fsm = "SEND" => o_rqa_wr /\ f_rq_wr
    /\ rq_fsm = "IDLE" => ~o_rqa_wr /\ ~f_rq_wr
    /\ rq_fsm = "STLL" => Len(rq_fifo) >= 2 \/ hub_rq # << >> \/ hub_rs # << >>
    /\ rq_fifo = << >> /\ f_rq_wr => ~drain
    /\ rq_fsm = "IDLE" /\ rs_fsm = "IDLE" => rq_fifo = << >>

\* The execute unit waits for everything but what still passes to the vector units.
Quiet ==
    ctl_fsm = "IDLE" =>
        /\ rq_fsm = "IDLE" /\ rs_fsm = "IDLE" /\ rq_fifo = << >>
        /\ ~flt_fetch /\ ~flt_decode /\ ~StopCond
        /\ cmd_fifo = << >>
        /\ \A v \in Vpu : cvpu_fifo[v] = << >> /\ ~fwd_wr[v]

Started ==
    glb_start => /\ ctl_fsm = "IDLE"
                 /\ \A v \in Vpu : /\ fwd_fifo[v] = << >> /\ ~vpu_cmd_sel[v]
                                   /\ vpu_queue[v] = << >>

\* A unit that may write an intermediate FIFO next leaves room for it.
Rooms ==
    /\ Len(rss_fifo) <= Slots4 /\ (rs_fsm # "STLL" => Len(rss_fifo) < Slots4)
    /\ Len(cmd_fifo) <= Slots4 /\ (rx_fsm # "STLL" => Len(cmd_fifo) < Slots4)
    /\ Halting => dp_fsm = "HALT"
    /\ \A v \in Vpu : Len(cvpu_fifo[v]) < Slots4

Inv == Types /\ Chained /\ Requests /\ Quiet /\ Started /\ Rooms

-----------------------------------------------------------------------------
(* What moves at an edge of the clock.                                     *)

Takes == (o_fetch_rd \/ drain) /\ fetch_vld
Notes == f_rq_wr /\ f_rq_rdy
Keeps == f_rs_wr /\ f_rs_rdy
LoadsWord == Loads(f_rs_wr, f_rs_rdy, rss_fifo)
Arrives == o_rss_rd /\ hub_rs # << >>
Asks == o_rqa_wr /\ i_rqa_rdy

LEMMA ConcatOne ==
    ASSUME NEW q \in Seq(Int), NEW c \in BOOLEAN, NEW d, c => d \in Int
    PROVE  q \o (IF c THEN <<d>> ELSE << >>) = IF c THEN Append(q, d) ELSE q
<1>1. CASE c
  <2>1. d \in Int /\ q \o <<d>> = Append(q, d)  BY <1>1, AppendIsConcat
  <2> QED  BY <1>1, <2>1
<1>2. CASE ~c
  <2>1. q \o << >> = q  BY ConcatEmptySeq
  <2> QED  BY <1>2, <2>1
<1> QED  BY <1>1, <1>2

\* Append leaves the head of a queue, and joins its tail.
LEMMA AppendPopped ==
    ASSUME NEW q \in Seq(Int), q # << >>, NEW d \in Int
    PROVE  Head(Append(q, d)) = Head(q) /\ Tail(Append(q, d)) = Append(Tail(q), d)
OBVIOUS

LEMMA FetchMoves ==
    ASSUME Types, NEW io, NEW serve \in BOOLEAN, NEW done, NEW err,
           Clock(io, serve, done, err)
    PROVE  /\ rq_fifo' = Moved(rq_fifo, Takes, Notes, rq_addr)
           /\ rs_fifo' = Moved(rs_fifo, Takes, Keeps, f_rs_in)
           /\ rss_fifo' = Moved(rss_fifo, LoadsWord, Arrives, Head(hub_rs))
           /\ hub_rs' = Moved(hub_rs, o_rss_rd, serve, Head(hub_rq))
           /\ hub_rq' = Moved(hub_rq, serve, Asks, rq_addr)
           /\ serve => hub_rq # << >>
<1> USE DEF Types
<1>1. rq_fifo' = Moved(rq_fifo, Takes, Notes, rq_addr)
  BY DEF Clock, FetchClock, FifoNext, Moved, Takes, Notes, f_rq_rdy
<1>2. rs_fifo' = Moved(rs_fifo, Takes, Keeps, f_rs_in)
  BY DEF Clock, FetchClock, FifoNext, Moved, Takes, Keeps, f_rs_rdy
<1>3. rss_fifo' = Moved(rss_fifo, LoadsWord, Arrives, Head(hub_rs))
  <2>1. rss_fifo' = FifoRead(rss_fifo, LoadsWord)
                      \o (IF Arrives THEN <<Head(hub_rs)>> ELSE << >>)
    BY DEF Clock, FetchClock, ResponseFifo, LoadsWord, Arrives
  <2>2. FifoRead(rss_fifo, LoadsWord) \in Seq(Int)  BY ReadType DEF LoadsWord, Loads
  <2>3. Arrives => Head(hub_rs) \in Int  BY HeadTailProperties DEF Arrives
  <2>4. Arrives \in BOOLEAN  BY DEF Arrives, o_rss_rd
  <2> HIDE DEF Arrives
  <2>5. FifoRead(rss_fifo, LoadsWord) \o (IF Arrives THEN <<Head(hub_rs)>> ELSE << >>)
          = IF Arrives THEN Append(FifoRead(rss_fifo, LoadsWord), Head(hub_rs))
            ELSE FifoRead(rss_fifo, LoadsWord)
    BY <2>2, <2>3, <2>4, ConcatOne
  <2> QED  BY <2>1, <2>5 DEF Moved
<1>4. /\ hub_rs' = Moved(hub_rs, o_rss_rd, serve, Head(hub_rq))
      /\ hub_rq' = Moved(hub_rq, serve, Asks, rq_addr)
      /\ serve => hub_rq # << >>
  <2>0. HubClock(serve)  BY DEF Clock
  <2>1. CASE serve
    <3>1. /\ hub_rq # << >>
          /\ hub_rq' = Tail(IF Asks THEN Append(hub_rq, rq_addr) ELSE hub_rq)
          /\ hub_rs' = Append(FifoRead(hub_rs, o_rss_rd),
                              Head(IF Asks THEN Append(hub_rq, rq_addr) ELSE hub_rq))
      BY <2>0, <2>1 DEF HubClock, Asks
    <3>2. /\ Head(Append(hub_rq, rq_addr)) = Head(hub_rq)
          /\ Tail(Append(hub_rq, rq_addr)) = Append(Tail(hub_rq), rq_addr)
      <4>1. hub_rq \in Seq(Int) /\ hub_rq # << >> /\ rq_addr \in Int  BY <3>1
      <4> QED  BY <4>1, AppendPopped
    <3> QED  BY <2>1, <3>1, <3>2 DEF Moved, FifoRead
  <2>2. CASE ~serve  BY <2>0, <2>2 DEF HubClock, Moved, FifoRead, Asks
  <2> QED  BY <2>1, <2>2
<1> QED  BY <1>1, <1>2, <1>3, <1>4

\* q becomes r: pop says whether its first value leaves, push whether d enters.
Moves(q, r, pop, push, d) ==
    /\ r \in Seq(Int) /\ Len(r) = Len(q) - B(pop) + B(push)
    /\ \A s \in Int : Run(q, s) /\ (push => d = s + Len(q)) => Run(r, s + B(pop))

LEMMA MovedMoves ==
    ASSUME NEW q \in Seq(Int), NEW pop \in BOOLEAN, NEW push \in BOOLEAN, NEW d,
           push => d \in Int
    PROVE  \A r : \A p \in BOOLEAN :
               p = (pop /\ q # << >>) /\ r = Moved(q, pop, push, d)
                   => Moves(q, r, p, push, d)
<1>1. /\ Moved(q, pop, push, d) \in Seq(Int)
      /\ Len(Moved(q, pop, push, d)) = Len(q) - B(pop /\ q # << >>) + B(push)
      /\ \A s \in Int : Run(q, s) /\ (push => d = s + Len(q))
                          => Run(Moved(q, pop, push, d), s + B(pop /\ q # << >>))
  BY MovedType
<1>2. \A p \in BOOLEAN : p = (pop /\ q # << >>) => B(pop /\ q # << >>) = B(p)
  BY DEF B
<1> QED  BY <1>1, <1>2 DEF Moves

LEMMA FetchRuns ==
    ASSUME Types, NEW io, NEW serve \in BOOLEAN, NEW done, NEW err,
           Clock(io, serve, done, err)
    PROVE  /\ Moves(rq_fifo, rq_fifo', Takes, Notes, rq_addr)
           /\ Moves(rs_fifo, rs_fifo', Takes, Keeps, f_rs_in)
           /\ Moves(rss_fifo, rss_fifo', LoadsWord, Arrives, Head(hub_rs))
           /\ Moves(hub_rs, hub_rs', Arrives, serve, Head(hub_rq))
           /\ Moves(hub_rq, hub_rq', serve, Asks, rq_addr)
<1>1. /\ rq_fifo \in Seq(Int) /\ rs_fifo \in Seq(Int) /\ rss_fifo \in Seq(Int)
      /\ hub_rs \in Seq(Int) /\ hub_rq \in Seq(Int)
      /\ rq_addr \in Int /\ f_rs_in \in Int
  BY DEF Types
<1>2. /\ {Takes, Notes, Keeps, LoadsWord, Arrives, Asks, o_rss_rd} \subseteq BOOLEAN
      /\ Takes = (Takes /\ rq_fifo # << >>) /\ Takes = (Takes /\ rs_fifo # << >>)
      /\ LoadsWord = (LoadsWord /\ rss_fifo # << >>)
      /\ Arrives = (o_rss_rd /\ hub_rs # << >>)
  BY DEF Types, Takes, Notes, Keeps, LoadsWord, Arrives, Asks, o_rss_rd, Loads, f_rq_rdy,
         f_rs_rdy, i_rqa_rdy, fetch_vld, f_rq_vld, f_rs_vld
<1>m. /\ rq_fifo' = Moved(rq_fifo, Takes, Notes, rq_addr)
      /\ rs_fifo' = Moved(rs_fifo, Takes, Keeps, f_rs_in)
      /\ rss_fifo' = Moved(rss_fifo, LoadsWord, Arrives, Head(hub_rs))
      /\ hub_rs' = Moved(hub_rs, o_rss_rd, serve, Head(hub_rq))
      /\ hub_rq' = Moved(hub_rq, serve, Asks, rq_addr)
      /\ serve => hub_rq # << >>
  BY FetchMoves
<1>3. /\ Arrives => Head(hub_rs) \in Int
      /\ serve => Head(hub_rq) \in Int
      /\ serve = (serve /\ hub_rq # << >>)
  BY <1>1, <1>m, HeadTailProperties DEF Arrives
<1> HIDE DEF Takes, Notes, Keeps, LoadsWord, Arrives, Asks, o_rss_rd
<1>4. Moves(rq_fifo, rq_fifo', Takes, Notes, rq_addr)
  <2>1. /\ rq_fifo \in Seq(Int) /\ rq_addr \in Int /\ Takes \in BOOLEAN /\ Notes \in BOOLEAN
        /\ Takes = (Takes /\ rq_fifo # << >>)
    BY <1>1, <1>2, Zenon
  <2> QED  BY <1>m, <2>1, MovedMoves
<1>5. Moves(rs_fifo, rs_fifo', Takes, Keeps, f_rs_in)
  <2>1. /\ rs_fifo \in Seq(Int) /\ f_rs_in \in Int /\ Takes \in BOOLEAN /\ Keeps \in BOOLEAN
        /\ Takes = (Takes /\ rs_fifo # << >>)
    BY <1>1, <1>2, Zenon
  <2> QED  BY <1>m, <2>1, MovedMoves
<1>6. Moves(rss_fifo, rss_fifo', LoadsWord, Arrives, Head(hub_rs))
  <2>1. /\ rss_fifo \in Seq(Int) /\ LoadsWord \in BOOLEAN /\ Arrives \in BOOLEAN
        /\ LoadsWord = (LoadsWord /\ rss_fifo # << >>)
    BY <1>1, <1>2, Zenon
  <2> QED  BY <1>m, <1>3, <2>1, MovedMoves
<1>7. Moves(hub_rs, hub_rs', Arrives, serve, Head(hub_rq))
  <2>1. /\ hub_rs \in Seq(Int) /\ o_rss_rd \in BOOLEAN /\ Arrives \in BOOLEAN
        /\ Arrives = (o_rss_rd /\ hub_rs # << >>)
    BY <1>1, <1>2, Zenon
  <2> QED  BY <1>m, <1>3, <2>1, MovedMoves
<1>8. Moves(hub_rq, hub_rq', serve, Asks, rq_addr)
  <2>1. hub_rq \in Seq(Int) /\ rq_addr \in Int /\ Asks \in BOOLEAN  BY <1>1, <1>2, Zenon
  <2> QED  BY <1>m, <1>3, <2>1, MovedMoves
<1> QED  BY <1>4, <1>5, <1>6, <1>7, <1>8

\* The request state machine offers the next address, or withdraws what is taken.
NewRequest == ~drain /\ IF rq_fsm = "IDLE" THEN glb_start ELSE i_rqa_rdy /\ f_rq_rdy

LEMMA RequestMoves ==
    ASSUME Types, Requests, NEW io, NEW serve \in BOOLEAN, NEW done, NEW err,
           Clock(io, serve, done, err)
    PROVE  /\ fetch_addr' \in Int /\ rq_addr' \in Int
           /\ {o_rqa_wr', f_rq_wr'} \subseteq BOOLEAN
           /\ rq_fsm' \in {"IDLE", "SEND", "STLL"} /\ (rq_fsm' = "SEND" <=> NewRequest)
           /\ rq_fsm' = "STLL" => rq_fsm # "IDLE" /\ (~i_rqa_rdy \/ ~f_rq_rdy)
           /\ rq_fsm' = "IDLE" => rq_fsm = "IDLE" \/ drain
           /\ NewRequest => /\ o_rqa_wr' /\ f_rq_wr' /\ rq_addr' = fetch_addr
                            /\ fetch_addr' = fetch_addr + 1
                            /\ Asks = o_rqa_wr /\ Notes = f_rq_wr
           /\ ~NewRequest => /\ o_rqa_wr' = (o_rqa_wr /\ ~Asks)
                             /\ f_rq_wr' = (f_rq_wr /\ ~Notes)
                             /\ o_rqa_wr' \/ f_rq_wr' => rq_addr' = rq_addr
                             /\ rq_fsm' # "IDLE" => /\ rq_fsm # "IDLE"
                                                    /\ fetch_addr' = fetch_addr
                             /\ rq_fsm' = "IDLE" => ~o_rqa_wr' /\ ~f_rq_wr'
<1>1. RequestFSM(i_rqa_rdy, glb_start, pgm_addr)  BY DEF Clock, FetchClock
<1>2. /\ Asks = (o_rqa_wr /\ i_rqa_rdy) /\ Notes = (f_rq_wr /\ f_rq_rdy)
      /\ i_rqa_rdy \in BOOLEAN /\ f_rq_rdy \in BOOLEAN
  BY DEF Asks, Notes, i_rqa_rdy, f_rq_rdy
<1>3. pgm_addr \in Int /\ fetch_addr \in Int /\ fetch_addr + 1 \in Int
  BY ImagesAssumption DEF Types
<1> HIDE DEF i_rqa_rdy, f_rq_rdy, Asks, Notes
<1>4. /\ o_rqa_wr \in BOOLEAN /\ f_rq_wr \in BOOLEAN /\ rq_addr \in Int
      /\ rq_fsm = "SEND" => o_rqa_wr /\ f_rq_wr
      /\ rq_fsm = "IDLE" => ~o_rqa_wr /\ ~f_rq_wr
  BY DEF Types, Requests
<1> USE DEF NextRequest, StopRequests, WithdrawTaken, NewRequest
<1> DEFINE rq_stall == ~i_rqa_rdy \/ ~f_rq_rdy
<1>5. CASE /\ rq_fsm \in {"SEND", "STLL"} /\ rq_stall /\ WithdrawTaken(i_rqa_rdy)
           /\ rq_fsm' = "STLL"
  BY <1>2, <1>3, <1>4, <1>5
<1>6. CASE /\ rq_fsm \in {"SEND", "STLL"} /\ ~rq_stall /\ ~drain /\ NextRequest
           /\ o_rqa_wr' /\ f_rq_wr' /\ rq_fsm' = "SEND"
  BY <1>2, <1>3, <1>4, <1>6
<1>7. CASE /\ rq_fsm \in {"SEND", "STLL"} /\ ~rq_stall /\ drain /\ StopRequests
           /\ fetch_addr' \in Int /\ rq_addr' \in Int
  BY <1>2, <1>3, <1>4, <1>7
<1>8. CASE /\ rq_fsm = "IDLE" /\ glb_start /\ ~drain /\ NextRequest
           /\ o_rqa_wr' /\ f_rq_wr' /\ rq_fsm' = "SEND"
  BY <1>2, <1>3, <1>4, <1>8
<1>9. CASE /\ rq_fsm = "IDLE" /\ ~(glb_start /\ ~drain) /\ fetch_addr' = pgm_addr
           /\ UNCHANGED <<rq_addr, o_rqa_wr, f_rq_wr, rq_fsm>>
  BY <1>2, <1>3, <1>4, <1>9
<1>10. /\ rq_fsm \in {"IDLE", "SEND", "STLL"}
       /\ rq_fsm = "SEND" => o_rqa_wr = TRUE /\ f_rq_wr = TRUE
  BY <1>4 DEF Types
<1> QED  BY <1>1, <1>3, <1>4, <1>5, <1>6, <1>7, <1>8, <1>9, <1>10 DEF RequestFSM

LEMMA SendMoves ==
    ASSUME Types, NEW io, NEW serve \in BOOLEAN, NEW done, NEW err,
           Clock(io, serve, done, err)
    PROVE  /\ f_rs_wr' \in BOOLEAN /\ f_rs_in' \in Int
           /\ B(f_rs_wr') = B(f_rs_wr) - B(Keeps) + B(LoadsWord)
           /\ LoadsWord => /\ f_rs_in' = Head(rss_fifo) /\ rss_fifo # << >>
                           /\ Keeps = f_rs_wr
           /\ ~LoadsWord => f_rs_in' = f_rs_in /\ (f_rs_wr' => f_rs_wr /\ ~Keeps)
<1>1. SendCommandFSM  BY DEF Clock, FetchClock
<1>2. rss_fifo # << >> => Head(rss_fifo) \in Int  BY HeadTailProperties DEF Types
<1>3. f_rs_wr \in BOOLEAN /\ f_rs_rdy \in BOOLEAN /\ f_rs_in \in Int
  BY DEF Types, f_rs_rdy
<1>4. /\ f_rs_wr' = (rss_fifo # << >> \/ (f_rs_wr /\ ~Keeps))
      /\ LoadsWord = ((~f_rs_wr \/ Keeps) /\ rss_fifo # << >>)
      /\ Keeps => f_rs_wr
      /\ f_rs_in' = IF LoadsWord THEN Head(rss_fifo) ELSE f_rs_in
      /\ Keeps \in BOOLEAN
  BY <1>1, <1>3 DEF SendCommandFSM, Loads, StillOffers, LoadsWord, Keeps
<1> HIDE DEF LoadsWord, Keeps
<1>5. f_rs_wr' \in BOOLEAN /\ f_rs_in' \in Int  BY <1>2, <1>3, <1>4
<1>6. CASE LoadsWord
  <2>1. Keeps = f_rs_wr /\ f_rs_wr' = TRUE /\ rss_fifo # << >>  BY <1>3, <1>4, <1>6
  <2> QED  BY <1>3, <1>4, <1>5, <1>6, <2>1 DEF B
<1>7. CASE ~LoadsWord
  <2>1. f_rs_wr' = (f_rs_wr /\ ~Keeps)  BY <1>3, <1>4, <1>7
  <2> QED  BY <1>3, <1>4, <1>5, <1>7, <2>1 DEF B
<1> QED  BY <1>4, <1>6, <1>7

\* When a start is carried out nothing is left, and the chain may begin anywhere.
LEMMA ChainAtStart ==
    ASSUME Types, Chained, Requests, Quiet, Started, glb_start
    PROVE  Chain(fetch_addr) /\ fetch_addr = Requesting(fetch_addr)
<1>1. PICK s \in Int : Chain(s)  BY DEF Chained
<1>2. /\ rq_fifo = << >> /\ rq_fsm = "IDLE" /\ f_rq_wr = FALSE /\ o_rqa_wr = FALSE
      /\ f_rs_wr \in BOOLEAN
  BY DEF Started, Quiet, Requests, Types
<1>3. /\ Len(rs_fifo) \in Nat /\ Len(rss_fifo) \in Nat /\ Len(hub_rs) \in Nat
      /\ Len(hub_rq) \in Nat /\ Len(rq_fifo) = 0 /\ fetch_addr \in Int
  BY <1>2, LenProperties, EmptySeq DEF Types
<1>4. /\ Len(rs_fifo) = 0 /\ f_rs_wr = FALSE /\ Len(rss_fifo) = 0
      /\ Len(hub_rs) = 0 /\ Len(hub_rq) = 0
  BY <1>1, <1>2, <1>3
     DEF Chain, Requesting, Asking, Serving, Arriving, Storing, Sending, B
<1>5. \A q, x : Len(q) = 0 => Run(q, x)  BY DEF Run
<1> QED  BY <1>2, <1>3, <1>4, <1>5
         DEF Chain, Requesting, Asking, Serving, Arriving, Storing, Sending, B

LEMMA ChainMoves ==
    ASSUME Types, Requests, NEW s \in Int, Chain(s), NewRequest => fetch_addr = Requesting(s),
           NEW io, NEW serve \in BOOLEAN, NEW done, NEW err, Clock(io, serve, done, err),
           NEW u \in Int, u = s + B(Takes)
    PROVE  Chain(u)'
<1>1. /\ Moves(rq_fifo, rq_fifo', Takes, Notes, rq_addr)
      /\ Moves(rs_fifo, rs_fifo', Takes, Keeps, f_rs_in)
      /\ Moves(rss_fifo, rss_fifo', LoadsWord, Arrives, Head(hub_rs))
      /\ Moves(hub_rs, hub_rs', Arrives, serve, Head(hub_rq))
      /\ Moves(hub_rq, hub_rq', serve, Asks, rq_addr)
  BY FetchRuns
<1>2. /\ Len(rq_fifo) \in Nat /\ Len(rs_fifo) \in Nat /\ Len(rss_fifo) \in Nat
      /\ Len(hub_rs) \in Nat /\ Len(hub_rq) \in Nat
      /\ rq_addr \in Int /\ fetch_addr \in Int /\ f_rs_in \in Int
  BY LenProperties DEF Types
<1>3. {Takes, Notes, Keeps, LoadsWord, Arrives, Asks, o_rqa_wr, f_rq_wr, f_rs_wr}
            \subseteq BOOLEAN
  BY DEF Types, Takes, Notes, Keeps, LoadsWord, Arrives, Asks, o_rss_rd, Loads, f_rq_rdy,
         f_rs_rdy, i_rqa_rdy, fetch_vld, f_rq_vld, f_rs_vld
<1>4. /\ Notes => f_rq_wr
      /\ Keeps => f_rs_wr
      /\ Asks => o_rqa_wr
      /\ LoadsWord => rss_fifo # << >>
      /\ Arrives => hub_rs # << >>
      /\ serve => hub_rq # << >>
  BY FetchMoves DEF Notes, Keeps, Asks, LoadsWord, Loads, Arrives
<1>5. \A q \in Seq(Int), x \in Int : q # << >> /\ Run(q, x) => Head(q) = x
  <2>1. SUFFICES ASSUME NEW q \in Seq(Int), NEW x \in Int, q # << >>, Run(q, x)
                 PROVE  Head(q) = x
    OBVIOUS
  <2>2. 1 \in 1..Len(q) /\ Head(q) = q[1]  BY <2>1, HeadTailProperties, EmptySeq, LenProperties
  <2> QED  BY <2>1, <2>2 DEF Run
<1> HIDE DEF Takes, Notes, Keeps, LoadsWord, Arrives, Asks
<1> DEFINE t == B(Takes)   n == B(Notes)   k == B(Keeps)   l == B(LoadsWord)
           a == B(Arrives)   v == B(serve)   w == B(Asks)
           bo == B(o_rqa_wr)   bf == B(f_rq_wr)   bs == B(f_rs_wr)
           bo1 == B(o_rqa_wr')   bf1 == B(f_rq_wr')   bs1 == B(f_rs_wr')
<1>6. /\ t \in Int /\ n \in Int /\ k \in Int /\ l \in Int /\ a \in Int /\ v \in Int
      /\ w \in Int /\ bo \in Int /\ bf \in Int /\ bs \in Int
      /\ bo1 \in Int /\ bf1 \in Int /\ bs1 \in Int
      /\ u = s + t
  BY DEF B
<1> DEFINE p1 == Sending(s)   p2 == Storing(s)   p3 == Arriving(s)   p4 == Serving(s)
           p5 == Asking(s)    pe == Requesting(s)
<1>7. /\ p1 = s + Len(rs_fifo) /\ p2 = p1 + bs /\ p3 = p2 + Len(rss_fifo)
      /\ p4 = p3 + Len(hub_rs) /\ p5 = p4 + Len(hub_rq)
      /\ pe = s + Len(rq_fifo) + bf /\ pe = p5 + bo
  BY DEF Chain, Requesting, Asking, Serving, Arriving, Storing, Sending
<1>8. /\ Run(rq_fifo, s) /\ (f_rq_wr => rq_addr = s + Len(rq_fifo))
      /\ Run(rs_fifo, s) /\ (f_rs_wr => f_rs_in = p1)
      /\ Run(rss_fifo, p2) /\ Run(hub_rs, p3) /\ Run(hub_rq, p4)
      /\ o_rqa_wr => rq_addr = p5
      /\ rq_fsm # "IDLE" => fetch_addr = pe
      /\ NewRequest => fetch_addr = pe
  BY DEF Chain
<1> HIDE DEF p1, p2, p3, p4, p5, pe
<1>9. /\ bs1 = bs - k + l
      /\ LoadsWord => f_rs_in' = Head(rss_fifo) /\ Keeps = f_rs_wr
      /\ ~LoadsWord => f_rs_in' = f_rs_in /\ (f_rs_wr' => f_rs_wr /\ ~Keeps)
  BY SendMoves
\* The next positions.
<1> DEFINE r1 == Sending(u)'   r2 == Storing(u)'   r3 == Arriving(u)'   r4 == Serving(u)'
           r5 == Asking(u)'    re == Requesting(u)'
<1>10. /\ r1 = u + Len(rs_fifo)' /\ r2 = r1 + bs1 /\ r3 = r2 + Len(rss_fifo)'
       /\ r4 = r3 + Len(hub_rs)' /\ r5 = r4 + Len(hub_rq)'
       /\ re = u + Len(rq_fifo)' + bf1
  BY DEF Requesting, Asking, Serving, Arriving, Storing, Sending
<1> HIDE DEF r1, r2, r3, r4, r5, re, t, n, k, l, a, v, w, bo, bf, bs, bo1, bf1, bs1
<1>11. /\ p1 \in Int /\ p2 \in Int /\ p3 \in Int /\ p4 \in Int /\ p5 \in Int /\ pe \in Int
  BY <1>2, <1>6, <1>7
\* The words that move are where the queue they enter ends.
<1>12. /\ LoadsWord => Head(rss_fifo) = p2
       /\ Arrives => Head(hub_rs) = p3
       /\ serve => Head(hub_rq) = p4
  BY <1>4, <1>5, <1>8, <1>11 DEF Types
<1>13. /\ Run(rq_fifo', u) /\ Len(rq_fifo)' = Len(rq_fifo) - t + n
       /\ Run(rs_fifo', u) /\ Len(rs_fifo)' = Len(rs_fifo) - t + k
  BY <1>1, <1>4, <1>6, <1>8, <1>7 DEF Moves, t, n, k
<1>14. /\ Run(rss_fifo', p2 + l) /\ Len(rss_fifo)' = Len(rss_fifo) - l + a
       /\ Run(hub_rs', p3 + a) /\ Len(hub_rs)' = Len(hub_rs) - a + v
       /\ Run(hub_rq', p4 + v) /\ Len(hub_rq)' = Len(hub_rq) - v + w
  BY <1>1, <1>4, <1>7, <1>8, <1>11, <1>12 DEF Moves, l, a, v, w
<1>15. /\ r1 = p1 + k /\ r2 = p2 + l /\ r3 = p3 + a /\ r4 = p4 + v /\ r5 = p5 + w
       /\ u + Len(rq_fifo)' = s + Len(rq_fifo) + n
  <2>1. u + Len(rq_fifo)' = s + Len(rq_fifo) + n
    <3>1. Len(rq_fifo)' = Len(rq_fifo) - t + n /\ Len(rq_fifo) \in Int  BY <1>2, <1>13
    <3>2. u = s + t /\ t \in Int /\ n \in Int  BY <1>6
    <3> QED  BY <3>1, <3>2
  <2>2. r1 = p1 + k
    <3>1. r1 = u + Len(rs_fifo)' /\ p1 = s + Len(rs_fifo)  BY <1>7, <1>10
    <3>2. Len(rs_fifo)' = Len(rs_fifo) - t + k /\ Len(rs_fifo) \in Int  BY <1>2, <1>13
    <3>3. u = s + t /\ t \in Int /\ k \in Int  BY <1>6
    <3> QED  BY <3>1, <3>2, <3>3
  <2>3. r2 = p2 + l
    <3>1. r2 = r1 + bs1 /\ p2 = p1 + bs /\ bs1 = bs - k + l  BY <1>7, <1>9, <1>10
    <3>2. p1 \in Int /\ bs \in Int /\ k \in Int /\ l \in Int  BY <1>6, <1>11
    <3> QED  BY <2>2, <3>1, <3>2
  <2>4. r3 = p3 + a
    <3>1. r3 = r2 + Len(rss_fifo)' /\ p3 = p2 + Len(rss_fifo)  BY <1>7, <1>10
    <3>2. Len(rss_fifo)' = Len(rss_fifo) - l + a /\ Len(rss_fifo) \in Int  BY <1>2, <1>14
    <3>3. p2 \in Int /\ l \in Int /\ a \in Int  BY <1>6, <1>11
    <3> QED  BY <2>3, <3>1, <3>2, <3>3
  <2>5. r4 = p4 + v
    <3>1. r4 = r3 + Len(hub_rs)' /\ p4 = p3 + Len(hub_rs)  BY <1>7, <1>10
    <3>2. Len(hub_rs)' = Len(hub_rs) - a + v /\ Len(hub_rs) \in Int  BY <1>2, <1>14
    <3>3. p3 \in Int /\ a \in Int /\ v \in Int  BY <1>6, <1>11
    <3> QED  BY <2>4, <3>1, <3>2, <3>3
  <2>6. r5 = p5 + w
    <3>1. r5 = r4 + Len(hub_rq)' /\ p5 = p4 + Len(hub_rq)  BY <1>7, <1>10
    <3>2. Len(hub_rq)' = Len(hub_rq) - v + w /\ Len(hub_rq) \in Int  BY <1>2, <1>14
    <3>3. p4 \in Int /\ v \in Int /\ w \in Int  BY <1>6, <1>11
    <3> QED  BY <2>5, <3>1, <3>2, <3>3
  <2> QED  BY <2>1, <2>2, <2>3, <2>4, <2>5, <2>6
<1>16. f_rs_wr' => f_rs_in' = r1
  <2>1. CASE LoadsWord
    <3>1. f_rs_in' = p2 /\ k = bs  BY <1>9, <1>12, <2>1 DEF k, bs
    <3> QED  BY <1>7, <1>15, <3>1
  <2>2. CASE ~LoadsWord
    <3>1. f_rs_wr' => f_rs_in' = p1 /\ k = 0  BY <1>8, <1>9, <2>2 DEF k, B
    <3> QED  BY <1>11, <1>15, <3>1
  <2> QED  BY <2>1, <2>2
<1>17. /\ f_rq_wr' => rq_addr' = u + Len(rq_fifo)'
       /\ o_rqa_wr' => rq_addr' = r5
       /\ re = r5 + bo1
       /\ rq_fsm' # "IDLE" => fetch_addr' = re
  <2>0. /\ re = s + Len(rq_fifo) + n + bf1 /\ r5 = p5 + w
        /\ u + Len(rq_fifo)' = s + Len(rq_fifo) + n
        /\ pe = s + Len(rq_fifo) + bf /\ pe = p5 + bo
    BY <1>7, <1>10, <1>15
  <2>1. CASE NewRequest
    <3>1. rq_addr' = pe /\ fetch_addr' = pe + 1 /\ Asks = o_rqa_wr /\ Notes = f_rq_wr
      BY <1>8, <2>1, RequestMoves
    <3>2. o_rqa_wr' = TRUE /\ f_rq_wr' = TRUE
      BY <2>1, RequestMoves
    <3>3. w = bo /\ n = bf /\ bf1 = 1 /\ bo1 = 1
      BY <3>1, <3>2 DEF w, n, bo, bf, bf1, bo1, B
    <3>4. u + Len(rq_fifo)' = pe
      BY <1>2, <1>6, <2>0, <3>3
    <3>5. r5 = pe
      BY <1>6, <1>11, <2>0, <3>3
    <3>6. re = pe + 1
      BY <1>2, <1>6, <2>0, <3>3
    <3>7. bo1 = 1 /\ rq_addr' = pe /\ fetch_addr' = pe + 1  BY <3>1, <3>3
    <3> HIDE DEF NewRequest
    <3>8. re = r5 + bo1  BY <3>5, <3>6, <3>7
    <3> QED  BY <3>4, <3>5, <3>6, <3>7, <3>8
  <2>2. CASE ~NewRequest
    <3>1. /\ o_rqa_wr' = (o_rqa_wr /\ ~Asks) /\ f_rq_wr' = (f_rq_wr /\ ~Notes)
          /\ o_rqa_wr' \/ f_rq_wr' => rq_addr' = rq_addr
          /\ rq_fsm' # "IDLE" => fetch_addr' = pe
      BY <1>8, <2>2, RequestMoves
    <3>2. bf1 = bf - n /\ (f_rq_wr' => n = 0)
      <4>1. (Notes => f_rq_wr) /\ (f_rq_wr' <=> f_rq_wr /\ ~Notes)  BY <1>4, <3>1
      <4> QED  BY <4>1 DEF bf1, bf, n, B
    <3>3. bo1 = bo - w /\ (o_rqa_wr' => w = 0)
      <4>1. (Asks => o_rqa_wr) /\ (o_rqa_wr' <=> o_rqa_wr /\ ~Asks)  BY <1>4, <3>1
      <4> QED  BY <4>1 DEF bo1, bo, w, B
    <3>4. /\ f_rq_wr' => rq_addr' = s + Len(rq_fifo)
          /\ o_rqa_wr' => rq_addr' = p5
          /\ rq_fsm' # "IDLE" => fetch_addr' = pe
      BY <1>8, <3>1
    <3>5. n \in Int /\ w \in Int /\ bf \in Int /\ bo \in Int /\ p5 \in Int
          /\ Len(rq_fifo) \in Int /\ s \in Int
      BY <1>2, <1>6, <1>11
    <3>6. re = pe
      <4>1. re = s + Len(rq_fifo) + n + bf1 /\ pe = s + Len(rq_fifo) + bf /\ bf1 = bf - n
        BY <2>0, <3>2
      <4> QED  BY <3>5, <4>1
    <3>7. r5 + bo1 = pe
      <4>1. r5 = p5 + w /\ pe = p5 + bo /\ bo1 = bo - w  BY <2>0, <3>3
      <4> QED  BY <3>5, <4>1
    <3>8. ASSUME f_rq_wr'  PROVE rq_addr' = u + Len(rq_fifo)'
      <4>1. n = 0 /\ rq_addr' = s + Len(rq_fifo)  BY <3>2, <3>4, <3>8
      <4>2. u + Len(rq_fifo)' = s + Len(rq_fifo) + n  BY <2>0
      <4> QED  BY <3>5, <4>1, <4>2
    <3>9. ASSUME o_rqa_wr'  PROVE rq_addr' = r5
      <4>1. w = 0 /\ rq_addr' = p5  BY <3>3, <3>4, <3>9
      <4>2. r5 = p5 + w  BY <2>0
      <4> QED  BY <3>5, <4>1, <4>2
    <3>10. rq_fsm' # "IDLE" => fetch_addr' = re  BY <3>4, <3>6
    <3> QED  BY <3>6, <3>7, <3>8, <3>9, <3>10
  <2> QED  BY <2>1, <2>2
<1> QED  BY <1>13, <1>14, <1>15, <1>16, <1>17
         DEF Chain, r1, r2, r3, r4, r5, re, bo1

\* A word that the dispatch unit takes and keeps, and a command it passes on.
Receives == o_fetch_rd /\ o_fetch_vld /\ Op(o_fetch_addr) # "err" /\ ~Halting
Passes(v) == Forwards /\ v \in Mask(Head(cmd_fifo))
LoadsCmd(v) == Loads(fwd_wr[v], o_fwd_vpu_rdy[v], cvpu_fifo[v])

LEMMA DispatchMoves ==
    ASSUME Types, NEW io, NEW serve \in BOOLEAN, NEW done, NEW err,
           Clock(io, serve, done, err)
    PROVE  /\ cmd_fifo' = IF dp_fsm = "HALT" /\ Halting THEN << >>
                           ELSE Moved(cmd_fifo, Forwards \/ IsControl, Receives, o_fetch_addr)
           /\ Receives => o_fetch_addr \in Int
           /\ cvpu_fifo' = [v \in Vpu |-> Moved(cvpu_fifo[v], LoadsCmd(v), Passes(v),
                                                Head(cmd_fifo))]
           /\ \A v \in Vpu : Passes(v) => Head(cmd_fifo) \in Int
<1>0. DispatchClock(o_fetch_vld, IF o_fetch_vld THEN o_fetch_addr ELSE 0,
                    unhalt, o_fwd_vpu_rdy)
  BY DEF Clock
<1>1. /\ cmd_fifo \in Seq(Int) /\ \A v \in Vpu : cvpu_fifo[v] \in Seq(Int)
      /\ rq_fifo \in Seq(Int)
  BY DEF Types
<1>2. /\ Receives => o_fetch_addr \in Int
      /\ \A v \in Vpu : Passes(v) => Head(cmd_fifo) \in Int
      /\ Receives \in BOOLEAN
      /\ \A v \in Vpu : Passes(v) \in BOOLEAN
      /\ Forwards \/ IsControl \in BOOLEAN
      /\ \A v \in Vpu : LoadsCmd(v) \in BOOLEAN
  BY <1>1, HeadTailProperties
     DEF Receives, Passes, Forwards, o_fetch_addr, o_fetch_vld, fetch_vld, f_rq_vld, LoadsCmd,
         Loads, IsControl
<1>3. cmd_fifo' = IF dp_fsm = "HALT" /\ Halting THEN << >>
                  ELSE Moved(cmd_fifo, Forwards \/ IsControl, Receives, o_fetch_addr)
  <2>1. cmd_fifo' = IF dp_fsm = "HALT" /\ Halting THEN << >>
                    ELSE FifoRead(cmd_fifo, Forwards \/ IsControl)
                           \o (IF Receives THEN <<o_fetch_addr>> ELSE << >>)
    BY <1>0 DEF DispatchClock, CommandFifo, Receives
  <2>2. FifoRead(cmd_fifo, Forwards \/ IsControl) \in Seq(Int)  BY <1>1, <1>2, ReadType
  <2>3. FifoRead(cmd_fifo, Forwards \/ IsControl) \o (IF Receives THEN <<o_fetch_addr>> ELSE << >>)
          = IF Receives THEN Append(FifoRead(cmd_fifo, Forwards \/ IsControl), o_fetch_addr)
            ELSE FifoRead(cmd_fifo, Forwards \/ IsControl)
    BY <1>2, <2>2, ConcatOne
  <2> QED  BY <2>1, <2>3 DEF Moved
<1>4. cvpu_fifo' = [v \in Vpu |-> Moved(cvpu_fifo[v], LoadsCmd(v), Passes(v), Head(cmd_fifo))]
  <2>1. cvpu_fifo' = [v \in Vpu |-> FifoRead(cvpu_fifo[v], LoadsCmd(v))
                                      \o (IF Passes(v) THEN <<Head(cmd_fifo)>> ELSE << >>)]
    BY <1>0 DEF DispatchClock, ForwardFSM, LoadsCmd, Passes
  <2>2. ASSUME NEW v \in Vpu
        PROVE  FifoRead(cvpu_fifo[v], LoadsCmd(v))
                 \o (IF Passes(v) THEN <<Head(cmd_fifo)>> ELSE << >>)
               = Moved(cvpu_fifo[v], LoadsCmd(v), Passes(v), Head(cmd_fifo))
    <3>1. FifoRead(cvpu_fifo[v], LoadsCmd(v)) \in Seq(Int)  BY <1>1, <1>2, ReadType
    <3>2. FifoRead(cvpu_fifo[v], LoadsCmd(v)) \o (IF Passes(v) THEN <<Head(cmd_fifo)>> ELSE << >>)
            = IF Passes(v) THEN Append(FifoRead(cvpu_fifo[v], LoadsCmd(v)), Head(cmd_fifo))
              ELSE FifoRead(cvpu_fifo[v], LoadsCmd(v))
      BY <1>2, <3>1, ConcatOne
    <3> QED  BY <3>2 DEF Moved
  <2> QED  BY <2>1, <2>2
<1> QED  BY <1>2, <1>3, <1>4

LEMMA DispatchRuns ==
    ASSUME Types, NEW io, NEW serve \in BOOLEAN, NEW done, NEW err,
           Clock(io, serve, done, err)
    PROVE  /\ cmd_fifo' \in Seq(Int)
           /\ Len(cmd_fifo') <= Len(cmd_fifo) + B(Receives)
           /\ cvpu_fifo' \in [Vpu -> Seq(Int)]
           /\ \A v \in Vpu : Len(cvpu_fifo'[v]) <= Len(cvpu_fifo[v]) + B(Passes(v))
<1>1. /\ cmd_fifo \in Seq(Int) /\ \A v \in Vpu : cvpu_fifo[v] \in Seq(Int)
      /\ Receives \in BOOLEAN
      /\ \A v \in Vpu : Passes(v) \in BOOLEAN
      /\ Forwards \/ IsControl \in BOOLEAN
      /\ \A v \in Vpu : LoadsCmd(v) \in BOOLEAN
  BY DEF Types, Receives, Passes, Forwards, LoadsCmd, Loads, IsControl
<1>2. \A b \in BOOLEAN : B(b) \in {0, 1}  BY DEF B
<1>3. /\ cmd_fifo' = IF dp_fsm = "HALT" /\ Halting THEN << >>
                     ELSE Moved(cmd_fifo, Forwards \/ IsControl, Receives, o_fetch_addr)
      /\ Receives => o_fetch_addr \in Int
      /\ cvpu_fifo' = [v \in Vpu |-> Moved(cvpu_fifo[v], LoadsCmd(v), Passes(v), Head(cmd_fifo))]
      /\ \A v \in Vpu : Passes(v) => Head(cmd_fifo) \in Int
  BY DispatchMoves
<1>4. ASSUME NEW q \in Seq(Int), NEW pop \in BOOLEAN, NEW push \in BOOLEAN, NEW d,
             push => d \in Int
      PROVE  /\ Moved(q, pop, push, d) \in Seq(Int)
             /\ Len(Moved(q, pop, push, d)) <= Len(q) + B(push)
  <2> DEFINE n == B(pop /\ q # << >>)   m == B(push)
  <2>1. /\ Moved(q, pop, push, d) \in Seq(Int)
        /\ Len(Moved(q, pop, push, d)) = Len(q) - n + m
    BY <1>4, MovedType
  <2>2. n \in {0, 1} /\ m \in {0, 1} /\ Len(q) \in Nat  BY LenProperties DEF B
  <2> HIDE DEF n, m
  <2>3. Len(Moved(q, pop, push, d)) <= Len(q) + m  BY <2>1, <2>2
  <2> QED  BY <2>1, <2>3 DEF m
<1>5. cmd_fifo' \in Seq(Int) /\ Len(cmd_fifo') <= Len(cmd_fifo) + B(Receives)
  <2>1. CASE dp_fsm = "HALT" /\ Halting
    <3>1. cmd_fifo' = << >> /\ Len(cmd_fifo) \in Nat /\ B(Receives) \in {0, 1}
      BY <1>1, <1>2, <1>3, <2>1, LenProperties
    <3> QED  BY <3>1, EmptySeq
  <2>2. CASE ~(dp_fsm = "HALT" /\ Halting)
    <3>1. cmd_fifo' = Moved(cmd_fifo, Forwards \/ IsControl, Receives, o_fetch_addr)
      BY <1>3, <2>2
    <3>2. /\ Moved(cmd_fifo, Forwards \/ IsControl, Receives, o_fetch_addr) \in Seq(Int)
          /\ Len(Moved(cmd_fifo, Forwards \/ IsControl, Receives, o_fetch_addr))
                <= Len(cmd_fifo) + B(Receives)
      BY <1>1, <1>3, <1>4
    <3> QED  BY <3>1, <3>2
  <2> QED  BY <2>1, <2>2
<1>6. ASSUME NEW v \in Vpu
      PROVE  cvpu_fifo'[v] \in Seq(Int) /\ Len(cvpu_fifo'[v]) <= Len(cvpu_fifo[v]) + B(Passes(v))
  <2>1. cvpu_fifo'[v] = Moved(cvpu_fifo[v], LoadsCmd(v), Passes(v), Head(cmd_fifo))  BY <1>3
  <2>2. /\ Moved(cvpu_fifo[v], LoadsCmd(v), Passes(v), Head(cmd_fifo)) \in Seq(Int)
        /\ Len(Moved(cvpu_fifo[v], LoadsCmd(v), Passes(v), Head(cmd_fifo)))
              <= Len(cvpu_fifo[v]) + B(Passes(v))
    BY <1>1, <1>3, <1>4
  <2> QED  BY <2>1, <2>2
<1>7. cvpu_fifo' \in [Vpu -> Seq(Int)]  BY <1>3, <1>6
<1> QED  BY <1>5, <1>6, <1>7

-----------------------------------------------------------------------------
(* Every step preserves the invariant.                                     *)

LEMMA TypesStep ==
    ASSUME Types, Requests, NEW io, NEW serve \in BOOLEAN, NEW done, NEW err,
           Clock(io, serve, done, err)
    PROVE  Types'
<1>1. memory' \in Images /\ pgm_addr' \in Programs(memory')
  BY DEF Types, Clock, DispatchClock, RegioClock
<1>2. /\ fetch_addr' \in Int /\ rq_addr' \in Int /\ {o_rqa_wr', f_rq_wr'} \subseteq BOOLEAN
      /\ rq_fsm' \in {"IDLE", "SEND", "STLL"}
  BY RequestMoves
<1>3. f_rs_wr' \in BOOLEAN /\ f_rs_in' \in Int  BY SendMoves
<1>4. /\ rs_fsm' \in {"IDLE", "RECV", "STLL"}
      /\ drain' \in BOOLEAN /\ cu_start' \in BOOLEAN /\ glb_start' \in BOOLEAN
  <2>1. ResponseFSM /\ DrainFSM(o_stop_drain(err # {})) /\ RegioClock(io, err # {})
    BY DEF Clock, FetchClock
  <2>2. o_stop_drain(err # {}) \in BOOLEAN /\ glb_busy(err # {}) \in BOOLEAN /\ cu_start \in BOOLEAN
    BY DEF Types, o_stop_drain, glb_busy, StopCond
  <2>3. rs_fsm' \in {"IDLE", "RECV", "STLL"}  BY <2>1 DEF ResponseFSM
  <2>4. drain' \in BOOLEAN  BY <2>1, <2>2 DEF DrainFSM, f_rq_vld, f_rs_vld
  <2>5. cu_start' \in BOOLEAN /\ glb_start' \in BOOLEAN  BY <2>1, <2>2 DEF RegioClock
  <2> QED  BY <2>3, <2>4, <2>5
<1>5. rx_fsm' \in {"IDLE", "READ", "STLL", "HALT"} /\ dp_fsm' \in {"IDLE", "DECD", "HALT"}
  BY DEF Types, Clock, DispatchClock, ReceiveFSM, DispatchFSM
<1>6. ctl_fsm' \in {"IDLE", "EXEC", "SYNC", "WAIT"}
  BY DEF Types, Clock, Execute, ExecuteIdle, ExecuteCommand, ExecuteSync, ExecuteWait,
         executeVars, End
<1>7. {flt_fetch', flt_decode', ctl_sync', ctl_sync_stop'} \subseteq BOOLEAN
  <2>1. flt_fetch' \in BOOLEAN  BY DEF Types, Clock, DispatchClock, ReceiveFSM
  <2>2. /\ flt_decode' = IF dp_fsm = "HALT" THEN FALSE ELSE flt_decode \/ IsBad
        /\ IsControl => /\ ctl_sync' = (memory[Head(cmd_fifo)].op = "sync")
                        /\ ctl_sync_stop' = (/\ memory[Head(cmd_fifo)].op = "sync"
                                             /\ memory[Head(cmd_fifo)].stop)
        /\ ~IsControl => /\ ctl_sync' = (ctl_sync /\ dp_fsm # "HALT")
                         /\ ctl_sync_stop' = ctl_sync_stop
    BY DEF Clock, DispatchClock, DispatchFSM
  <2>3. IsBad \in BOOLEAN  BY DEF IsBad
  <2> QED  BY <2>1, <2>2, <2>3 DEF Types
<1>8. {rq_fifo', rs_fifo', rss_fifo', hub_rq', hub_rs', cmd_fifo'} \subseteq Seq(Int)
  BY FetchRuns, DispatchRuns DEF Moves
<1>9. /\ {fwd_wr', vpu_cmd_sel'} \subseteq [Vpu -> BOOLEAN]
      /\ {fwd_cmd', vpu_cmd'} \subseteq [Vpu -> Int]
  <2>1. /\ fwd_wr' = [v \in Vpu |-> StillOffers(fwd_wr[v], o_fwd_vpu_rdy[v], cvpu_fifo[v])]
        /\ fwd_cmd' = [v \in Vpu |-> IF Loads(fwd_wr[v], o_fwd_vpu_rdy[v], cvpu_fifo[v])
                                     THEN Head(cvpu_fifo[v]) ELSE fwd_cmd[v]]
    BY DEF Clock, DispatchClock, ForwardFSM
  <2>2. /\ vpu_cmd_sel' = [v \in Vpu |-> StillOffers(vpu_cmd_sel[v], o_cmd_ack[v], fwd_fifo[v])]
        /\ vpu_cmd' = [v \in Vpu |-> IF Loads(vpu_cmd_sel[v], o_cmd_ack[v], fwd_fifo[v])
                                     THEN Head(fwd_fifo[v]) ELSE vpu_cmd[v]]
    BY DEF Clock, ForwardClock
  <2>3. \A q \in Seq(Int) : q # << >> => Head(q) \in Int  BY HeadTailProperties
  <2>4. /\ cvpu_fifo \in [Vpu -> Seq(Int)] /\ fwd_fifo \in [Vpu -> Seq(Int)]
        /\ fwd_cmd \in [Vpu -> Int] /\ vpu_cmd \in [Vpu -> Int]
    BY DEF Types
  <2> QED  BY <2>1, <2>2, <2>3, <2>4 DEF StillOffers, Loads
<1>10. fwd_fifo' \in [Vpu -> Seq(Int)]
  <2>1. fwd_fifo' = [v \in Vpu |-> FifoNext(fwd_fifo[v], FwdDepth,
                        Loads(vpu_cmd_sel[v], o_cmd_ack[v], fwd_fifo[v]), fwd_wr[v], fwd_cmd[v])]
    BY DEF Clock, ForwardClock
  <2>2. ASSUME NEW v \in Vpu
        PROVE  FifoNext(fwd_fifo[v], FwdDepth, Loads(vpu_cmd_sel[v], o_cmd_ack[v], fwd_fifo[v]),
                        fwd_wr[v], fwd_cmd[v]) \in Seq(Int)
    <3>1. fwd_fifo[v] \in Seq(Int) /\ fwd_cmd[v] \in Int  BY DEF Types
    <3>2. FifoRead(fwd_fifo[v], Loads(vpu_cmd_sel[v], o_cmd_ack[v], fwd_fifo[v])) \in Seq(Int)
      BY <3>1, ReadType DEF Loads
    <3>3. Append(FifoRead(fwd_fifo[v], Loads(vpu_cmd_sel[v], o_cmd_ack[v], fwd_fifo[v])),
                 fwd_cmd[v]) \in Seq(Int)
      BY <3>1, <3>2, AppendProperties
    <3> QED  BY <3>2, <3>3 DEF FifoNext
  <2> QED  BY <2>1, <2>2
<1>11. vpu_queue' \in [Vpu -> Seq(Int)]
  <2> DEFINE kept(v) == FifoRead(vpu_queue[v], v \in done)
  <2>1. /\ vpu_queue' = [v \in Vpu |->
                IF v \in err
                THEN IF v \in done THEN << >> ELSE <<Head(vpu_queue[v])>>
                ELSE IF qactive[v] /\ Accepts(v) THEN Append(kept(v), vpu_cmd[v])
                ELSE kept(v)]
        /\ \A v \in err : vpu_queue[v] # << >>
    BY DEF Clock, VpuClock
  <2>2. ASSUME NEW v \in Vpu
        PROVE  /\ kept(v) \in Seq(Int) /\ Append(kept(v), vpu_cmd[v]) \in Seq(Int)
               /\ v \in err => <<Head(vpu_queue[v])>> \in Seq(Int)
    <3>1. vpu_queue[v] \in Seq(Int) /\ vpu_cmd[v] \in Int  BY DEF Types
    <3>2. kept(v) \in Seq(Int)  BY <3>1, HeadTailProperties DEF FifoRead
    <3>3. Append(kept(v), vpu_cmd[v]) \in Seq(Int)  BY <3>1, <3>2, AppendProperties
    <3>4. v \in err => Head(vpu_queue[v]) \in Int  BY <2>1, <3>1, HeadTailProperties
    <3> QED  BY <3>2, <3>3, <3>4
  <2> HIDE DEF kept
  <2> QED  BY <2>1, <2>2, EmptySeq
<1>12. cvpu_fifo' \in [Vpu -> Seq(Int)]  BY DispatchRuns
<1> QED  BY <1>1, <1>2, <1>3, <1>4, <1>5, <1>6, <1>7, <1>8, <1>9, <1>10, <1>11, <1>12 DEF Types

LEMMA ChainedStep ==
    ASSUME Types, Chained, Requests, Quiet, Started,
           NEW io, NEW serve \in BOOLEAN, NEW done, NEW err, Clock(io, serve, done, err)
    PROVE  Chained'
<1>1. PICK s \in Int : Chain(s) /\ (NewRequest => fetch_addr = Requesting(s))
  <2>1. PICK r \in Int : Chain(r)  BY DEF Chained
  <2>2. CASE rq_fsm = "IDLE" /\ glb_start
    <3>1. fetch_addr \in Int  BY DEF Types
    <3> QED  BY <2>2, <3>1, ChainAtStart
  <2>3. CASE ~(rq_fsm = "IDLE" /\ glb_start)
    <3>1. NewRequest => rq_fsm # "IDLE"  BY <2>3 DEF NewRequest
    <3> QED  BY <2>1, <3>1 DEF Chain
  <2> QED  BY <2>2, <2>3
<1>2. PICK u \in Int : u = s + B(Takes)  BY <1>1 DEF B
<1>3. Chain(u)'  BY <1>1, <1>2, ChainMoves
<1> QED  BY <1>3 DEF Chained

LEMMA ChainCounts ==
    ASSUME Types, Chained
    PROVE  /\ Len(rq_fifo) + B(f_rq_wr) = Len(rs_fifo) + B(f_rs_wr) + Len(rss_fifo)
                                            + Len(hub_rs) + Len(hub_rq) + B(o_rqa_wr)
           /\ Len(rq_fifo) \in Nat /\ Len(rs_fifo) \in Nat /\ Len(rss_fifo) \in Nat
           /\ Len(hub_rs) \in Nat /\ Len(hub_rq) \in Nat
           /\ B(f_rq_wr) \in {0, 1} /\ B(f_rs_wr) \in {0, 1} /\ B(o_rqa_wr) \in {0, 1}
<1>1. PICK s \in Int : Chain(s)  BY DEF Chained
<1>2. /\ Len(rq_fifo) \in Nat /\ Len(rs_fifo) \in Nat /\ Len(rss_fifo) \in Nat
      /\ Len(hub_rs) \in Nat /\ Len(hub_rq) \in Nat
      /\ B(f_rq_wr) \in {0, 1} /\ B(f_rs_wr) \in {0, 1} /\ B(o_rqa_wr) \in {0, 1}
  BY LenProperties DEF Types, B
<1> DEFINE bq == B(f_rq_wr)   bs == B(f_rs_wr)   bo == B(o_rqa_wr)
<1>3. s + Len(rq_fifo) + bq
        = s + Len(rs_fifo) + bs + Len(rss_fifo) + Len(hub_rs) + Len(hub_rq) + bo
  BY <1>1 DEF Chain, Requesting, Asking, Serving, Arriving, Storing, Sending
<1>4. /\ Len(rq_fifo) \in Int /\ Len(rs_fifo) \in Int /\ Len(rss_fifo) \in Int
      /\ Len(hub_rs) \in Int /\ Len(hub_rq) \in Int
      /\ bq \in Int /\ bs \in Int /\ bo \in Int
  BY <1>2
<1> HIDE DEF bq, bs, bo
<1>5. Len(rq_fifo) + bq = Len(rs_fifo) + bs + Len(rss_fifo) + Len(hub_rs) + Len(hub_rq) + bo
  BY <1>3, <1>4
<1> QED  BY <1>2, <1>5 DEF bq, bs, bo

LEMMA RequestsStep ==
    ASSUME FetchDepth >= 3, Types, Chained, Requests, Quiet, Started,
           NEW io, NEW serve \in BOOLEAN, NEW done, NEW err \in SUBSET Faulty,
           Clock(io, serve, done, err)
    PROVE  Requests'
<1> DEFINE t == B(Takes)   n == B(Notes)
           nq == Len(rq_fifo)   nq1 == Len(rq_fifo')
           nr == Len(hub_rq)    nr1 == Len(hub_rq')
           ns == Len(hub_rs)    ns1 == Len(hub_rs')
<1>1. /\ nq1 = nq - t + n
      /\ nr1 = nr - B(serve) + B(Asks)
      /\ ns1 = ns - B(Arrives) + B(serve)
      /\ {rq_fifo', hub_rq', hub_rs'} \subseteq Seq(Int)
  BY FetchRuns DEF Moves
<1>2. /\ t \in {0, 1} /\ n \in {0, 1} /\ B(serve) \in {0, 1} /\ B(Asks) \in {0, 1}
      /\ B(Arrives) \in {0, 1}
      /\ nq \in Nat /\ nr \in Nat /\ ns \in Nat /\ nq1 \in Nat /\ nr1 \in Nat /\ ns1 \in Nat
  BY <1>1, ChainCounts, LenProperties DEF B
<1>3. /\ t = 1 => Len(rs_fifo) >= 1 /\ nq >= 1
      /\ B(Arrives) = 1 => ns >= 1
      /\ hub_rq # << >> => nr >= 1
      /\ hub_rs # << >> => ns >= 1
      /\ rq_fifo' = << >> <=> nq1 = 0
      /\ hub_rq' # << >> <=> nr1 # 0
      /\ hub_rs' # << >> <=> ns1 # 0
      /\ rq_fifo = << >> <=> nq = 0
  <2>1. \A q \in Seq(Int) : (q = << >> <=> Len(q) = 0) /\ Len(q) \in Nat
    BY EmptySeq, LenProperties
  <2>2. /\ t = 1 => rs_fifo # << >> /\ rq_fifo # << >>
        /\ B(Arrives) = 1 => hub_rs # << >>
    BY DEF B, Takes, fetch_vld, f_rq_vld, f_rs_vld, Arrives
  <2>3. /\ {rq_fifo, hub_rq, hub_rs, rs_fifo} \subseteq Seq(Int)  BY DEF Types
  <2>4. /\ (rq_fifo' = << >> <=> nq1 = 0) /\ (hub_rq' = << >> <=> nr1 = 0)
        /\ (hub_rs' = << >> <=> ns1 = 0) /\ (rq_fifo = << >> <=> nq = 0)
    BY <1>1, <2>1, <2>3
  <2>5. /\ rs_fifo # << >> => Len(rs_fifo) >= 1
        /\ rq_fifo # << >> => nq >= 1
        /\ hub_rs # << >> => ns >= 1
        /\ hub_rq # << >> => nr >= 1
    <3>1. \A q \in Seq(Int) : q # << >> => Len(q) >= 1  BY EmptySeq, LenProperties
    <3> QED  BY <2>3, <3>1
  <2> QED  BY <2>2, <2>4, <2>5
<1>4. /\ ~i_rqa_rdy => nr >= 1
      /\ ~f_rq_rdy => nq >= 3
  BY <1>2, AroundAssumption, FetchDepthAssumption DEF i_rqa_rdy, f_rq_rdy
<1>5. /\ f_rq_wr \in BOOLEAN
      /\ Notes => f_rq_wr /\ f_rq_rdy
      /\ f_rq_wr /\ f_rq_rdy => n = 1
      /\ n = 1 => Notes
  BY DEF Types, Notes, B
<1>6. /\ (rq_fsm' = "SEND" => NewRequest) /\ rq_fsm' \in {"IDLE", "SEND", "STLL"}
      /\ NewRequest => o_rqa_wr' /\ f_rq_wr' /\ rq_fsm' = "SEND"
      /\ ~NewRequest => /\ f_rq_wr' => f_rq_wr
                        /\ rq_fsm' = "IDLE" => ~o_rqa_wr' /\ ~f_rq_wr'
      /\ rq_fsm' = "STLL" => ~i_rqa_rdy \/ ~f_rq_rdy
      /\ rq_fsm' = "IDLE" => rq_fsm = "IDLE" \/ drain
  BY RequestMoves
<1>7. /\ rq_fsm = "SEND" => f_rq_wr
      /\ rq_fsm = "IDLE" => ~f_rq_wr
      /\ rq_fsm = "STLL" => nq >= 2 \/ hub_rq # << >> \/ hub_rs # << >>
      /\ rq_fifo = << >> /\ f_rq_wr => ~drain
      /\ rq_fsm \in {"IDLE", "SEND", "STLL"}
  BY DEF Requests, Types
<1>8. rq_fsm' = "STLL" => nq1 >= 2 \/ hub_rq' # << >> \/ hub_rs' # << >>
  <2> HIDE DEF t, n, nq, nq1, nr, nr1, ns, ns1
  <2>1. CASE ~i_rqa_rdy /\ serve
    <3>1. B(serve) = 1  BY <2>1 DEF B
    <3>2. ns1 >= 1
      <4> DEFINE a == B(Arrives)
      <4>1. ns1 = ns - a + 1 /\ a \in {0, 1} /\ (a = 1 => ns >= 1)  BY <1>1, <1>2, <1>3, <3>1
      <4> HIDE DEF a
      <4> QED  BY <1>2, <4>1
    <3> QED  BY <1>2, <1>3, <3>2
  <2>2. CASE ~i_rqa_rdy /\ ~serve
    <3>1. B(serve) = 0  BY <2>2 DEF B
    <3>2. nr1 >= 1
      <4> DEFINE w == B(Asks)
      <4>1. nr1 = nr - 0 + w /\ w \in {0, 1} /\ nr >= 1  BY <1>1, <1>2, <1>4, <2>2, <3>1
      <4> HIDE DEF w
      <4> QED  BY <1>2, <4>1
    <3> QED  BY <1>2, <1>3, <3>2
  <2>3. CASE ~f_rq_rdy  BY <1>1, <1>2, <1>4, <2>3
  <2> QED  BY <1>6, <2>1, <2>2, <2>3
<1>9. ASSUME rq_fifo' = << >>, f_rq_wr', drain'  PROVE FALSE
  <2>1. nq1 = 0  BY <1>3, <1>9
  <2>2. ~f_rq_wr
    <3>1. CASE f_rq_wr /\ f_rq_rdy
      <4>1. n = 1  BY <1>5, <3>1
      <4> HIDE DEF t, n, nq, nq1
      <4> QED  BY <1>1, <1>2, <1>3, <2>1, <4>1
    <3>2. CASE ~f_rq_rdy
      <4>1. nq >= 3  BY <1>4, <3>2
      <4> HIDE DEF t, n, nq, nq1
      <4> QED  BY <1>1, <1>2, <2>1, <4>1
    <3> QED  BY <3>1, <3>2
  <2>3. NewRequest /\ n = 0 /\ nq = t  
    <3>1. NewRequest /\ n = 0  BY <1>2, <1>5, <1>6, <1>9, <2>2
    <3> HIDE DEF t, n, nq, nq1
    <3> QED  BY <1>1, <1>2, <2>1, <3>1
  <2>4. o_stop_drain(err # {})
    <3>1. DrainFSM(o_stop_drain(err # {}))  BY DEF Clock, FetchClock
    <3> QED  BY <1>9, <2>3, <3>1 DEF DrainFSM, NewRequest
  <2>5. CASE rq_fsm = "IDLE"
    <3>1. /\ \A v \in Vpu : vpu_queue[v] = << >>
          /\ ~flt_fetch /\ ~flt_decode /\ ~StopCond
      BY <2>3, <2>5 DEF NewRequest, Started, Quiet
    <3>2. \A v \in err : vpu_queue[v] # << >> /\ v \in Vpu
      BY AroundAssumption DEF Clock, VpuClock
    <3>3. err = {}  BY <3>1, <3>2
    <3> QED  BY <2>4, <3>1, <3>3 DEF o_stop_drain
  <2>6. CASE rq_fsm = "STLL"
    <3>1. nr >= 1 \/ ns >= 1
      <4> HIDE DEF t, n, nq, nq1
      <4> QED  BY <1>2, <1>3, <1>7, <2>3, <2>6
    <3>2. B(f_rq_wr) = 0  BY <2>2 DEF B
    <3> DEFINE bs == B(f_rs_wr)   bo == B(o_rqa_wr)   nrs == Len(rs_fifo)   nss == Len(rss_fifo)
    <3>3. /\ nq + 0 = nrs + bs + nss + ns + nr + bo
          /\ nrs \in Nat /\ nss \in Nat /\ bs \in {0, 1} /\ bo \in {0, 1}
      BY <3>2, ChainCounts
    <3>4. t = 1 => nrs >= 1  BY <1>3
    <3> HIDE DEF t, n, nq, nq1, nr, ns, bs, bo, nrs, nss
    <3> QED  BY <1>2, <2>3, <3>1, <3>3, <3>4
  <2> QED  BY <1>7, <2>2, <2>5, <2>6
<1>10. ASSUME rq_fsm' = "IDLE", rs_fsm' = "IDLE"  PROVE rq_fifo' = << >>
  <2>1. rq_fifo = << >>
    <3>1. ResponseFSM  BY DEF Clock, FetchClock
    <3> QED  BY <1>10, <3>1 DEF ResponseFSM, f_rq_vld, Types
  <2>2. ~f_rq_wr  BY <1>6, <1>7, <1>10, <2>1
  <2>3. n = 0 /\ nq = 0  BY <1>2, <1>3, <1>5, <2>1, <2>2
  <2>4. nq1 = 0
    <3> HIDE DEF t, n, nq, nq1
    <3> QED  BY <1>1, <1>2, <1>3, <2>3
  <2> QED  BY <1>3, <2>4
<1>11. drain' \in BOOLEAN  BY TypesStep DEF Types
<1> QED  BY <1>6, <1>8, <1>9, <1>10, <1>11 DEF Requests

\* Nothing comes out of an empty queue.
LEMMA EmptyStays ==
    ASSUME NEW q, q = << >>, NEW pop, NEW d
    PROVE  FifoRead(q, pop) = << >> /\ Moved(q, pop, FALSE, d) = << >>
BY DEF FifoRead, Moved

LEMMA QuietStep ==
    ASSUME Types, Chained, Requests, Quiet, Started,
           NEW io, NEW serve \in BOOLEAN, NEW done, NEW err \in SUBSET Faulty,
           Clock(io, serve, done, err), ctl_fsm' = "IDLE"
    PROVE  Quiet'
<1>1. \/ ctl_fsm = "IDLE" /\ ~glb_start
      \/ ~units_busy(err # {})
  BY DEF Clock, Execute, ExecuteIdle, ExecuteCommand, ExecuteSync, ExecuteWait, executeVars, End
<1>2. /\ rq_fsm = "IDLE" /\ rs_fsm = "IDLE" /\ rq_fifo = << >>
      /\ ~flt_fetch /\ ~flt_decode /\ ~StopCond
      /\ cmd_fifo = << >> /\ ~glb_start
      /\ \A v \in Vpu : cvpu_fifo[v] = << >> /\ (fwd_wr[v] => o_fwd_vpu_rdy[v])
  <2>1. CASE ctl_fsm = "IDLE" /\ ~glb_start  BY <2>1 DEF Quiet
  <2>2. CASE ~units_busy(err # {})
    <3>1. /\ rq_fsm = "IDLE" /\ rs_fsm = "IDLE" /\ ~glb_start
          /\ ~flt_fetch /\ ~flt_decode /\ ~StopCond
      BY <2>2 DEF units_busy, FetchBusy, o_stop_drain
    <3>2. cmd_fifo = << >> /\ \A v \in Vpu : cvpu_fifo[v] = << >>
      BY <2>2 DEF units_busy, DisPipesActive
    <3>3. \A v \in Vpu : o_fwd_vpu_rdy[v]
      <4>1. \A v \in Vpu : fwd_fifo[v] = << >>  BY <2>2 DEF units_busy, FwdPipesActive
      <4>2. Len(<< >>) = 0 /\ 0 < FwdDepth  BY FwdDepthAssumption
      <4> QED  BY <4>1, <4>2 DEF o_fwd_vpu_rdy
    <3>4. rq_fifo = << >>  BY <3>1 DEF Requests
    <3> QED  BY <3>1, <3>2, <3>3, <3>4
  <2> QED  BY <1>1, <2>1, <2>2
<1>3. rq_fsm' = "IDLE"
  <2>1. /\ rq_fsm' \in {"IDLE", "SEND", "STLL"} /\ (rq_fsm' = "SEND" => NewRequest)
        /\ rq_fsm' = "STLL" => rq_fsm # "IDLE"
    BY RequestMoves
  <2> QED  BY <1>2, <2>1 DEF NewRequest
<1>4. rs_fsm' = "IDLE"
  BY <1>2 DEF Clock, FetchClock, ResponseFSM, f_rq_vld
<1>5. rq_fifo' = << >>
  <2>1. Notes = FALSE  BY <1>2 DEF Requests, Notes
  <2>2. rq_fifo' = Moved(rq_fifo, Takes, Notes, rq_addr)  BY FetchMoves
  <2> QED  BY <1>2, <2>1, <2>2, EmptyStays
<1>6. ~o_fetch_vld /\ Receives = FALSE
  BY <1>2 DEF o_fetch_vld, fetch_vld, f_rq_vld, Receives
<1>7. ~IsBad /\ ~IsControl /\ Forwards = FALSE
  BY <1>2 DEF IsBad, IsControl, Forwards
<1>8. ~flt_fetch'
  BY <1>2, <1>6 DEF Clock, DispatchClock, ReceiveFSM
<1>9. ~flt_decode' /\ ~StopCond'
  BY <1>2, <1>7 DEF Clock, DispatchClock, DispatchFSM, StopCond
<1>10. cmd_fifo' = << >>
  <2>1. cmd_fifo' = IF dp_fsm = "HALT" /\ Halting THEN << >>
                    ELSE Moved(cmd_fifo, Forwards \/ IsControl, Receives, o_fetch_addr)
    BY DispatchMoves
  <2> QED  BY <1>2, <1>6, <2>1, EmptyStays
<1>11. ASSUME NEW v \in Vpu  PROVE cvpu_fifo'[v] = << >> /\ ~fwd_wr'[v]
  <2>1. cvpu_fifo'[v] = Moved(cvpu_fifo[v], LoadsCmd(v), Passes(v), Head(cmd_fifo))
    BY DispatchMoves
  <2>2. Passes(v) = FALSE  BY <1>7 DEF Passes
  <2>3. cvpu_fifo'[v] = << >>  BY <1>2, <2>1, <2>2, EmptyStays
  <2>4. fwd_wr'[v] = StillOffers(fwd_wr[v], o_fwd_vpu_rdy[v], cvpu_fifo[v])
    BY DEF Clock, DispatchClock, ForwardFSM
  <2> QED  BY <1>2, <2>3, <2>4 DEF StillOffers
<1> QED  BY <1>3, <1>4, <1>5, <1>8, <1>9, <1>10, <1>11 DEF Quiet

\* Nothing is on its way to a vector unit.
Clear(v) == /\ cvpu_fifo[v] = << >> /\ ~fwd_wr[v]
            /\ fwd_fifo[v] = << >> /\ ~vpu_cmd_sel[v]
            /\ vpu_queue[v] = << >>

LEMMA ClearStays ==
    ASSUME Types, cmd_fifo = << >>, NEW v \in Vpu, Clear(v),
           NEW io, NEW serve \in BOOLEAN, NEW done, NEW err \in SUBSET Faulty,
           Clock(io, serve, done, err)
    PROVE  Clear(v)'
<1>1. cvpu_fifo'[v] = << >>
  <2>1. cvpu_fifo'[v] = Moved(cvpu_fifo[v], LoadsCmd(v), Passes(v), Head(cmd_fifo))
    BY DispatchMoves
  <2>2. Passes(v) = FALSE  BY DEF Passes, Forwards
  <2> QED  BY <2>1, <2>2, EmptyStays DEF Clear
<1>2. ~fwd_wr'[v]
  <2>1. fwd_wr'[v] = StillOffers(fwd_wr[v], o_fwd_vpu_rdy[v], cvpu_fifo[v])
    BY DEF Clock, DispatchClock, ForwardFSM
  <2> QED  BY <2>1 DEF StillOffers, Clear
<1>3. fwd_fifo'[v] = << >> /\ ~vpu_cmd_sel'[v]
  <2>1. /\ fwd_fifo'[v] = FifoNext(fwd_fifo[v], FwdDepth,
                 Loads(vpu_cmd_sel[v], o_cmd_ack[v], fwd_fifo[v]), fwd_wr[v], fwd_cmd[v])
        /\ vpu_cmd_sel'[v] = StillOffers(vpu_cmd_sel[v], o_cmd_ack[v], fwd_fifo[v])
    BY DEF Clock, ForwardClock
  <2> QED  BY <2>1 DEF FifoNext, FifoRead, StillOffers, Clear
<1>4. vpu_queue'[v] = << >>
  <2>1. v \notin err  BY DEF Clock, VpuClock, Clear
  <2>2. vpu_queue'[v] = FifoRead(vpu_queue[v], v \in done)
    BY <2>1 DEF Clock, VpuClock, Accepts, Clear
  <2> QED  BY <2>2 DEF FifoRead, Clear
<1> QED  BY <1>1, <1>2, <1>3, <1>4 DEF Clear

LEMMA StartedStep ==
    ASSUME Types, Quiet, NEW io, NEW serve \in BOOLEAN, NEW done, NEW err \in SUBSET Faulty,
           Clock(io, serve, done, err), glb_start'
    PROVE  Started'
<1>1. ~glb_busy(err # {})  BY DEF Clock, RegioClock
<1>2. /\ ctl_fsm = "IDLE" /\ ~glb_start /\ cmd_fifo = << >>
      /\ \A v \in Vpu : Clear(v)
  BY <1>1 DEF glb_busy, units_busy, FetchBusy, FwdPipesActive, DisPipesActive, vpus_busy,
              Clear, Quiet
<1>3. ctl_fsm' = "IDLE"
  BY <1>2 DEF Clock, Execute, ExecuteIdle, ExecuteCommand, ExecuteSync, ExecuteWait
<1>4. \A v \in Vpu : Clear(v)'  BY <1>2, ClearStays
<1> QED  BY <1>3, <1>4 DEF Started, Clear

LEMMA RoomsStep ==
    ASSUME Types, Chained, Rooms,
           NEW io, NEW serve \in BOOLEAN, NEW done, NEW err \in SUBSET Faulty,
           Clock(io, serve, done, err)
    PROVE  Rooms'
<1>1. Len(rss_fifo') <= Slots4 /\ (rs_fsm' # "STLL" => Len(rss_fifo') < Slots4)
  <2> DEFINE n == Len(rss_fifo)   n1 == Len(rss_fifo')   l == B(LoadsWord)   a == B(Arrives)
  <2>1. n1 = n - l + a
    BY FetchRuns DEF Moves
  <2>2. /\ n \in Nat /\ n1 \in Nat /\ l \in {0, 1} /\ a \in {0, 1}
        /\ a = 1 => rs_fsm = "RECV" /\ hub_rs # << >>
        /\ n <= 4 /\ (rs_fsm # "STLL" => n < 4)
    BY ChainCounts, FetchRuns, LenProperties DEF Moves, B, Arrives, o_rss_rd, Rooms, Slots4
  <2>3. /\ rs_fsm = "RECV" => rs_fsm' = IF rq_fifo = << >> THEN "IDLE"
                                        ELSE IF n \in {3, 4} THEN "STLL" ELSE "RECV"
        /\ rs_fsm = "STLL" => rs_fsm' = IF n \in {3, 4} THEN "STLL" ELSE "RECV"
        /\ rs_fsm \in {"IDLE", "RECV", "STLL"}
    BY DEF Clock, FetchClock, ResponseFSM, f_rq_vld, Stalled, Slots4, Types
  <2>4. rs_fsm = "RECV" /\ rq_fifo = << >> => n <= 1
    <3>1. rq_fifo = << >> => Len(rq_fifo) = 0  BY EmptySeq
    <3> DEFINE bq == B(f_rq_wr)   bs == B(f_rs_wr)   bo == B(o_rqa_wr)
    <3>2. /\ Len(rq_fifo) + bq = Len(rs_fifo) + bs + n + Len(hub_rs) + Len(hub_rq) + bo
          /\ Len(rs_fifo) \in Nat /\ Len(hub_rs) \in Nat /\ Len(hub_rq) \in Nat
          /\ bq \in {0, 1} /\ bs \in {0, 1} /\ bo \in {0, 1}
      BY ChainCounts
    <3> HIDE DEF bq, bs, bo, n
    <3> QED  BY <2>2, <3>1, <3>2
  <2> HIDE DEF n, n1, l, a
  <2>5. n1 <= 4 /\ (rs_fsm' # "STLL" => n1 < 4)
    <3>1. CASE rs_fsm = "RECV"
      <4>1. CASE rq_fifo = << >>  BY <2>1, <2>2, <2>4, <3>1, <4>1
      <4>2. CASE rq_fifo # << >> /\ n = 3  BY <2>1, <2>2, <2>3, <3>1, <4>2
      <4>3. CASE n < 3  BY <2>1, <2>2, <3>1, <4>3
      <4> QED  BY <2>2, <3>1, <4>1, <4>2, <4>3
    <3>2. CASE rs_fsm = "STLL"
      <4>1. a = 0 /\ n1 <= n  BY <2>1, <2>2, <3>2
      <4>2. CASE n \in {3, 4}  BY <2>2, <2>3, <3>2, <4>1, <4>2
      <4>3. CASE n < 3  BY <2>2, <3>2, <4>1, <4>3
      <4> QED  BY <2>2, <4>2, <4>3
    <3>3. CASE rs_fsm = "IDLE"  BY <2>1, <2>2, <3>3
    <3> QED  BY <2>3, <3>1, <3>2, <3>3
  <2> QED  BY <2>5 DEF n1, Slots4
<1>2. Len(cmd_fifo') <= Slots4 /\ (rx_fsm' # "STLL" => Len(cmd_fifo') < Slots4)
  <2> DEFINE n == Len(cmd_fifo)   n1 == Len(cmd_fifo')   r == B(Receives)
  <2>1. /\ n1 <= n + r /\ n \in Nat /\ n1 \in Nat /\ r \in {0, 1}
        /\ n <= 4 /\ (rx_fsm # "STLL" => n < 4)
        /\ Receives => r = 1
        /\ ~Receives => r = 0
    BY DispatchRuns, LenProperties DEF B, Rooms, Slots4, Types
  <2>2. ReceiveFSM(o_fetch_vld, IF o_fetch_vld THEN o_fetch_addr ELSE 0, unhalt)
    BY DEF Clock, DispatchClock
  <2>3. Receives => rx_fsm = "READ" /\ o_fetch_vld /\ ~Halting /\ Op(o_fetch_addr) # "err"
    BY DEF Receives, o_fetch_rd
  <2>4. CASE rx_fsm = "STLL" /\ Halting
    <3>1. cmd_fifo' = << >>  BY <2>4, DispatchMoves DEF Rooms
    <3>2. n1 = 0  BY <3>1, EmptySeq
    <3> QED  BY <3>2 DEF Slots4
  <2>5. CASE rx_fsm = "STLL" /\ ~Halting
    <3>1. /\ n1 <= n
          /\ rx_fsm' = IF n \in {3, 4} THEN "STLL" ELSE "READ"
      <4>1. ~Receives  BY <2>3, <2>5
      <4>2. rx_fsm' = IF n \in {3, 4} THEN "STLL" ELSE "READ"
        <5>1. rx_fsm' = IF Stalled(cmd_fifo) THEN "STLL" ELSE "READ"
          <6>1. o_fetch_rd = FALSE  BY <2>5 DEF o_fetch_rd
          <6> QED  BY <2>2, <2>5, <6>1 DEF ReceiveFSM
        <5>2. Stalled(cmd_fifo) <=> n \in {3, 4}  BY DEF Stalled, Slots4
        <5> QED  BY <5>1, <5>2
      <4> HIDE DEF n, n1, r
      <4> QED  BY <2>1, <4>1, <4>2
    <3> HIDE DEF n, n1, r
    <3>2. n1 <= 4 /\ (rx_fsm' # "STLL" => n1 < 4)
      <4>1. CASE n \in {3, 4}  BY <2>1, <3>1, <4>1
      <4>2. CASE n < 3  BY <2>1, <3>1, <4>2
      <4> QED  BY <2>1, <4>1, <4>2
    <3> QED  BY <3>2 DEF n1, Slots4
  <2>6. CASE rx_fsm # "STLL" /\ ~Receives
    <3> HIDE DEF n, n1, r
    <3>1. n1 < 4  BY <2>1, <2>6
    <3> QED  BY <2>1, <3>1 DEF n1, Slots4
  <2>7. CASE rx_fsm # "STLL" /\ Receives
    <3>1. rx_fsm' = IF n \in {3, 4} THEN "STLL" ELSE "READ"
      <4>1. ReceiveFSM(TRUE, o_fetch_addr, unhalt)
        <5>1. (IF o_fetch_vld THEN o_fetch_addr ELSE 0) = o_fetch_addr /\ o_fetch_vld = TRUE
          BY <2>3, <2>7 DEF o_fetch_vld, fetch_vld
        <5> QED  BY <2>2, <5>1
      <4>2. /\ rx_fsm = "READ" /\ ~Halting
            /\ (o_fetch_rd /\ TRUE /\ Op(o_fetch_addr) = "err") = FALSE
        BY <2>3, <2>7
      <4>3. rx_fsm' \in IF Stalled(cmd_fifo) THEN {"STLL"} ELSE {"READ"}
        BY <4>1, <4>2 DEF ReceiveFSM
      <4>4. Stalled(cmd_fifo) <=> n \in {3, 4}  BY DEF Stalled, Slots4
      <4>5. CASE n \in {3, 4}  BY <4>3, <4>4, <4>5
      <4>6. CASE n \notin {3, 4}  BY <4>3, <4>4, <4>6
      <4> QED  BY <4>5, <4>6
    <3> HIDE DEF n, n1, r
    <3>2. n1 <= 4 /\ (rx_fsm' # "STLL" => n1 < 4)
      <4>1. CASE n \in {3, 4}  BY <2>1, <2>7, <3>1, <4>1
      <4>2. CASE n < 3  BY <2>1, <3>1, <4>2
      <4> QED  BY <2>1, <4>1, <4>2
    <3> QED  BY <3>2 DEF n1, Slots4
  <2> QED  BY <2>4, <2>5, <2>6, <2>7
<1>3. Halting' => dp_fsm' = "HALT"
  <2>1. /\ dp_fsm' = IF dp_fsm = "HALT" THEN IF unhalt THEN "IDLE" ELSE "HALT"
                     ELSE IF IsBad \/ IsControl THEN "HALT" ELSE "DECD"
        /\ flt_decode' = IF dp_fsm = "HALT" THEN FALSE ELSE flt_decode \/ IsBad
        /\ ~IsControl => /\ ctl_sync' = (ctl_sync /\ dp_fsm # "HALT")
                         /\ ctl_sync_stop' = ctl_sync_stop
    BY DEF Clock, DispatchClock, DispatchFSM
  <2>2. dp_fsm = "HALT" => ~IsControl /\ ~IsBad  BY DEF IsControl, IsBad
  <2>3. Halting => dp_fsm = "HALT"  BY DEF Rooms
  <2> QED  BY <2>1, <2>2, <2>3 DEF Halting, StopCond
<1>4. ASSUME NEW v \in Vpu  PROVE Len(cvpu_fifo'[v]) < Slots4
  <2> DEFINE n == Len(cvpu_fifo[v])   n1 == Len(cvpu_fifo'[v])   p == B(Passes(v))
  <2>1. /\ n1 <= n + p /\ n \in Nat /\ n1 \in Nat /\ p \in {0, 1} /\ n < 4
    <3>1. n1 <= n + p /\ cvpu_fifo'[v] \in Seq(Int)  BY DispatchRuns
    <3>2. cvpu_fifo[v] \in Seq(Int)  BY DEF Types
    <3>3. n \in Nat /\ n1 \in Nat  BY <3>1, <3>2, LenProperties
    <3>4. n < 4  BY DEF Rooms, Slots4
    <3>5. p \in {0, 1}  BY DEF B
    <3> QED  BY <3>1, <3>3, <3>4, <3>5
  <2>2. p = 1 => n \notin {3, 4}
    BY DEF B, Passes, Forwards, Stalled, Slots4
  <2> HIDE DEF n, n1, p
  <2>3. n1 < 4  BY <2>1, <2>2
  <2> QED  BY <2>3 DEF n1, Slots4
<1> QED  BY <1>1, <1>2, <1>3, <1>4 DEF Rooms

LEMMA InitInv == Init => Inv /\ Chain(0)
<1> SUFFICES ASSUME Init  PROVE Inv /\ Chain(0)
  OBVIOUS
<1>1. /\ fetch_addr = 0 /\ rq_addr = 0 /\ rq_fsm = "IDLE" /\ o_rqa_wr = FALSE /\ f_rq_wr = FALSE
      /\ rs_fsm = "IDLE" /\ f_rs_wr = FALSE /\ f_rs_in = 0 /\ drain = FALSE
      /\ rq_fifo = << >> /\ rss_fifo = << >> /\ rs_fifo = << >>
      /\ hub_rq = << >> /\ hub_rs = << >> /\ cmd_fifo = << >>
      /\ rx_fsm = "IDLE" /\ dp_fsm = "IDLE" /\ ctl_fsm = "IDLE"
      /\ flt_fetch = FALSE /\ flt_decode = FALSE /\ ctl_sync = FALSE /\ ctl_sync_stop = FALSE
      /\ cu_start = FALSE /\ glb_start = FALSE
      /\ cvpu_fifo = [v \in Vpu |-> << >>] /\ fwd_fifo = [v \in Vpu |-> << >>]
      /\ vpu_queue = [v \in Vpu |-> << >>]
      /\ fwd_wr = [v \in Vpu |-> FALSE] /\ vpu_cmd_sel = [v \in Vpu |-> FALSE]
      /\ fwd_cmd = [v \in Vpu |-> 0] /\ vpu_cmd = [v \in Vpu |-> 0]
      /\ memory \in Images /\ pgm_addr \in Programs(memory)
  BY DEF Init, FetchInit, DispatchInit, ExecuteInit, ForwardInit
<1>2. << >> \in Seq(Int) /\ Len(<< >>) = 0  BY EmptySeq
<1>3. Types
  <2>1. {cvpu_fifo, fwd_fifo, vpu_queue} \subseteq [Vpu -> Seq(Int)]  BY <1>1, <1>2
  <2>2. {fwd_wr, vpu_cmd_sel} \subseteq [Vpu -> BOOLEAN]  BY <1>1
  <2>3. {fwd_cmd, vpu_cmd} \subseteq [Vpu -> Int]  BY <1>1
  <2>4. {rq_fifo, rs_fifo, rss_fifo, hub_rq, hub_rs, cmd_fifo} \subseteq Seq(Int)  BY <1>1, <1>2
  <2>5. /\ {o_rqa_wr, f_rq_wr, f_rs_wr, drain, cu_start, glb_start} \subseteq BOOLEAN
        /\ {flt_fetch, flt_decode, ctl_sync, ctl_sync_stop} \subseteq BOOLEAN
    BY <1>1
  <2>6. /\ memory \in Images /\ pgm_addr \in Programs(memory)
        /\ fetch_addr \in Int /\ rq_addr \in Int /\ f_rs_in \in Int
        /\ rq_fsm \in {"IDLE", "SEND", "STLL"} /\ rs_fsm \in {"IDLE", "RECV", "STLL"}
        /\ rx_fsm \in {"IDLE", "READ", "STLL", "HALT"} /\ dp_fsm \in {"IDLE", "DECD", "HALT"}
        /\ ctl_fsm \in {"IDLE", "EXEC", "SYNC", "WAIT"}
    BY <1>1
  <2> QED  BY <2>1, <2>2, <2>3, <2>4, <2>5, <2>6 DEF Types
<1>4. Chain(0)
  <2>1. \A x : Run(<< >>, x)  BY <1>2 DEF Run
  <2> QED  BY <1>1, <1>2, <2>1
           DEF Chain, Requesting, Asking, Serving, Arriving, Storing, Sending, B
<1>5. Chained  BY <1>4 DEF Chained
<1>6. Requests  BY <1>1 DEF Requests
<1>7. Quiet  BY <1>1 DEF Quiet, StopCond
<1>8. Started  BY <1>1 DEF Started
<1>9. Rooms  BY <1>1, <1>2 DEF Rooms, Halting, StopCond, Slots4
<1> QED  BY <1>3, <1>4, <1>5, <1>6, <1>7, <1>8, <1>9 DEF Inv

LEMMA ClockInv ==
    ASSUME FetchDepth >= 3, Inv, NEW io, NEW serve \in BOOLEAN, NEW done,
           NEW err \in SUBSET Faulty, Clock(io, serve, done, err)
    PROVE  Inv'
<1>1. Types /\ Chained /\ Requests /\ Quiet /\ Started /\ Rooms  BY DEF Inv
<1>2. Types'  BY <1>1, TypesStep
<1>3. Chained'  BY <1>1, ChainedStep
<1>4. Requests'  BY <1>1, RequestsStep
<1>5. Quiet'
  <2>1. CASE ctl_fsm' = "IDLE"  BY <1>1, <2>1, QuietStep
  <2>2. CASE ctl_fsm' # "IDLE"  BY <2>2 DEF Quiet
  <2> QED  BY <2>1, <2>2
<1>6. Started'
  <2>1. CASE glb_start'  BY <1>1, <2>1, StartedStep
  <2>2. CASE ~glb_start'  BY <2>2 DEF Started
  <2> QED  BY <2>1, <2>2
<1>7. Rooms'  BY <1>1, RoomsStep
<1> QED  BY <1>2, <1>3, <1>4, <1>5, <1>6, <1>7 DEF Inv

\* A step in which the clock does not tick changes nothing the invariant is about.
LEMMA StutterInv == Inv /\ UNCHANGED vars => Inv'
<1> SUFFICES ASSUME Inv, UNCHANGED vars  PROVE Inv'
  OBVIOUS
<1>1. UNCHANGED <<fetchVars, memory, dispatchVars, executeVars, forwardVars, regioVars,
                  hubVars, vpuVars>>
  BY DEF vars
<1> USE <1>1 DEF fetchVars, rqVars, dispatchVars, ctlVars, executeVars, forwardVars,
                 regioVars, hubVars, vpuVars
<1>2. Types'  BY DEF Inv, Types
<1>3. Chained'
  <2>1. PICK s \in Int : Chain(s)  BY DEF Inv, Chained
  <2>2. Chain(s)'
    BY <2>1 DEF Chain, Requesting, Asking, Serving, Arriving, Storing, Sending
  <2> QED  BY <2>2 DEF Chained
<1>4. Requests'  BY DEF Inv, Requests
<1>5. Quiet' /\ Started'  BY DEF Inv, Quiet, Started, StopCond
<1>6. Rooms'  BY DEF Inv, Rooms, Halting, StopCond
<1> QED  BY <1>2, <1>3, <1>4, <1>5, <1>6 DEF Inv

\* Inv holds in every state of the control unit.
THEOREM CtrlUnitInductive ==
    ASSUME FetchDepth >= 3
    PROVE  Spec => []Inv
<1>1. ASSUME Inv, [Next]_vars  PROVE Inv'
  <2>1. CASE Next
    <3>1. PICK io \in Programs(memory) \cup {-2, -1}, serve \in BOOLEAN,
               done \in SUBSET Vpu, err \in SUBSET Faulty : Clock(io, serve, done, err)
      BY <2>1 DEF Next
    <3> QED  BY <1>1, <3>1, ClockInv
  <2>2. CASE UNCHANGED vars  BY <1>1, <2>2, StutterInv
  <2> QED  BY <1>1, <2>1, <2>2
<1> QED  BY InitInv, <1>1, PTL DEF Spec

-----------------------------------------------------------------------------
(* What it is for.                                                         *)

\* No intermediate FIFO is written when it is full, though none of them has a guard:
\* the units that write them stop in time.
THEOREM IntermediateFifosFit ==
    ASSUME FetchDepth >= 3
    PROVE  Spec => []FifosFit
<1>1. Inv => FifosFit
  <2>1. SUFFICES ASSUME Inv  PROVE FifosFit  OBVIOUS
  <2>2. \A v \in Vpu : Len(cvpu_fifo[v]) \in Nat
    BY <2>1, LenProperties DEF Inv, Types
  <2> QED  BY <2>1, <2>2 DEF Inv, Rooms, FifosFit, Slots4
<1> QED  BY <1>1, CtrlUnitInductive, PTL

\* An idle engine has nothing left of a program in any queue or register.
THEOREM IdleIsQuiet ==
    ASSUME FetchDepth >= 3
    PROVE  Spec => []QuietWhenIdle
<1>1. ASSUME Inv, Idle
      PROVE  /\ \A f \in {rq_fifo, rs_fifo, rss_fifo, cmd_fifo, hub_rq, hub_rs} : f = << >>
             /\ InFlight = {}
             /\ ~o_rqa_wr /\ ~f_rq_wr
  <2>1. /\ rq_fsm = "IDLE" /\ rs_fsm = "IDLE" /\ ctl_fsm = "IDLE" /\ cmd_fifo = << >>
        /\ \A v \in Vpu : /\ cvpu_fifo[v] = << >> /\ fwd_fifo[v] = << >> /\ vpu_queue[v] = << >>
                          /\ ~vpu_cmd_sel[v]
    BY <1>1 DEF Idle, glb_busy, units_busy, FetchBusy, DisPipesActive, FwdPipesActive, vpus_busy
  <2>2. /\ rq_fifo = << >> /\ ~o_rqa_wr /\ ~f_rq_wr
        /\ \A v \in Vpu : ~fwd_wr[v]
    BY <1>1, <2>1 DEF Inv, Requests, Quiet
  <2>3. /\ Len(rs_fifo) = 0 /\ Len(rss_fifo) = 0 /\ Len(hub_rs) = 0 /\ Len(hub_rq) = 0
    <3> DEFINE bs == B(f_rs_wr)
    <3>1. Len(rq_fifo) = 0 /\ B(f_rq_wr) = 0 /\ B(o_rqa_wr) = 0  BY <2>2, EmptySeq DEF B
    <3>2. /\ 0 + 0 = Len(rs_fifo) + bs + Len(rss_fifo) + Len(hub_rs) + Len(hub_rq) + 0
          /\ Len(rs_fifo) \in Nat /\ Len(rss_fifo) \in Nat
          /\ Len(hub_rs) \in Nat /\ Len(hub_rq) \in Nat /\ bs \in {0, 1}
      BY <1>1, <3>1, ChainCounts DEF Inv
    <3> HIDE DEF bs
    <3> QED  BY <3>2
  <2>4. rs_fifo = << >> /\ rss_fifo = << >> /\ hub_rs = << >> /\ hub_rq = << >>
    BY <1>1, <2>3, EmptySeq DEF Inv, Types
  <2>5. ASSUME NEW v \in Vpu  PROVE ForwardedTo(v) \cup ToSet(vpu_queue[v]) = {}
    <3>1. ToSet(<< >>) = {}  BY DEF ToSet
    <3> QED  BY <2>1, <2>2, <3>1 DEF ForwardedTo
  <2>6. InFlight = {}  BY <2>5 DEF InFlight
  <2> QED  BY <2>1, <2>2, <2>4, <2>6
<1>2. Inv => QuietWhenIdle  BY <1>1 DEF QuietWhenIdle
<1> QED  BY <1>2, CtrlUnitInductive, PTL

\* The word the fetch unit offers is the one at the address it offers with it: the
\* FIFO of addresses and that of words stay in step over stalls, drains and ends.
WordIsOwn == o_fetch_vld => o_fetch_data = o_fetch_addr

\* Words are dispatched with their own addresses.
THEOREM WordsPaired ==
    ASSUME FetchDepth >= 3
    PROVE  Spec => []WordIsOwn
<1>1. ASSUME Inv, o_fetch_vld  PROVE Head(rs_fifo) = Head(rq_fifo)
  <2>1. PICK s \in Int : Run(rq_fifo, s) /\ Run(rs_fifo, s)
    BY <1>1 DEF Inv, Chained, Chain
  <2>2. /\ rq_fifo \in Seq(Int) /\ rs_fifo \in Seq(Int)
        /\ rq_fifo # << >> /\ rs_fifo # << >>
    BY <1>1 DEF Inv, Types, o_fetch_vld, fetch_vld, f_rq_vld, f_rs_vld
  <2>3. ASSUME NEW q \in Seq(Int), q # << >>, Run(q, s)  PROVE Head(q) = s
    <3>1. 1 \in 1..Len(q) /\ Head(q) = q[1]
      BY <2>3, HeadTailProperties, EmptySeq, LenProperties
    <3> QED  BY <2>3, <3>1 DEF Run
  <2> QED  BY <2>1, <2>2, <2>3
<1>2. Inv => WordIsOwn  BY <1>1 DEF WordIsOwn, o_fetch_data, o_fetch_addr
<1> QED  BY <1>2, CtrlUnitInductive, PTL

-----------------------------------------------------------------------------
(***************************************************************************)
(* The order of commands, and how a program ends.                          *)
(*                                                                         *)
(* Ordered says where the commands of the program under way stand: those   *)
(* before some address d are dispatched, those for a vector unit that it   *)
(* has not taken are on their way to it, each once and in order (Line),    *)
(* and those from d on are received or still to be fetched.  Held says     *)
(* that while the execute unit deals with a command the dispatch halts,    *)
(* and that what was dispatched before has by then moved to where a SYNC   *)
(* looks for it.  Told follows the bits of the interrupt.                  *)
(***************************************************************************)

\* The addresses of C behind x and up to y, in order and without a gap.
Holds(q, C, x, y) ==
    /\ x <= y
    /\ \A i \in 1..Len(q) : x < q[i] /\ q[i] <= y /\ q[i] \in C
    /\ \A i, j \in 1..Len(q) : i < j => q[i] < q[j]
    /\ \A a \in C : x < a /\ a <= y => \E i \in 1..Len(q) : q[i] = a

\* The commands for v.
For(v) == {a \in Int : v \in Mask(a)}

\* A register that offers a value is a queue of one.
Reg(offers, d) == IF offers THEN <<d>> ELSE << >>

\* The commands of v between the last it took and the next to be decoded, d, as they
\* stand on their way to it.
Line(v, d) ==
    \E x, y, z \in Int :
        /\ Holds(Reg(vpu_cmd_sel[v], vpu_cmd[v]), For(v), last[v], x)
        /\ Holds(fwd_fifo[v], For(v), x, y)
        /\ Holds(Reg(fwd_wr[v], fwd_cmd[v]), For(v), y, z)
        /\ Holds(cvpu_fifo[v], For(v), z, d - 1)

NoEnds(x, y) == \A a \in Int : x <= a /\ a < y => ~Ends(a)

\* No word of the program under way will be received any more.
Ceased == flt_fetch \/ drain \/ Halting \/ (rq_fsm = "IDLE" /\ rq_fifo = << >>)

\* The command before the next to be decoded may be a SYNC that is not over.
Holding == (ctl_sync /\ ~ctl_sync_stop) \/ ctl_fsm \in {"SYNC", "IDLE"}

Parted(b) == \A c \in InFlight : c \in Int /\ c < b /\ \A s \in Int : c < s /\ s < b => Op(s) # "sync"

Order(s, d) ==
    /\ base <= d /\ NoEnds(base, d)
    /\ Halting \/ Run(cmd_fifo, d)
    /\ Ceased \/ s = d + Len(cmd_fifo)
    /\ \A v \in Vpu : Line(v, d)
    /\ Parted(d) \/ (Holding /\ Parted(d - 1))
    /\ StopCond \/ ctl_fsm = "WAIT" \/ complete => Stop(d)

Ordered == /\ base \in Int /\ last \in [Vpu -> Int]
           /\ \E s, d \in Int : Chain(s) /\ Order(s, d)

\* While the execute unit deals with a command nothing is dispatched, and what is on
\* its way is where the forwarding units see it before a SYNC can be over.
Held ==
    /\ {unhalt, ctl_nop} \subseteq BOOLEAN
    /\ ctl_nop \/ ctl_sync => dp_fsm = "HALT" /\ ~unhalt /\ ctl_fsm = "EXEC"
    /\ ctl_fsm \in {"SYNC", "WAIT"} => dp_fsm = "HALT" /\ ~unhalt
    /\ flt_fetch => rx_fsm = "HALT"
    /\ complete => ctl_fsm = "IDLE" /\ ~glb_start /\ InFlight = {}
    /\ ctl_sync \/ ctl_fsm \in {"SYNC", "WAIT"} =>
            \A v \in Vpu : cvpu_fifo[v] # << >> => fwd_wr[v]
    /\ ctl_fsm \in {"SYNC", "WAIT"} =>
            \A v \in Vpu : fwd_wr[v] => fwd_fifo[v] # << >> \/ vpu_cmd_sel[v]

LEMMA HoldsEmpty ==
    ASSUME NEW C \in SUBSET Int, NEW x \in Int, NEW y \in Int
    PROVE  Holds(<< >>, C, x, y) <=> x <= y /\ \A a \in C : ~(x < a /\ a <= y)
<1>1. 1..Len(<< >>) = {}  OBVIOUS
<1> QED  BY <1>1 DEF Holds

LEMMA HoldsPop ==
    ASSUME NEW C \in SUBSET Int, NEW x \in Int, NEW y \in Int, NEW q \in Seq(Int),
           q # << >>, Holds(q, C, x, y)
    PROVE  /\ Head(q) \in C /\ x < Head(q) /\ Head(q) <= y
           /\ \A a \in C : ~(x < a /\ a < Head(q))
           /\ Tail(q) \in Seq(Int) /\ Holds(Tail(q), C, Head(q), y)
<1> DEFINE h == Head(q)   t == Tail(q)
<1>1. /\ Len(q) \in Nat /\ 1 \in 1..Len(q) /\ h = q[1]
      /\ t \in Seq(Int) /\ Len(t) = Len(q) - 1 /\ \A i \in 1..Len(t) : t[i] = q[i + 1]
  BY HeadTailProperties, EmptySeq, LenProperties
<1>2. /\ \A i \in 1..Len(q) : x < q[i] /\ q[i] <= y /\ q[i] \in C /\ q[i] \in Int
      /\ \A i, j \in 1..Len(q) : i < j => q[i] < q[j]
      /\ \A a \in C : x < a /\ a <= y => \E i \in 1..Len(q) : q[i] = a
  BY DEF Holds
<1>3. h \in C /\ x < h /\ h <= y /\ h \in Int  BY <1>1, <1>2
<1> HIDE DEF h, t
<1>4. ASSUME NEW i \in 1..Len(t)
      PROVE  /\ i + 1 \in 1..Len(q) /\ t[i] = q[i + 1] /\ h < t[i]
  <2>1. i + 1 \in 1..Len(q) /\ 1 < i + 1 /\ t[i] = q[i + 1]  BY <1>1
  <2> QED  BY <1>1, <1>2, <2>1
<1>5. ASSUME NEW a \in C, x < a, a < h  PROVE FALSE
  <2>1. a <= y  BY <1>3, <1>5
  <2>2. PICK i \in 1..Len(q) : q[i] = a  BY <1>2, <1>5, <2>1
  <2>3. i = 1 \/ 1 < i  BY <2>2
  <2> QED  BY <1>1, <1>2, <1>3, <1>5, <2>2, <2>3
<1>6. Holds(t, C, h, y)
  <2>1. \A i \in 1..Len(t) : h < t[i] /\ t[i] <= y /\ t[i] \in C  BY <1>2, <1>4
  <2>2. ASSUME NEW i \in 1..Len(t), NEW j \in 1..Len(t), i < j  PROVE t[i] < t[j]
    <3>1. i + 1 < j + 1  BY <2>2
    <3> QED  BY <1>2, <1>4, <3>1
  <2>3. ASSUME NEW a \in C, h < a, a <= y  PROVE \E i \in 1..Len(t) : t[i] = a
    <3>1. x < a  BY <1>3, <2>3
    <3>2. PICK i \in 1..Len(q) : q[i] = a  BY <1>2, <2>3, <3>1
    <3>3. i # 1  BY <1>1, <1>3, <2>3, <3>2
    <3>4. i - 1 \in 1..Len(t) /\ (i - 1) + 1 = i  BY <1>1, <3>2, <3>3
    <3> QED  BY <1>1, <3>2, <3>4
  <2> QED  BY <1>3, <2>1, <2>2, <2>3 DEF Holds
<1> QED  BY <1>1, <1>3, <1>5, <1>6 DEF h, t

LEMMA HoldsPush ==
    ASSUME NEW C \in SUBSET Int, NEW x \in Int, NEW y \in Int, NEW q \in Seq(Int),
           Holds(q, C, x, y), NEW d \in C, y < d, \A a \in C : ~(y < a /\ a < d)
    PROVE  Append(q, d) \in Seq(Int) /\ Holds(Append(q, d), C, x, d)
<1> DEFINE r == Append(q, d)
<1>1. /\ d \in Int /\ Len(q) \in Nat /\ r \in Seq(Int) /\ Len(r) = Len(q) + 1
      /\ \A i \in 1..Len(q) : r[i] = q[i]
      /\ r[Len(q) + 1] = d
  BY AppendProperties, LenProperties
<1>2. /\ x <= y
      /\ \A i \in 1..Len(q) : x < q[i] /\ q[i] <= y /\ q[i] \in C /\ q[i] \in Int
      /\ \A i, j \in 1..Len(q) : i < j => q[i] < q[j]
      /\ \A a \in C : x < a /\ a <= y => \E i \in 1..Len(q) : q[i] = a
  BY DEF Holds
<1> HIDE DEF r
<1>3. ASSUME NEW i \in 1..Len(r)
      PROVE  x < r[i] /\ r[i] <= d /\ r[i] \in C
  <2>1. CASE i \in 1..Len(q)
    <3>1. r[i] = q[i]  BY <1>1, <2>1
    <3>2. x < q[i] /\ q[i] <= y /\ q[i] \in C /\ q[i] \in Int  BY <1>2, <2>1
    <3> QED  BY <1>1, <3>1, <3>2
  <2>2. CASE i = Len(q) + 1
    <3>1. x < d  BY <1>1, <1>2
    <3>2. r[i] = d  BY <1>1, <2>2
    <3> QED  BY <1>1, <3>1, <3>2
  <2>3. i \in 1..Len(q) \/ i = Len(q) + 1  BY <1>1
  <2> QED  BY <2>1, <2>2, <2>3
<1>4. ASSUME NEW i \in 1..Len(r), NEW j \in 1..Len(r), i < j  PROVE r[i] < r[j]
  <2>1. i \in 1..Len(q)  BY <1>1, <1>4
  <2>2. CASE j \in 1..Len(q)
    <3>1. r[i] = q[i] /\ r[j] = q[j]  BY <1>1, <2>1, <2>2
    <3> QED  BY <1>2, <1>4, <2>1, <2>2, <3>1
  <2>3. CASE j = Len(q) + 1
    <3>1. r[i] = q[i] /\ r[j] = d  BY <1>1, <2>1, <2>3
    <3>2. q[i] <= y /\ q[i] \in Int  BY <1>2, <2>1
    <3> QED  BY <1>1, <3>1, <3>2
  <2>4. j \in 1..Len(q) \/ j = Len(q) + 1  BY <1>1
  <2> QED  BY <2>2, <2>3, <2>4
<1>5. ASSUME NEW a \in C, x < a, a <= d  PROVE \E i \in 1..Len(r) : r[i] = a
  <2>1. CASE a <= y
    <3>1. PICK i \in 1..Len(q) : q[i] = a  BY <1>2, <1>5, <2>1
    <3>2. i \in 1..Len(r)  BY <1>1
    <3>3. r[i] = a  BY <1>1, <3>1
    <3> QED  BY <3>2, <3>3
  <2>2. CASE a = d  BY <1>1, <2>2
  <2> QED  BY <1>1, <1>5, <2>1, <2>2
<1>6. x <= d  BY <1>1, <1>2
<1> QED  BY <1>1, <1>3, <1>4, <1>5, <1>6 DEF Holds, r

\* Nothing of C lies between y and z.
LEMMA HoldsBeyond ==
    ASSUME NEW C \in SUBSET Int, NEW x \in Int, NEW y \in Int, NEW z \in Int, y <= z,
           NEW q \in Seq(Int), Holds(q, C, x, y), \A a \in C : ~(y < a /\ a <= z)
    PROVE  Holds(q, C, x, z)
<1>1. \A i \in 1..Len(q) : q[i] \in Int  OBVIOUS
<1>2. \A a \in C : a <= z => a <= y \/ (y < a /\ a <= z)  OBVIOUS
<1> QED  BY <1>1, <1>2 DEF Holds

\* The oldest value of a queue enters the queue in front of it.
LEMMA HoldsPass ==
    ASSUME NEW C \in SUBSET Int, NEW x \in Int, NEW y \in Int, NEW z \in Int,
           NEW p \in Seq(Int), Holds(p, C, x, y),
           NEW q \in Seq(Int), Holds(q, C, y, z), q # << >>
    PROVE  /\ Head(q) \in Int
           /\ Append(p, Head(q)) \in Seq(Int) /\ Holds(Append(p, Head(q)), C, x, Head(q))
           /\ Tail(q) \in Seq(Int) /\ Holds(Tail(q), C, Head(q), z)
<1>1. /\ Head(q) \in C /\ y < Head(q) /\ \A a \in C : ~(y < a /\ a < Head(q))
      /\ Tail(q) \in Seq(Int) /\ Holds(Tail(q), C, Head(q), z)
  BY HoldsPop
<1>2. Append(p, Head(q)) \in Seq(Int) /\ Holds(Append(p, Head(q)), C, x, Head(q))
  BY <1>1, HoldsPush
<1> QED  BY <1>1, <1>2

\* A register that offers val when on says so, and the queue q behind it, hold the
\* addresses of C behind x and up to z; what is taken of them moves x.
RegMoves(C, x, z, on, val, taken, q) ==
    LET loads == Loads(on, taken, q)
        rest == FifoRead(q, loads)
    IN  /\ on => val \in C /\ x < val /\ \A a \in C : ~(x < a /\ a < val)
        /\ rest \in Seq(Int)
        /\ \E w \in Int :
             /\ Holds(Reg(StillOffers(on, taken, q), IF loads THEN Head(q) ELSE val),
                      C, IF on /\ taken THEN val ELSE x, w)
             /\ Holds(rest, C, w, z)

LEMMA RegStep ==
    ASSUME NEW C \in SUBSET Int, NEW x \in Int, NEW y \in Int, NEW z \in Int,
           NEW on \in BOOLEAN, NEW val \in Int, NEW taken \in BOOLEAN, NEW q \in Seq(Int),
           Holds(Reg(on, val), C, x, y), Holds(q, C, y, z)
    PROVE  RegMoves(C, x, z, on, val, taken, q)
<1> DEFINE x1 == IF on /\ taken THEN val ELSE x
           p == Reg(on /\ ~taken, val)
<1>1. on => /\ val \in C /\ x < val /\ val <= y /\ \A a \in C : ~(x < a /\ a < val)
            /\ Holds(<< >>, C, val, y)
  <2>1. SUFFICES ASSUME on
                 PROVE  /\ val \in C /\ x < val /\ val <= y
                        /\ \A a \in C : ~(x < a /\ a < val)
                        /\ Holds(<< >>, C, val, y)
    OBVIOUS
  <2> DEFINE r == <<val>>
  <2>2. r \in Seq(Int) /\ r # << >> /\ Head(r) = val /\ Tail(r) = << >>
    OBVIOUS
  <2>3. Holds(r, C, x, y)  BY <2>1 DEF Reg
  <2> HIDE DEF r
  <2>4. /\ Head(r) \in C /\ x < Head(r) /\ Head(r) <= y
        /\ \A a \in C : ~(x < a /\ a < Head(r))
        /\ Holds(Tail(r), C, Head(r), y)
    BY <2>2, <2>3, HoldsPop
  <2> QED  BY <2>2, <2>4
<1>2. x1 \in Int /\ p \in Seq(Int) /\ Holds(p, C, x1, y)
  <2>1. CASE on /\ taken  BY <1>1, <2>1 DEF Reg
  <2>2. CASE ~(on /\ taken)
    <3>1. (on /\ ~taken) = on  BY <2>2
    <3> QED  BY <2>2, <3>1 DEF Reg
  <2> QED  BY <2>1, <2>2
<1>3. CASE Loads(on, taken, q)
  <2>1. /\ q # << >> /\ p = << >>
        /\ FifoRead(q, Loads(on, taken, q)) = Tail(q) /\ StillOffers(on, taken, q) = TRUE
    BY <1>3 DEF Loads, FifoRead, StillOffers, Reg
  <2>2. /\ Head(q) \in Int
        /\ Holds(Append(p, Head(q)), C, x1, Head(q))
        /\ Tail(q) \in Seq(Int) /\ Holds(Tail(q), C, Head(q), z)
    <3> HIDE DEF p, x1
    <3> QED  BY <1>2, <2>1, HoldsPass
  <2>3. Append(p, Head(q)) = Reg(TRUE, Head(q))
    <3>1. \A h \in Int : Append(<< >>, h) = <<h>>  OBVIOUS
    <3> QED  BY <2>1, <2>2, <3>1 DEF Reg
  <2> HIDE DEF p, x1
  <2> QED  BY <1>1, <1>3, <2>1, <2>2, <2>3 DEF x1, RegMoves
<1>4. CASE ~Loads(on, taken, q)
  <2>1. /\ FifoRead(q, Loads(on, taken, q)) = q
        /\ StillOffers(on, taken, q) = (on /\ ~taken)
    BY <1>4 DEF Loads, FifoRead, StillOffers
  <2>2. Reg(StillOffers(on, taken, q), IF Loads(on, taken, q) THEN Head(q) ELSE val) = p
    BY <1>4, <2>1
  <2> HIDE DEF p
  <2> QED  BY <1>1, <1>2, <1>4, <2>1, <2>2 DEF RegMoves
<1> QED  BY <1>3, <1>4

\* The registers and queues to a vector unit at an edge of the clock.
LEMMA LineMoves ==
    ASSUME Types, NEW io, NEW serve \in BOOLEAN, NEW done, NEW err,
           Clock(io, serve, done, err), ~glb_start, NEW v \in Vpu
    PROVE  LET taken == o_cmd_ack[v]
               room == o_fwd_vpu_rdy[v]
               loads == Loads(vpu_cmd_sel[v], taken, fwd_fifo[v])
               rest == FifoRead(fwd_fifo[v], loads)
               rest2 == FifoRead(cvpu_fifo[v], LoadsCmd(v))
           IN  /\ vpu_cmd_sel'[v] = StillOffers(vpu_cmd_sel[v], taken, fwd_fifo[v])
               /\ vpu_cmd'[v] = IF loads THEN Head(fwd_fifo[v]) ELSE vpu_cmd[v]
               /\ last'[v] = IF vpu_cmd_sel[v] /\ taken THEN vpu_cmd[v] ELSE last[v]
               /\ fwd_fifo'[v] = IF fwd_wr[v] /\ room THEN Append(rest, fwd_cmd[v]) ELSE rest
               /\ fwd_wr'[v] = StillOffers(fwd_wr[v], room, cvpu_fifo[v])
               /\ fwd_cmd'[v] = IF LoadsCmd(v) THEN Head(cvpu_fifo[v]) ELSE fwd_cmd[v]
               /\ cvpu_fifo'[v] = IF Passes(v) THEN Append(rest2, Head(cmd_fifo)) ELSE rest2
               /\ taken \in BOOLEAN /\ room \in BOOLEAN
               /\ memory' = memory
<1>1. ForwardClock(fwd_wr, fwd_cmd, o_cmd_ack) /\ GhostClock(err)
      /\ DispatchClock(o_fetch_vld, IF o_fetch_vld THEN o_fetch_addr ELSE 0,
                       unhalt, o_fwd_vpu_rdy)
  BY DEF Clock
<1>2. o_cmd_ack[v] \in BOOLEAN /\ o_fwd_vpu_rdy[v] \in BOOLEAN
  BY DEF o_cmd_ack, o_fwd_vpu_rdy
<1>3. last'[v] = IF vpu_cmd_sel[v] /\ o_cmd_ack[v] THEN vpu_cmd[v] ELSE last[v]
  BY <1>1 DEF GhostClock, Accepts
<1>4. /\ vpu_cmd_sel'[v] = StillOffers(vpu_cmd_sel[v], o_cmd_ack[v], fwd_fifo[v])
      /\ vpu_cmd'[v] = IF Loads(vpu_cmd_sel[v], o_cmd_ack[v], fwd_fifo[v])
                       THEN Head(fwd_fifo[v]) ELSE vpu_cmd[v]
      /\ fwd_fifo'[v] = FifoNext(fwd_fifo[v], FwdDepth,
                                 Loads(vpu_cmd_sel[v], o_cmd_ack[v], fwd_fifo[v]),
                                 fwd_wr[v], fwd_cmd[v])
  BY <1>1 DEF ForwardClock
<1>5. o_fwd_vpu_rdy[v] = (Len(fwd_fifo[v]) < FwdDepth)  BY DEF o_fwd_vpu_rdy
<1>6. /\ fwd_wr'[v] = StillOffers(fwd_wr[v], o_fwd_vpu_rdy[v], cvpu_fifo[v])
      /\ fwd_cmd'[v] = IF LoadsCmd(v) THEN Head(cvpu_fifo[v]) ELSE fwd_cmd[v]
      /\ memory' = memory
  BY <1>1 DEF DispatchClock, ForwardFSM, LoadsCmd
<1>7. cvpu_fifo'[v] = Moved(cvpu_fifo[v], LoadsCmd(v), Passes(v), Head(cmd_fifo))
  BY DispatchMoves
<1> QED  BY <1>2, <1>3, <1>4, <1>5, <1>6, <1>7 DEF FifoNext, Moved

LEMMA LineStep ==
    ASSUME Types, last \in [Vpu -> Int], NEW d \in Int, NEW v \in Vpu, Line(v, d),
           NEW io, NEW serve \in BOOLEAN, NEW done, NEW err,
           Clock(io, serve, done, err), ~glb_start,
           NEW e \in Int,
           \/ e = d /\ ~Passes(v)
           \/ e = d + 1 /\ Passes(v) /\ Head(cmd_fifo) = d
           \/ e = d + 1 /\ ~Passes(v) /\ v \notin Mask(d)
    PROVE  Line(v, e)'
<1> DEFINE C == For(v)
           sel == vpu_cmd_sel[v]   cmd == vpu_cmd[v]   q == fwd_fifo[v]
           wr == fwd_wr[v]   fcmd == fwd_cmd[v]   r == cvpu_fifo[v]
           taken == o_cmd_ack[v]   room == o_fwd_vpu_rdy[v]
           q1 == FifoRead(q, Loads(sel, taken, q))
           r1 == FifoRead(r, Loads(wr, room, r))
           l1 == IF sel /\ taken THEN cmd ELSE last[v]
<1>1. PICK x \in Int, y \in Int, z \in Int :
        /\ Holds(Reg(sel, cmd), C, last[v], x) /\ Holds(q, C, x, y)
        /\ Holds(Reg(wr, fcmd), C, y, z) /\ Holds(r, C, z, d - 1)
  BY DEF Line
<1>2. /\ C \in SUBSET Int /\ sel \in BOOLEAN /\ cmd \in Int /\ q \in Seq(Int)
      /\ wr \in BOOLEAN /\ fcmd \in Int /\ r \in Seq(Int) /\ last[v] \in Int
  BY DEF Types, For
<1>3. /\ vpu_cmd_sel'[v] = StillOffers(sel, taken, q)
      /\ vpu_cmd'[v] = IF Loads(sel, taken, q) THEN Head(q) ELSE cmd
      /\ last'[v] = l1
      /\ fwd_fifo'[v] = IF wr /\ room THEN Append(q1, fcmd) ELSE q1
      /\ fwd_wr'[v] = StillOffers(wr, room, r)
      /\ fwd_cmd'[v] = IF Loads(wr, room, r) THEN Head(r) ELSE fcmd
      /\ cvpu_fifo'[v] = IF Passes(v) THEN Append(r1, Head(cmd_fifo)) ELSE r1
      /\ taken \in BOOLEAN /\ room \in BOOLEAN
      /\ memory' = memory
  BY LineMoves DEF LoadsCmd
<1>4. For(v)' = C  BY <1>3 DEF For, Mask, Op
<1>5. d - 1 \in Int  OBVIOUS
<1>6. v \in Mask(d) <=> d \in C  BY DEF For
<1> HIDE DEF C, sel, cmd, q, wr, fcmd, r, taken, room
<1>7. /\ q1 \in Seq(Int)
      /\ \E w \in Int : /\ Holds(Reg(vpu_cmd_sel'[v], vpu_cmd'[v]), C, l1, w)
                        /\ Holds(q1, C, w, y)
  <2> DEFINE l0 == last[v]
  <2>1. l0 \in Int /\ Holds(Reg(sel, cmd), C, l0, x)  BY <1>1, <1>2
  <2> HIDE DEF l0
  <2>2. RegMoves(C, l0, y, sel, cmd, taken, q)
    BY <1>1, <1>2, <1>3, <2>1, RegStep
  <2> QED  BY <1>3, <2>2 DEF l0, RegMoves
<1>8. /\ r1 \in Seq(Int)
      /\ wr => fcmd \in C /\ y < fcmd /\ \A a \in C : ~(y < a /\ a < fcmd)
      /\ \E w \in Int : /\ Holds(Reg(fwd_wr'[v], fwd_cmd'[v]), C, IF wr /\ room THEN fcmd ELSE y, w)
                        /\ Holds(r1, C, w, d - 1)
  <2> DEFINE b == d - 1
  <2>1. b \in Int /\ Holds(r, C, z, b)  BY <1>1, <1>5
  <2> HIDE DEF b
  <2>2. RegMoves(C, y, b, wr, fcmd, room, r)
    BY <1>1, <1>2, <1>3, <2>1, RegStep
  <2> QED  BY <1>3, <2>2 DEF b, RegMoves
<1> HIDE DEF q1, r1, l1
<1>9. PICK w1 \in Int : Holds(Reg(vpu_cmd_sel'[v], vpu_cmd'[v]), C, l1, w1) /\ Holds(q1, C, w1, y)
  BY <1>7
<1>10. PICK w2 \in Int :
        /\ Holds(Reg(fwd_wr'[v], fwd_cmd'[v]), C, IF wr /\ room THEN fcmd ELSE y, w2)
        /\ Holds(r1, C, w2, d - 1)
  BY <1>8
<1>11. Holds(fwd_fifo'[v], C, w1, IF wr /\ room THEN fcmd ELSE y)
  <2>1. CASE wr /\ room
    <3>1. Holds(Append(q1, fcmd), C, w1, fcmd)  BY <1>2, <1>7, <1>8, <1>9, <2>1, HoldsPush
    <3> QED  BY <1>3, <2>1, <3>1
  <2>2. CASE ~(wr /\ room)  BY <1>3, <1>9, <2>2
  <2> QED  BY <2>1, <2>2
<1>12. Holds(cvpu_fifo'[v], C, w2, e - 1)
  <2>1. CASE e = d /\ ~Passes(v)  BY <1>3, <1>10, <2>1
  <2>2. CASE e = d + 1 /\ Passes(v) /\ Head(cmd_fifo) = d
    <3>1. d \in C  BY <1>6, <2>2 DEF Passes
    <3>2. d - 1 < d /\ \A a \in C : ~(d - 1 < a /\ a < d)  BY <1>2
    <3>3. Holds(Append(r1, d), C, w2, d)
      BY <1>2, <1>5, <1>8, <1>10, <3>1, <3>2, HoldsPush
    <3>4. e - 1 = d  BY <2>2
    <3> QED  BY <1>3, <2>2, <3>3, <3>4
  <2>3. CASE e = d + 1 /\ ~Passes(v) /\ v \notin Mask(d)
    <3>1. d \notin C  BY <1>6, <2>3
    <3>2. d - 1 <= d /\ \A a \in C : ~(d - 1 < a /\ a <= d)  BY <1>2, <3>1
    <3>3. Holds(r1, C, w2, d)
      BY <1>2, <1>5, <1>8, <1>10, <3>2, HoldsBeyond
    <3>4. e - 1 = d  BY <2>3
    <3> QED  BY <1>3, <2>3, <3>3, <3>4
  <2> QED  BY <2>1, <2>2, <2>3
<1>13. (IF wr /\ room THEN fcmd ELSE y) \in Int  BY <1>2
<1> QED  BY <1>3, <1>4, <1>9, <1>10, <1>11, <1>12, <1>13 DEF Line

-----------------------------------------------------------------------------
(* What is on its way.                                                     *)

LEMMA Members ==
    ASSUME NEW q \in Seq(Int)
    PROVE  /\ q # << >> => Head(q) \in ToSet(q)
           /\ ToSet(q) = {} <=> q = << >>
<1>1. Len(q) \in Nat /\ DOMAIN q = 1..Len(q)  BY LenProperties
<1>2. q # << >> => Head(q) \in ToSet(q)
  BY <1>1, HeadTailProperties, EmptySeq DEF ToSet
<1>3. q = << >> => ToSet(q) = {}  BY DEF ToSet
<1> QED  BY <1>2, <1>3

LEMMA MembersRead ==
    ASSUME NEW q \in Seq(Int), NEW pop
    PROVE  ToSet(FifoRead(q, pop)) \subseteq ToSet(q)
<1>1. CASE pop /\ q # << >>
  <2>1. /\ Tail(q) \in Seq(Int) /\ Len(Tail(q)) = Len(q) - 1 /\ Len(q) \in Nat
        /\ \A i \in 1..Len(Tail(q)) : Tail(q)[i] = q[i + 1]
    BY <1>1, HeadTailProperties, LenProperties
  <2>2. DOMAIN Tail(q) = 1..Len(Tail(q)) /\ DOMAIN q = 1..Len(q)  BY <2>1, LenProperties
  <2>3. \A i \in 1..Len(Tail(q)) : i + 1 \in 1..Len(q)  BY <2>1
  <2>4. FifoRead(q, pop) = Tail(q)  BY <1>1 DEF FifoRead
  <2> QED  BY <2>1, <2>2, <2>3, <2>4 DEF ToSet
<1>2. CASE ~(pop /\ q # << >>)  BY <1>2 DEF FifoRead
<1> QED  BY <1>1, <1>2

LEMMA MembersAppend ==
    ASSUME NEW q \in Seq(Int), NEW d \in Int
    PROVE  ToSet(Append(q, d)) = ToSet(q) \cup {d}
<1> DEFINE r == Append(q, d)
<1>1. /\ r \in Seq(Int) /\ Len(r) = Len(q) + 1 /\ Len(q) \in Nat
      /\ \A i \in 1..Len(q) : r[i] = q[i]
      /\ r[Len(q) + 1] = d
  BY AppendProperties, LenProperties
<1>2. DOMAIN r = 1..Len(r) /\ DOMAIN q = 1..Len(q)  BY <1>1, LenProperties
<1> HIDE DEF r
<1>3. \A i : i \in 1..Len(r) <=> i \in 1..Len(q) \/ i = Len(q) + 1  BY <1>1
<1>4. ToSet(r) = ToSet(q) \cup {d}  BY <1>1, <1>2, <1>3 DEF ToSet
<1> QED  BY <1>4 DEF r

LEMMA InFlightClear ==
    ASSUME Types
    PROVE  InFlight = {} <=> \A v \in Vpu : Clear(v)
<1>1. ASSUME NEW v \in Vpu
      PROVE  ForwardedTo(v) \cup ToSet(vpu_queue[v]) = {} <=> Clear(v)
  <2>1. /\ cvpu_fifo[v] \in Seq(Int) /\ fwd_fifo[v] \in Seq(Int) /\ vpu_queue[v] \in Seq(Int)
        /\ fwd_wr[v] \in BOOLEAN /\ vpu_cmd_sel[v] \in BOOLEAN
    BY DEF Types
  <2>2. /\ ToSet(cvpu_fifo[v]) = {} <=> cvpu_fifo[v] = << >>
        /\ ToSet(fwd_fifo[v]) = {} <=> fwd_fifo[v] = << >>
        /\ ToSet(vpu_queue[v]) = {} <=> vpu_queue[v] = << >>
    BY <2>1, Members
  <2> QED  BY <2>1, <2>2 DEF ForwardedTo, Clear
<1> QED  BY <1>1 DEF InFlight

\* Only a dispatch adds to what is on its way.
LEMMA InFlightStep ==
    ASSUME Types, NEW io, NEW serve \in BOOLEAN, NEW done, NEW err \in SUBSET Faulty,
           Clock(io, serve, done, err), ~glb_start,
           NEW c \in InFlight'
    PROVE  c \in InFlight \/ (Forwards /\ c = Head(cmd_fifo))
<1>1. PICK v \in Vpu : c \in (ForwardedTo(v) \cup ToSet(vpu_queue[v]))'
  BY DEF InFlight
<1> DEFINE q == fwd_fifo[v]   r == cvpu_fifo[v]   k == vpu_queue[v]
           sel == vpu_cmd_sel[v]   cmd == vpu_cmd[v]   wr == fwd_wr[v]   fcmd == fwd_cmd[v]
           all == ToSet(r) \cup ToSet(q) \cup ToSet(k)
                    \cup (IF wr THEN {fcmd} ELSE {}) \cup (IF sel THEN {cmd} ELSE {})
<1>2. /\ q \in Seq(Int) /\ r \in Seq(Int) /\ k \in Seq(Int)
      /\ sel \in BOOLEAN /\ cmd \in Int /\ wr \in BOOLEAN /\ fcmd \in Int
  BY DEF Types
<1>3. all \subseteq InFlight  BY DEF InFlight, ForwardedTo
<1>4. c \in (ToSet(cvpu_fifo[v]))' \/ c \in (ToSet(fwd_fifo[v]))' \/ c \in (ToSet(vpu_queue[v]))'
      \/ (fwd_wr'[v] /\ c = fwd_cmd'[v]) \/ (vpu_cmd_sel'[v] /\ c = vpu_cmd'[v])
  BY <1>1 DEF ForwardedTo
<1>5. CASE c \in (ToSet(cvpu_fifo[v]))'
  <2>1. FifoRead(r, LoadsCmd(v)) \in Seq(Int)  BY <1>2, ReadType DEF LoadsCmd, Loads
  <2>2. Passes(v) => Head(cmd_fifo) \in Int  BY DispatchMoves
  <2>3. cvpu_fifo'[v] = IF Passes(v) THEN Append(FifoRead(r, LoadsCmd(v)), Head(cmd_fifo))
                                     ELSE FifoRead(r, LoadsCmd(v))
    BY LineMoves
  <2>4. Passes(v) => ToSet(Append(FifoRead(r, LoadsCmd(v)), Head(cmd_fifo)))
                       = ToSet(FifoRead(r, LoadsCmd(v))) \cup {Head(cmd_fifo)}
    BY <2>1, <2>2, MembersAppend
  <2>5. ToSet(FifoRead(r, LoadsCmd(v))) \subseteq ToSet(r)  BY <1>2, MembersRead
  <2> QED  BY <1>3, <1>5, <2>3, <2>4, <2>5 DEF Passes
<1>6. CASE c \in (ToSet(fwd_fifo[v]))'
  <2> DEFINE rest == FifoRead(q, Loads(sel, o_cmd_ack[v], q))
  <2>1. o_cmd_ack[v] \in BOOLEAN /\ Loads(sel, o_cmd_ack[v], q) \in BOOLEAN
    BY <1>2 DEF o_cmd_ack, Loads
  <2>2. rest \in Seq(Int)  BY <1>2, <2>1, ReadType
  <2>3. fwd_fifo'[v] = rest \/ (wr /\ fwd_fifo'[v] = Append(rest, fcmd))
    BY LineMoves
  <2>4. ToSet(rest) \subseteq ToSet(q)  BY <1>2, MembersRead
  <2> HIDE DEF rest
  <2>5. ToSet(Append(rest, fcmd)) = ToSet(rest) \cup {fcmd}  BY <1>2, <2>2, MembersAppend
  <2> QED  BY <1>3, <1>6, <2>3, <2>4, <2>5
<1>7. CASE c \in (ToSet(vpu_queue[v]))'
  <2> DEFINE rest == FifoRead(k, v \in done)
  <2>1. \/ vpu_queue'[v] = << >>
        \/ k # << >> /\ vpu_queue'[v] = <<Head(k)>>
        \/ sel /\ vpu_queue'[v] = Append(rest, cmd)
        \/ vpu_queue'[v] = rest
    BY DEF Clock, VpuClock, Accepts
  <2>2. rest \in Seq(Int)
    <3>1. (v \in done) \in BOOLEAN  OBVIOUS
    <3> QED  BY <1>2, <3>1, ReadType
  <2>3. ToSet(rest) \subseteq ToSet(k) /\ (k # << >> => Head(k) \in ToSet(k))
    BY <1>2, Members, MembersRead
  <2>4. ToSet(Append(rest, cmd)) = ToSet(rest) \cup {cmd}  BY <1>2, <2>2, MembersAppend
  <2>5. ToSet(<< >>) = {} /\ ToSet(<<Head(k)>>) = {Head(k)}
    BY DEF ToSet
  <2>6. ToSet(k) \subseteq InFlight /\ (sel => cmd \in InFlight)  BY <1>2, <1>3
  <2> HIDE DEF rest, k, sel, cmd
  <2>7. vpu_queue'[v] = << >> => FALSE  BY <1>7, <2>5
  <2>8. k # << >> /\ vpu_queue'[v] = <<Head(k)>> => c \in InFlight
    BY <1>7, <2>3, <2>5, <2>6
  <2>9. sel /\ vpu_queue'[v] = Append(rest, cmd) => c \in InFlight
    BY <1>7, <2>3, <2>4, <2>6
  <2>10. vpu_queue'[v] = rest => c \in InFlight  BY <1>7, <2>3, <2>6
  <2> QED  BY <2>1, <2>7, <2>8, <2>9, <2>10
<1>8. CASE fwd_wr'[v] /\ c = fwd_cmd'[v]
  <2>1. /\ fwd_wr'[v] = StillOffers(wr, o_fwd_vpu_rdy[v], r)
        /\ fwd_cmd'[v] = IF LoadsCmd(v) THEN Head(r) ELSE fcmd
    BY LineMoves
  <2>2. r # << >> => Head(r) \in ToSet(r)  BY <1>2, Members
  <2> QED  BY <1>3, <1>8, <2>1, <2>2 DEF StillOffers, LoadsCmd, Loads
<1>9. CASE vpu_cmd_sel'[v] /\ c = vpu_cmd'[v]
  <2>1. /\ vpu_cmd_sel'[v] = StillOffers(sel, o_cmd_ack[v], q)
        /\ vpu_cmd'[v] = IF Loads(sel, o_cmd_ack[v], q) THEN Head(q) ELSE cmd
    BY LineMoves
  <2>2. q # << >> => Head(q) \in ToSet(q)  BY <1>2, Members
  <2> QED  BY <1>3, <1>9, <2>1, <2>2 DEF StillOffers, Loads
<1> QED  BY <1>4, <1>5, <1>6, <1>7, <1>8, <1>9

-----------------------------------------------------------------------------
(* The execute unit and the commands it holds back.                        *)

LEMMA CtlMoves ==
    ASSUME Types, Held, NEW io, NEW serve, NEW done, NEW err, Clock(io, serve, done, err)
    PROVE  /\ ctl_fsm' = "WAIT" => ctl_fsm = "WAIT" \/ (ctl_fsm = "EXEC" /\ StopCond)
           /\ ctl_fsm' = "SYNC" => ctl_fsm = "SYNC" \/ (ctl_fsm = "EXEC" /\ ctl_sync)
           /\ ctl_fsm' \in {"SYNC", "WAIT"} => ~unhalt'
           /\ complete' => ctl_fsm = "WAIT" /\ ~units_busy(err # {}) /\ ctl_fsm' = "IDLE"
           /\ ctl_fsm = "SYNC" /\ ctl_fsm' # "SYNC" => ~sync_wait
           /\ ctl_fsm = "EXEC" /\ ctl_sync /\ ~ctl_sync_stop => ctl_fsm' \in {"SYNC", "IDLE"}
           /\ ctl_fsm = "EXEC" /\ ~ctl_sync /\ units_busy(err # {})
                 => ctl_fsm' = "EXEC" /\ (unhalt' => ctl_nop)
           /\ ctl_fsm = "IDLE" => ctl_fsm' = IF glb_start THEN "EXEC" ELSE "IDLE"
           /\ unhalt' \in BOOLEAN
<1>1. \/ ExecuteIdle(glb_start)
      \/ ExecuteCommand(ctl_nop, ctl_sync, ctl_sync_stop, ctl_sync_intr, units_busy(err # {}))
      \/ ExecuteSync(sync_wait)
      \/ ExecuteWait(units_busy(err # {}))
  BY DEF Clock, Execute
<1> DEFINE busy == units_busy(err # {})
<1> USE DEF Held
<1>2. CASE ExecuteIdle(glb_start)  BY <1>2 DEF ExecuteIdle, Silent, Types
<1>3. CASE ExecuteCommand(ctl_nop, ctl_sync, ctl_sync_stop, ctl_sync_intr, busy)
  <2> HIDE DEF busy
  <2> QED  BY <1>3 DEF ExecuteCommand, End, Silent, StopCond, busy, Types
<1>4. CASE ExecuteSync(sync_wait)  BY <1>4 DEF ExecuteSync, executeVars
<1>5. CASE ExecuteWait(busy)  BY <1>5 DEF ExecuteWait, executeVars, End
<1> QED  BY <1>1, <1>2, <1>3, <1>4, <1>5

\* The queue before a register is never full for nothing: what waits stands in it.
LEMMA WaitsInView ==
    ASSUME Types, NEW io, NEW serve \in BOOLEAN, NEW done, NEW err,
           Clock(io, serve, done, err), ~Forwards, NEW v \in Vpu
    PROVE  /\ cvpu_fifo'[v] # << >> => fwd_wr'[v]
           /\ (cvpu_fifo[v] # << >> => fwd_wr[v]) /\ fwd_wr'[v]
                => fwd_fifo'[v] # << >> \/ vpu_cmd_sel'[v]
<1>1. cvpu_fifo'[v] = Moved(cvpu_fifo[v], LoadsCmd(v), Passes(v), Head(cmd_fifo))
  BY DispatchMoves
<1>2. fwd_wr'[v] = StillOffers(fwd_wr[v], o_fwd_vpu_rdy[v], cvpu_fifo[v])
  BY DEF Clock, DispatchClock, ForwardFSM
<1>3. Passes(v) = FALSE  BY DEF Passes
<1>4. cvpu_fifo'[v] # << >> => fwd_wr'[v]
  BY <1>1, <1>2, <1>3, EmptyStays DEF StillOffers
<1>5. ASSUME cvpu_fifo[v] # << >> => fwd_wr[v], fwd_wr'[v]
      PROVE  fwd_fifo'[v] # << >> \/ vpu_cmd_sel'[v]
  <2> DEFINE q == fwd_fifo[v]
             rest == FifoRead(q, Loads(vpu_cmd_sel[v], o_cmd_ack[v], q))
  <2>1. fwd_wr[v]  BY <1>2, <1>5 DEF StillOffers
  <2>2. /\ fwd_fifo'[v] = FifoNext(q, FwdDepth, Loads(vpu_cmd_sel[v], o_cmd_ack[v], q),
                                   fwd_wr[v], fwd_cmd[v])
        /\ vpu_cmd_sel'[v] = StillOffers(vpu_cmd_sel[v], o_cmd_ack[v], q)
    BY DEF Clock, ForwardClock
  <2>3. CASE Len(q) < FwdDepth
    <3>1. q \in Seq(Int) /\ Loads(vpu_cmd_sel[v], o_cmd_ack[v], q) \in BOOLEAN
          /\ fwd_cmd[v] \in Int
      BY DEF Types, Loads
    <3>2. rest \in Seq(Int)  BY <3>1, ReadType
    <3>3. fwd_fifo'[v] = Append(rest, fwd_cmd[v])  BY <2>1, <2>2, <2>3 DEF FifoNext
    <3> HIDE DEF rest
    <3> QED  BY <3>1, <3>2, <3>3, AppendProperties, EmptySeq
  <2>4. CASE ~(Len(q) < FwdDepth)
    <3>1. q # << >>
      <4>1. Len(<< >>) = 0  OBVIOUS
      <4> QED  BY <2>4, <4>1, FwdDepthAssumption
    <3> QED  BY <2>2, <3>1 DEF StillOffers
  <2> QED  BY <2>3, <2>4
<1> QED  BY <1>4, <1>5

LEMMA DispatchCtl ==
    ASSUME Types, NEW io, NEW serve, NEW done, NEW err, Clock(io, serve, done, err)
    PROVE  /\ dp_fsm' = IF dp_fsm = "HALT" THEN IF unhalt THEN "IDLE" ELSE "HALT"
                        ELSE IF IsBad \/ IsControl THEN "HALT" ELSE "DECD"
           /\ ~IsControl => /\ ctl_nop' = (ctl_nop /\ dp_fsm # "HALT")
                            /\ ctl_sync' = (ctl_sync /\ dp_fsm # "HALT")
                            /\ ctl_sync_stop' = ctl_sync_stop
           /\ IsControl => /\ ctl_nop' \in BOOLEAN
                           /\ ctl_sync' <=> Op(Head(cmd_fifo)) = "sync"
                           /\ StopCond' <=> Stop(Head(cmd_fifo))
           /\ dp_fsm = "HALT" => ~IsControl /\ ~Forwards /\ ~IsBad
           /\ IsControl => ~Forwards /\ ~IsBad
<1>1. DispatchFSM(unhalt)  BY DEF Clock, DispatchClock
<1>2. ASSUME IsControl
      PROVE  /\ ctl_nop' \in BOOLEAN
             /\ ctl_sync' <=> Op(Head(cmd_fifo)) = "sync"
             /\ StopCond' <=> Stop(Head(cmd_fifo))
  <2> DEFINE h == Head(cmd_fifo)
  <2>1. Op(h) = memory[h].op
    <3>1. Op(h) \in {"nop", "sync"}  BY <1>2 DEF IsControl
    <3> QED  BY <3>1 DEF Op
  <2>2. /\ ctl_nop' = (memory[h].op = "nop")
        /\ ctl_sync' = (memory[h].op = "sync")
        /\ ctl_sync_stop' = (memory[h].op = "sync" /\ memory[h].stop)
    BY <1>1, <1>2 DEF DispatchFSM
  <2> HIDE DEF h
  <2>3. StopCond' <=> Stop(h)  BY <2>1, <2>2 DEF StopCond, Stop
  <2> QED  BY <2>1, <2>2, <2>3 DEF h
<1>3. dp_fsm = "HALT" => ~IsControl /\ ~Forwards /\ ~IsBad
  BY DEF IsControl, Forwards, IsBad
<1>4. IsControl => ~Forwards /\ ~IsBad  BY DEF IsControl, Forwards, IsBad
<1> QED  BY <1>1, <1>2, <1>3, <1>4 DEF DispatchFSM

LEMMA HeldStep ==
    ASSUME Inv, Held, NEW io, NEW serve \in BOOLEAN, NEW done, NEW err \in SUBSET Faulty,
           Clock(io, serve, done, err)
    PROVE  Held'
<1>0. Types /\ Quiet /\ Started /\ Rooms  BY DEF Inv
<1> DEFINE busy == units_busy(err # {})
<1>1. /\ dp_fsm' = IF dp_fsm = "HALT" THEN IF unhalt THEN "IDLE" ELSE "HALT"
                   ELSE IF IsBad \/ IsControl THEN "HALT" ELSE "DECD"
      /\ ~IsControl => /\ ctl_nop' = (ctl_nop /\ dp_fsm # "HALT")
                       /\ ctl_sync' = (ctl_sync /\ dp_fsm # "HALT")
      /\ IsControl => ctl_nop' \in BOOLEAN
      /\ dp_fsm = "HALT" => ~IsControl /\ ~Forwards
      /\ IsControl => ~Forwards
  BY <1>0, DispatchCtl
<1>2. /\ ctl_fsm' = "WAIT" => ctl_fsm = "WAIT" \/ (ctl_fsm = "EXEC" /\ StopCond)
      /\ ctl_fsm' = "SYNC" => ctl_fsm = "SYNC" \/ (ctl_fsm = "EXEC" /\ ctl_sync)
      /\ ctl_fsm' \in {"SYNC", "WAIT"} => ~unhalt'
      /\ complete' => ctl_fsm = "WAIT" /\ ~busy /\ ctl_fsm' = "IDLE"
      /\ ctl_fsm = "EXEC" /\ ~ctl_sync /\ busy => ctl_fsm' = "EXEC" /\ (unhalt' => ctl_nop)
      /\ unhalt' \in BOOLEAN
  BY <1>0, CtlMoves
<1>3. /\ {unhalt, ctl_nop} \subseteq BOOLEAN
      /\ ctl_nop \/ ctl_sync => dp_fsm = "HALT" /\ ~unhalt /\ ctl_fsm = "EXEC"
      /\ ctl_fsm \in {"SYNC", "WAIT"} => dp_fsm = "HALT" /\ ~unhalt
  BY DEF Held
<1>4. ctl_fsm' \in {"SYNC", "WAIT"} =>
        /\ ctl_sync \/ ctl_fsm \in {"SYNC", "WAIT"}
        /\ dp_fsm = "HALT" /\ ~unhalt
  BY <1>2, <1>3 DEF StopCond
<1>5. {unhalt', ctl_nop'} \subseteq BOOLEAN
  <2>1. CASE IsControl  BY <1>1, <1>2, <2>1
  <2>2. CASE ~IsControl  BY <1>1, <1>2, <2>2
  <2> QED  BY <2>1, <2>2
<1>6. ctl_nop' \/ ctl_sync' => dp_fsm' = "HALT" /\ ~unhalt' /\ ctl_fsm' = "EXEC"
  <2>1. CASE ~IsControl
    <3>1. ~(ctl_nop \/ ctl_sync) \/ dp_fsm = "HALT"  BY <1>3
    <3>2. ~ctl_nop' /\ ~ctl_sync'  BY <1>1, <2>1, <3>1
    <3> QED  BY <3>2
  <2>2. CASE IsControl
    <3>1. cmd_fifo # << >> /\ dp_fsm = "DECD"  BY <2>2 DEF IsControl
    <3>2. ctl_fsm = "EXEC" /\ ~ctl_nop /\ ~ctl_sync
      BY <1>0, <1>3, <3>1 DEF Types, Quiet
    <3>3. busy  BY <3>1 DEF units_busy, DisPipesActive
    <3> HIDE DEF busy
    <3> QED  BY <1>1, <1>2, <2>2, <3>1, <3>2, <3>3
  <2> QED  BY <2>1, <2>2
<1>7. ctl_fsm' \in {"SYNC", "WAIT"} => dp_fsm' = "HALT" /\ ~unhalt'
  BY <1>1, <1>2, <1>4
<1>8. flt_fetch' => rx_fsm' = "HALT"
  <2>1. ReceiveFSM(o_fetch_vld, IF o_fetch_vld THEN o_fetch_addr ELSE 0, unhalt)
    BY DEF Clock, DispatchClock
  <2>2. flt_fetch => rx_fsm = "HALT"  BY DEF Held
  <2> DEFINE bad == /\ o_fetch_rd /\ o_fetch_vld
                    /\ Op(IF o_fetch_vld THEN o_fetch_addr ELSE 0) = "err"
  <2>3. bad => rx_fsm = "READ"  BY DEF o_fetch_rd
  <2>4. CASE bad  BY <2>1, <2>3, <2>4 DEF ReceiveFSM
  <2>5. CASE ~bad
    <3>1. flt_fetch' = IF rx_fsm = "HALT" THEN FALSE ELSE flt_fetch
      BY <2>1, <2>5 DEF ReceiveFSM
    <3> QED  BY <2>2, <3>1
  <2> QED  BY <2>4, <2>5
<1>9. complete' => ctl_fsm' = "IDLE" /\ ~glb_start' /\ (InFlight = {})'
  <2>1. SUFFICES ASSUME complete'  PROVE ctl_fsm' = "IDLE" /\ ~glb_start' /\ (InFlight = {})'
    OBVIOUS
  <2>2. ctl_fsm = "WAIT" /\ ~busy /\ ctl_fsm' = "IDLE"  BY <1>2, <2>1
  <2>3. ~glb_start'  BY <2>2 DEF Clock, RegioClock, glb_busy
  <2>4. /\ cmd_fifo = << >>
        /\ \A v \in Vpu : /\ cvpu_fifo[v] = << >> /\ fwd_fifo[v] = << >>
                          /\ ~vpu_cmd_sel[v] /\ vpu_queue[v] = << >>
    BY <2>2 DEF units_busy, DisPipesActive, FwdPipesActive, vpus_busy
  <2>5. \A v \in Vpu : ~fwd_wr[v]  BY <2>2, <2>4 DEF Held
  <2>6. \A v \in Vpu : Clear(v)'
    <3>1. \A v \in Vpu : Clear(v)  BY <2>4, <2>5 DEF Clear
    <3> QED  BY <1>0, <2>4, <3>1, ClearStays
  <2>7. Types'  BY <1>0, TypesStep DEF Inv
  <2>8. (InFlight = {})'
    <3>1. (\A v \in Vpu : Clear(v))'  BY <2>6
    <3> QED  BY <2>7, <3>1, InFlightClear, PTL
  <2> QED  BY <2>2, <2>3, <2>8
<1>10. ctl_sync' \/ ctl_fsm' \in {"SYNC", "WAIT"} =>
          \A v \in Vpu : cvpu_fifo'[v] # << >> => fwd_wr'[v]
  <2>1. ctl_sync' => ~Forwards
    <3>1. ~IsControl => ~ctl_sync'  BY <1>1, <1>3
    <3> QED  BY <1>1, <3>1
  <2>2. ctl_fsm' \in {"SYNC", "WAIT"} => ~Forwards  BY <1>1, <1>4
  <2> QED  BY <1>0, <2>1, <2>2, WaitsInView
<1>11. ctl_fsm' \in {"SYNC", "WAIT"} =>
          \A v \in Vpu : fwd_wr'[v] => fwd_fifo'[v] # << >> \/ vpu_cmd_sel'[v]
  <2>1. SUFFICES ASSUME ctl_fsm' \in {"SYNC", "WAIT"}, NEW v \in Vpu, fwd_wr'[v]
                 PROVE  fwd_fifo'[v] # << >> \/ vpu_cmd_sel'[v]
    OBVIOUS
  <2>2. cvpu_fifo[v] # << >> => fwd_wr[v]  BY <1>4, <2>1 DEF Held
  <2>3. ~Forwards  BY <1>1, <1>4, <2>1
  <2> QED  BY <1>0, <2>1, <2>2, <2>3, WaitsInView
<1> QED  BY <1>5, <1>6, <1>7, <1>8, <1>9, <1>10, <1>11 DEF Held

-----------------------------------------------------------------------------
(* Every step keeps the order.                                             *)

LEMMA CeasedStays ==
    ASSUME Inv, Ceased, NEW io, NEW serve \in BOOLEAN, NEW done, NEW err,
           Clock(io, serve, done, err), ~glb_start
    PROVE  Ceased'
<1>0. Types /\ Chained /\ Requests  BY DEF Inv
<1>1. drain' = IF drain THEN f_rq_vld \/ f_rs_vld ELSE o_stop_drain(err # {})
  BY DEF Clock, FetchClock, DrainFSM
<1>2. CASE rq_fsm = "IDLE" /\ rq_fifo = << >>
  <2>1. rq_fsm' = "IDLE"
    <3>1. /\ rq_fsm' \in {"IDLE", "SEND", "STLL"} /\ (rq_fsm' = "SEND" => NewRequest)
          /\ rq_fsm' = "STLL" => rq_fsm # "IDLE"
      BY <1>0, RequestMoves
    <3> QED  BY <1>2, <3>1 DEF NewRequest
  <2>2. rq_fifo' = << >>
    <3>1. Notes = FALSE  BY <1>0, <1>2 DEF Requests, Notes
    <3>2. rq_fifo' = Moved(rq_fifo, Takes, Notes, rq_addr)  BY <1>0, FetchMoves
    <3> QED  BY <1>2, <3>1, <3>2, EmptyStays
  <2> QED  BY <2>1, <2>2 DEF Ceased
<1>3. CASE ~drain /\ (flt_fetch \/ Halting)
  BY <1>1, <1>3 DEF o_stop_drain, Halting, Ceased
<1>4. CASE drain
  <2>1. CASE f_rq_vld \/ f_rs_vld  BY <1>1, <1>4, <2>1 DEF Ceased
  <2>2. CASE ~(f_rq_vld \/ f_rs_vld)
    <3>1. rq_fifo = << >> /\ ~f_rq_wr
      BY <1>0, <1>4, <2>2 DEF f_rq_vld, Requests, Types
    <3>2. hub_rq = << >> /\ hub_rs = << >>
      <4> DEFINE bs == B(f_rs_wr)   bo == B(o_rqa_wr)
      <4>1. /\ 0 + 0 = Len(rs_fifo) + bs + Len(rss_fifo) + Len(hub_rs) + Len(hub_rq) + bo
            /\ Len(rs_fifo) \in Nat /\ Len(rss_fifo) \in Nat
            /\ Len(hub_rs) \in Nat /\ Len(hub_rq) \in Nat
            /\ bs \in {0, 1} /\ bo \in {0, 1}
        <5>1. Len(rq_fifo) = 0 /\ B(f_rq_wr) = 0  BY <3>1, EmptySeq DEF B
        <5> QED  BY <1>0, <5>1, ChainCounts
      <4> HIDE DEF bs, bo
      <4>2. Len(hub_rs) = 0 /\ Len(hub_rq) = 0  BY <4>1
      <4> QED  BY <1>0, <4>2, EmptySeq DEF Types
    <3>3. rq_fsm = "IDLE"
      <4>1. Len(rq_fifo) = 0  BY <3>1, EmptySeq
      <4>2. ~(Len(rq_fifo) >= 2)  BY <4>1
      <4> QED  BY <1>0, <3>1, <3>2, <4>2 DEF Requests, Types
    <3> QED  BY <1>2, <3>1, <3>3
  <2> QED  BY <2>1, <2>2
<1> QED  BY <1>2, <1>3, <1>4 DEF Ceased

\* While a program runs the next command to be decoded is the one after the last.
LEMMA OrderStep ==
    ASSUME Inv, Held, base \in Int, last \in [Vpu -> Int],
           NEW s \in Int, NEW d \in Int, Chain(s), Order(s, d),
           NEW io, NEW serve \in BOOLEAN, NEW done, NEW err \in SUBSET Faulty,
           Clock(io, serve, done, err), ~glb_start,
           NEW u \in Int, u = s + B(Takes),
           NEW e \in Int,
           e = IF Forwards \/ (IsControl /\ ~Stop(Head(cmd_fifo))) THEN d + 1 ELSE d
    PROVE  Order(u, e)'
<1>0. Types /\ Chained /\ Requests /\ Quiet /\ Started /\ Rooms  BY DEF Inv
<1> DEFINE h == Head(cmd_fifo)   pop == Forwards \/ IsControl
<1>1. memory' = memory /\ base' = base
  BY DEF Clock, DispatchClock, GhostClock
<1>2. \A a \in Int : (Op(a))' = Op(a) /\ (Stop(a))' = Stop(a) /\ (Ends(a))' = Ends(a)
  BY <1>1 DEF Op, Stop, Ends
<1>3. /\ pop \/ IsBad => /\ dp_fsm = "DECD" /\ cmd_fifo # << >> /\ ~Halting /\ h = d
                         /\ Len(cmd_fifo) \in Nat \ {0}
  <2>1. pop \/ IsBad => dp_fsm = "DECD" /\ cmd_fifo # << >>
    BY DEF Forwards, IsControl, IsBad
  <2>2. pop \/ IsBad => ~Halting  BY <1>0, <2>1 DEF Rooms
  <2>3. pop \/ IsBad => Run(cmd_fifo, d)  BY <2>2 DEF Order
  <2>4. cmd_fifo \in Seq(Int)  BY <1>0 DEF Types
  <2>5. cmd_fifo # << >> => /\ 1 \in 1..Len(cmd_fifo) /\ h = cmd_fifo[1]
                            /\ Len(cmd_fifo) \in Nat \ {0}
    BY <2>4, HeadTailProperties, EmptySeq, LenProperties
  <2>6. pop \/ IsBad => cmd_fifo[1] = d + 1 - 1  BY <2>1, <2>3, <2>5 DEF Run
  <2> HIDE DEF pop, h
  <2> QED  BY <2>1, <2>2, <2>5, <2>6
<1>4. /\ Forwards => Op(d) = "vpu" /\ e = d + 1
      /\ IsControl => Op(d) \in {"nop", "sync"} /\ e = IF Stop(d) THEN d ELSE d + 1
      /\ ~pop => e = d
      /\ ~(Forwards /\ IsControl)
  <2>1. Forwards => Op(h) = "vpu"  BY DEF Forwards
  <2>2. IsControl => Op(h) \in {"nop", "sync"}  BY DEF IsControl
  <2> QED  BY <1>3, <2>1, <2>2
<1>5. e = d \/ (e = d + 1 /\ ~Ends(d) /\ pop)
  <2>1. Op(d) \in {"vpu", "nop"} => ~Stop(d)  BY DEF Stop
  <2> QED  BY <1>4, <2>1 DEF Ends
<1> HIDE DEF pop, h
<1>6. (base <= e /\ NoEnds(base, e))'
  <2>1. base <= d /\ \A a \in Int : base <= a /\ a < d => ~Ends(a)
    BY DEF Order, NoEnds
  <2>2. base <= e  BY <1>5, <2>1
  <2>3. ASSUME NEW a \in Int, base <= a, a < e  PROVE ~Ends(a)
    <3>1. a < d \/ (a = d /\ ~Ends(d))  BY <1>5, <2>3
    <3> QED  BY <2>1, <2>3, <3>1
  <2> QED  BY <1>1, <1>2, <2>2, <2>3 DEF NoEnds
<1>7. ~Ceased => ~flt_fetch /\ ~drain /\ ~Halting /\ s = d + Len(cmd_fifo)
  BY DEF Order, Ceased
<1>8. Receives => /\ ~Ceased /\ o_fetch_addr = d + Len(cmd_fifo)
                  /\ Takes = TRUE
  <2>1. SUFFICES ASSUME Receives  PROVE ~Ceased /\ o_fetch_addr = d + Len(cmd_fifo) /\ Takes
    BY DEF Takes
  <2>2. /\ rx_fsm = "READ" /\ ~drain /\ ~Halting /\ rq_fifo # << >> /\ Takes
    BY <2>1 DEF Receives, o_fetch_rd, o_fetch_vld, fetch_vld, f_rq_vld, Takes
  <2>3. ~Ceased  BY <2>2 DEF Held, Ceased
  <2>4. Run(rq_fifo, s) /\ rq_fifo \in Seq(Int)  BY <1>0 DEF Chain, Types
  <2>5. 1 \in 1..Len(rq_fifo) /\ Head(rq_fifo) = rq_fifo[1]
    BY <2>2, <2>4, HeadTailProperties, EmptySeq, LenProperties
  <2>6. Head(rq_fifo) = s + 1 - 1  BY <2>4, <2>5 DEF Run
  <2>7. Head(rq_fifo) = s  BY <2>6
  <2> QED  BY <1>7, <2>2, <2>3, <2>7 DEF o_fetch_addr
<1>9. ~Ceased /\ Takes /\ ~Receives => flt_fetch'
  <2>1. SUFFICES ASSUME ~Ceased, Takes, ~Receives  PROVE flt_fetch'
    OBVIOUS
  <2>2. o_fetch_rd /\ o_fetch_vld /\ Op(o_fetch_addr) = "err"
    BY <1>7, <2>1 DEF Takes, Receives, o_fetch_vld
  <2> QED  BY <2>2 DEF Clock, DispatchClock, ReceiveFSM
<1>10. IsControl /\ Stop(d) => Halting'
  BY <1>0, <1>3, DispatchCtl DEF Halting, pop, h
<1>11. ~(dp_fsm = "HALT" /\ Halting) =>
          /\ ~Halting /\ Run(cmd_fifo, d)
          /\ Len(cmd_fifo') = Len(cmd_fifo) - B(pop) + B(Receives)
          /\ Run(cmd_fifo', d + B(pop))
  <2>1. SUFFICES ASSUME ~(dp_fsm = "HALT" /\ Halting)
                 PROVE  /\ ~Halting /\ Run(cmd_fifo, d)
                        /\ Len(cmd_fifo') = Len(cmd_fifo) - B(pop) + B(Receives)
                        /\ Run(cmd_fifo', d + B(pop))
    OBVIOUS
  <2>2. ~Halting /\ Run(cmd_fifo, d)  BY <1>0, <2>1 DEF Rooms, Order
  <2>3. cmd_fifo' = Moved(cmd_fifo, pop, Receives, o_fetch_addr)
    BY <1>0, <2>1, DispatchMoves DEF pop
  <2>4. /\ cmd_fifo \in Seq(Int) /\ pop \in BOOLEAN /\ Receives \in BOOLEAN
        /\ Receives => o_fetch_addr \in Int
    BY <1>0, DispatchMoves DEF Types, pop, Forwards, IsControl, Receives
  <2>5. (pop /\ cmd_fifo # << >>) = pop  BY <1>3, <2>4
  <2> HIDE DEF Receives
  <2>6. /\ Len(Moved(cmd_fifo, pop, Receives, o_fetch_addr))
             = Len(cmd_fifo) - B(pop) + B(Receives)
        /\ Run(cmd_fifo, d) /\ (Receives => o_fetch_addr = d + Len(cmd_fifo))
             => Run(Moved(cmd_fifo, pop, Receives, o_fetch_addr), d + B(pop))
    <3>1. Moves(cmd_fifo, Moved(cmd_fifo, pop, Receives, o_fetch_addr),
                pop, Receives, o_fetch_addr)
      BY <2>4, <2>5, MovedMoves
    <3> QED  BY <3>1 DEF Moves
  <2> QED  BY <1>8, <2>2, <2>3, <2>6
<1>12. e = d + B(pop) \/ (IsControl /\ Stop(d))
  BY <1>4 DEF B, pop
<1>13. (Halting \/ Run(cmd_fifo, e))'
  <2>1. CASE dp_fsm = "HALT" /\ Halting
    <3>1. cmd_fifo' = << >>  BY <1>0, <2>1, DispatchMoves
    <3>2. Run(<< >>, e)  BY DEF Run
    <3> QED  BY <3>1, <3>2
  <2>2. CASE ~(dp_fsm = "HALT" /\ Halting)  BY <1>10, <1>11, <1>12, <2>2
  <2> QED  BY <2>1, <2>2
<1>14. (Ceased \/ u = e + Len(cmd_fifo))'
  <2>1. CASE Ceased  BY <2>1, CeasedStays
  <2>2. CASE ~Ceased /\ (flt_fetch' \/ Halting')  BY <2>2 DEF Ceased
  <2>3. CASE ~Ceased /\ ~flt_fetch' /\ ~Halting'
    <3>1. Takes = Receives
      BY <1>8, <1>9, <2>3 DEF Takes, Receives
    <3>2. /\ s = d + Len(cmd_fifo) /\ e = d + B(pop)
          /\ Len(cmd_fifo') = Len(cmd_fifo) - B(pop) + B(Receives)
          /\ u = s + B(Receives)
      BY <1>7, <1>10, <1>11, <1>12, <2>3, <3>1
    <3>3. B(pop) \in Int /\ B(Receives) \in Int /\ Len(cmd_fifo) \in Int
      BY <1>0, LenProperties DEF B, Types
    <3> DEFINE bp == B(pop)   br == B(Receives)   n == Len(cmd_fifo)   m == Len(cmd_fifo')
    <3>4. s = d + n /\ e = d + bp /\ m = n - bp + br /\ u = s + br
      BY <3>2
    <3>5. bp \in Int /\ br \in Int /\ n \in Int  BY <3>3
    <3> HIDE DEF bp, br, n, m
    <3>6. u = e + m  BY <3>4, <3>5
    <3> QED  BY <3>6 DEF m
  <2> QED  BY <2>1, <2>2, <2>3
<1>15. ASSUME NEW v \in Vpu  PROVE Line(v, e)'
  <2>1. \/ e = d /\ ~Passes(v)
        \/ e = d + 1 /\ Passes(v) /\ Head(cmd_fifo) = d
        \/ e = d + 1 /\ ~Passes(v) /\ v \notin Mask(d)
    <3>1. Passes(v) => Forwards  BY DEF Passes
    <3>2. Forwards => (Passes(v) <=> v \in Mask(d)) /\ Head(cmd_fifo) = d
      BY <1>3 DEF Passes, pop, h
    <3>3. IsControl => v \notin Mask(d)  BY <1>4 DEF Mask
    <3> QED  BY <1>4, <1>5, <3>1, <3>2, <3>3 DEF pop
  <2>2. Line(v, d)  BY DEF Order
  <2> QED  BY <1>0, <2>1, <2>2, LineStep
<1>16. (\A v \in Vpu : Line(v, e))'  BY <1>15
<1>17. (Parted(e) \/ (Holding /\ Parted(e - 1)))'
  <2>1. Forwards \/ IsControl => ~Holding
    <3>1. Forwards \/ IsControl => dp_fsm # "HALT" /\ cmd_fifo # << >>
      BY <1>3 DEF pop
    <3> QED  BY <1>0, <3>1 DEF Held, Quiet, Holding
  <2>2. ASSUME NEW b \in Int, NEW b1 \in Int, Parted(b), b <= b1,
               \A t \in Int : b <= t /\ t < b1 => Op(t) # "sync",
               Forwards => d < b1 /\ \A t \in Int : ~(d < t /\ t < b1)
        PROVE  Parted(b1)'
    <3>1. SUFFICES ASSUME NEW c \in InFlight'
                   PROVE  /\ c \in Int /\ c < b1
                          /\ \A t \in Int : c < t /\ t < b1 => Op(t) # "sync"
      BY <1>2 DEF Parted
    <3>2. c \in InFlight \/ (Forwards /\ c = d)
      BY <1>0, <1>3, InFlightStep DEF pop, h
    <3>3. CASE c \in InFlight
      <4>1. c \in Int /\ c < b /\ \A t \in Int : c < t /\ t < b => Op(t) # "sync"
        BY <2>2, <3>3 DEF Parted
      <4>2. c < b1  BY <2>2, <4>1
      <4>3. \A t \in Int : t < b \/ b <= t  OBVIOUS
      <4> QED  BY <2>2, <4>1, <4>2, <4>3
    <3>4. CASE Forwards /\ c = d  BY <2>2, <3>4
    <3> QED  BY <3>2, <3>3, <3>4
  <2>3. CASE Forwards
    <3>1. Parted(d)  BY <2>1, <2>3 DEF Order
    <3>2. e = d + 1 /\ d <= e /\ d < e /\ \A t \in Int : d <= t /\ t < e => t = d
      BY <1>4, <2>3
    <3>3. Op(d) # "sync"  BY <1>4, <2>3
    <3>4. Parted(e)'  BY <2>2, <3>1, <3>2, <3>3
    <3> QED  BY <3>4
  <2>4. CASE IsControl
    <3>1. Parted(d) /\ ~Forwards  BY <1>4, <2>1, <2>4 DEF Order
    <3>2. Parted(d)'
      <4>1. d <= d /\ \A t \in Int : ~(d <= t /\ t < d)  OBVIOUS
      <4> QED  BY <2>2, <3>1, <4>1
    <3>3. CASE Stop(d)
      <4>1. e = d  BY <1>4, <2>4, <3>3
      <4> QED  BY <3>2, <4>1
    <3>4. CASE ~Stop(d) /\ Op(d) = "sync"
      <4>1. e = d + 1 /\ e - 1 = d  BY <1>4, <2>4, <3>4
      <4>2. Holding'
        <5>1. h = d  BY <1>3, <2>4 DEF pop
        <5>2. ctl_sync' /\ ~StopCond'  BY <1>0, <2>4, <3>4, <5>1, DispatchCtl DEF h
        <5> QED  BY <5>2 DEF Holding, StopCond
      <4> QED  BY <3>2, <4>1, <4>2
    <3>5. CASE Op(d) = "nop"
      <4>1. e = d + 1 /\ d <= e /\ \A t \in Int : d <= t /\ t < e => t = d
        BY <1>4, <2>4, <3>5 DEF Stop
      <4>2. Op(d) # "sync"  BY <3>5
      <4>3. Parted(e)'  BY <2>2, <3>1, <4>1, <4>2
      <4> QED  BY <4>3
    <3> QED  BY <1>4, <2>4, <3>3, <3>4, <3>5
  <2>5. CASE ~pop
    <3>1. e = d /\ ~Forwards /\ ~IsControl  BY <1>4, <2>5 DEF pop
    <3>2. ASSUME NEW b \in Int, Parted(b)  PROVE Parted(b)'
      <4>1. b <= b /\ \A t \in Int : ~(b <= t /\ t < b)  OBVIOUS
      <4> QED  BY <2>2, <3>1, <3>2, <4>1
    <3>3. CASE Parted(d)  BY <3>1, <3>2, <3>3
    <3>4. CASE Holding /\ Parted(d - 1) /\ Holding'
      <4>1. d - 1 \in Int  OBVIOUS
      <4>2. Parted(d - 1)'  BY <3>2, <3>4, <4>1
      <4> QED  BY <3>1, <3>4, <4>2
    <3>5. CASE Holding /\ ~Holding'
      <4>1. ctl_fsm = "SYNC" /\ ~sync_wait
        <5>1. ctl_fsm = "IDLE" => ctl_fsm' = "IDLE"  BY <1>0, CtlMoves
        <5>2. ctl_sync /\ ~ctl_sync_stop => ctl_fsm' \in {"SYNC", "IDLE"}
          BY <1>0, CtlMoves DEF Held
        <5>3. ctl_fsm = "SYNC" /\ ctl_fsm' # "SYNC" => ~sync_wait  BY <1>0, CtlMoves
        <5> QED  BY <3>5, <5>1, <5>2, <5>3 DEF Holding
      <4>2. \A v \in Vpu : Clear(v)
        BY <4>1 DEF sync_wait, FwdPipesActive, vpus_busy, Held, Clear
      <4>3. InFlight = {}  BY <1>0, <4>2, InFlightClear
      <4>4. \A c \in InFlight' : FALSE  BY <1>0, <3>1, <4>3, InFlightStep
      <4>5. Parted(e)'  BY <4>4 DEF Parted
      <4> QED  BY <4>5
    <3> QED  BY <3>3, <3>4, <3>5 DEF Order
  <2> QED  BY <2>3, <2>4, <2>5 DEF pop
<1>18. (StopCond \/ ctl_fsm = "WAIT" \/ complete => Stop(e))'
  <2>1. CASE IsControl
    <3>1. /\ dp_fsm = "DECD" /\ h = d
          /\ StopCond' <=> Stop(d)
          /\ e = IF Stop(d) THEN d ELSE d + 1
      BY <1>0, <1>3, <1>4, <2>1, DispatchCtl DEF pop, h
    <3>2. ctl_fsm' # "WAIT" /\ ~complete'
      <4>1. ~StopCond /\ ctl_fsm # "WAIT"  BY <3>1 DEF Held, StopCond
      <4> QED  BY <1>0, <4>1, CtlMoves
    <3> QED  BY <1>2, <3>1, <3>2
  <2>2. CASE ~IsControl
    <3>1. SUFFICES ASSUME (StopCond \/ ctl_fsm = "WAIT" \/ complete)'  PROVE (Stop(e))'
      OBVIOUS
    <3>2. StopCond' => FALSE
      <4>1. StopCond' => ctl_sync /\ dp_fsm # "HALT"
        BY <1>0, <2>2, DispatchCtl DEF StopCond
      <4> QED  BY <4>1 DEF Held
    <3>3. ctl_fsm = "WAIT" \/ StopCond  BY <1>0, <3>1, <3>2, CtlMoves
    <3>4. dp_fsm = "HALT"  BY <3>3 DEF Held, StopCond
    <3>5. e = d  BY <1>3, <1>4, <3>4
    <3> QED  BY <1>2, <3>3, <3>5 DEF Order
  <2> QED  BY <2>1, <2>2
<1> QED  BY <1>6, <1>13, <1>14, <1>16, <1>17, <1>18 DEF Order

\* A start finds nothing of an earlier program, and begins an order of its own.
LEMMA OrderStart ==
    ASSUME Inv, Held, NEW io, NEW serve \in BOOLEAN, NEW done, NEW err \in SUBSET Faulty,
           Clock(io, serve, done, err), glb_start,
           NEW f \in Int, f = fetch_addr
    PROVE  Chain(f)' /\ Order(f, f)'
<1>0. Types /\ Chained /\ Requests /\ Quiet /\ Started  BY DEF Inv
<1>1. /\ ctl_fsm = "IDLE" /\ rq_fifo = << >> /\ cmd_fifo = << >>
      /\ \A v \in Vpu : Clear(v)
  BY <1>0 DEF Types, Quiet, Started, Clear
<1>2. (\A v \in Vpu : Clear(v))'  BY <1>0, <1>1, ClearStays
<1>3. Takes = FALSE  BY <1>1 DEF Takes, fetch_vld, f_rq_vld
<1>4. Chain(f)'
  <2>1. Chain(f) /\ f = Requesting(f)  BY <1>0, ChainAtStart
  <2>2. f = f + B(Takes)  BY <1>3 DEF B
  <2>3. NewRequest => fetch_addr = Requesting(f)  BY <2>1
  <2> QED  BY <1>0, <1>1, <2>1, <2>2, <2>3, ChainMoves
<1>5. base' = f /\ \A v \in Vpu : last'[v] = f - 1
  BY DEF Clock, GhostClock
<1>6. cmd_fifo' = << >>
  <2>1. Forwards \/ IsControl <=> FALSE  BY <1>1 DEF Forwards, IsControl
  <2>2. Receives = FALSE
    BY <1>1 DEF Receives, o_fetch_vld, fetch_vld, f_rq_vld
  <2>3. cmd_fifo' = IF dp_fsm = "HALT" /\ Halting THEN << >>
                    ELSE Moved(cmd_fifo, Forwards \/ IsControl, Receives, o_fetch_addr)
    BY <1>0, DispatchMoves
  <2> QED  BY <1>1, <2>2, <2>3, EmptyStays
<1>7. (InFlight = {})'
  <2>1. Types'  BY <1>0, TypesStep
  <2> QED  BY <1>2, <2>1, InFlightClear, PTL
<1>8. ~StopCond' /\ ctl_fsm' = "EXEC" /\ ~complete'
  <2>1. ~IsControl  BY <1>1 DEF IsControl
  <2>2. ~StopCond'
    <3>1. ctl_sync' = (ctl_sync /\ dp_fsm # "HALT")  BY <1>0, <2>1, DispatchCtl
    <3> QED  BY <1>1, <3>1 DEF Held, StopCond
  <2> QED  BY <1>0, <1>1, <2>2, CtlMoves
<1>9. (base <= f /\ NoEnds(base, f))'
  <2>1. f <= f /\ \A a \in Int : ~(f <= a /\ a < f)  BY <1>1
  <2> QED  BY <1>5, <2>1 DEF NoEnds
<1>10. (Halting \/ Run(cmd_fifo, f))'
  <2>1. Run(<< >>, f)  BY DEF Run
  <2> QED  BY <1>6, <2>1
<1>11. (Ceased \/ f = f + Len(cmd_fifo))'
  <2>1. f = f + Len(<< >>)  BY <1>1
  <2> QED  BY <1>6, <2>1
<1>12. ASSUME NEW v \in Vpu  PROVE Line(v, f)'
  <2>1. \A C \in SUBSET Int : Holds(<< >>, C, f - 1, f - 1)
    <3>1. f - 1 \in Int /\ f - 1 <= f - 1 /\ \A a \in Int : ~(f - 1 < a /\ a <= f - 1)
      BY <1>1
    <3> DEFINE g == f - 1
    <3> HIDE DEF g
    <3>2. \A C \in SUBSET Int : Holds(<< >>, C, g, g)  BY <3>1, HoldsEmpty DEF g
    <3> QED  BY <3>2 DEF g
  <2>2. For(v)' \in SUBSET Int  BY DEF For
  <2>3. /\ Reg(vpu_cmd_sel'[v], vpu_cmd'[v]) = << >> /\ fwd_fifo'[v] = << >>
        /\ Reg(fwd_wr'[v], fwd_cmd'[v]) = << >> /\ cvpu_fifo'[v] = << >>
    BY <1>2 DEF Clear, Reg
  <2>4. f - 1 \in Int  BY <1>1
  <2> QED  BY <1>5, <2>1, <2>2, <2>3, <2>4 DEF Line
<1>13. (\A v \in Vpu : Line(v, f))'  BY <1>12
<1>14. Parted(f)'  BY <1>7 DEF Parted
<1>15. Order(f, f)'  BY <1>8, <1>9, <1>10, <1>11, <1>13, <1>14 DEF Order
<1> QED  BY <1>4, <1>15

LEMMA OrderedStep ==
    ASSUME Inv, Held, Ordered,
           NEW io, NEW serve \in BOOLEAN, NEW done, NEW err \in SUBSET Faulty,
           Clock(io, serve, done, err)
    PROVE  Ordered'
<1>0. Types  BY DEF Inv
<1>1. base' \in Int /\ last' \in [Vpu -> Int]
  <2>1. /\ base' = IF glb_start THEN fetch_addr ELSE base
        /\ last' = [v \in Vpu |-> IF glb_start THEN fetch_addr - 1
                                  ELSE IF Accepts(v) THEN vpu_cmd[v] ELSE last[v]]
    BY DEF Clock, GhostClock
  <2>2. /\ base \in Int /\ fetch_addr \in Int
        /\ \A v \in Vpu : last[v] \in Int /\ vpu_cmd[v] \in Int
    BY <1>0 DEF Types, Ordered
  <2> QED  BY <2>1, <2>2
<1>2. CASE glb_start
  <2>1. PICK f \in Int : f = fetch_addr  BY <1>0 DEF Types
  <2>2. Chain(f)' /\ Order(f, f)'  BY <1>2, <2>1, OrderStart
  <2> QED  BY <1>1, <2>2 DEF Ordered
<1>3. CASE ~glb_start
  <2>1. PICK s \in Int, d \in Int : Chain(s) /\ Order(s, d)  BY DEF Ordered
  <2>2. PICK u \in Int : u = s + B(Takes)  BY <2>1 DEF B
  <2>3. PICK e \in Int :
           e = IF Forwards \/ (IsControl /\ ~Stop(Head(cmd_fifo))) THEN d + 1 ELSE d
    BY <2>1
  <2>4. Order(u, e)'  BY <1>3, <2>1, <2>2, <2>3, OrderStep DEF Ordered
  <2>5. NewRequest => fetch_addr = Requesting(s)
    <3>1. NewRequest => rq_fsm # "IDLE"  BY <1>3 DEF NewRequest
    <3> QED  BY <2>1, <3>1 DEF Chain
  <2>6. Chain(u)'  BY <1>0, <2>1, <2>2, <2>5, ChainMoves DEF Inv
  <2> QED  BY <1>1, <2>4, <2>6 DEF Ordered
<1> QED  BY <1>2, <1>3

-----------------------------------------------------------------------------
LEMMA InitOrder == Init => Held /\ Ordered
<1> SUFFICES ASSUME Init  PROVE Held /\ Ordered
  OBVIOUS
<1>1. /\ fetch_addr = 0 /\ rq_fsm = "IDLE" /\ rq_fifo = << >> /\ cmd_fifo = << >>
      /\ rx_fsm = "IDLE" /\ dp_fsm = "IDLE" /\ ctl_fsm = "IDLE"
      /\ flt_fetch = FALSE /\ flt_decode = FALSE /\ ctl_nop = FALSE
      /\ ctl_sync = FALSE /\ ctl_sync_stop = FALSE
      /\ unhalt = FALSE /\ complete = FALSE /\ glb_start = FALSE
      /\ base = 0 /\ last = [v \in Vpu |-> -1]
      /\ \A v \in Vpu : Clear(v)
  BY DEF Init, FetchInit, DispatchInit, ExecuteInit, ForwardInit, Clear
<1>2. InFlight = {}  BY <1>1, InitInv, InFlightClear DEF Inv
<1>3. Held  BY <1>1 DEF Held
<1>4. ASSUME NEW v \in Vpu  PROVE Line(v, 0)
  <2>1. \A C \in SUBSET Int : Holds(<< >>, C, -1, -1)
    <3>1. \A a \in Int : ~(-1 < a /\ a <= -1)  OBVIOUS
    <3>2. -1 \in Int /\ -1 <= -1  OBVIOUS
    <3> QED  BY <3>1, <3>2, HoldsEmpty
  <2>2. For(v) \in SUBSET Int  BY DEF For
  <2>3. /\ Reg(vpu_cmd_sel[v], vpu_cmd[v]) = << >> /\ fwd_fifo[v] = << >>
        /\ Reg(fwd_wr[v], fwd_cmd[v]) = << >> /\ cvpu_fifo[v] = << >>
        /\ last[v] = -1
    BY <1>1 DEF Clear, Reg
  <2>4. 0 - 1 = -1  OBVIOUS
  <2> QED  BY <2>1, <2>2, <2>3, <2>4 DEF Line
<1>5. Order(0, 0)
  <2>1. Run(cmd_fifo, 0)  BY <1>1 DEF Run
  <2>2. Ceased  BY <1>1 DEF Ceased
  <2>3. NoEnds(base, 0) /\ base <= 0  BY <1>1 DEF NoEnds
  <2>4. Parted(0)  BY <1>2 DEF Parted
  <2>5. ~(StopCond \/ ctl_fsm = "WAIT" \/ complete)  BY <1>1 DEF StopCond
  <2> QED  BY <1>4, <2>1, <2>2, <2>3, <2>4, <2>5 DEF Order
<1>6. Chain(0)  BY InitInv
<1> QED  BY <1>1, <1>3, <1>5, <1>6 DEF Ordered

LEMMA StutterOrder == Held /\ Ordered /\ UNCHANGED vars => Held' /\ Ordered'
<1> SUFFICES ASSUME Held, Ordered, UNCHANGED vars  PROVE Held' /\ Ordered'
  OBVIOUS
<1>1. UNCHANGED <<fetchVars, memory, dispatchVars, executeVars, forwardVars, regioVars,
                  hubVars, vpuVars, base, last>>
  BY DEF vars, ghostVars
<1> USE <1>1 DEF fetchVars, rqVars, dispatchVars, ctlVars, executeVars, forwardVars,
                 regioVars, hubVars, vpuVars
<1>2. InFlight' = InFlight  BY DEF InFlight, ForwardedTo
<1>3. Held'  BY <1>2 DEF Held
<1>4. PICK s \in Int, d \in Int : Chain(s) /\ Order(s, d)  BY DEF Ordered
<1>5. Chain(s)'
  BY <1>4 DEF Chain, Requesting, Asking, Serving, Arriving, Storing, Sending
<1>6. \A a \in Int : (Op(a))' = Op(a) /\ (Stop(a))' = Stop(a) /\ (Ends(a))' = Ends(a)
  BY DEF Op, Stop, Ends
<1>7. \A v \in Vpu : Line(v, d)'
  <2>1. \A v \in Vpu : For(v)' = For(v)  BY DEF For, Mask, Op
  <2> QED  BY <1>4, <2>1 DEF Order, Line
<1>8. Order(s, d)'
  <2>1. (base <= d /\ NoEnds(base, d))'  BY <1>4, <1>6 DEF Order, NoEnds
  <2>2. (Halting \/ Run(cmd_fifo, d))'  BY <1>4 DEF Order, Halting, StopCond
  <2>3. (Ceased \/ s = d + Len(cmd_fifo))'
    BY <1>4 DEF Order, Ceased, Halting, StopCond
  <2>4. (Parted(d) \/ (Holding /\ Parted(d - 1)))'
    BY <1>2, <1>4, <1>6 DEF Order, Parted, Holding
  <2>5. (StopCond \/ ctl_fsm = "WAIT" \/ complete => Stop(d))'
    BY <1>4, <1>6 DEF Order, StopCond
  <2> QED  BY <1>7, <2>1, <2>2, <2>3, <2>4, <2>5 DEF Order
<1> QED  BY <1>3, <1>4, <1>5, <1>8 DEF Ordered

\* The order of commands, and what the execute unit holds back, stay as they are
\* described here whatever the program.
THEOREM OrderInductive ==
    ASSUME FetchDepth >= 3
    PROVE  Spec => [](Inv /\ Held /\ Ordered)
<1>1. ASSUME Inv, Held, Ordered, [Next]_vars  PROVE Held' /\ Ordered'
  <2>1. CASE Next
    <3>1. PICK io \in Programs(memory) \cup {-2, -1}, serve \in BOOLEAN,
               done \in SUBSET Vpu, err \in SUBSET Faulty : Clock(io, serve, done, err)
      BY <2>1 DEF Next
    <3> QED  BY <1>1, <3>1, HeldStep, OrderedStep
  <2>2. CASE UNCHANGED vars  BY <1>1, <2>2, StutterOrder
  <2> QED  BY <1>1, <2>1, <2>2
<1> QED  BY InitOrder, CtrlUnitInductive, <1>1, PTL DEF Spec

\* The command offered to v is the next of those for it, and stands before the
\* next to be decoded.
LEMMA Offered ==
    ASSUME Types, last \in [Vpu -> Int], NEW d \in Int, NEW v \in Vpu, Line(v, d),
           vpu_cmd_sel[v]
    PROVE  /\ vpu_cmd[v] \in For(v) /\ last[v] < vpu_cmd[v] /\ vpu_cmd[v] < d
           /\ \A a \in For(v) : ~(last[v] < a /\ a < vpu_cmd[v])
<1> DEFINE C == For(v)   l == last[v]   cmd == vpu_cmd[v]   q == <<cmd>>
<1>1. PICK x \in Int, y \in Int, z \in Int :
        /\ Holds(Reg(vpu_cmd_sel[v], cmd), C, l, x) /\ Holds(fwd_fifo[v], C, x, y)
        /\ Holds(Reg(fwd_wr[v], fwd_cmd[v]), C, y, z) /\ Holds(cvpu_fifo[v], C, z, d - 1)
  BY DEF Line
<1>2. x <= y /\ y <= z /\ z <= d - 1  BY <1>1 DEF Holds
<1>3. C \in SUBSET Int /\ l \in Int /\ cmd \in Int  BY DEF Types, For
<1>4. q \in Seq(Int) /\ q # << >> /\ Head(q) = cmd  BY <1>3
<1>5. Holds(q, C, l, x)  BY <1>1 DEF Reg
<1> HIDE DEF C, l, cmd, q
<1>6. cmd \in C /\ l < cmd /\ cmd <= x /\ \A a \in C : ~(l < a /\ a < cmd)
  BY <1>3, <1>4, <1>5, HoldsPop
<1>7. cmd < d  BY <1>2, <1>3, <1>6
<1> QED  BY <1>6, <1>7 DEF C, l, cmd

\* Where nothing is on its way to v, it has taken all that is for it.
LEMMA AllTaken ==
    ASSUME last \in [Vpu -> Int], NEW d \in Int, NEW v \in Vpu, Line(v, d), Clear(v),
           NEW a \in For(v), a < d
    PROVE  a <= last[v]
<1> DEFINE C == For(v)   l == last[v]
<1>1. PICK x \in Int, y \in Int, z \in Int :
        /\ Holds(Reg(vpu_cmd_sel[v], vpu_cmd[v]), C, l, x) /\ Holds(fwd_fifo[v], C, x, y)
        /\ Holds(Reg(fwd_wr[v], fwd_cmd[v]), C, y, z) /\ Holds(cvpu_fifo[v], C, z, d - 1)
  BY DEF Line
<1>2. /\ Holds(<< >>, C, l, x) /\ Holds(<< >>, C, x, y)
      /\ Holds(<< >>, C, y, z) /\ Holds(<< >>, C, z, d - 1)
  BY <1>1 DEF Clear, Reg
<1>3. C \in SUBSET Int /\ l \in Int /\ d - 1 \in Int /\ a \in C /\ a \in Int
  BY DEF For
<1> HIDE DEF C, l
<1>4. /\ ~(l < a /\ a <= x) /\ ~(x < a /\ a <= y) /\ ~(y < a /\ a <= z)
      /\ ~(z < a /\ a <= d - 1)
  BY <1>2, <1>3, HoldsEmpty
<1>5. a <= l  BY <1>3, <1>4
<1> QED  BY <1>5 DEF l

\* A vector unit gets the commands of the program that are for it, in order and
\* without a gap, and none from behind the end of the program.
THEOREM OrderKept ==
    ASSUME FetchDepth >= 3
    PROVE  Spec => CommandsInOrder
<1>1. ASSUME Inv, Ordered, NEW v \in Vpu, Accepts(v)
      PROVE  /\ v \in Mask(vpu_cmd[v])
             /\ \A a \in Addresses :
                   /\ base <= a /\ a < vpu_cmd[v] => ~Ends(a)
                   /\ v \in Mask(a) /\ base <= a => (a <= last[v] \/ a >= vpu_cmd[v])
             /\ last[v] < vpu_cmd[v]
  <2>1. PICK s \in Int, d \in Int : Chain(s) /\ Order(s, d)  BY <1>1 DEF Ordered
  <2>2. Types /\ last \in [Vpu -> Int] /\ Line(v, d)
    BY <1>1, <2>1 DEF Inv, Ordered, Order
  <2>3. /\ vpu_cmd[v] \in For(v) /\ last[v] < vpu_cmd[v] /\ vpu_cmd[v] < d
        /\ \A a \in For(v) : ~(last[v] < a /\ a < vpu_cmd[v])
    BY <1>1, <2>2, Offered DEF Accepts
  <2>4. ASSUME NEW a \in Addresses
        PROVE  /\ base <= a /\ a < vpu_cmd[v] => ~Ends(a)
               /\ v \in Mask(a) => (a <= last[v] \/ a >= vpu_cmd[v])
    <3>1. a \in Int /\ vpu_cmd[v] \in Int /\ last[v] \in Int
      BY <2>2, ImagesAssumption DEF Types, Addresses
    <3>2. base <= a /\ a < d => ~Ends(a)  BY <2>1, <3>1 DEF Order, NoEnds
    <3>3. v \in Mask(a) => a \in For(v)  BY <3>1 DEF For
    <3> QED  BY <2>3, <3>1, <3>2, <3>3
  <2> QED  BY <2>3, <2>4 DEF For
<1>2. Inv /\ Held /\ Ordered =>
        \A v \in Vpu : Accepts(v) =>
          /\ v \in Mask(vpu_cmd[v])
          /\ \A a \in Addresses :
                /\ base <= a /\ a < vpu_cmd[v] => ~Ends(a)
                /\ v \in Mask(a) /\ base <= a => (a <= last[v] \/ a >= vpu_cmd[v])
          /\ last[v] < vpu_cmd[v]
  BY <1>1
<1> QED  BY <1>2, OrderInductive, PTL DEF CommandsInOrder

\* Commands before and after a SYNC are never under way together: those under way
\* stand all before, or all behind it.
THEOREM SyncParts ==
    ASSUME FetchDepth >= 3
    PROVE  Spec => []SyncBarrier
<1>1. ASSUME Inv, Ordered, NEW c1 \in InFlight, NEW c2 \in InFlight,
             NEW t \in Addresses, Op(t) = "sync"
      PROVE  c1 < t <=> c2 < t
  <2>1. PICK b \in Int : Parted(b)
    <3>1. PICK s \in Int, d \in Int : Order(s, d)  BY <1>1 DEF Ordered
    <3>2. d - 1 \in Int  BY <3>1
    <3> QED  BY <3>1, <3>2 DEF Order
  <2>2. t \in Int  BY <1>1, ImagesAssumption DEF Inv, Types, Addresses
  <2>3. /\ c1 \in Int /\ c1 < b /\ ~(c1 < t /\ t < b)
        /\ c2 \in Int /\ c2 < b /\ ~(c2 < t /\ t < b)
    BY <1>1, <2>1, <2>2 DEF Parted
  <2> QED  BY <2>1, <2>2, <2>3
<1>2. Inv /\ Held /\ Ordered => SyncBarrier  BY <1>1 DEF SyncBarrier
<1> QED  BY <1>2, OrderInductive, PTL

\* At completion every command before the end is finished.
LEMMA CompleteCarried ==
    ASSUME Inv, Held, Ordered, complete
    PROVE  InFlight = {} /\ Carried
<1>1. PICK s \in Int, d \in Int : Chain(s) /\ Order(s, d)  BY DEF Ordered
<1>2. InFlight = {}  BY DEF Held
<1>3. Stop(d) /\ base <= d /\ NoEnds(base, d)  BY <1>1 DEF Order
<1>4. d \in Addresses
  <2>1. Op(d) = "sync"  BY <1>3 DEF Stop
  <2> QED  BY <2>1 DEF Op, Addresses
<1>5. \A v \in Vpu : Clear(v)  BY <1>2, InFlightClear DEF Inv
<1>6. ASSUME NEW a \in Addresses, base <= a, a < d
      PROVE  ~Ends(a) /\ \A v \in Mask(a) : a <= last[v]
  <2>1. a \in Int  BY ImagesAssumption DEF Inv, Types, Addresses
  <2>2. ~Ends(a)  BY <1>3, <1>6, <2>1 DEF NoEnds
  <2>3. ASSUME NEW v \in Mask(a)  PROVE a <= last[v]
    <3>1. v \in Vpu
      <4>1. a \in DOMAIN memory /\ memory \in Images /\ memory[a].op = "vpu"
            /\ v \in memory[a].mask
        BY <2>3 DEF Inv, Types, Addresses, Mask, Op
      <4> QED  BY <4>1, ImagesAssumption
    <3>2. a \in For(v)  BY <2>1, <2>3 DEF For
    <3>3. Line(v, d) /\ Clear(v) /\ last \in [Vpu -> Int]
      BY <1>1, <1>5, <3>1 DEF Order, Ordered
    <3> QED  BY <1>1, <1>6, <3>1, <3>2, <3>3, AllTaken
  <2> QED  BY <2>2, <2>3
<1> QED  BY <1>2, <1>3, <1>4, <1>6 DEF Carried

\* When the engine tells the completion of a program, every command before its
\* end has reached its vector units and is finished.
THEOREM CompletionTrue ==
    ASSUME FetchDepth >= 3
    PROVE  Spec => []CompleteMeansDone
<1>1. Inv /\ Held /\ Ordered => CompleteMeansDone  BY CompleteCarried DEF CompleteMeansDone
<1> QED  BY <1>1, OrderInductive, PTL

-----------------------------------------------------------------------------
(* The interrupt at the end.                                               *)

\* A SYNC interrupts when it ends a program, and only then: the driver refuses other
\* flags than none (vxe_prog.c:442) and appends the SYNC that has both (vxe_prog.c:625).
QuietSyncs ==
    \A m \in Images : \A a \in DOMAIN m : m[a].op = "sync" => (m[a].intr <=> m[a].stop)

\* A fault is among the bits to be sent.
WordFault == "ERR_FETCH" \in intr \/ "ERR_INSTR" \in intr
FaultNoted == WordFault \/ ("ERR_DATA" \in intr /\ erred)

\* From the start of a program to its interrupt
Reporting == ctl_fsm # "IDLE" \/ send_intr \/ intr_vld

\* The addresses noted for a fault are those of such words, in the program under way.
FaultAt ==
    /\ flt_fetch => base <= flt_fetch_addr /\ Op(flt_fetch_addr) = "err"
    /\ flt_decode => base <= flt_decode_addr /\ Op(flt_decode_addr) = "bad"
    /\ "ERR_INSTR" \in intr => base <= last_instr_addr /\ Op(last_instr_addr) = "bad"
    /\ "ERR_FETCH" \in intr /\ "ERR_INSTR" \notin intr =>
          base <= last_instr_addr /\ Op(last_instr_addr) = "err"

\* No word from before the program under way is still to be dispatched.
Ahead == \E s \in Int : Chain(s) /\ base <= s

\* A program whose requests have stopped before a SYNC that ends it has met a fault.
\* It is told once: the bits are cleared before the next program starts.
Told ==
    /\ FaultAt
    /\ ctl_sync => ctl_sync_intr = ctl_sync_stop
    /\ ctl_fsm = "SYNC" => sync_intr = FALSE
    /\ ctl_fsm = "WAIT" => sync_intr = TRUE
    /\ glb_start => ~drain
    /\ WordFault => Reporting
    /\ erred /\ Reporting => "ERR_DATA" \in intr
    /\ "COMPLETED" \in intr => intr_vld /\ Carried
    /\ complete => send_intr
    /\ ctl_fsm \in {"EXEC", "SYNC"} /\ (drain \/ rq_fsm = "IDLE") => FaultNoted
    /\ send_intr => /\ ctl_fsm = "IDLE" /\ ~cu_start /\ ~glb_start /\ ~intr_vld
                    /\ complete \/ FaultNoted
    /\ intr_vld => /\ ctl_fsm = "IDLE" /\ ~glb_start
                   /\ "COMPLETED" \in intr \/ FaultNoted

LEMMA AheadStep ==
    ASSUME Inv, Held, Ordered, Ahead, NEW io, NEW serve \in BOOLEAN, NEW done,
           NEW err \in SUBSET Faulty, Clock(io, serve, done, err)
    PROVE  Ahead'
<1>0. Types /\ Requests  BY DEF Inv
<1>1. CASE glb_start
  <2>1. PICK f \in Int : f = fetch_addr  BY <1>0 DEF Types
  <2>2. Chain(f)' /\ Order(f, f)'  BY <1>1, <2>1, OrderStart
  <2>3. (base <= f)'  BY <2>2 DEF Order
  <2> QED  BY <2>2, <2>3 DEF Ahead
<1>2. CASE ~glb_start
  <2>1. PICK s \in Int : Chain(s) /\ base <= s  BY DEF Ahead
  <2>2. PICK u \in Int : u = s + B(Takes) /\ s <= u  BY DEF B
  <2>3. NewRequest => fetch_addr = Requesting(s)
    <3>1. NewRequest => rq_fsm # "IDLE"  BY <1>2 DEF NewRequest
    <3> QED  BY <2>1, <3>1 DEF Chain
  <2>4. Chain(u)'  BY <1>0, <2>1, <2>2, <2>3, ChainMoves
  <2>5. base' = base /\ base \in Int  BY <1>2 DEF Clock, GhostClock, Ordered
  <2>6. base <= u  BY <2>1, <2>2, <2>5
  <2>7. (base <= u)'  BY <2>5, <2>6
  <2> QED  BY <2>4, <2>7 DEF Ahead
<1> QED  BY <1>1, <1>2

LEMMA RunHead ==
    ASSUME NEW q \in Seq(Int), q # << >>, NEW s \in Int, Run(q, s)
    PROVE  Head(q) = s
<1>1. 1 \in 1..Len(q) /\ Head(q) = q[1]
  BY HeadTailProperties, EmptySeq, LenProperties
<1> QED  BY <1>1 DEF Run

LEMMA BitsMove ==
    ASSUME NEW io, NEW serve, NEW done, NEW err, Clock(io, serve, done, err)
    PROVE  /\ "COMPLETED" \in intr' <=> ("COMPLETED" \in intr /\ ~intr_vld) \/ complete
           /\ "ERR_DATA" \in intr' <=> ("ERR_DATA" \in intr /\ ~intr_vld) \/ err # {}
           /\ "ERR_FETCH" \in intr' <=> ("ERR_FETCH" \in intr /\ ~intr_vld) \/ flt_fetch
           /\ "ERR_INSTR" \in intr' <=> ("ERR_INSTR" \in intr /\ ~intr_vld) \/ flt_decode
           /\ last_instr_addr' = IF flt_decode THEN flt_decode_addr
                                 ELSE IF flt_fetch /\ "ERR_INSTR" \notin intr
                                 THEN flt_fetch_addr ELSE last_instr_addr
           /\ intr_vld' = send_intr
           /\ erred' <=> ~glb_start /\ (erred \/ err # {})
BY DEF Clock, IntrClock, GhostClock, IntrBits

\* A fault is met at a word that is the next to be received or to be decoded, and
\* therefore in the program under way; it lasts for one cycle.
LEMMA FaultsMove ==
    ASSUME Inv, Held, Ordered, Ahead, NEW io, NEW serve, NEW done, NEW err,
           Clock(io, serve, done, err)
    PROVE  /\ flt_fetch' => base <= flt_fetch_addr' /\ Op(flt_fetch_addr') = "err"
           /\ flt_decode' => base <= flt_decode_addr' /\ Op(flt_decode_addr') = "bad"
           /\ ctl_fsm = "IDLE" => ~flt_fetch' /\ ~flt_decode'
           /\ memory' = memory
<1>0. Types /\ Quiet /\ Rooms  BY DEF Inv
<1> DEFINE a == IF o_fetch_vld THEN o_fetch_addr ELSE 0
           faulty == o_fetch_rd /\ o_fetch_vld /\ Op(a) = "err"
<1>1. ReceiveFSM(o_fetch_vld, a, unhalt) /\ DispatchFSM(unhalt) /\ memory' = memory
  BY DEF Clock, DispatchClock
<1>2. flt_fetch' => faulty /\ flt_fetch_addr' = a
  BY <1>1 DEF ReceiveFSM, Held
<1>3. flt_decode' => IsBad /\ flt_decode_addr' = Head(cmd_fifo)
  BY <1>0, <1>1 DEF DispatchFSM, Rooms, Halting
<1>4. faulty => base <= a /\ rq_fifo # << >>
  <2>1. SUFFICES ASSUME o_fetch_vld  PROVE base <= o_fetch_addr /\ rq_fifo # << >>
    OBVIOUS
  <2>2. rq_fifo \in Seq(Int) /\ rq_fifo # << >>
    BY <1>0, <2>1 DEF Types, o_fetch_vld, fetch_vld, f_rq_vld
  <2>3. PICK s \in Int : Run(rq_fifo, s) /\ base <= s  BY DEF Ahead, Chain
  <2> QED  BY <2>2, <2>3, RunHead DEF o_fetch_addr
<1>5. IsBad => base <= Head(cmd_fifo) /\ cmd_fifo # << >>
  <2>1. SUFFICES ASSUME IsBad  PROVE base <= Head(cmd_fifo) /\ cmd_fifo # << >>
    OBVIOUS
  <2>2. cmd_fifo \in Seq(Int) /\ cmd_fifo # << >> /\ ~Halting
    BY <1>0, <2>1 DEF Types, Rooms, IsBad
  <2>3. PICK d \in Int : Run(cmd_fifo, d) /\ base <= d  BY <2>2 DEF Ordered, Order
  <2> QED  BY <2>2, <2>3, RunHead
<1>6. faulty => Op(a) = "err"  OBVIOUS
<1>7. IsBad => Op(Head(cmd_fifo)) = "bad"  BY DEF IsBad
<1> HIDE DEF a, faulty
<1> QED  BY <1>0, <1>1, <1>2, <1>3, <1>4, <1>5, <1>6, <1>7 DEF Quiet

\* The word that an interrupt names
LEMMA FaultAtStep ==
    ASSUME Inv, Held, Ordered, Ahead, Told, NEW io, NEW serve, NEW done, NEW err,
           Clock(io, serve, done, err)
    PROVE  FaultAt' /\ (WordFault' => ctl_fsm # "IDLE" \/ (WordFault /\ ~intr_vld))
<1>0. Quiet /\ Started  BY DEF Inv
<1>1. /\ flt_fetch' => base <= flt_fetch_addr' /\ Op(flt_fetch_addr') = "err"
      /\ flt_decode' => base <= flt_decode_addr' /\ Op(flt_decode_addr') = "bad"
      /\ ctl_fsm = "IDLE" => ~flt_fetch' /\ ~flt_decode'
      /\ memory' = memory
  BY FaultsMove
<1>2. /\ "ERR_FETCH" \in intr' <=> ("ERR_FETCH" \in intr /\ ~intr_vld) \/ flt_fetch
      /\ "ERR_INSTR" \in intr' <=> ("ERR_INSTR" \in intr /\ ~intr_vld) \/ flt_decode
      /\ last_instr_addr' = IF flt_decode THEN flt_decode_addr
                            ELSE IF flt_fetch /\ "ERR_INSTR" \notin intr
                            THEN flt_fetch_addr ELSE last_instr_addr
  BY BitsMove
<1>3. ctl_fsm = "IDLE" => ~flt_fetch /\ ~flt_decode  BY <1>0 DEF Quiet
<1>4. WordFault' => ctl_fsm # "IDLE" \/ (WordFault /\ ~intr_vld)
  BY <1>2, <1>3 DEF WordFault
<1>5. /\ (Op(flt_fetch_addr))' = Op(flt_fetch_addr')
      /\ (Op(flt_decode_addr))' = Op(flt_decode_addr')
      /\ (Op(last_instr_addr))' = Op(last_instr_addr')
  BY <1>1 DEF Op
<1>6. CASE glb_start
  <2>1. ctl_fsm = "IDLE" /\ ~WordFault  BY <1>0, <1>6 DEF Started, Told, Reporting
  <2>2. ~WordFault' /\ ~flt_fetch' /\ ~flt_decode'  BY <1>1, <1>4, <2>1
  <2> QED  BY <1>4, <2>2 DEF FaultAt, WordFault
<1>7. CASE ~glb_start
  <2>1. base' = base  BY <1>7 DEF Clock, GhostClock
  <2>2. intr_vld => ~flt_fetch /\ ~flt_decode  BY <1>3 DEF Told
  <2>3. /\ flt_fetch => base <= flt_fetch_addr /\ Op(flt_fetch_addr) = "err"
        /\ flt_decode => base <= flt_decode_addr /\ Op(flt_decode_addr) = "bad"
        /\ "ERR_INSTR" \in intr => base <= last_instr_addr /\ Op(last_instr_addr) = "bad"
        /\ "ERR_FETCH" \in intr /\ "ERR_INSTR" \notin intr =>
              base <= last_instr_addr /\ Op(last_instr_addr) = "err"
    BY DEF Told, FaultAt
  <2>4. "ERR_INSTR" \in intr' =>
           base <= last_instr_addr' /\ Op(last_instr_addr') = "bad"
    BY <1>2, <2>3
  <2>5. "ERR_FETCH" \in intr' /\ "ERR_INSTR" \notin intr' =>
           base <= last_instr_addr' /\ Op(last_instr_addr') = "err"
    BY <1>2, <2>2, <2>3
  <2> QED  BY <1>1, <1>4, <1>5, <2>1, <2>4, <2>5 DEF FaultAt
<1> QED  BY <1>6, <1>7

\* What was carried out stays so until the next program starts.
LEMMA CarriedStays ==
    ASSUME Carried, InFlight = {}, ~glb_start, last \in [Vpu -> Int],
           NEW io, NEW serve, NEW done, NEW err, Clock(io, serve, done, err)
    PROVE  Carried'
<1>1. memory' = memory /\ base' = base
      /\ last' = [v \in Vpu |-> IF Accepts(v) THEN vpu_cmd[v] ELSE last[v]]
  BY DEF Clock, DispatchClock, GhostClock
<1>2. \A v \in Vpu : ~vpu_cmd_sel[v]
  BY DEF InFlight, ForwardedTo
<1>3. last' = last  BY <1>1, <1>2 DEF Accepts
<1> QED  BY <1>1, <1>3 DEF Carried, Addresses, Stop, Ends, Mask, Op

LEMMA ToldStep ==
    ASSUME QuietSyncs, Inv, Held, Ordered, Ahead, Told,
           NEW io, NEW serve \in BOOLEAN, NEW done, NEW err \in SUBSET Faulty,
           Clock(io, serve, done, err)
    PROVE  Told'
<1>0. Types /\ Requests /\ Quiet /\ Started  BY DEF Inv
<1> DEFINE busy == units_busy(err # {})
<1>1. /\ "COMPLETED" \in intr' <=> ("COMPLETED" \in intr /\ ~intr_vld) \/ complete
      /\ "ERR_DATA" \in intr' <=> ("ERR_DATA" \in intr /\ ~intr_vld) \/ err # {}
      /\ "ERR_FETCH" \in intr' <=> ("ERR_FETCH" \in intr /\ ~intr_vld) \/ flt_fetch
      /\ "ERR_INSTR" \in intr' <=> ("ERR_INSTR" \in intr /\ ~intr_vld) \/ flt_decode
      /\ intr_vld' = send_intr
      /\ erred' <=> ~glb_start /\ (erred \/ err # {})
  BY BitsMove
<1>2. FaultAt' /\ (WordFault' => ctl_fsm # "IDLE" \/ (WordFault /\ ~intr_vld))
  BY FaultAtStep
<1>3. FaultNoted /\ ~glb_start /\ ~intr_vld => FaultNoted'
  BY <1>1 DEF FaultNoted, WordFault
<1>4. /\ cu_start' => ~busy /\ ctl_fsm = "IDLE"
      /\ glb_start' => cu_start /\ ~busy /\ ctl_fsm = "IDLE"
  BY DEF Clock, RegioClock, glb_busy
<1>5. \/ ExecuteIdle(glb_start)
      \/ ExecuteCommand(ctl_nop, ctl_sync, ctl_sync_stop, ctl_sync_intr, busy)
      \/ ExecuteSync(sync_wait)
      \/ ExecuteWait(busy)
  BY DEF Clock, Execute
<1>6. /\ ctl_sync => ctl_sync_intr = ctl_sync_stop
      /\ ctl_fsm = "SYNC" => sync_intr = FALSE
      /\ ctl_fsm = "WAIT" => sync_intr = TRUE
      /\ complete => send_intr
      /\ send_intr => ctl_fsm = "IDLE" /\ ~cu_start /\ ~glb_start /\ ~intr_vld
      /\ intr_vld => ctl_fsm = "IDLE" /\ ~glb_start
  BY DEF Told
<1>7. ctl_sync' => ctl_sync_intr' = ctl_sync_stop'
  <2>1. CASE ~IsControl
    <3>1. ctl_sync' = (ctl_sync /\ dp_fsm # "HALT")  BY <1>0, <2>1, DispatchCtl
    <3> QED  BY <3>1 DEF Held
  <2>2. CASE IsControl
    <3> DEFINE h == Head(cmd_fifo)   w == memory[h]
    <3>1. Op(h) \in {"nop", "sync"}  BY <2>2 DEF IsControl
    <3>2. h \in DOMAIN memory /\ memory \in Images  BY <1>0, <3>1 DEF Op, Types
    <3>3. w.op = "sync" => (w.intr <=> w.stop)  BY <3>2 DEF QuietSyncs
    <3>4. /\ ctl_sync_stop' = (w.op = "sync" /\ w.stop)
          /\ ctl_sync_intr' = (w.op = "sync" /\ w.intr)
      BY <2>2 DEF Clock, DispatchClock, DispatchFSM
    <3> HIDE DEF w
    <3> QED  BY <3>3, <3>4
  <2> QED  BY <2>1, <2>2
<1>8. /\ ctl_fsm' = "SYNC" => sync_intr' = FALSE
      /\ ctl_fsm' = "WAIT" => sync_intr' = TRUE
      /\ complete' => send_intr'
      /\ ctl_fsm # "IDLE" => ctl_fsm' # "IDLE" \/ send_intr'
      /\ send_intr' => /\ ctl_fsm' = "IDLE" /\ ctl_fsm \in {"EXEC", "WAIT"} /\ ~busy
                       /\ ctl_fsm = "EXEC" \/ complete'
  <2> HIDE DEF busy
  <2>1. CASE ExecuteIdle(glb_start)  BY <2>1 DEF ExecuteIdle, Silent
  <2>2. CASE ExecuteCommand(ctl_nop, ctl_sync, ctl_sync_stop, ctl_sync_intr, busy)
    BY <1>0, <1>6, <2>2 DEF ExecuteCommand, End, Silent, Types
  <2>3. CASE ExecuteSync(sync_wait)
    BY <1>6, <2>3 DEF ExecuteSync, executeVars, Held
  <2>4. CASE ExecuteWait(busy)
    BY <1>6, <2>4 DEF ExecuteWait, executeVars, End, Held
  <2> QED  BY <1>5, <2>1, <2>2, <2>3, <2>4
<1>9. glb_start' => ~drain'
  <2>1. drain' = IF drain THEN f_rq_vld \/ f_rs_vld ELSE o_stop_drain(err # {})
    BY DEF Clock, FetchClock, DrainFSM
  <2> QED  BY <1>4, <2>1 DEF units_busy, FetchBusy
<1>10. ctl_fsm # "IDLE" => ~glb_start /\ ~send_intr /\ ~intr_vld /\ ~complete
  BY <1>0, <1>6 DEF Started
<1>11. WordFault' => Reporting'
  BY <1>1, <1>2, <1>8 DEF Told, Reporting
<1>12. erred' /\ Reporting' => "ERR_DATA" \in intr'
  <2>1. SUFFICES ASSUME erred', Reporting', err = {}  PROVE "ERR_DATA" \in intr'
    BY <1>1
  <2>2. erred /\ ~glb_start  BY <1>1, <2>1
  <2>3. ctl_fsm = "IDLE" => ctl_fsm' = "IDLE"  BY <1>0, <2>2, CtlMoves
  <2>4. Reporting /\ ~intr_vld  BY <1>1, <1>6, <1>8, <1>10, <2>1, <2>3 DEF Reporting
  <2> QED  BY <1>1, <2>2, <2>4 DEF Told
<1>13. "COMPLETED" \in intr' => intr_vld' /\ Carried'
  <2>1. "COMPLETED" \in intr' => complete  BY <1>1 DEF Told
  <2>2. SUFFICES ASSUME complete  PROVE Carried'
    BY <1>1, <1>6, <2>1
  <2>3. InFlight = {} /\ Carried  BY <2>2, CompleteCarried
  <2>4. ~glb_start  BY <1>6, <2>2
  <2> QED  BY <2>3, <2>4, CarriedStays DEF Ordered
<1>14. send_intr' => /\ ~cu_start' /\ ~glb_start' /\ ~intr_vld'
                     /\ complete' \/ FaultNoted'
  <2>1. SUFFICES ASSUME send_intr'
                 PROVE  /\ ~cu_start' /\ ~glb_start' /\ ~intr_vld'
                        /\ complete' \/ FaultNoted'
    OBVIOUS
  <2>2. ctl_fsm \in {"EXEC", "WAIT"} /\ ~busy /\ (ctl_fsm = "EXEC" \/ complete')
    BY <1>8, <2>1
  <2>3. ctl_fsm = "EXEC" => FaultNoted
    <3>1. rq_fsm = "IDLE"  BY <2>2 DEF units_busy, FetchBusy
    <3> QED  BY <3>1 DEF Told
  <2> QED  BY <1>1, <1>3, <1>4, <1>10, <2>2, <2>3
<1>15. intr_vld' => /\ ctl_fsm' = "IDLE" /\ ~glb_start'
                    /\ "COMPLETED" \in intr' \/ FaultNoted'
  <2>1. SUFFICES ASSUME send_intr
                 PROVE  /\ ctl_fsm' = "IDLE" /\ ~glb_start'
                        /\ "COMPLETED" \in intr' \/ FaultNoted'
    BY <1>1
  <2>2. /\ ctl_fsm = "IDLE" /\ ~cu_start /\ ~glb_start /\ ~intr_vld
        /\ complete \/ FaultNoted
    BY <2>1 DEF Told
  <2>3. ctl_fsm' = "IDLE"  BY <1>0, <2>2, CtlMoves
  <2> QED  BY <1>1, <1>3, <1>4, <2>2, <2>3
<1>16. ctl_fsm' \in {"EXEC", "SYNC"} /\ (drain' \/ rq_fsm' = "IDLE") => FaultNoted'
  <2>1. SUFFICES ASSUME ctl_fsm' \in {"EXEC", "SYNC"}, drain' \/ rq_fsm' = "IDLE"
                 PROVE  FaultNoted'
    OBVIOUS
  <2>2. drain' = IF drain THEN f_rq_vld \/ f_rs_vld ELSE o_stop_drain(err # {})
    BY DEF Clock, FetchClock, DrainFSM
  <2>3. /\ rq_fsm' = "SEND" <=> NewRequest
        /\ rq_fsm' = "IDLE" => rq_fsm = "IDLE" \/ drain
    BY <1>0, RequestMoves
  <2>4. CASE ctl_fsm = "IDLE"
    <3>1. glb_start  BY <1>0, <2>1, <2>4, CtlMoves
    <3>2. ~drain /\ rq_fsm = "IDLE"  BY <1>0, <2>4, <3>1 DEF Told, Quiet
    <3>3. rq_fsm' # "IDLE"  BY <2>3, <3>1, <3>2 DEF NewRequest
    <3>4. err = {}
      <4>1. \A v \in err : v \in Vpu /\ vpu_queue[v] # << >>
        BY AroundAssumption DEF Clock, VpuClock
      <4> QED  BY <1>0, <3>1, <4>1 DEF Started
    <3>5. ~drain'  BY <1>0, <2>2, <2>4, <3>2, <3>4 DEF o_stop_drain, Quiet
    <3> QED  BY <2>1, <3>3, <3>5
  <2>5. CASE ctl_fsm \in {"EXEC", "SYNC"}
    <3>1. ~glb_start /\ ~intr_vld  BY <1>10, <2>5
    <3>2. CASE drain \/ rq_fsm = "IDLE"
      <4>1. FaultNoted  BY <2>5, <3>2 DEF Told
      <4> QED  BY <1>3, <3>1, <4>1
    <3>3. CASE ~drain /\ rq_fsm # "IDLE"
      <4>1. o_stop_drain(err # {})  BY <2>1, <2>2, <2>3, <3>3
      <4>2. ~StopCond
        <5>1. StopCond => ctl_fsm = "EXEC"  BY DEF StopCond, Held
        <5>2. busy  BY <4>1 DEF units_busy, FetchBusy
        <5>3. StopCond => ctl_fsm' = "WAIT"
          BY <1>5, <5>1, <5>2
             DEF ExecuteIdle, ExecuteCommand, ExecuteSync, ExecuteWait, StopCond
        <5> QED  BY <2>1, <5>3
      <4>3. flt_fetch \/ flt_decode \/ err # {}  BY <4>1, <4>2 DEF o_stop_drain
      <4> QED  BY <1>1, <3>1, <4>3 DEF FaultNoted, WordFault
    <3> QED  BY <3>2, <3>3
  <2>6. CASE ctl_fsm = "WAIT"
    <3>1. ctl_fsm' \in {"WAIT", "IDLE"}
      BY <1>5, <2>6 DEF ExecuteIdle, ExecuteCommand, ExecuteSync, ExecuteWait, executeVars, End
    <3> QED  BY <2>1, <3>1
  <2> QED  BY <1>0, <2>4, <2>5, <2>6 DEF Types
<1> QED  BY <1>2, <1>7, <1>8, <1>9, <1>11, <1>12, <1>13, <1>14, <1>15, <1>16 DEF Told

\* The interrupt that ends a program says how this program ended, for the programs
\* that the driver lets pass: an interrupt of a SYNC in the middle of a program takes
\* the bits along that a fault has set, and the one at the end may have none.
THEOREM EndTold ==
    ASSUME FetchDepth >= 3, QuietSyncs
    PROVE  Spec => []EndIsTold
<1>1. Init => Ahead /\ Told
  <2>1. SUFFICES ASSUME Init  PROVE Ahead /\ Told
    OBVIOUS
  <2>2. Ahead
    <3>1. Chain(0) /\ base = 0  BY <2>1, InitInv DEF Init
    <3> QED  BY <3>1 DEF Ahead
  <2> QED
    BY <2>1, <2>2 DEF Init, FetchInit, DispatchInit, ExecuteInit, Told, FaultAt, WordFault
<1>2. ASSUME Inv, Held, Ordered, Ahead, Told, [Next]_vars  PROVE Ahead' /\ Told'
  <2>1. CASE Next
    <3>1. PICK io \in Programs(memory) \cup {-2, -1}, serve \in BOOLEAN,
               done \in SUBSET Vpu, err \in SUBSET Faulty : Clock(io, serve, done, err)
      BY <2>1 DEF Next
    <3> QED  BY <1>2, <3>1, AheadStep, ToldStep
  <2>2. CASE UNCHANGED vars
    <3>1. UNCHANGED <<fetchVars, memory, dispatchVars, executeVars, intrVars, regioVars,
                      hubVars, ghostVars>>
      BY <2>2 DEF vars
    <3>2. PICK s \in Int : Chain(s) /\ base <= s  BY <1>2 DEF Ahead
    <3>3. Chain(s)' /\ (base <= s)'
      BY <3>1, <3>2 DEF Chain, Requesting, Asking, Serving, Arriving, Storing, Sending,
                        fetchVars, rqVars, hubVars, ghostVars
    <3>4. Told'
      BY <1>2, <3>1
         DEF Told, FaultAt, FaultNoted, WordFault, Reporting, Carried, Addresses, Stop, Ends,
             Mask, Op, fetchVars, rqVars, dispatchVars, ctlVars, executeVars, intrVars,
             regioVars, ghostVars
    <3> QED  BY <3>3, <3>4 DEF Ahead
  <2> QED  BY <1>2, <2>1, <2>2
<1>3. Told => EndIsTold
  BY DEF Told, FaultAt, FaultNoted, WordFault, Reporting, EndIsTold
<1> QED  BY <1>1, <1>2, <1>3, OrderInductive, PTL DEF Spec

=============================================================================
