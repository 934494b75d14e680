--------------------------- MODULE VxeFifoProofs ---------------------------
(***************************************************************************)
(* vxe_fifo and vxe_fifo_2 implement the bounded queue, for every depth of *)
(* at least two.  Both are a ring of registers, and the first part proves  *)
(* of any ring what moving its read pointer on and writing the slot after  *)
(* its last value do to the sequence it stands for.  The rest shows of     *)
(* each FIFO that its pointers and flags make it such a ring.              *)
(***************************************************************************)
EXTENDS VxeFifo, VxeFifo2, TLAPS, SequenceTheorems

\* A function on 1..n is a sequence of that length.
LEMMA FunIsSeq ==
    ASSUME NEW S, NEW n \in Nat, NEW f \in [1..n -> S]
    PROVE  f \in Seq(S) /\ Len(f) = n /\ (f # << >> <=> n > 0)
<1>1. f \in Seq(S) OBVIOUS
<1>2. Len(f) = n BY LenProperties, <1>1
<1>3. QED BY <1>1, <1>2, EmptySeq

\* Two functions on 1..n are equal when they agree everywhere.
LEMMA FunEqual ==
    ASSUME NEW S, NEW n \in Nat, NEW f \in [1..n -> S], NEW g \in [1..n -> S],
           \A i \in 1..n : f[i] = g[i]
    PROVE  f = g
OBVIOUS

\* Tail drops the first value and shifts the others down.
LEMMA TailFun ==
    ASSUME NEW S, NEW n \in Nat, n > 0, NEW f \in [1..n -> S]
    PROVE  /\ Head(f) = f[1]
           /\ Tail(f) = [i \in 1..(n - 1) |-> f[i + 1]]
<1>1. f \in Seq(S) /\ Len(f) = n /\ f # << >> BY FunIsSeq
<1>2. Head(f) = f[1] BY <1>1, HeadTailProperties
<1>3. Tail(f) \in Seq(S) /\ Len(Tail(f)) = n - 1 BY <1>1, HeadTailProperties
<1>4. \A i \in 1..(n - 1) : Tail(f)[i] = f[i + 1]
  BY <1>1, <1>3, HeadTailProperties
<1>5. Tail(f) \in [1..(n - 1) -> S] BY <1>3, LenProperties
<1>6. QED BY <1>2, <1>4, <1>5

\* Append adds a value at place n + 1.
LEMMA AppendFun ==
    ASSUME NEW S, NEW n \in Nat, NEW f \in [1..n -> S], NEW d \in S
    PROVE  Append(f, d) = [i \in 1..(n + 1) |-> IF i <= n THEN f[i] ELSE d]
<1>1. f \in Seq(S) /\ Len(f) = n BY FunIsSeq
<1>2. /\ Append(f, d) \in Seq(S)
      /\ Len(Append(f, d)) = n + 1
      /\ \A i \in 1..n : Append(f, d)[i] = f[i]
      /\ Append(f, d)[n + 1] = d
  BY <1>1, AppendProperties
<1>3. Append(f, d) \in [1..(n + 1) -> S] BY <1>2, LenProperties
<1>4. \A i \in 1..(n + 1) : Append(f, d)[i] = IF i <= n THEN f[i] ELSE d
  BY <1>2
<1>5. QED BY <1>3, <1>4

-----------------------------------------------------------------------------
LEMMA AtSlot ==
    ASSUME NEW r \in Slots, NEW i \in 1..Depth
    PROVE  At(r, i) \in Slots
BY DepthAssumption DEF At, Slots

\* Distinct places of a ring that is not overfull are distinct slots.
LEMMA AtInjective ==
    ASSUME NEW r \in Slots, NEW i \in 1..Depth, NEW j \in 1..Depth, i # j
    PROVE  At(r, i) # At(r, j)
BY DepthAssumption DEF At, Slots

\* Place i of the ring read from the next slot is place i + 1.
LEMMA AtNext ==
    ASSUME NEW r \in Slots, NEW i \in 1..(Depth - 1)
    PROVE  /\ NextSlot(r) \in Slots
           /\ At(NextSlot(r), i) = At(r, i + 1)
BY DepthAssumption DEF At, Slots, NextSlot

LEMMA RingType ==
    ASSUME NEW ring \in [Slots -> Data], NEW r \in Slots, NEW n \in 0..Depth
    PROVE  /\ Ring(ring, r, n) \in [1..n -> Data]
           /\ Ring(ring, r, n) \in Seq(Data)
           /\ Len(Ring(ring, r, n)) = n
           /\ Ring(ring, r, n) # << >> <=> n > 0
<1>1. n \in Nat /\ 1..n \subseteq 1..Depth BY DepthAssumption
<1>2. \A i \in 1..n : ring[At(r, i)] \in Data BY <1>1, AtSlot
<1>3. Ring(ring, r, n) \in [1..n -> Data] BY <1>2 DEF Ring
<1>4. QED BY <1>1, <1>3, FunIsSeq

\* Moving the read pointer on drops the oldest value.
LEMMA RingPop ==
    ASSUME NEW ring \in [Slots -> Data], NEW r \in Slots, NEW n \in 1..Depth
    PROVE  /\ Head(Ring(ring, r, n)) = ring[r]
           /\ Tail(Ring(ring, r, n)) = Ring(ring, NextSlot(r), n - 1)
<1>1. n \in Nat /\ n > 0 /\ n \in 0..Depth BY DepthAssumption
<1>2. Ring(ring, r, n) \in [1..n -> Data] BY <1>1, RingType
<1>3. /\ Head(Ring(ring, r, n)) = Ring(ring, r, n)[1]
      /\ Tail(Ring(ring, r, n)) = [i \in 1..(n - 1) |-> Ring(ring, r, n)[i + 1]]
  <2> DEFINE f == Ring(ring, r, n)
  <2>1. n \in Nat /\ n > 0 /\ f \in [1..n -> Data]  BY <1>1, <1>2
  <2> HIDE DEF f
  <2>2. Head(f) = f[1] /\ Tail(f) = [i \in 1..(n - 1) |-> f[i + 1]]  BY <2>1, TailFun
  <2> QED  BY <2>2 DEF f
<1>4. \A i \in 1..n : Ring(ring, r, n)[i] = ring[At(r, i)] BY DEF Ring
<1>5. Head(Ring(ring, r, n)) = ring[r]
  <2>1. 1 \in 1..n BY <1>1
  <2>2. At(r, 1) = r BY DepthAssumption DEF At, Slots
  <2>3. QED BY <1>3, <1>4, <2>1, <2>2
<1>6. \A i \in 1..(n - 1) :
        Ring(ring, r, n)[i + 1] = ring[At(NextSlot(r), i)]
  <2> TAKE i \in 1..(n - 1)
  <2>1. i \in 1..(Depth - 1) /\ i + 1 \in 1..n BY DepthAssumption
  <2>2. QED BY <1>4, <2>1, AtNext
<1>7. QED BY <1>3, <1>5, <1>6 DEF Ring

\* Writing the slot after the last value appends a value.
LEMMA RingPush ==
    ASSUME NEW ring \in [Slots -> Data], NEW r \in Slots,
           NEW n \in 0..(Depth - 1), NEW d \in Data
    PROVE  Append(Ring(ring, r, n), d)
             = Ring([ring EXCEPT ![At(r, n + 1)] = d], r, n + 1)
<1> DEFINE w == At(r, n + 1)
           new == [ring EXCEPT ![w] = d]
<1>1. n \in Nat /\ n \in 0..Depth /\ n + 1 \in 1..Depth BY DepthAssumption
<1>2. Ring(ring, r, n) \in [1..n -> Data] BY <1>1, RingType
<1>3. Append(Ring(ring, r, n), d)
        = [i \in 1..(n + 1) |-> IF i <= n THEN Ring(ring, r, n)[i] ELSE d]
  BY <1>1, <1>2, AppendFun
<1>4. w \in Slots BY <1>1, AtSlot
<1>5. \A i \in 1..(n + 1) :
        new[At(r, i)] = IF i <= n THEN Ring(ring, r, n)[i] ELSE d
  <2> TAKE i \in 1..(n + 1)
  <2>1. i \in 1..Depth BY <1>1, DepthAssumption
  <2>2. At(r, i) \in Slots BY <2>1, AtSlot
  <2>3. CASE i = n + 1
    <3>1. new[At(r, i)] = d BY <1>4, <2>3
    <3>2. ~(i <= n) BY <1>1, <2>3
    <3>3. QED BY <3>1, <3>2
  <2>4. CASE i # n + 1
    <3>1. i \in 1..n /\ i <= n BY <1>1, <2>4
    <3>2. At(r, i) # w BY <1>1, <2>1, <2>4, AtInjective
    <3>3. new[At(r, i)] = ring[At(r, i)] BY <2>2, <3>2
    <3>4. Ring(ring, r, n)[i] = ring[At(r, i)] BY <3>1 DEF Ring
    <3>5. QED BY <3>1, <3>3, <3>4
  <2>5. QED BY <2>3, <2>4
<1>6. QED BY <1>3, <1>5 DEF Ring

\* The step that both FIFOs take at an edge of the clock: a ring of n values
\* from slot r on, with the slot after the last of them as the write pointer,
\* becomes ring2, with n2 values from slot r2 on, and g is what leaves.
RingStep(ring, r, n, i, g, ring2, r2, n2) ==
    /\ g = IF i.rd /\ n > 0 THEN <<ring[r]>> ELSE << >>
    /\ r2 = IF i.rd /\ n > 0 THEN NextSlot(r) ELSE r
    /\ ring2 = IF i.wr /\ n < Depth
               THEN [ring EXCEPT ![At(r, n + 1)] = i.data_in] ELSE ring
    /\ n2 = n - (IF i.rd /\ n > 0 THEN 1 ELSE 0)
             + (IF i.wr /\ n < Depth THEN 1 ELSE 0)

\* The step of the queue.
QueueStep(q, i, g, q2) ==
    /\ g = IF i.rd /\ q # << >> THEN <<Head(q)>> ELSE << >>
    /\ q2 = FifoNext(q, Depth, i.rd, i.wr, i.data_in)

\* The ring takes the step of the queue.
LEMMA RingClock ==
    ASSUME NEW ring \in [Slots -> Data], NEW r \in Slots, NEW n \in 0..Depth,
           NEW i \in Inputs,
           NEW g, NEW ring2, NEW r2, NEW n2,
           RingStep(ring, r, n, i, g, ring2, r2, n2)
    PROVE  QueueStep(Ring(ring, r, n), i, g, Ring(ring2, r2, n2))
<1> DEFINE rd == i.rd
           wr == i.wr
           d == i.data_in
           C == Ring(ring, r, n)
           w == At(r, n + 1)
           k == IF rd /\ n > 0 THEN n - 1 ELSE n
<1>0. /\ g = IF rd /\ n > 0 THEN <<ring[r]>> ELSE << >>
      /\ r2 = IF rd /\ n > 0 THEN NextSlot(r) ELSE r
      /\ ring2 = IF wr /\ n < Depth THEN [ring EXCEPT ![w] = d] ELSE ring
      /\ n2 = n - (IF rd /\ n > 0 THEN 1 ELSE 0) + (IF wr /\ n < Depth THEN 1 ELSE 0)
  BY DEF RingStep
<1>a. rd \in BOOLEAN /\ wr \in BOOLEAN /\ d \in Data
  BY DEF Inputs
<1>1. C \in Seq(Data) /\ Len(C) = n /\ (C # << >> <=> n > 0)
  BY RingType
<1>2. n > 0 => /\ Head(C) = ring[r]
               /\ Tail(C) = Ring(ring, NextSlot(r), n - 1)
  <2> HAVE n > 0
  <2>1. n \in 1..Depth BY DepthAssumption
  <2>2. QED BY <2>1, RingPop
\* What is left after the read is the ring from the new read pointer on.
<1>3. /\ r2 \in Slots /\ k \in 0..Depth
      /\ FifoRead(C, rd) = Ring(ring, r2, k)
  <2>1. CASE rd /\ n > 0
    <3>1. NextSlot(r) \in Slots /\ n - 1 \in 0..Depth
      BY <2>1, DepthAssumption DEF NextSlot, Slots
    <3>2. FifoRead(C, rd) = Tail(C) BY <1>1, <2>1 DEF FifoRead
    <3>3. r2 = NextSlot(r) /\ k = n - 1 BY <1>0, <2>1
    <3>4. QED BY <1>2, <2>1, <3>1, <3>2, <3>3
  <2>2. CASE ~(rd /\ n > 0)
    <3>1. r2 = r /\ k = n BY <1>0, <2>2
    <3>2. FifoRead(C, rd) = C BY <1>1, <2>2 DEF FifoRead
    <3>3. QED BY <3>1, <3>2
  <2>3. QED BY <2>1, <2>2
\* What is written goes after the values kept.
<1>4. Ring(ring2, r2, n2) = FifoNext(C, Depth, rd, wr, d)
  <2>1. CASE wr /\ n < Depth
    <3>1. k \in 0..(Depth - 1) /\ n2 = k + 1
      BY <1>0, <2>1, DepthAssumption
    <3>2. w = At(r2, k + 1)
      <4>1. CASE rd /\ n > 0
        <5>1. n \in 1..(Depth - 1) BY <2>1, <4>1, DepthAssumption
        <5>2. At(NextSlot(r), n) = At(r, n + 1) BY <5>1, AtNext
        <5>3. r2 = NextSlot(r) /\ k + 1 = n BY <1>0, <4>1, <5>1, DepthAssumption
        <5>4. QED BY <2>1, <5>2, <5>3
      <4>2. CASE ~(rd /\ n > 0)
        <5>1. r2 = r /\ k = n BY <1>0, <4>2
        <5>2. QED BY <2>1, <5>1
      <4>3. QED BY <4>1, <4>2
    <3>3. Append(Ring(ring, r2, k), d)
            = Ring([ring EXCEPT ![At(r2, k + 1)] = d], r2, k + 1)
      BY <1>a, <1>3, <3>1, RingPush
    <3>4. ring2 = [ring EXCEPT ![w] = d] BY <1>0, <2>1
    <3>5. FifoNext(C, Depth, rd, wr, d) = Append(FifoRead(C, rd), d)
      BY <1>1, <2>1 DEF FifoNext
    <3>6. QED BY <1>3, <3>1, <3>2, <3>3, <3>4, <3>5
  <2>2. CASE ~(wr /\ n < Depth)
    <3>1. n2 = k BY <1>0, <2>2, DepthAssumption
    <3>2. ring2 = ring BY <1>0, <2>2
    <3>3. FifoNext(C, Depth, rd, wr, d) = FifoRead(C, rd)
      BY <1>1, <2>2 DEF FifoNext
    <3>4. QED BY <1>3, <3>1, <3>2, <3>3
  <2>3. QED BY <2>1, <2>2
\* What leaves is the oldest value.
<1>5. g = IF rd /\ C # << >> THEN <<Head(C)>> ELSE << >>
  BY <1>0, <1>1, <1>2
<1>6. QED BY <1>4, <1>5 DEF QueueStep

-----------------------------------------------------------------------------
(* vxe_fifo                                                                *)

\* The registers of vxe_fifo keep their types.
THEOREM FifoTypeCorrect == Spec => []TypeOK
<1>1. Init => TypeOK
  <2>1. 0 \in Slots BY DepthAssumption DEF Slots
  <2>2. QED BY <2>1, EmptySeq DEF Init, TypeOK
<1>2. TypeOK /\ [Next]_vars => TypeOK'
  <2>a. SUFFICES ASSUME TypeOK, [Next]_vars PROVE TypeOK'
    OBVIOUS
  <2>1. ASSUME Reset PROVE TypeOK'
    BY <2>a, <2>1, DepthAssumption DEF TypeOK, Reset, Slots
  <2>2. ASSUME NEW i \in Inputs, Clock(i) PROVE TypeOK'
    <3>1. i.rd \in BOOLEAN /\ i.wr \in BOOLEAN /\ i.data_in \in Data
      BY DEF Inputs
    <3>2. NextSlot(rd_p) \in Slots /\ NextSlot(wr_p) \in Slots
      BY <2>a, DepthAssumption DEF TypeOK, Slots, NextSlot
    <3>3. rd_p' \in Slots
      BY <2>a, <2>2, <3>2 DEF TypeOK, Clock, ReadPort
    <3>4. got' \in Seq(Data)
      BY <2>a, <2>2 DEF TypeOK, Clock, ReadPort
    <3>5. wr_p' \in Slots /\ fifo_buf' \in [Slots -> Data]
      BY <2>a, <2>2, <3>1, <3>2 DEF TypeOK, Clock, WritePort
    <3>6. wr_nrd' \in BOOLEAN /\ in' \in Inputs
      BY <2>a, <2>2, <3>1 DEF TypeOK, Clock, WrNrd
    <3>7. QED BY <3>3, <3>4, <3>5, <3>6 DEF TypeOK
  <2>3. ASSUME UNCHANGED vars PROVE TypeOK'
    BY <2>a, <2>3 DEF TypeOK, vars
  <2>4. QED BY <2>a, <2>1, <2>2, <2>3 DEF Next
<1>3. QED BY <1>1, <1>2, PTL DEF Spec

-----------------------------------------------------------------------------
\* The flags read the number of values off the pointers and wr_nrd.
LEMMA CountFlags ==
    ASSUME TypeOK
    PROVE  /\ Count \in 0..Depth
           /\ empty <=> Count = 0
           /\ full <=> Count = Depth
BY DepthAssumption DEF TypeOK, Count, empty, full, Slots

\* The write pointer is the slot after the last value.
LEMMA WritePointer ==
    ASSUME TypeOK, Count < Depth
    PROVE  wr_p = At(rd_p, Count + 1)
BY DepthAssumption DEF TypeOK, Count, At, Slots

\* How many values there are after a clock.  With rd and wr both given wr_nrd
\* keeps its value, and the two pointers tell the number all the same: this is
\* where a depth of one would fail.
LEMMA CountNext ==
    ASSUME TypeOK, NEW i \in Inputs, Clock(i)
    PROVE  Count' = Count - (IF i.rd /\ ~empty THEN 1 ELSE 0)
                          + (IF i.wr /\ ~full THEN 1 ELSE 0)
<1>1. i.rd \in BOOLEAN /\ i.wr \in BOOLEAN BY DEF Inputs
<1>2. rd_p \in Slots /\ wr_p \in Slots /\ wr_nrd \in BOOLEAN BY DEF TypeOK
<1>3. rd_p' = IF ~empty /\ i.rd THEN NextSlot(rd_p) ELSE rd_p
  BY DEF Clock, ReadPort
<1>4. wr_p' = IF ~full /\ i.wr THEN NextSlot(wr_p) ELSE wr_p
  BY DEF Clock, WritePort
<1>5. wr_nrd' = WrNrd(i.rd, i.wr) BY DEF Clock
<1>6. QED
  BY <1>1, <1>2, <1>3, <1>4, <1>5, DepthAssumption
  DEF Count, WrNrd, empty, full, NextSlot, Slots

\* A clock of vxe_fifo is a clock of the queue.
LEMMA ClockIsQueueClock ==
    ASSUME TypeOK, NEW i \in Inputs, Clock(i)
    PROVE  Queue!Clock(i)
<1> DEFINE n == Count
           C == Contents
           r == rd_p
           w == wr_p
<1>1. i.rd \in BOOLEAN /\ i.wr \in BOOLEAN /\ i.data_in \in Data
  BY DEF Inputs
<1>2. fifo_buf \in [Slots -> Data] /\ r \in Slots
  BY DEF TypeOK
<1>3. /\ n \in 0..Depth
      /\ n > 0 <=> ~empty
      /\ n < Depth <=> ~full
  BY CountFlags, DepthAssumption
<1>4. n < Depth => w = At(r, n + 1)
  BY WritePointer
<1>5. /\ r' = IF i.rd /\ n > 0 THEN NextSlot(r) ELSE r
      /\ got' = IF i.rd /\ n > 0 THEN <<fifo_buf[r]>> ELSE << >>
      /\ in' = i
  BY <1>1, <1>2, <1>3 DEF Clock, ReadPort
<1>6. fifo_buf' = IF i.wr /\ n < Depth THEN [fifo_buf EXCEPT ![w] = i.data_in]
                                  ELSE fifo_buf
  BY <1>1, <1>3 DEF Clock, WritePort
<1>7. n' = n - (IF i.rd /\ n > 0 THEN 1 ELSE 0)
             + (IF i.wr /\ n < Depth THEN 1 ELSE 0)
  BY <1>3, CountNext
<1>8. RingStep(fifo_buf, r, n, i, got', fifo_buf', r', n')
  BY <1>4, <1>5, <1>6, <1>7 DEF RingStep
<1>9. C = Ring(fifo_buf, r, n) /\ C' = Ring(fifo_buf', r', n')
  BY DEF Contents
<1>10. QueueStep(C, i, got', C')
  <2> HIDE DEF n, C, r, w
  <2>1. QueueStep(Ring(fifo_buf, r, n), i, got', Ring(fifo_buf', r', n'))
    BY <1>2, <1>3, <1>8, RingClock
  <2>2. QED BY <1>9, <2>1
<1>11. QED
  BY <1>5, <1>10
  DEF Queue!Clock, Queue!FifoNext, Queue!FifoRead, QueueStep,
      FifoNext, FifoRead

\* For every depth of at least two and every data type: vxe_fifo loses,
\* repeats and reorders nothing, whatever its ports are given in each cycle.
THEOREM FifoImplementsQueue == Spec => FifoIsQueue
<1>1. Init => Queue!Init
  <2>a. SUFFICES ASSUME Init PROVE Queue!Init
    OBVIOUS
  <2>1. Count = 0 BY <2>a DEF Init, Count
  <2>2. Contents = << >> BY <2>1 DEF Contents, Ring
  <2>3. QED BY <2>a, <2>2
        DEF Init, Queue!Init, Queue!Cleared, Inputs, Queue!Inputs
<1>2. TypeOK /\ [Next]_vars => [Queue!Next]_(Queue!vars)
  <2>a. SUFFICES ASSUME TypeOK, [Next]_vars PROVE [Queue!Next]_(Queue!vars)
    OBVIOUS
  <2>1. ASSUME Reset PROVE Queue!Reset
    <3>1. Count' = 0 BY <2>1 DEF Reset, Count
    <3>2. Contents' = << >> BY <3>1 DEF Contents, Ring
    <3>3. QED BY <2>1, <3>2
        DEF Reset, Queue!Reset, Queue!Cleared, Inputs, Queue!Inputs
  <2>2. ASSUME NEW i \in Inputs, Clock(i) PROVE Queue!Clock(i)
    BY <2>a, <2>2, ClockIsQueueClock
  <2>3. ASSUME UNCHANGED vars PROVE UNCHANGED Queue!vars
    BY <2>3 DEF vars, Queue!vars, Contents, Count
  <2>4. QED BY <2>a, <2>1, <2>2, <2>3
        DEF Next, Queue!Next, Inputs, Queue!Inputs
<1>3. QED BY <1>1, <1>2, FifoTypeCorrect, PTL DEF Spec, FifoIsQueue, Queue!Spec

-----------------------------------------------------------------------------
(* vxe_fifo_2.  Types are not enough here: that the write pointer is never *)
(* more than Depth ahead of the read pointer is the inductive invariant.   *)

IInv2 == TypeOK2 /\ Count2 <= Depth

LEMMA PointerSlots ==
    ASSUME NEW p \in Pointers2
    PROVE  /\ Slot2(p) \in Slots
           /\ Succ2(p) \in Pointers2
           /\ Slot2(Succ2(p)) = NextSlot(Slot2(p))
BY DepthAssumption DEF Pointers2, Slots, Slot2, Succ2, NextSlot

\* The flags read the number of values off the pointers.
LEMMA CountFlags2 ==
    ASSUME IInv2
    PROVE  /\ Count2 \in 0..Depth
           /\ empty2 <=> Count2 = 0
           /\ full2 <=> Count2 = Depth
BY DepthAssumption DEF IInv2, TypeOK2, Count2, empty2, full2, Slot2, Wrap2, Pointers2

\* The write pointer is the slot after the last value.
LEMMA WritePointer2 ==
    ASSUME IInv2, Count2 < Depth
    PROVE  Slot2(wr_p2) = At(Slot2(rd_p2), Count2 + 1)
BY DepthAssumption DEF IInv2, TypeOK2, Count2, At, Slot2, Pointers2

\* How many values there are after a clock.
LEMMA CountNext2 ==
    ASSUME IInv2, NEW i \in Inputs, Clock2(i)
    PROVE  Count2' = Count2 - (IF i.rd /\ ~empty2 THEN 1 ELSE 0)
                          + (IF i.wr /\ ~full2 THEN 1 ELSE 0)
<1>1. i.rd \in BOOLEAN /\ i.wr \in BOOLEAN BY DEF Inputs
<1>2. rd_p2 \in Pointers2 /\ wr_p2 \in Pointers2 BY DEF IInv2, TypeOK2
<1>3. rd_p2' = IF i.rd /\ ~empty2 THEN Succ2(rd_p2) ELSE rd_p2
  BY DEF Clock2, ReadPort2
<1>4. wr_p2' = IF i.wr /\ ~full2 THEN Succ2(wr_p2) ELSE wr_p2
  BY DEF Clock2, WritePort2
<1>5. Count2 \in 0..Depth /\ (empty2 <=> Count2 = 0) /\ (full2 <=> Count2 = Depth)
  BY CountFlags2
<1>6. QED
  BY <1>1, <1>2, <1>3, <1>4, <1>5, DepthAssumption DEF Count2, Succ2, Pointers2

\* The write pointer never overtakes the read pointer.
THEOREM Fifo2Inductive == Spec2 => []IInv2
<1>1. Init2 => IInv2
  <2>a. SUFFICES ASSUME Init2 PROVE IInv2
    OBVIOUS
  <2>1. 0 \in Pointers2 BY DepthAssumption DEF Pointers2
  <2>2. TypeOK2 BY <2>a, <2>1, EmptySeq DEF Init2, TypeOK2
  <2>3. Count2 = 0 BY <2>a DEF Init2, Count2
  <2>4. QED BY <2>2, <2>3, DepthAssumption DEF IInv2
<1>2. IInv2 /\ [Next2]_vars2 => IInv2'
  <2>a. SUFFICES ASSUME IInv2, [Next2]_vars2 PROVE IInv2'
    OBVIOUS
  <2>1. ASSUME Reset2 PROVE IInv2'
    <3>1. 0 \in Pointers2 BY DepthAssumption DEF Pointers2
    <3>2. TypeOK2' BY <2>a, <2>1, <3>1, EmptySeq DEF IInv2, TypeOK2, Reset2
    <3>3. Count2' = 0 BY <2>1 DEF Reset2, Count2
    <3>4. QED BY <3>2, <3>3, DepthAssumption DEF IInv2
  <2>2. ASSUME NEW i \in Inputs, Clock2(i) PROVE IInv2'
    <3>1. i.rd \in BOOLEAN /\ i.wr \in BOOLEAN /\ i.data_in \in Data
      BY DEF Inputs
    <3>2. TypeOK2 BY <2>a DEF IInv2
    <3>3. /\ Succ2(rd_p2) \in Pointers2 /\ Slot2(rd_p2) \in Slots
          /\ Succ2(wr_p2) \in Pointers2 /\ Slot2(wr_p2) \in Slots
      BY <3>2, PointerSlots DEF TypeOK2
    <3>4. rd_p2' \in Pointers2
      BY <2>2, <3>2, <3>3 DEF TypeOK2, Clock2, ReadPort2
    <3>5. got2' \in Seq(Data)
      BY <2>2, <3>2, <3>3 DEF TypeOK2, Clock2, ReadPort2
    <3>6. wr_p2' \in Pointers2 /\ fifo_buf2' \in [Slots -> Data]
      BY <2>2, <3>1, <3>2, <3>3 DEF TypeOK2, Clock2, WritePort2
    <3>7. in2' \in Inputs BY <2>2 DEF Clock2
    <3>8. TypeOK2' BY <3>4, <3>5, <3>6, <3>7 DEF TypeOK2
    <3>9. Count2' <= Depth
      <4>1. Count2 \in 0..Depth /\ (full2 <=> Count2 = Depth)
        BY <2>a, CountFlags2
      <4>2. Count2' = Count2 - (IF i.rd /\ ~empty2 THEN 1 ELSE 0)
                           + (IF i.wr /\ ~full2 THEN 1 ELSE 0)
        BY <2>a, <2>2, CountNext2
      <4>3. QED BY <4>1, <4>2, DepthAssumption
    <3>10. QED BY <3>8, <3>9 DEF IInv2
  <2>3. ASSUME UNCHANGED vars2 PROVE IInv2'
    BY <2>a, <2>3 DEF IInv2, TypeOK2, Count2, vars2
  <2>4. QED BY <2>a, <2>1, <2>2, <2>3 DEF Next2
<1>3. QED BY <1>1, <1>2, PTL DEF Spec2

\* A clock of vxe_fifo_2 is a clock of the queue.
LEMMA ClockIsQueueClock2 ==
    ASSUME IInv2, NEW i \in Inputs, Clock2(i)
    PROVE  Queue2!Clock(i)
<1> DEFINE n == Count2
           C == Contents2
           r == Slot2(rd_p2)
           w == Slot2(wr_p2)
<1>1. i.rd \in BOOLEAN /\ i.wr \in BOOLEAN /\ i.data_in \in Data
  BY DEF Inputs
<1>2. /\ fifo_buf2 \in [Slots -> Data]
      /\ r \in Slots /\ NextSlot(r) = Slot2(Succ2(rd_p2))
  BY PointerSlots DEF IInv2, TypeOK2
<1>3. /\ n \in 0..Depth
      /\ n > 0 <=> ~empty2
      /\ n < Depth <=> ~full2
  BY CountFlags2, DepthAssumption
<1>4. n < Depth => w = At(r, n + 1)
  BY WritePointer2
<1>5. /\ r' = IF i.rd /\ n > 0 THEN NextSlot(r) ELSE r
      /\ got2' = IF i.rd /\ n > 0 THEN <<fifo_buf2[r]>> ELSE << >>
      /\ in2' = i
  BY <1>1, <1>2, <1>3 DEF Clock2, ReadPort2
<1>6. fifo_buf2' = IF i.wr /\ n < Depth THEN [fifo_buf2 EXCEPT ![w] = i.data_in]
                                  ELSE fifo_buf2
  BY <1>1, <1>3 DEF Clock2, WritePort2
<1>7. n' = n - (IF i.rd /\ n > 0 THEN 1 ELSE 0)
             + (IF i.wr /\ n < Depth THEN 1 ELSE 0)
  BY <1>3, CountNext2
<1>8. RingStep(fifo_buf2, r, n, i, got2', fifo_buf2', r', n')
  BY <1>4, <1>5, <1>6, <1>7 DEF RingStep
<1>9. C = Ring(fifo_buf2, r, n) /\ C' = Ring(fifo_buf2', r', n')
  BY DEF Contents2
<1>10. QueueStep(C, i, got2', C')
  <2> HIDE DEF n, C, r, w
  <2>1. QueueStep(Ring(fifo_buf2, r, n), i, got2', Ring(fifo_buf2', r', n'))
    BY <1>2, <1>3, <1>8, RingClock
  <2>2. QED BY <1>9, <2>1
<1>11. QED
  BY <1>5, <1>10
  DEF Queue2!Clock, Queue2!FifoNext, Queue2!FifoRead, QueueStep,
      FifoNext, FifoRead

\* For every depth of at least two and every data type: vxe_fifo_2 loses,
\* repeats and reorders nothing, whatever its ports are given in each cycle.
THEOREM Fifo2ImplementsQueue == Spec2 => Fifo2IsQueue
<1>1. Init2 => Queue2!Init
  <2>a. SUFFICES ASSUME Init2 PROVE Queue2!Init
    OBVIOUS
  <2>1. Count2 = 0 BY <2>a DEF Init2, Count2
  <2>2. Contents2 = << >> BY <2>1 DEF Contents2, Ring
  <2>3. QED BY <2>a, <2>2
        DEF Init2, Queue2!Init, Queue2!Cleared, Inputs, Queue2!Inputs
<1>2. IInv2 /\ [Next2]_vars2 => [Queue2!Next]_(Queue2!vars)
  <2>a. SUFFICES ASSUME IInv2, [Next2]_vars2 PROVE [Queue2!Next]_(Queue2!vars)
    OBVIOUS
  <2>1. ASSUME Reset2 PROVE Queue2!Reset
    <3>1. Count2' = 0 BY <2>1 DEF Reset2, Count2
    <3>2. Contents2' = << >> BY <3>1 DEF Contents2, Ring
    <3>3. QED BY <2>1, <3>2
        DEF Reset2, Queue2!Reset, Queue2!Cleared, Inputs, Queue2!Inputs
  <2>2. ASSUME NEW i \in Inputs, Clock2(i) PROVE Queue2!Clock(i)
    BY <2>a, <2>2, ClockIsQueueClock2
  <2>3. ASSUME UNCHANGED vars2 PROVE UNCHANGED Queue2!vars
    BY <2>3 DEF vars2, Queue2!vars, Contents2, Count2
  <2>4. QED BY <2>a, <2>1, <2>2, <2>3
        DEF Next2, Queue2!Next, Inputs, Queue2!Inputs
<1>3. QED BY <1>1, <1>2, Fifo2Inductive, PTL DEF Spec2, Fifo2IsQueue, Queue2!Spec
=============================================================================
