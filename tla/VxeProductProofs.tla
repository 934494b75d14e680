-------------------------- MODULE VxeProductProofs --------------------------
(***************************************************************************)
(* Proofs about VxeProduct, for every set of threads, every depth of the   *)
(* FIFOs and every order in which memory answers.                          *)
(*                                                                         *)
(* First, no FIFO is written when it is full: Types and Rooms.  Then, as   *)
(* long as memory answers without an error, the words flow in order: every *)
(* place between the address generator of a lane and the sums of its       *)
(* thread is a queue, an edge of the clock moves it, and queues one behind *)
(* the other move as one (Join).  Flow says what each of these long queues *)
(* holds, and that a unit that rests has nothing to wait for.              *)
(***************************************************************************)
EXTENDS VxeProduct, SequenceTheorems, FiniteSetTheorems, TLAPS

-----------------------------------------------------------------------------
(* Queues.                                                                 *)

B(b) == IF b THEN 1 ELSE 0

\* A register that offers a value is a queue of one.
Reg(offers, d) == IF offers THEN <<d>> ELSE << >>

\* The queue q becomes r: its first value leaves if pop, and d enters if push.
Popped(q, pop) == IF pop THEN Tail(q) ELSE q
Moves(q, r, pop, push, d) == /\ pop => q # << >>
                             /\ r = Popped(q, pop) \o Reg(push, d)

\* The queue of a register holds its value, or nothing.
LEMMA RegType ==
    ASSUME NEW S, NEW p \in BOOLEAN, NEW d, p => d \in S
    PROVE  /\ Reg(p, d) \in Seq(S) /\ Len(Reg(p, d)) = B(p) /\ (p => Reg(p, d)[1] = d)
           /\ Reg(p, d) = << >> <=> ~p
<1>1. CASE p
  <2>1. <<d>> \in Seq(S) /\ Len(<<d>>) = 1 /\ <<d>>[1] = d  BY <1>1
  <2> QED  BY <1>1, <2>1, EmptySeq DEF Reg, B
<1>2. CASE ~p  BY <1>2, EmptySeq DEF Reg, B
<1> QED  BY <1>1, <1>2

\* What is left of a queue after a read.
LEMMA PoppedType ==
    ASSUME NEW S, NEW q \in Seq(S), NEW b \in BOOLEAN, b => q # << >>
    PROVE  /\ Popped(q, b) \in Seq(S) /\ Len(Popped(q, b)) = Len(q) - B(b) /\ Len(q) \in Nat
           /\ Len(q) >= B(b)
           /\ \A i \in 1 .. Len(q) - B(b) : Popped(q, b)[i] = q[i + B(b)]
<1>1. CASE b
  <2>1. /\ Tail(q) \in Seq(S) /\ Len(q) \in Nat /\ Len(q) >= 1 /\ Len(Tail(q)) = Len(q) - 1
        /\ \A i \in 1 .. Len(Tail(q)) : Tail(q)[i] = q[i + 1]
    BY <1>1, HeadTailProperties, EmptySeq, LenProperties
  <2> QED  BY <1>1, <2>1 DEF Popped, B
<1>2. CASE ~b
  <2>1. Len(q) \in Nat /\ \A i \in 1 .. Len(q) : i + 0 = i  BY LenProperties
  <2> QED  BY <1>2, <2>1 DEF Popped, B
<1> QED  BY <1>1, <1>2

\* A move changes the length by what enters and what leaves, and keeps the order.
LEMMA MovesType ==
    ASSUME NEW S, NEW q \in Seq(S), NEW r, NEW b \in BOOLEAN, NEW p \in BOOLEAN, NEW d,
           p => d \in S, Moves(q, r, b, p, d)
    PROVE  /\ r \in Seq(S) /\ Len(q) \in Nat /\ Len(r) = Len(q) - B(b) + B(p)
           /\ Len(q) >= B(b) /\ Len(r) \in Nat
           /\ \A i \in 1 .. Len(q) - B(b) : r[i] = q[i + B(b)]
           /\ p => r[Len(r)] = d
<1> DEFINE s == Popped(q, b)   t == Reg(p, d)   n == B(b)   k == B(p)
<1>1. /\ s \in Seq(S) /\ Len(s) = Len(q) - n /\ Len(q) \in Nat /\ Len(q) >= n
      /\ \A i \in 1 .. Len(q) - n : s[i] = q[i + n]
  BY PoppedType DEF Moves
<1>2. t \in Seq(S) /\ Len(t) = k /\ (p => t[1] = d)  BY RegType
<1>3. r = s \o t  BY DEF Moves
<1>4. n \in {0, 1} /\ k \in {0, 1} /\ (p => k = 1)  BY DEF B
<1> HIDE DEF s, t, n, k
<1>5. /\ r \in Seq(S) /\ Len(r) = Len(s) + Len(t)
      /\ \A i \in 1 .. Len(s) + Len(t) : r[i] = IF i <= Len(s) THEN s[i] ELSE t[i - Len(s)]
  BY <1>1, <1>2, <1>3, ConcatProperties
<1>6. ASSUME NEW i \in 1 .. Len(q) - n  PROVE r[i] = q[i + n]
  <2>1. i \in 1 .. Len(s) + Len(t) /\ i <= Len(s)  BY <1>1, <1>2, <1>4
  <2> QED  BY <1>1, <1>5, <2>1
<1>7. ASSUME p  PROVE r[Len(r)] = d
  <2>1. k = 1 /\ t[1] = d  BY <1>2, <1>4, <1>7
  <2>2. Len(r) \in 1 .. Len(s) + Len(t) /\ ~(Len(r) <= Len(s)) /\ Len(r) - Len(s) = 1
    BY <1>1, <1>2, <1>4, <1>5, <2>1
  <2> QED  BY <1>5, <2>1, <2>2
<1>8. Len(r) = Len(q) - n + k /\ Len(r) \in Nat  BY <1>1, <1>2, <1>4, <1>5
<1> QED  BY <1>1, <1>5, <1>6, <1>7, <1>8 DEF n, k

\* What the steps of the modules make of a queue.
LEMMA ReadMoves ==
    ASSUME NEW S, NEW q \in Seq(S), NEW b \in BOOLEAN
    PROVE  Moves(q, FifoRead(q, b), b /\ q # << >>, FALSE, 0)
<1>1. FifoRead(q, b) = Popped(q, b /\ q # << >>)  BY DEF FifoRead, Popped
<1>2. Popped(q, b /\ q # << >>) \in Seq(S)  BY PoppedType
<1>3. Popped(q, b /\ q # << >>) \o << >> = Popped(q, b /\ q # << >>)  BY <1>2, ConcatEmptySeq
<1> QED  BY <1>1, <1>3 DEF Moves, Reg

\* An edge at a FIFO moves it: a write when it is full is lost, and so is a read when empty.
LEMMA NextMoves ==
    ASSUME NEW S, NEW q \in Seq(S), NEW n, NEW b \in BOOLEAN, NEW w \in BOOLEAN, NEW d,
           w => d \in S, NEW p, p = (w /\ Len(q) < n)
    PROVE  Moves(q, FifoNext(q, n, b, w, d), b /\ q # << >>, p, d)
<1>1. FifoRead(q, b) = Popped(q, b /\ q # << >>)  BY DEF FifoRead, Popped
<1>2. Popped(q, b /\ q # << >>) \in Seq(S)  BY PoppedType
<1>3. CASE p
  <2>1. d \in S /\ FifoNext(q, n, b, w, d) = Append(FifoRead(q, b), d)  BY <1>3 DEF FifoNext
  <2>2. Append(FifoRead(q, b), d) = FifoRead(q, b) \o <<d>>  BY <1>1, <1>2, <2>1, AppendIsConcat
  <2> QED  BY <1>1, <1>3, <2>1, <2>2 DEF Moves, Reg
<1>4. CASE ~p
  <2>1. FifoNext(q, n, b, w, d) = FifoRead(q, b)  BY <1>4 DEF FifoNext
  <2>2. FifoRead(q, b) \o << >> = FifoRead(q, b)  BY <1>1, <1>2, ConcatEmptySeq
  <2> QED  BY <1>1, <1>4, <2>1, <2>2 DEF Moves, Reg
<1> QED  BY <1>3, <1>4

\* A register that loads from a FIFO when it is free is a move of its queue.
LEMMA RegMoves ==
    ASSUME NEW S, NEW on \in BOOLEAN, NEW val, on => val \in S, NEW taken \in BOOLEAN,
           NEW q \in Seq(S)
    PROVE  Moves(Reg(on, val),
                 Reg(StillOffers(on, taken, q), IF Loads(on, taken, q) THEN Head(q) ELSE val),
                 on /\ taken, Loads(on, taken, q), Head(q))
<1>1. << >> \o << >> = << >>  BY EmptySeq, ConcatEmptySeq
<1>2. \A x : Tail(<<x>>) = << >> /\ <<x>> # << >>  OBVIOUS
<1>3. \A x : <<x>> \o << >> = <<x>> /\ << >> \o <<x>> = <<x>>  OBVIOUS
<1> QED  BY <1>1, <1>2, <1>3 DEF Moves, Reg, Popped, StillOffers, Loads

\* Two queues, one behind the other.
LEMMA HeadAndTail ==
    ASSUME NEW S, NEW q \in Seq(S), q # << >>
    PROVE  <<Head(q)>> \o Tail(q) = q
<1> DEFINE h == <<Head(q)>>   t == Tail(q)   r == h \o t
<1>1. /\ Head(q) \in S /\ t \in Seq(S) /\ Len(t) = Len(q) - 1 /\ Len(q) \in Nat
      /\ Head(q) = q[1] /\ \A i \in 1 .. Len(t) : t[i] = q[i + 1]
  BY HeadTailProperties, LenProperties
<1>2. h \in Seq(S) /\ Len(h) = 1 /\ h[1] = q[1]  BY <1>1
<1>a. r = h \o t  OBVIOUS
<1> HIDE DEF h, t, r
<1>3. /\ r \in Seq(S) /\ Len(r) = Len(h) + Len(t)
      /\ \A i \in 1 .. Len(h) + Len(t) : r[i] = IF i <= Len(h) THEN h[i] ELSE t[i - Len(h)]
  <2>1. h \in Seq(S) /\ t \in Seq(S)  BY <1>1, <1>2
  <2> QED  BY <1>a, <2>1, ConcatProperties, SMTT(20)
<1>4. ASSUME NEW i \in 1 .. Len(r)  PROVE r[i] = q[i]
  <2>1. CASE i = 1  BY <1>1, <1>2, <1>3, <2>1
  <2>2. CASE i # 1
    <3>1. ~(i <= Len(h)) /\ i - Len(h) \in 1 .. Len(t) /\ (i - Len(h)) + 1 = i
      BY <1>1, <1>2, <1>3, <2>2
    <3>2. r[i] = t[i - Len(h)]  BY <1>3, <3>1
    <3> QED  BY <1>1, <3>1, <3>2
  <2> QED  BY <2>1, <2>2
<1>5. r = q  BY <1>1, <1>2, <1>3, <1>4, SeqEqual
<1> QED  BY <1>5 DEF r, h, t

\* Concatenation cancels on the left.
LEMMA SameTail ==
    ASSUME NEW S, NEW h \in Seq(S), NEW s \in Seq(S), NEW t \in Seq(S), h \o s = h \o t
    PROVE  s = t
BY ConcatSimplifications

\* Concatenation, to be opened where it has to be.
Cat(h, s) == h \o s

\* Two queues one behind the other are a queue ...
LEMMA CatType ==
    ASSUME NEW S, NEW h \in Seq(S), NEW s \in Seq(S)
    PROVE  Cat(h, s) \in Seq(S)
BY ConcatProperties DEF Cat

\* ... and three can be joined in either order ...
LEMMA CatAssociative ==
    ASSUME NEW S, NEW h \in Seq(S), NEW s \in Seq(S), NEW t \in Seq(S)
    PROVE  Cat(Cat(h, s), t) = Cat(h, Cat(s, t))
<1>1. (h \o s) \o t = h \o (s \o t)  BY ConcatAssociative
<1> QED  BY <1>1 DEF Cat

\* ... and four, as Join does.
LEMMA CatFour ==
    ASSUME NEW S, NEW u \in Seq(S), NEW x \in Seq(S), NEW y \in Seq(S), NEW z \in Seq(S)
    PROVE  Cat(Cat(u, x), Cat(y, z)) = Cat(Cat(u, Cat(x, y)), z)
<1>1. Cat(u, x) \in Seq(S)  BY CatType
<1>2. Cat(Cat(u, x), Cat(y, z)) = Cat(Cat(Cat(u, x), y), z)  BY <1>1, CatAssociative, SMT
<1>3. Cat(Cat(u, x), y) = Cat(u, Cat(x, y))  BY CatAssociative, SMT
<1> QED  BY <1>2, <1>3, Zenon

\* A read of the first of two queues in a row.
LEMMA ConcatPopped ==
    ASSUME NEW S, NEW p \in Seq(S), NEW q \in Seq(S), p # << >>
    PROVE  p \o q # << >> /\ Head(p \o q) = Head(p) /\ Tail(p \o q) = Tail(p) \o q
<1> DEFINE h == <<Head(p)>>   t == Tail(p)
<1>1. Head(p) \in S /\ t \in Seq(S) /\ h \in Seq(S)  BY HeadTailProperties
<1>2. p = h \o t  BY HeadAndTail
<1>3. p \o q = h \o (t \o q) /\ t \o q \in Seq(S)
  BY <1>1, <1>2, ConcatAssociative, ConcatProperties
<1>4. p \o q \in Seq(S) /\ p \o q # << >>  BY ConcatEqualIffEmpty, ConcatProperties
<1>5. Head(p \o q) = Head(p)
  <2>1. /\ Len(p) \in Nat /\ Len(q) \in Nat /\ Len(p) >= 1 /\ Head(p) = p[1]
        /\ Head(p \o q) = (p \o q)[1]
    BY <1>4, HeadTailProperties, LenProperties, EmptySeq
  <2> QED  BY <2>1, ConcatProperties
<1>6. <<Head(p)>> \o Tail(p \o q) = <<Head(p)>> \o (Tail(p) \o q)
  BY <1>3, <1>4, <1>5, HeadAndTail
<1>7. Tail(p \o q) \in Seq(S)  BY <1>4, HeadTailProperties
<1>8. Tail(p \o q) = Tail(p) \o q
  BY <1>1, <1>3, <1>6, <1>7, SameTail
<1> QED  BY <1>4, <1>5, <1>8

\* Two queues in a row, the first fed from the second, move as one queue.
LEMMA Join ==
    ASSUME NEW S, NEW p \in Seq(S), NEW q \in Seq(S), NEW p2, NEW q2,
           NEW b \in BOOLEAN, NEW m \in BOOLEAN, NEW w \in BOOLEAN, NEW d, w => d \in S,
           Moves(p, p2, b, m, Head(q)), Moves(q, q2, m, w, d)
    PROVE  /\ Moves(p \o q, p2 \o q2, b, w, d)
           /\ p \o q \in Seq(S)
           /\ p # << >> => Head(p \o q) = Head(p)
<1> DEFINE u == Popped(p, b)   x == Reg(m, Head(q))   y == Popped(q, m)   z == Reg(w, d)
<1>1. m => Head(q) \in S  BY HeadTailProperties DEF Moves
<1>2. u \in Seq(S) /\ x \in Seq(S) /\ y \in Seq(S) /\ z \in Seq(S)
  BY <1>1, PoppedType, RegType DEF Moves
<1>3. p2 = u \o x /\ q2 = y \o z  BY DEF Moves
<1>4. x \o y = q
  <2>1. CASE m  BY <2>1, HeadAndTail DEF Moves, Popped, Reg
  <2>2. CASE ~m  BY <2>2, ConcatEmptySeq DEF Popped, Reg
  <2> QED  BY <2>1, <2>2
<1>5. b => p \o q # << >>  BY ConcatPopped DEF Moves
<1>6. u \o q = Popped(p \o q, b)
  <2>1. CASE b  BY <2>1, ConcatPopped DEF Moves, Popped
  <2>2. CASE ~b  BY <2>2 DEF Popped
  <2> QED  BY <2>1, <2>2
<1> HIDE DEF u, x, y, z
<1>7. (u \o x) \o (y \o z) = (u \o (x \o y)) \o z
  <2>1. Cat(Cat(u, x), Cat(y, z)) = Cat(Cat(u, Cat(x, y)), z)  BY <1>2, CatFour, SMT
  <2> QED  BY <2>1 DEF Cat
<1>9. p2 \o q2 = Popped(p \o q, b) \o z  BY <1>3, <1>4, <1>6, <1>7
<1>10. p \o q \in Seq(S)  BY ConcatProperties
<1> QED  BY <1>5, <1>9, <1>10, ConcatPopped DEF Moves, z

-----------------------------------------------------------------------------
(* What queues hold.                                                       *)

\* Consecutive numbers from s on.
Run(q, s) == \A i \in 1 .. Len(q) : q[i] = s + i - 1

\* The requests of a lane in q are those for the pairs from x on and before y, in order.
Carries(q, l, x, y) ==
    /\ x <= y
    /\ \A i \in 1 .. Len(q) : q[i].lane = l => x <= q[i].pair /\ q[i].pair < y
    /\ \A i, j \in 1 .. Len(q) :
            i < j /\ q[i].lane = l /\ q[j].lane = l => q[i].pair < q[j].pair
    /\ \A p \in x .. y - 1 : \E i \in 1 .. Len(q) : q[i].lane = l /\ q[i].pair = p

\* The words with the parity h from x on and before y, in order.
Half(q, h, x, y) ==
    /\ x <= y
    /\ \A i \in 1 .. Len(q) : x <= q[i] /\ q[i] < y /\ q[i] % 2 = h
    /\ \A i, j \in 1 .. Len(q) : i < j => q[i] < q[j]
    /\ \A a \in x .. y - 1 : a % 2 = h => \E i \in 1 .. Len(q) : q[i] = a

\* A queue of consecutive numbers stays one when the next number enters.
LEMMA RunMoves ==
    ASSUME NEW q \in Seq(Int), NEW r, NEW b \in BOOLEAN, NEW p \in BOOLEAN, NEW d,
           p => d \in Int, Moves(q, r, b, p, d), NEW s \in Int, Run(q, s),
           p => d = s + Len(q)
    PROVE  Run(r, s + B(b)) /\ (b => Head(q) = s)
<1> DEFINE n == B(b)   k == B(p)
<1>1. /\ r \in Seq(Int) /\ Len(q) \in Nat /\ Len(r) = Len(q) - n + k
      /\ Len(q) >= n /\ Len(r) \in Nat
      /\ \A i \in 1 .. Len(q) - n : r[i] = q[i + n]
      /\ p => r[Len(r)] = d
  BY MovesType
<1>2. n \in {0, 1} /\ k \in {0, 1} /\ (p <=> k = 1)  BY DEF B
<1>3. b => Head(q) = s
  <2>1. b => Len(q) >= 1 /\ Head(q) = q[1]  BY HeadTailProperties, EmptySeq DEF Moves
  <2> QED  BY <1>1, <2>1 DEF Run
<1> HIDE DEF n, k
<1>4. ASSUME NEW i \in 1 .. Len(r)  PROVE r[i] = (s + n) + i - 1
  <2>1. CASE i <= Len(q) - n
    <3>1. i \in 1 .. Len(q) - n /\ i + n \in 1 .. Len(q)  BY <1>1, <1>2, <2>1
    <3>2. q[i + n] = s + (i + n) - 1  BY <3>1 DEF Run
    <3> QED  BY <1>1, <1>2, <3>1, <3>2
  <2>2. CASE i > Len(q) - n
    <3>1. k = 1 /\ i = Len(r) /\ i = Len(q) - n + 1
      <4> DEFINE a == Len(q)   z == Len(r)
      <4>1. a \in Nat /\ z \in Nat /\ z = a - n + k /\ i \in 1 .. z /\ i > a - n
        BY <1>1, <2>2
      <4> HIDE DEF a, z
      <4>2. k = 1 /\ i = z /\ i = a - n + 1  BY <1>2, <4>1
      <4> QED  BY <4>2 DEF a, z
    <3>2. r[i] = s + Len(q)  BY <1>1, <1>2, <3>1
    <3> QED  BY <1>1, <1>2, <3>1, <3>2
  <2> QED  BY <1>1, <1>2, <2>1, <2>2
<1> QED  BY <1>3, <1>4 DEF Run, n

\* A queue shared by the lanes still carries the numbers of a lane in order after a read ...
LEMMA CarriesPop ==
    ASSUME NEW S, \A e \in S : e.pair \in Int, NEW q \in Seq(S), q # << >>,
           NEW l, NEW x \in Int, NEW y \in Int, Carries(q, l, x, y)
    PROVE  /\ Head(q).lane = l => Head(q).pair = x /\ Carries(Tail(q), l, x + 1, y)
           /\ Head(q).lane # l => Carries(Tail(q), l, x, y)
<1> DEFINE h == Head(q)   t == Tail(q)
<1>1. /\ Len(q) \in Nat /\ 1 \in 1 .. Len(q) /\ h = q[1]
      /\ t \in Seq(S) /\ Len(t) = Len(q) - 1 /\ \A i \in 1 .. Len(t) : t[i] = q[i + 1]
  BY HeadTailProperties, EmptySeq, LenProperties
<1>2. /\ x <= y
      /\ \A i \in 1 .. Len(q) : q[i].lane = l => x <= q[i].pair /\ q[i].pair < y
      /\ \A i, j \in 1 .. Len(q) :
            i < j /\ q[i].lane = l /\ q[j].lane = l => q[i].pair < q[j].pair
      /\ \A p \in x .. y - 1 : \E i \in 1 .. Len(q) : q[i].lane = l /\ q[i].pair = p
      /\ \A i \in 1 .. Len(q) : q[i].pair \in Int
  BY ElementOfSeq DEF Carries
<1> HIDE DEF h, t
<1>3. \A i \in 1 .. Len(t) : i + 1 \in 1 .. Len(q) /\ t[i] = q[i + 1]  BY <1>1
<1>4. \A i, j \in 1 .. Len(t) :
            i < j /\ t[i].lane = l /\ t[j].lane = l => t[i].pair < t[j].pair
  <2>1. SUFFICES ASSUME NEW i \in 1 .. Len(t), NEW j \in 1 .. Len(t), i < j,
                        t[i].lane = l, t[j].lane = l
                 PROVE  t[i].pair < t[j].pair
    OBVIOUS
  <2>2. /\ i + 1 \in 1 .. Len(q) /\ j + 1 \in 1 .. Len(q) /\ i + 1 < j + 1
        /\ q[i + 1].lane = l /\ q[j + 1].lane = l
        /\ t[i] = q[i + 1] /\ t[j] = q[j + 1]
    BY <1>3, <2>1
  <2>3. q[i + 1].pair < q[j + 1].pair  BY <1>2, <2>2
  <2> QED  BY <2>2, <2>3
<1>5. ASSUME h.lane = l  PROVE h.pair = x /\ Carries(t, l, x + 1, y)
  <2>1. x <= h.pair /\ h.pair < y /\ h.pair \in Int  BY <1>1, <1>2, <1>5
  <2>2. h.pair = x
    <3>1. x \in x .. y - 1  BY <2>1
    <3>2. PICK i \in 1 .. Len(q) : q[i].lane = l /\ q[i].pair = x  BY <1>2, <3>1
    <3>3. CASE i = 1  BY <1>1, <3>2, <3>3
    <3>4. CASE i # 1
      <4>1. 1 < i  BY <3>4
      <4>2. h.pair < q[i].pair  BY <1>1, <1>2, <1>5, <3>2, <4>1
      <4> QED  BY <2>1, <3>2, <4>2
    <3> QED  BY <3>3, <3>4
  <2>3. \A i \in 1 .. Len(t) : t[i].lane = l => x + 1 <= t[i].pair /\ t[i].pair < y
    <3>1. SUFFICES ASSUME NEW i \in 1 .. Len(t), t[i].lane = l
                   PROVE  x + 1 <= t[i].pair /\ t[i].pair < y
      OBVIOUS
    <3>2. i + 1 \in 1 .. Len(q) /\ t[i] = q[i + 1] /\ 1 < i + 1  BY <1>3
    <3>3. h.pair < q[i + 1].pair /\ q[i + 1].pair \in Int /\ q[i + 1].pair < y
      BY <1>1, <1>2, <1>5, <3>1, <3>2
    <3> QED  BY <2>2, <3>2, <3>3
  <2>4. ASSUME NEW p \in x + 1 .. y - 1
        PROVE  \E i \in 1 .. Len(t) : t[i].lane = l /\ t[i].pair = p
    <3>1. p \in x .. y - 1 /\ p # x  OBVIOUS
    <3>2. PICK i \in 1 .. Len(q) : q[i].lane = l /\ q[i].pair = p  BY <1>2, <3>1
    <3>3. i # 1  BY <1>1, <2>2, <3>1, <3>2
    <3>4. i - 1 \in 1 .. Len(t) /\ (i - 1) + 1 = i  BY <1>1, <3>3
    <3> QED  BY <1>1, <3>2, <3>4
  <2>5. x + 1 <= y  BY <2>1, <2>2
  <2> QED  BY <1>4, <2>2, <2>3, <2>4, <2>5 DEF Carries
<1>6. ASSUME h.lane # l  PROVE Carries(t, l, x, y)
  <2>1. \A i \in 1 .. Len(t) : t[i].lane = l => x <= t[i].pair /\ t[i].pair < y
    BY <1>2, <1>3
  <2>2. ASSUME NEW p \in x .. y - 1
        PROVE  \E i \in 1 .. Len(t) : t[i].lane = l /\ t[i].pair = p
    <3>2. PICK i \in 1 .. Len(q) : q[i].lane = l /\ q[i].pair = p  BY <1>2
    <3>3. i # 1  BY <1>1, <1>6, <3>2
    <3>4. i - 1 \in 1 .. Len(t) /\ (i - 1) + 1 = i  BY <1>1, <3>3
    <3> QED  BY <1>1, <3>2, <3>4
  <2> QED  BY <1>2, <1>4, <2>1, <2>2 DEF Carries
<1> QED  BY <1>5, <1>6 DEF h, t

\* ... and after a write of the next number of the lane.
LEMMA CarriesPush ==
    ASSUME NEW S, \A e \in S : e.pair \in Int, NEW q \in Seq(S), NEW d \in S,
           NEW l, NEW x \in Int, NEW y \in Int, Carries(q, l, x, y),
           d.lane = l => d.pair = y
    PROVE  /\ d.lane = l => Carries(q \o <<d>>, l, x, y + 1)
           /\ d.lane # l => Carries(q \o <<d>>, l, x, y)
<1> DEFINE r == q \o <<d>>
<1>1. /\ Len(q) \in Nat /\ r \in Seq(S) /\ Len(r) = Len(q) + 1
      /\ \A i \in 1 .. Len(q) : r[i] = q[i]
      /\ r[Len(q) + 1] = d
  <2>1. r = Append(q, d)  BY AppendIsConcat
  <2> QED  BY <2>1, AppendProperties, LenProperties
<1>2. /\ x <= y
      /\ \A i \in 1 .. Len(q) : q[i].lane = l => x <= q[i].pair /\ q[i].pair < y
      /\ \A i, j \in 1 .. Len(q) :
            i < j /\ q[i].lane = l /\ q[j].lane = l => q[i].pair < q[j].pair
      /\ \A p \in x .. y - 1 : \E i \in 1 .. Len(q) : q[i].lane = l /\ q[i].pair = p
      /\ \A i \in 1 .. Len(q) : q[i].pair \in Int
  BY ElementOfSeq DEF Carries
<1> HIDE DEF r
<1>3. \A i : i \in 1 .. Len(r) <=> i \in 1 .. Len(q) \/ i = Len(q) + 1  BY <1>1
<1>4. \A i, j \in 1 .. Len(r) :
            i < j /\ r[i].lane = l /\ r[j].lane = l => r[i].pair < r[j].pair
  <2>1. SUFFICES ASSUME NEW i \in 1 .. Len(r), NEW j \in 1 .. Len(r), i < j,
                        r[i].lane = l, r[j].lane = l
                 PROVE  r[i].pair < r[j].pair
    OBVIOUS
  <2>2. i \in 1 .. Len(q)  BY <1>1, <2>1
  <2>3. CASE j \in 1 .. Len(q)  BY <1>1, <1>2, <2>1, <2>2, <2>3
  <2>4. CASE j = Len(q) + 1  BY <1>1, <1>2, <2>1, <2>2, <2>4
  <2> QED  BY <1>3, <2>3, <2>4
<1>5. ASSUME d.lane = l  PROVE Carries(r, l, x, y + 1)
  <2>1. ASSUME NEW i \in 1 .. Len(r), r[i].lane = l
        PROVE  x <= r[i].pair /\ r[i].pair < y + 1
    <3>1. CASE i \in 1 .. Len(q)
      <4>1. r[i] = q[i] /\ x <= q[i].pair /\ q[i].pair < y /\ q[i].pair \in Int
        BY <1>1, <1>2, <2>1, <3>1
      <4> QED  BY <4>1
    <3>2. CASE i = Len(q) + 1  BY <1>1, <1>2, <1>5, <3>2
    <3> QED  BY <1>3, <3>1, <3>2
  <2>2. ASSUME NEW p \in x .. (y + 1) - 1
        PROVE  \E i \in 1 .. Len(r) : r[i].lane = l /\ r[i].pair = p
    <3>1. CASE p = y
      <4>1. Len(q) + 1 \in 1 .. Len(r)  BY <1>1
      <4> QED  BY <1>1, <1>5, <3>1, <4>1
    <3>2. CASE p # y
      <4>1. p \in x .. y - 1  BY <3>2
      <4>2. PICK i \in 1 .. Len(q) : q[i].lane = l /\ q[i].pair = p  BY <1>2, <4>1
      <4> QED  BY <1>1, <1>3, <4>2
    <3> QED  BY <3>1, <3>2
  <2>3. x <= y + 1  BY <1>2
  <2> QED  BY <1>4, <2>1, <2>2, <2>3 DEF Carries
<1>6. ASSUME d.lane # l  PROVE Carries(r, l, x, y)
  <2>1. ASSUME NEW i \in 1 .. Len(r), r[i].lane = l  PROVE i \in 1 .. Len(q) /\ r[i] = q[i]
    BY <1>1, <1>3, <1>6, <2>1
  <2>2. \A i \in 1 .. Len(r) : r[i].lane = l => x <= r[i].pair /\ r[i].pair < y
    BY <1>2, <2>1
  <2>3. ASSUME NEW p \in x .. y - 1
        PROVE  \E i \in 1 .. Len(r) : r[i].lane = l /\ r[i].pair = p
    <3>2. PICK i \in 1 .. Len(q) : q[i].lane = l /\ q[i].pair = p  BY <1>2
    <3> QED  BY <1>1, <1>3, <3>2
  <2> QED  BY <1>2, <1>4, <2>2, <2>3 DEF Carries
<1> QED  BY <1>5, <1>6 DEF r

\* What a queue carries of a lane as its first value leaves and another enters.
LEMMA CarriesMoves ==
    ASSUME NEW S, \A e \in S : e.pair \in Int, NEW q \in Seq(S), NEW r,
           NEW b \in BOOLEAN, NEW p \in BOOLEAN, NEW d, p => d \in S, Moves(q, r, b, p, d),
           NEW l, NEW x \in Int, NEW y \in Int, Carries(q, l, x, y),
           NEW bl, bl <=> b /\ Head(q).lane = l, NEW pl, pl <=> p /\ d.lane = l,
           pl => d.pair = y
    PROVE  Carries(r, l, x + B(bl), y + B(pl)) /\ (bl => Head(q).pair = x)
<1> DEFINE s == Popped(q, b)   n == B(bl)
<1>1. n \in {0, 1} /\ s \in Seq(S)  BY PoppedType DEF B, Moves
<1>2. Carries(s, l, x + n, y) /\ (bl => Head(q).pair = x)
  <2>0. x + 0 = x  OBVIOUS
  <2>1. CASE b
    <3>1. /\ Head(q).lane = l => Head(q).pair = x /\ Carries(Tail(q), l, x + 1, y)
          /\ Head(q).lane # l => Carries(Tail(q), l, x, y)
      BY <2>1, CarriesPop DEF Moves
    <3> QED  BY <2>0, <2>1, <3>1 DEF Popped, B
  <2>2. CASE ~b  BY <2>0, <2>2 DEF Popped, B
  <2> QED  BY <2>1, <2>2
<1>3. r = s \o Reg(p, d)  BY DEF Moves
<1> HIDE DEF s, n
<1>4. Carries(r, l, x + n, y + B(pl))
  <2>0. y + 0 = y /\ x + n \in Int  BY <1>1
  <2>1. CASE p
    <3>1. /\ d.lane = l => Carries(s \o <<d>>, l, x + n, y + 1)
          /\ d.lane # l => Carries(s \o <<d>>, l, x + n, y)
      BY <1>1, <1>2, <2>0, <2>1, CarriesPush
    <3> QED  BY <1>3, <2>0, <2>1, <3>1 DEF Reg, B
  <2>2. CASE ~p
    <3>1. r = s  BY <1>1, <1>3, <2>2, ConcatEmptySeq DEF Reg
    <3> QED  BY <1>2, <2>0, <2>2, <3>1 DEF B
  <2> QED  BY <2>1, <2>2
<1> QED  BY <1>2, <1>4 DEF n

\* Nothing is carried between equal bounds.
LEMMA CarriesNothing ==
    ASSUME NEW q, NEW l, NEW x \in Int
    PROVE  Carries(<< >>, l, x, x)
<1>1. 1 .. Len(<< >>) = {}  OBVIOUS
<1>2. x .. x - 1 = {} /\ x <= x  OBVIOUS
<1> QED  BY <1>1, <1>2 DEF Carries

\* The first word of a half is the next one, if that one has the parity of the half.
LEMMA HalfHead ==
    ASSUME NEW q \in Seq(Int), NEW h, NEW x \in Int, NEW y \in Int, Half(q, h, x, y)
    PROVE  /\ x < y /\ x % 2 = h => q # << >> /\ Head(q) = x
           /\ q # << >> => x < y
<1>1. /\ Len(q) \in Nat /\ (q = << >> <=> Len(q) = 0) /\ (q # << >> => Head(q) = q[1])
      /\ \A i \in 1 .. Len(q) : q[i] \in Int
  BY LenProperties, EmptySeq, HeadTailProperties, ElementOfSeq
<1>2. /\ \A i \in 1 .. Len(q) : x <= q[i] /\ q[i] < y
      /\ \A i, j \in 1 .. Len(q) : i < j => q[i] < q[j]
      /\ \A a \in x .. y - 1 : a % 2 = h => \E i \in 1 .. Len(q) : q[i] = a
  BY DEF Half
<1>3. ASSUME x < y, x % 2 = h  PROVE q # << >> /\ Head(q) = x
  <2>1. x \in x .. y - 1  BY <1>3
  <2>2. PICK i \in 1 .. Len(q) : q[i] = x  BY <1>2, <1>3, <2>1
  <2>3. 1 \in 1 .. Len(q) /\ Len(q) # 0  BY <1>1, <2>2
  <2>4. i = 1 \/ 1 < i  OBVIOUS
  <2>5. ~(1 < i)
    <3>1. SUFFICES ASSUME 1 < i  PROVE FALSE
      OBVIOUS
    <3>2. q[1] < q[i] /\ x <= q[1] /\ q[1] \in Int  BY <1>1, <1>2, <2>3, <3>1
    <3> QED  BY <2>2, <3>2
  <2> QED  BY <1>1, <2>2, <2>3, <2>4, <2>5
<1>4. ASSUME q # << >>  PROVE x < y
  <2>1. 1 \in 1 .. Len(q)  BY <1>1, <1>4
  <2>2. x <= q[1] /\ q[1] < y /\ q[1] \in Int  BY <1>1, <1>2, <2>1
  <2> QED  BY <2>2
<1> QED  BY <1>3, <1>4

\* The next word leaves one of the halves.
LEMMA HalfPop ==
    ASSUME NEW q \in Seq(Int), NEW h \in {0, 1}, NEW x \in Int, NEW y \in Int,
           Half(q, h, x, y), x < y
    PROVE  Half(Popped(q, x % 2 = h), h, x + 1, y)
<1>1. /\ \A i \in 1 .. Len(q) : x <= q[i] /\ q[i] < y /\ q[i] % 2 = h /\ q[i] \in Int
      /\ \A i, j \in 1 .. Len(q) : i < j => q[i] < q[j]
      /\ \A a \in x .. y - 1 : a % 2 = h => \E i \in 1 .. Len(q) : q[i] = a
  BY ElementOfSeq DEF Half
<1>2. CASE x % 2 = h
  <2>1. q # << >> /\ Head(q) = x  BY <1>2, HalfHead
  <2> DEFINE t == Tail(q)
  <2>2. /\ Len(q) \in Nat /\ 1 \in 1 .. Len(q) /\ q[1] = x
        /\ Len(t) = Len(q) - 1 /\ \A i \in 1 .. Len(t) : t[i] = q[i + 1]
    BY <2>1, HeadTailProperties, EmptySeq, LenProperties
  <2> HIDE DEF t
  <2>3. \A i \in 1 .. Len(t) : i + 1 \in 1 .. Len(q) /\ 1 < i + 1 /\ t[i] = q[i + 1]
    BY <2>2
  <2>4. ASSUME NEW i \in 1 .. Len(t)  PROVE x + 1 <= t[i] /\ t[i] < y /\ t[i] % 2 = h
    <3>1. x < q[i + 1] /\ q[i + 1] < y /\ q[i + 1] % 2 = h /\ q[i + 1] \in Int
      BY <1>1, <2>2, <2>3
    <3> QED  BY <2>3, <3>1
  <2>5. ASSUME NEW i \in 1 .. Len(t), NEW j \in 1 .. Len(t), i < j  PROVE t[i] < t[j]
    <3>1. i + 1 < j + 1 /\ i + 1 \in 1 .. Len(q) /\ j + 1 \in 1 .. Len(q)  BY <2>3, <2>5
    <3> QED  BY <1>1, <2>3, <3>1
  <2>6. ASSUME NEW a \in x + 1 .. y - 1, a % 2 = h  PROVE \E i \in 1 .. Len(t) : t[i] = a
    <3>1. a \in x .. y - 1 /\ a # x  OBVIOUS
    <3>2. PICK i \in 1 .. Len(q) : q[i] = a  BY <1>1, <2>6, <3>1
    <3>3. i - 1 \in 1 .. Len(t) /\ (i - 1) + 1 = i  BY <2>2, <3>1, <3>2
    <3> QED  BY <2>2, <3>2, <3>3
  <2>7. x + 1 <= y  OBVIOUS
  <2>8. Half(t, h, x + 1, y)  BY <2>4, <2>5, <2>6, <2>7 DEF Half
  <2>9. Popped(q, x % 2 = h) = t  BY <1>2 DEF Popped, t
  <2> QED  BY <2>8, <2>9
<1>3. CASE x % 2 # h
  <2>1. ASSUME NEW i \in 1 .. Len(q)  PROVE x + 1 <= q[i] /\ q[i] < y /\ q[i] % 2 = h
    <3>1. x <= q[i] /\ q[i] # x /\ q[i] \in Int  BY <1>1, <1>3
    <3> QED  BY <1>1, <3>1
  <2>2. \A a \in x + 1 .. y - 1 : a \in x .. y - 1  OBVIOUS
  <2>3. x + 1 <= y  OBVIOUS
  <2>4. Half(q, h, x + 1, y)  BY <1>1, <2>1, <2>2, <2>3 DEF Half
  <2>5. Popped(q, x % 2 = h) = q  BY <1>3 DEF Popped
  <2> QED  BY <2>4, <2>5
<1> QED  BY <1>2, <1>3

\* The words from y on and before z enter a half, one at most.
LEMMA HalfPush ==
    ASSUME NEW q \in Seq(Int), NEW h \in {0, 1}, NEW x \in Int, NEW y \in Int,
           NEW z \in Int, Half(q, h, x, y), y <= z,
           NEW w \in BOOLEAN, NEW d \in Int,
           w => y <= d /\ d < z /\ d % 2 = h,
           \A a \in y .. z - 1 : a % 2 = h => w /\ a = d
    PROVE  Half(q \o Reg(w, d), h, x, z)
<1>1. /\ x <= y
      /\ \A i \in 1 .. Len(q) : x <= q[i] /\ q[i] < y /\ q[i] % 2 = h /\ q[i] \in Int
      /\ \A i, j \in 1 .. Len(q) : i < j => q[i] < q[j]
      /\ \A a \in x .. y - 1 : a % 2 = h => \E i \in 1 .. Len(q) : q[i] = a
  BY ElementOfSeq DEF Half
<1>2. CASE w
  <2> DEFINE r == q \o <<d>>
  <2>1. /\ Len(q) \in Nat /\ r \in Seq(Int) /\ Len(r) = Len(q) + 1
        /\ \A i \in 1 .. Len(q) : r[i] = q[i]
        /\ r[Len(q) + 1] = d
    <3>1. r = Append(q, d)  BY AppendIsConcat
    <3> QED  BY <3>1, AppendProperties, LenProperties
  <2> HIDE DEF r
  <2>2. \A i : i \in 1 .. Len(r) <=> i \in 1 .. Len(q) \/ i = Len(q) + 1  BY <2>1
  <2>3. ASSUME NEW i \in 1 .. Len(r)  PROVE x <= r[i] /\ r[i] < z /\ r[i] % 2 = h
    <3>1. CASE i \in 1 .. Len(q)
      <4>1. r[i] = q[i] /\ q[i] \in Int /\ x <= q[i] /\ q[i] < y /\ q[i] % 2 = h
        BY <1>1, <2>1, <3>1
      <4> QED  BY <4>1
    <3>2. CASE i = Len(q) + 1
      <4>1. r[i] = d /\ x <= y /\ y <= d /\ d < z /\ d % 2 = h  BY <1>1, <1>2, <2>1, <3>2
      <4> QED  BY <4>1
    <3> QED  BY <2>2, <3>1, <3>2
  <2>4. ASSUME NEW i \in 1 .. Len(r), NEW j \in 1 .. Len(r), i < j  PROVE r[i] < r[j]
    <3>1. i \in 1 .. Len(q)  BY <2>1, <2>4
    <3>2. CASE j \in 1 .. Len(q)  BY <1>1, <2>1, <2>4, <3>1, <3>2
    <3>3. CASE j = Len(q) + 1
      <4>1. r[i] = q[i] /\ q[i] < y /\ q[i] \in Int /\ y <= d /\ r[j] = d
        BY <1>1, <1>2, <2>1, <3>1, <3>3
      <4> QED  BY <4>1
    <3> QED  BY <2>2, <3>2, <3>3
  <2>5. ASSUME NEW a \in x .. z - 1, a % 2 = h  PROVE \E i \in 1 .. Len(r) : r[i] = a
    <3>1. CASE a < y
      <4>1. a \in x .. y - 1  BY <3>1
      <4>2. PICK i \in 1 .. Len(q) : q[i] = a  BY <1>1, <2>5, <4>1
      <4> QED  BY <2>1, <2>2, <4>2
    <3>2. CASE a >= y
      <4>1. a \in y .. z - 1  BY <3>2
      <4>2. a = d /\ Len(q) + 1 \in 1 .. Len(r)  BY <2>1, <2>5, <4>1
      <4> QED  BY <2>1, <4>2
    <3> QED  BY <3>1, <3>2
  <2>6. x <= z  BY <1>1
  <2> QED  BY <1>2, <2>3, <2>4, <2>5, <2>6 DEF Half, Reg, r
<1>3. CASE ~w
  <2>1. q \o Reg(w, d) = q  BY <1>3, ConcatEmptySeq DEF Reg
  <2>2. \A i \in 1 .. Len(q) : x <= q[i] /\ q[i] < z /\ q[i] % 2 = h  BY <1>1
  <2>3. ASSUME NEW a \in x .. z - 1, a % 2 = h  PROVE \E i \in 1 .. Len(q) : q[i] = a
    <3>1. CASE a < y
      <4>1. a \in x .. y - 1  BY <3>1
      <4> QED  BY <1>1, <2>3, <4>1
    <3>2. CASE a >= y
      <4>1. a \in y .. z - 1  BY <3>2
      <4> QED  BY <1>3, <2>3, <4>1
    <3> QED  BY <3>1, <3>2
  <2>4. x <= z  BY <1>1
  <2> QED  BY <1>1, <2>1, <2>2, <2>3, <2>4 DEF Half
<1> QED  BY <1>2, <1>3

\* Two empty halves: no word is left.
LEMMA HalfEmpty ==
    ASSUME NEW h, NEW x \in Int, NEW y \in Int, Half(<< >>, 0, x, y), Half(<< >>, 1, x, y)
    PROVE  x = y
<1>1. 1 .. Len(<< >>) = {}  OBVIOUS
<1>2. x <= y /\ \A h2 \in {0, 1} : \A a \in x .. y - 1 : a % 2 # h2  BY <1>1 DEF Half
<1>3. x % 2 \in {0, 1}  OBVIOUS
<1>4. ~(x < y)
  <2>1. SUFFICES ASSUME x < y  PROVE FALSE
    OBVIOUS
  <2>2. x \in x .. y - 1  BY <2>1
  <2> QED  BY <1>2, <1>3, <2>2
<1> QED  BY <1>2, <1>4

\* No word between x and x.
LEMMA HalfNothing ==
    ASSUME NEW h, NEW x \in Int  PROVE Half(<< >>, h, x, x)
<1>1. 1 .. Len(<< >>) = {}  OBVIOUS
<1>2. x .. x - 1 = {} /\ x <= x  OBVIOUS
<1> QED  BY <1>1, <1>2 DEF Half

-----------------------------------------------------------------------------
(* Types, and room where a machine writes.                                 *)

Masks == SUBSET {0, 1}
Request == [lane : Lanes, pair : Int]
Response == [lane : Lanes, pair : Int, err : BOOLEAN]
Pair == [pair : Int, mask : Masks]
Operands == Seq(Int \X Int)
Halves == [word : Seq(Int) \X Seq(Int), sel : {0, 1}]

ReqTypes ==
    /\ vaddr \in [Lanes -> Nat] /\ vlen \in [Lanes -> Nat]
    /\ rx_fsm \in [Lanes -> {"IDLE", "RECV", "STALL", "FLUSH"}]
    /\ rq_fifo \in [Lanes -> Seq(Int)] /\ we_fifo \in [Lanes -> Seq(Masks)]
    /\ rrq_fifo \in Seq(Request)
    /\ rrq_wr \in BOOLEAN /\ (rrq_wr => rrq \in Request)
    /\ we_wr \in [Lanes -> BOOLEAN] /\ we_mask \in [Lanes -> Masks]

RespTypes ==
    /\ rswe_fsm \in [Lanes -> {"IDLE", "RECV", "STLL"}] /\ rs_fsm \in {"IDLE", "RECV", "STLL"}
    /\ rswe_fifo \in [Lanes -> Seq(Masks)] /\ rs_fifo \in Seq(Request)
    /\ q_err_flush \in BOOLEAN
    /\ op_fifo \in [Lanes -> Seq(Pair)]
    /\ opd_wr \in [Lanes -> BOOLEAN] /\ \A l \in Lanes : opd_wr[l] => opd[l] \in Pair
    /\ f21 \in [Lanes -> Halves]

FmacTypes ==
    /\ opr_fsm \in [Lanes -> {"IDLE", "RECV", "STLL"}] /\ opr_fifo \in [Lanes -> Seq(Int)]
    /\ fmacd \in {"IDLE", "DISP", "ERRF"} /\ slot \in 0 .. 7
    /\ pipe \in [1 .. PipeLength -> (Threads \X Operands) \cup {NoOp}]
    /\ acc \in [Threads -> Operands]

LsuTypes ==
    /\ arb \in {"EMPTY", "RDFIFO", "RDSTALL"}
    /\ {lrq_fifo, rqa_fifo, rrs_fifo} \subseteq Seq(Request) /\ rss_fifo \in Seq(Response)
    /\ {rqa_wr, rrs_wr, rss_rd, disabled_q} \subseteq BOOLEAN
    /\ (rqa_wr => rqa \in Request) /\ (rrs_wr => rrs \in Request)
    /\ on_fly \in Int

CtlTypes ==
    /\ eu_start \in BOOLEAN /\ eu_wait \in {0, 1, 3} /\ done \in BOOLEAN
    /\ busy_q \in BOOLEAN /\ erred \in BOOLEAN
    /\ weq \in [Lanes -> Seq(Masks)] /\ mem \in [Lanes -> Seq(Int)]
    /\ chan \in Seq(Response) /\ regs \in RegisterFiles

Types == ReqTypes /\ RespTypes /\ FmacTypes /\ LsuTypes /\ CtlTypes

\* A machine that may write leaves room for it.
Rooms ==
    /\ rs_fsm # "STLL" => Len(rs_fifo) < RsdRsDepth
    /\ rss_rd => Len(rss_fifo) < Slots4
    /\ arb = "RDFIFO" => Len(rqa_fifo) < Slots4
    /\ Len(rrs_fifo) <= LsuRsDepth
    /\ \A l \in Lanes :
        /\ rx_fsm[l] \in {"IDLE", "RECV"} => /\ Len(rq_fifo[l]) < RqdInDepth
                                            /\ Len(we_fifo[l]) < RqdInDepth
        /\ rswe_fsm[l] # "STLL" => Len(rswe_fifo[l]) < RsdWeDepth
        /\ opr_fsm[l] # "STLL" => Len(opr_fifo[l]) < FmacDepth

\* What the assumption says of each constant.
LEMMA Constants ==
    /\ Threads \subseteq 0 .. 7 /\ PipeLength = 7 /\ Slots4 = 4 /\ Rs = 0 /\ Rt = 1
    /\ RqdInDepth \in Nat /\ RqdInDepth > 1 /\ RqdOutDepth \in Nat /\ RqdOutDepth > 1
    /\ RsdWeDepth \in Nat /\ RsdWeDepth > 1 /\ RsdRsDepth \in Nat /\ RsdRsDepth > 1
    /\ RsdOpDepth \in Nat /\ RsdOpDepth > 1 /\ OpDepth \in Nat /\ OpDepth > 1
    /\ FmacDepth \in Nat /\ FmacDepth > 1 /\ LsuRdDepth \in Nat /\ LsuRdDepth > 1
    /\ LsuRsDepth \in Nat /\ LsuRsDepth > 1 /\ WeDepth \in Nat /\ WeDepth > 1
    /\ NumReq \in Nat /\ NumReq > 0 /\ ChanDepth \in Nat /\ ChanDepth > 0
<1>1. \A n \in Nat \ {0, 1} : n > 1  OBVIOUS
<1>2. {RqdInDepth, RqdOutDepth, RsdWeDepth, RsdRsDepth, RsdOpDepth, OpDepth, FmacDepth,
        LsuRdDepth, LsuRsDepth, WeDepth} \subseteq Nat \ {0, 1}
  BY ProductAssumption
<1>3. {NumReq, ChanDepth} \subseteq Nat \ {0}  BY ProductAssumption
<1> QED  BY <1>1, <1>2, <1>3, ProductAssumption DEF PipeLength, Slots4, Rs, Rt

\* A lane is a thread and one of two operands.
LEMMA LaneParts ==
    /\ \A l \in Lanes : l[1] \in Threads /\ l[2] \in {0, 1} /\ l = <<l[1], l[2]>>
    /\ \A t \in Threads, a \in {0, 1} : <<t, a>> \in Lanes
    /\ \A t \in Threads : t \in 0 .. 7
BY Constants DEF Lanes

\* A read of a FIFO, its type and length.
LEMMA ReadSeq ==
    ASSUME NEW S, NEW q \in Seq(S), NEW b
    PROVE  /\ FifoRead(q, b) \in Seq(S) /\ Len(FifoRead(q, b)) \in Nat /\ Len(q) \in Nat
           /\ Len(FifoRead(q, b)) <= Len(q) /\ Len(FifoRead(q, b)) >= Len(q) - 1
<1>1. CASE b /\ q # << >>
  <2>1. Tail(q) \in Seq(S) /\ Len(Tail(q)) = Len(q) - 1 /\ Len(q) \in Nat \ {0}
    BY <1>1, HeadTailProperties, EmptySeq
  <2> QED  BY <1>1, <2>1 DEF FifoRead
<1>2. CASE ~(b /\ q # << >>)
  <2>1. Len(q) \in Nat  BY LenProperties
  <2> QED  BY <1>2, <2>1 DEF FifoRead
<1> QED  BY <1>1, <1>2

\* A write behind a queue, its type and length.
LEMMA PutSeq ==
    ASSUME NEW S, NEW q \in Seq(S), NEW p, NEW d, p => d \in S
    PROVE  LET r == q \o (IF p THEN <<d>> ELSE << >>)
           IN  /\ r \in Seq(S) /\ Len(r) \in Nat
               /\ p => Len(r) = Len(q) + 1 /\ r # << >>
               /\ ~p => r = q
<1>1. Len(q) \in Nat  BY LenProperties
<1>2. CASE p
  <2>1. d \in S /\ q \o <<d>> = Append(q, d)  BY <1>2, AppendIsConcat
  <2> QED  BY <1>1, <1>2, <2>1, AppendProperties
<1>3. CASE ~p  BY <1>1, <1>3, ConcatEmptySeq
<1> QED  BY <1>2, <1>3

\* An edge at a guarded FIFO keeps it within its depth.
LEMMA NextSeq ==
    ASSUME NEW S, NEW q \in Seq(S), NEW n \in Nat, NEW b, NEW w, NEW d, w => d \in S
    PROVE  LET r == FifoNext(q, n, b, w, d)
           IN  /\ r \in Seq(S) /\ Len(r) \in Nat
               /\ Len(q) <= n => Len(r) <= n
<1> DEFINE f == FifoRead(q, b)   r == FifoNext(q, n, b, w, d)
<1>1. f \in Seq(S) /\ Len(f) \in Nat /\ Len(q) \in Nat /\ Len(f) <= Len(q)  BY ReadSeq
<1>2. CASE w /\ Len(q) < n
  <2>1. d \in S /\ r = Append(f, d)  BY <1>2 DEF FifoNext
  <2> HIDE DEF f, r
  <2>2. r \in Seq(S) /\ Len(r) = Len(f) + 1  BY <1>1, <2>1, AppendProperties
  <2>3. Len(r) \in Nat /\ Len(r) <= n  BY <1>1, <1>2, <2>2
  <2> QED  BY <2>2, <2>3 DEF r
<1>3. CASE ~(w /\ Len(q) < n)
  <2>1. r = f  BY <1>3 DEF FifoNext
  <2> HIDE DEF f, r
  <2>2. r \in Seq(S) /\ Len(r) \in Nat /\ (Len(q) <= n => Len(r) <= n)  BY <1>1, <2>1
  <2> QED  BY <2>2 DEF r
<1> QED  BY <1>2, <1>3

\* The first element of a sequence has its type.
LEMMA HeadIn ==
    ASSUME NEW S, NEW q \in Seq(S), q # << >>
    PROVE  Head(q) \in S
BY HeadTailProperties

-----------------------------------------------------------------------------
(* A step keeps the types.                                                 *)

\* The generators and the dispatcher of the requests keep their types.
LEMMA ReqTypesStep ==
    ASSUME Types, NEW r \in RegisterFiles \cup {Idles}, NEW ans, NEW ready,
           ProductClock(r, ans, ready)
    PROVE  ReqTypes'
<1> USE DEF Types, ReqTypes
<1> DEFINE base == [l \in Lanes |-> IF l[2] = Rs THEN regs[l[1]].rs ELSE regs[l[1]].rt]
           len == [l \in Lanes |-> regs[l[1]].vl]
           latch == [l \in Lanes |-> eu_start /\ regs[l[1]].en]
<1>0. /\ AgenClock(latch, base, len)
      /\ ReqDispClock(LsuErr, RrqRdy, WeRdy)
  BY DEF ProductClock
<1>a. base \in [Lanes -> Nat] /\ len \in [Lanes -> Nat]
  BY LaneParts DEF CtlTypes, RegisterFiles
<1> HIDE DEF base, len, latch
<1>1. vaddr' \in [Lanes -> Nat] /\ vlen' \in [Lanes -> Nat]
  <2>1. ASSUME NEW l \in Lanes
        PROVE  /\ vaddr[l] + WordsTaken(l) \in Nat
               /\ Incr(l) /\ Valid(l) => vlen[l] - WordsTaken(l) \in Nat
    BY DEF WordsTaken, Odd, Valid
  <2> QED  BY <1>0, <1>a, <2>1 DEF AgenClock
<1>2. rx_fsm' \in [Lanes -> {"IDLE", "RECV", "STALL", "FLUSH"}]
  BY <1>0 DEF ReqDispClock, RxFSM
<1>3. rq_fifo' \in [Lanes -> Seq(Int)]
  <2>1. ASSUME NEW l \in Lanes
        PROVE  FifoRead(rq_fifo[l], Schedules(l))
                 \o (IF Requests(l) THEN <<vaddr[l] \div 2>> ELSE << >>) \in Seq(Int)
    <3>1. FifoRead(rq_fifo[l], Schedules(l)) \in Seq(Int)  BY ReadSeq
    <3>2. vaddr[l] \div 2 \in Int  OBVIOUS
    <3> QED  BY <3>1, <3>2, PutSeq
  <2> QED  BY <1>0, <2>1 DEF ReqDispClock
<1>4. we_fifo' \in [Lanes -> Seq(Masks)]
  <2>1. ASSUME NEW l \in Lanes, NEW b
        PROVE  FifoRead(we_fifo[l], b)
                 \o (IF Requests(l) THEN <<WordMask(l)>> ELSE << >>) \in Seq(Masks)
    <3>1. FifoRead(we_fifo[l], b) \in Seq(Masks)  BY ReadSeq
    <3>2. WordMask(l) \in Masks  BY DEF WordMask, Masks
    <3> QED  BY <3>1, <3>2, PutSeq
  <2> QED  BY <1>0, <2>1 DEF ReqDispClock
<1>5. rrq_fifo' \in Seq(Request)
  <2> DEFINE l == CHOOSE k \in Lanes : Schedules(k)
             p == \E k \in Lanes : Schedules(k)
             kept == FifoRead(rrq_fifo, Loads(rrq_wr, RrqRdy, rrq_fifo))
             d == [lane |-> l, pair |-> Head(rq_fifo[l])]
  <2>1. rrq_fifo' = kept \o (IF p THEN <<d>> ELSE << >>)  BY <1>0 DEF ReqDispClock
  <2>2. kept \in Seq(Request)  BY ReadSeq
  <2>3. p => d \in Request
    <3>1. SUFFICES ASSUME p  PROVE d \in Request
      OBVIOUS
    <3>2. l \in Lanes /\ Schedules(l)  BY <3>1
    <3>3. Head(rq_fifo[l]) \in Int  BY <3>2, HeadIn DEF Schedules
    <3> QED  BY <3>2, <3>3 DEF Request
  <2> HIDE DEF l, p, kept, d
  <2> QED  BY <2>1, <2>2, <2>3, PutSeq
<1>6. rrq_wr' \in BOOLEAN  BY <1>0 DEF ReqDispClock, StillOffers
<1>7. rrq_wr' => rrq' \in Request
  <2>1. SUFFICES ASSUME rrq_wr'  PROVE rrq' \in Request
    OBVIOUS
  <2>2. CASE Loads(rrq_wr, RrqRdy, rrq_fifo)
    <3>1. rrq_fifo # << >>  BY <2>2 DEF Loads
    <3>2. Head(rrq_fifo) \in Request  BY <3>1, HeadIn
    <3> QED  BY <1>0, <2>2, <3>2 DEF ReqDispClock
  <2>3. CASE ~Loads(rrq_wr, RrqRdy, rrq_fifo)
    <3>1. rrq' = rrq /\ rrq_wr  BY <1>0, <2>1, <2>3 DEF ReqDispClock, StillOffers, Loads
    <3> QED  BY <3>1
  <2> QED  BY <2>2, <2>3
<1>8. we_wr' \in [Lanes -> BOOLEAN]  BY <1>0 DEF ReqDispClock, StillOffers
<1>9. we_mask' \in [Lanes -> Masks]
  <2>1. ASSUME NEW l \in Lanes, we_fifo[l] # << >>  PROVE Head(we_fifo[l]) \in Masks
    BY <2>1, HeadIn
  <2> QED  BY <1>0, <2>1 DEF ReqDispClock, Loads
<1> QED  BY <1>1, <1>2, <1>3, <1>4, <1>5, <1>6, <1>7, <1>8, <1>9

\* The distributor of the responses keeps its types.
LEMMA RespTypesStep ==
    ASSUME Types, NEW r \in RegisterFiles \cup {Idles}, NEW ans, NEW ready,
           ProductClock(r, ans, ready)
    PROVE  RespTypes'
<1> USE DEF Types, RespTypes
<1> DEFINE vld == rrs_fifo # << >>
           in == IF rrs_fifo = << >> THEN << >> ELSE Head(rrs_fifo)
           wvld == [l \in Lanes |-> weq[l] # << >>]
           win == [l \in Lanes |-> IF weq[l] = << >> THEN {} ELSE Head(weq[l])]
           rd == [l \in Lanes |-> opr_fsm[l] = "RECV"]
           flush == LsuErr \/ q_err_flush
<1>0. RespDistClock(LsuErr, vld, in, wvld, win, rd)  BY DEF ProductClock
<1>a. vld => in \in Request  BY HeadIn DEF LsuTypes
<1>b. win \in [Lanes -> Masks]
  <2>1. ASSUME NEW l \in Lanes, weq[l] # << >>  PROVE Head(weq[l]) \in Masks
    BY <2>1, HeadIn DEF CtlTypes
  <2> QED  BY <2>1 DEF Masks
<1> HIDE DEF vld, in, wvld, win, rd
<1>1. rswe_fsm' \in [Lanes -> {"IDLE", "RECV", "STLL"}] /\ rs_fsm' \in {"IDLE", "RECV", "STLL"}
  BY <1>0 DEF RespDistClock, TakeFSM
<1>2. rswe_fifo' \in [Lanes -> Seq(Masks)]
  <2>1. ASSUME NEW l \in Lanes
        PROVE  (IF flush THEN << >> ELSE FifoRead(rswe_fifo[l], Distributes(l, flush)))
                 \o (IF rswe_fsm[l] = "RECV" /\ wvld[l] THEN <<win[l]>> ELSE << >>)
                   \in Seq(Masks)
    <3>1. (IF flush THEN << >> ELSE FifoRead(rswe_fifo[l], Distributes(l, flush))) \in Seq(Masks)
      BY ReadSeq, EmptySeq
    <3> QED  BY <1>b, <3>1, PutSeq
  <2> QED  BY <1>0, <2>1 DEF RespDistClock
<1>3. rs_fifo' \in Seq(Request)
  <2> DEFINE b == \E l \in Lanes : Distributes(l, flush)
             kept == IF flush THEN << >> ELSE FifoRead(rs_fifo, b)
             p == rs_fsm = "RECV" /\ vld
  <2>1. rs_fifo' = kept \o (IF p THEN <<in>> ELSE << >>)  BY <1>0 DEF RespDistClock
  <2>2. kept \in Seq(Request)  BY ReadSeq, EmptySeq
  <2>3. p => in \in Request  BY <1>a
  <2> HIDE DEF kept, p
  <2> QED  BY <2>1, <2>2, <2>3, PutSeq
<1>4. q_err_flush' \in BOOLEAN  BY <1>0 DEF RespDistClock, InBusy
<1>5. op_fifo' \in [Lanes -> Seq(Pair)]
  <2>1. ASSUME NEW l \in Lanes, NEW b
        PROVE  FifoRead(op_fifo[l], b)
                 \o (IF Distributes(l, flush)
                     THEN <<[pair |-> Head(rs_fifo).pair, mask |-> Head(rswe_fifo[l])]>>
                     ELSE << >>) \in Seq(Pair)
    <3> DEFINE p == Distributes(l, flush)
               d == [pair |-> Head(rs_fifo).pair, mask |-> Head(rswe_fifo[l])]
    <3>1. FifoRead(op_fifo[l], b) \in Seq(Pair)  BY ReadSeq
    <3>2. p => d \in Pair
      <4>1. SUFFICES ASSUME p  PROVE d \in Pair
        OBVIOUS
      <4>2. Head(rs_fifo) \in Request  BY <4>1, HeadIn DEF Distributes
      <4>3. Head(rswe_fifo[l]) \in Masks  BY <4>1, HeadIn DEF Distributes
      <4> QED  BY <4>2, <4>3 DEF Request, Pair
    <3> HIDE DEF p, d
    <3>3. FifoRead(op_fifo[l], b) \o (IF p THEN <<d>> ELSE << >>) \in Seq(Pair)
      BY <3>1, <3>2, PutSeq
    <3> QED  BY <3>3 DEF p, d
  <2> QED  BY <1>0, <2>1 DEF RespDistClock
<1>6. opd_wr' \in [Lanes -> BOOLEAN]  BY <1>0 DEF RespDistClock, StillOffers
<1>7. ASSUME NEW l \in Lanes, opd_wr'[l]  PROVE opd'[l] \in Pair
  <2>1. CASE Loads(opd_wr[l], F21Rdy(l), op_fifo[l])
    <3>1. op_fifo[l] # << >>  BY <2>1 DEF Loads
    <3>2. Head(op_fifo[l]) \in Pair  BY <3>1, HeadIn
    <3> QED  BY <1>0, <2>1, <3>2 DEF RespDistClock
  <2>2. CASE ~Loads(opd_wr[l], F21Rdy(l), op_fifo[l])
    <3>1. opd'[l] = opd[l] /\ opd_wr[l]
      BY <1>0, <1>7, <2>2 DEF RespDistClock, StillOffers, Loads
    <3> QED  BY <3>1
  <2> QED  BY <2>1, <2>2
<1>8. f21' \in [Lanes -> Halves]
  <2>1. ASSUME NEW l \in Lanes, NEW b  PROVE F21Clock(l, b) \in Halves
    <3> DEFINE w == IF opd_wr[l] /\ F21Rdy(l) THEN opd[l].mask ELSE {}
               half(h) == FifoNext(f21[l].word[h + 1], OpDepth, b /\ f21[l].sel = h,
                                   h \in w, 2 * opd[l].pair + h)
    <3>1. f21[l].word \in Seq(Int) \X Seq(Int) /\ f21[l].sel \in {0, 1}  BY DEF Halves
    <3>2. ASSUME NEW h \in {0, 1}, NEW c
          PROVE  FifoNext(f21[l].word[h + 1], OpDepth, c, h \in w, 2 * opd[l].pair + h) \in Seq(Int)
      <4>1. f21[l].word[h + 1] \in Seq(Int)  BY <3>1
      <4>2. h \in w => opd[l] \in Pair  OBVIOUS
      <4>3. h \in w => 2 * opd[l].pair + h \in Int  BY <4>2 DEF Pair
      <4> HIDE DEF w
      <4> QED  BY <4>1, <4>3, NextSeq, Constants
    <3>3. half(0) \in Seq(Int) /\ half(1) \in Seq(Int)  BY <3>2
    <3>4. F21Clock(l, b).word = <<half(0), half(1)>>  BY DEF F21Clock
    <3>5. F21Clock(l, b).sel \in {0, 1}  BY <3>1 DEF F21Clock
    <3> HIDE DEF half, w
    <3>6. F21Clock(l, b) = [word |-> F21Clock(l, b).word, sel |-> F21Clock(l, b).sel]
      BY DEF F21Clock
    <3> QED  BY <3>3, <3>4, <3>5, <3>6 DEF Halves
  <2> QED  BY <1>0, <2>1 DEF RespDistClock
<1> QED  BY <1>1, <1>2, <1>3, <1>4, <1>5, <1>6, <1>7, <1>8

\* The pipe after an edge, as a concatenation.
LEMMA PipeConcat ==
    ASSUME NEW T, NEW h \in Seq(T), Len(h) = 1, NEW s \in Seq(T), Len(s) = 6
    PROVE  /\ h \o s \in Seq(T) /\ Len(h \o s) = 7 /\ (h \o s)[1] = h[1]
           /\ \A i \in 2 .. 7 : (h \o s)[i] = s[i - 1]
<1>1. /\ h \o s \in Seq(T) /\ Len(h \o s) = Len(h) + Len(s)
      /\ \A i \in 1 .. Len(h) + Len(s) :
             (h \o s)[i] = IF i <= Len(h) THEN h[i] ELSE s[i - Len(h)]
  BY ConcatProperties
<1>2. \A i \in 2 .. 7 : i \in 1 .. 7 /\ ~(i <= 1)  OBVIOUS
<1> QED  BY <1>1, <1>2

\* All of the pipe but its end.
LEMMA PipeTail ==
    ASSUME NEW T, NEW p, \A i \in 1 .. 6 : p[i] \in T
    PROVE  /\ SubSeq(p, 1, 6) \in Seq(T) /\ Len(SubSeq(p, 1, 6)) = 6
           /\ \A i \in 1 .. 6 : SubSeq(p, 1, 6)[i] = p[i]
<1> DEFINE s == SubSeq(p, 1, 6)
<1>1. /\ s \in Seq(T) /\ Len(s) = (IF 1 <= 6 THEN 6 - 1 + 1 ELSE 0)
      /\ \A i \in 1 .. 6 - 1 + 1 : s[i] = p[1 + i - 1]
  BY SubSeqProperties
<1> QED  BY <1>1

\* The operation that enters the pipe.
SomeDispatched == \E t \in Threads : Dispatched(t)
Operation == IF SomeDispatched
             THEN <<slot, Append(acc[slot], <<Head(opr_fifo[<<slot, Rs>>]),
                                              Head(opr_fifo[<<slot, Rt>>])>>)>>
             ELSE NoOp

\* What the dispatcher puts into the pipe has the type of an operation.
LEMMA OperationType ==
    ASSUME FmacTypes
    PROVE  Operation \in (Threads \X Operands) \cup {NoOp}
<1>1. SUFFICES ASSUME SomeDispatched  PROVE Operation \in Threads \X Operands
  BY DEF Operation
<1>2. slot \in Threads /\ Rdy(slot)  BY <1>1 DEF SomeDispatched, Dispatched
<1>3. Head(opr_fifo[<<slot, Rs>>]) \in Int /\ Head(opr_fifo[<<slot, Rt>>]) \in Int
  <2>1. /\ opr_fifo[<<slot, Rs>>] \in Seq(Int) /\ opr_fifo[<<slot, Rt>>] \in Seq(Int)
        /\ opr_fifo[<<slot, Rs>>] # << >> /\ opr_fifo[<<slot, Rt>>] # << >>
    BY <1>2, LaneParts, Constants DEF FmacTypes, Rdy
  <2> QED  BY <2>1, HeadIn
<1> DEFINE d == <<Head(opr_fifo[<<slot, Rs>>]), Head(opr_fifo[<<slot, Rt>>])>>
<1>4. d \in Int \X Int /\ acc[slot] \in Seq(Int \X Int)
  BY <1>2, <1>3 DEF FmacTypes, Operands
<1>5. Operation = <<slot, Append(acc[slot], d)>>  BY <1>1 DEF Operation
<1> HIDE DEF d
<1>6. Append(acc[slot], d) \in Seq(Int \X Int)  BY <1>4, AppendProperties
<1> QED  BY <1>2, <1>5, <1>6 DEF Operands

\* The multiplier keeps its types, and its pipe moves by one place.
LEMMA FmacTypesStep ==
    ASSUME Types, NEW r \in RegisterFiles \cup {Idles}, NEW ans, NEW ready,
           ProductClock(r, ans, ready)
    PROVE  /\ FmacTypes'
           /\ pipe'[1] = Operation /\ \A i \in 2 .. PipeLength : pipe'[i] = pipe[i - 1]
<1> USE DEF Types, FmacTypes
<1> DEFINE vld == [l \in Lanes |-> F21Vld(l)]
           word == [l \in Lanes |-> F21Out(l)]
<1>0. FmacClock(LsuErr, vld, word, Starts(r))  BY DEF ProductClock
<1>a. word \in [Lanes -> Int]
  <2>1. ASSUME NEW l \in Lanes  PROVE F21Out(l) \in Int
    <3>1. f21[l].word \in Seq(Int) \X Seq(Int) /\ f21[l].sel \in {0, 1}
      BY DEF RespTypes, Halves
    <3>2. Selected(l) \in Seq(Int)  BY <3>1 DEF Selected
    <3> QED  BY <3>2, HeadIn DEF F21Out, NoWord
  <2> QED  BY <2>1
<1> HIDE DEF vld, word
<1>1. opr_fsm' \in [Lanes -> {"IDLE", "RECV", "STLL"}]  BY <1>0 DEF FmacClock, TakeFSM
<1>2. opr_fifo' \in [Lanes -> Seq(Int)]
  <2>1. ASSUME NEW l \in Lanes
        PROVE  (IF fmacd = "ERRF" THEN << >> ELSE FifoRead(opr_fifo[l], Dispatched(l[1])))
                 \o (IF opr_fsm[l] = "RECV" /\ vld[l] THEN <<word[l]>> ELSE << >>)
                   \in Seq(Int)
    <3>1. (IF fmacd = "ERRF" THEN << >> ELSE FifoRead(opr_fifo[l], Dispatched(l[1]))) \in Seq(Int)
      BY ReadSeq, EmptySeq
    <3> QED  BY <1>a, <3>1, PutSeq
  <2> QED  BY <1>0, <2>1 DEF FmacClock
<1>3. fmacd' \in {"IDLE", "DISP", "ERRF"}  BY <1>0 DEF FmacClock, DispatchFSM
<1>4. slot' \in 0 .. 7  BY <1>0 DEF FmacClock
<1>5. /\ pipe' \in [1 .. PipeLength -> (Threads \X Operands) \cup {NoOp}]
      /\ pipe'[1] = Operation /\ \A i \in 2 .. PipeLength : pipe'[i] = pipe[i - 1]
  <2>1. pipe' = <<Operation>> \o SubSeq(pipe, 1, PipeLength - 1)
    BY <1>0 DEF FmacClock, Operation, SomeDispatched
  <2> DEFINE T == (Threads \X Operands) \cup {NoOp}
             h == <<Operation>>
  <2>2. pipe \in [1 .. 7 -> T] /\ Operation \in T  BY OperationType DEF PipeLength
  <2>3. h \in Seq(T) /\ Len(h) = 1 /\ h[1] = Operation  BY <2>2
  <2>4. pipe' = h \o SubSeq(pipe, 1, 6)  BY <2>1 DEF PipeLength
  <2> DEFINE s == SubSeq(pipe, 1, 6)
  <2> HIDE DEF T, h
  <2>5. \A i \in 1 .. 6 : pipe[i] \in T
    <3>1. \A i \in 1 .. 6 : i \in 1 .. 7  OBVIOUS
    <3> QED  BY <2>2, <3>1
  <2>6. s \in Seq(T) /\ Len(s) = 6 /\ \A i \in 1 .. 6 : s[i] = pipe[i]  BY <2>5, PipeTail
  <2> HIDE DEF s
  <2>7. /\ h \o s \in Seq(T) /\ Len(h \o s) = 7 /\ (h \o s)[1] = h[1]
        /\ \A i \in 2 .. 7 : (h \o s)[i] = s[i - 1]
    BY <2>3, <2>6, PipeConcat
  <2>8. h \o s \in [1 .. Len(h \o s) -> T]  BY <2>7, LenProperties
  <2>9. pipe' \in [1 .. 7 -> T] /\ pipe'[1] = Operation  BY <2>3, <2>4, <2>7, <2>8 DEF s
  <2>10. \A i \in 2 .. 7 : i - 1 \in 1 .. 6  OBVIOUS
  <2>11. \A i \in 2 .. 7 : pipe'[i] = pipe[i - 1]  BY <2>4, <2>6, <2>7, <2>10 DEF s
  <2> QED  BY <2>9, <2>11 DEF T, PipeLength
<1>6. acc' \in [Threads -> Operands]
  <2>1. CASE Starts(r)
    <3>1. << >> \in Operands  BY EmptySeq DEF Operands
    <3> QED  BY <1>0, <2>1, <3>1 DEF FmacClock
  <2>2. CASE ~Starts(r) /\ pipe[PipeLength] # NoOp
    <3>1. pipe[PipeLength] \in Threads \X Operands  BY <2>2 DEF PipeLength
    <3>2. acc' = [acc EXCEPT ![pipe[PipeLength][1]] = pipe[PipeLength][2]]
      BY <1>0, <2>2 DEF FmacClock
    <3> QED  BY <3>1, <3>2
  <2>3. CASE ~Starts(r) /\ pipe[PipeLength] = NoOp  BY <1>0, <2>3 DEF FmacClock
  <2> QED  BY <2>1, <2>2, <2>3
<1> QED  BY <1>1, <1>2, <1>3, <1>4, <1>5, <1>6

\* The load-store unit keeps its types, and its last FIFO, which has a guard, its depth.
LEMMA LsuTypesStep ==
    ASSUME Types, NEW r \in RegisterFiles \cup {Idles}, NEW ans, NEW ready,
           ProductClock(r, ans, ready)
    PROVE  LsuTypes' /\ (Len(rrs_fifo) <= LsuRsDepth => Len(rrs_fifo') <= LsuRsDepth)
<1> USE DEF Types, LsuTypes
<1> DEFINE in == IF chan = << >> THEN << >> ELSE Head(chan)
<1>0. /\ RequestClock(rrq_wr, rrq, ready)
      /\ ResponseClock(chan # << >>, in, ready, rs_fsm = "RECV", Reinit(r))
  BY DEF ProductClock
<1>a. chan # << >> => in \in Response  BY HeadIn DEF CtlTypes
<1>b. /\ rrq_wr \in BOOLEAN /\ (rrq_wr => rrq \in Request)  BY DEF ReqTypes
<1> HIDE DEF in
<1>1. arb' \in {"EMPTY", "RDFIFO", "RDSTALL"}
  <2>1. ArbFSM \in {"EMPTY", "RDFIFO", "RDSTALL"}  BY DEF ArbFSM
  <2> QED  BY <1>0, <2>1 DEF RequestClock
<1>2. lrq_fifo' \in Seq(Request)
  <2>1. FifoNext(lrq_fifo, LsuRdDepth, arb = "RDFIFO", rrq_wr, rrq) \in Seq(Request)
    BY <1>b, NextSeq, Constants
  <2> QED  BY <1>0, <2>1, EmptySeq DEF RequestClock
<1>3. rqa_fifo' \in Seq(Request)
  <2> DEFINE p == arb = "RDFIFO" /\ lrq_fifo # << >> /\ ~Disabled
             kept == FifoRead(rqa_fifo, Sends(ready))
  <2>1. rqa_fifo' = kept \o (IF p THEN <<Head(lrq_fifo)>> ELSE << >>)
    BY <1>0 DEF RequestClock
  <2>2. kept \in Seq(Request)  BY ReadSeq
  <2>3. p => Head(lrq_fifo) \in Request  BY HeadIn
  <2> HIDE DEF kept, p
  <2> QED  BY <2>1, <2>2, <2>3, PutSeq
<1>4. rqa_wr' \in BOOLEAN /\ (rqa_wr' => rqa' \in Request)
  <2>1. /\ rqa_wr' = (Sends(ready) \/ (rqa_wr /\ ~ready))
        /\ rqa' = IF Sends(ready) THEN Head(rqa_fifo) ELSE rqa
    BY <1>0 DEF RequestClock
  <2>2. Sends(ready) => Head(rqa_fifo) \in Request  BY HeadIn DEF Sends
  <2> QED  BY <2>1, <2>2
<1>5. on_fly' \in Int
  <2> DEFINE n == IF Sends(ready) THEN 1 ELSE 0
             k == IF rss_rd /\ chan # << >> /\ on_fly > 0 THEN 1 ELSE 0
  <2>1. on_fly' = on_fly + n - k  BY <1>0 DEF ResponseClock
  <2>2. n \in Int /\ k \in Int  OBVIOUS
  <2> HIDE DEF n, k
  <2> QED  BY <2>1, <2>2
<1>6. rss_rd' \in BOOLEAN  BY <1>0 DEF ResponseClock, Stalled
<1>7. rrs_fifo' \in Seq(Request) /\ (Len(rrs_fifo) <= LsuRsDepth => Len(rrs_fifo') <= LsuRsDepth)
  <2>1. rrs_fifo' = FifoNext(rrs_fifo, LsuRsDepth, rs_fsm = "RECV", rrs_wr, rrs)
    BY <1>0 DEF ResponseClock
  <2> QED  BY <2>1, NextSeq, Constants
<1>8. /\ disabled_q' \in BOOLEAN /\ rss_fifo' \in Seq(Response)
      /\ rrs_wr' \in BOOLEAN /\ (rrs_wr' => rrs' \in Request)
  <2> DEFINE takes == rss_rd /\ chan # << >> /\ on_fly > 0
             new == IF takes THEN <<in>> ELSE << >>
             full == Len(rrs_fifo) = LsuRsDepth
             hands == rss_fifo # << >> /\ (rrs_wr => ~full)
  <2>1. takes => in \in Response  BY <1>a
  <2>2. FifoRead(rss_fifo, hands) \in Seq(Response)  BY ReadSeq
  <2>3. /\ new \in Seq(Response) /\ rss_fifo \o new \in Seq(Response)
        /\ FifoRead(rss_fifo, hands) \o new \in Seq(Response)
    <3> HIDE DEF takes
    <3>1. << >> \o new = new
      <4>1. new \in Seq(Response)  BY <2>1, EmptySeq
      <4> QED  BY <4>1, ConcatEmptySeq
    <3>2. << >> \in Seq(Response)  BY EmptySeq
    <3> QED  BY <2>1, <2>2, <3>1, <3>2, PutSeq
  <2>4. rss_fifo # << >> => [lane |-> Head(rss_fifo).lane, pair |-> Head(rss_fifo).pair] \in Request
    <3>1. rss_fifo # << >> => Head(rss_fifo) \in Response  BY HeadIn
    <3> QED  BY <3>1 DEF Response, Request
  <2>5. CASE Reinit(r)
    <3>1. disabled_q' = FALSE /\ rss_fifo' = rss_fifo \o new /\ rrs_wr' = rrs_wr /\ rrs' = rrs
      BY <1>0, <2>5 DEF ResponseClock
    <3> QED  BY <2>3, <3>1
  <2>6. CASE ~Reinit(r) /\ Disabled
    <3>1. disabled_q' = TRUE /\ rss_fifo' = new /\ rrs_wr' = FALSE
      BY <1>0, <2>6 DEF ResponseClock
    <3> QED  BY <2>3, <3>1
  <2>7. CASE ~Reinit(r) /\ ~Disabled
    <3>1. /\ disabled_q' = disabled_q /\ rss_fifo' = FifoRead(rss_fifo, hands) \o new
          /\ rrs_wr' = (hands \/ (rrs_wr /\ full))
          /\ rrs' = IF hands THEN [lane |-> Head(rss_fifo).lane, pair |-> Head(rss_fifo).pair]
                    ELSE rrs
      BY <1>0, <2>7 DEF ResponseClock
    <3> QED  BY <2>3, <2>4, <3>1
  <2> QED  BY <2>5, <2>6, <2>7
<1> QED  BY <1>1, <1>2, <1>3, <1>4, <1>5, <1>6, <1>7, <1>8

\* The control unit, the masks and memory keep their types.
LEMMA CtlTypesStep ==
    ASSUME Types, NEW r \in RegisterFiles \cup {Idles}, NEW ans \in Answers \cup {Silent},
           NEW ready, ProductClock(r, ans, ready)
    PROVE  CtlTypes'
<1> USE DEF Types, CtlTypes
<1>0. MemoryClock(ans, ready) /\ EcuClock(r) /\ WeClock /\ erred' = (erred \/ LsuErr)
  BY DEF ProductClock
<1>1. /\ eu_start' \in BOOLEAN /\ eu_wait' \in {0, 1, 3} /\ done' \in BOOLEAN /\ busy_q' \in BOOLEAN
      /\ regs' \in RegisterFiles
  BY <1>0 DEF EcuClock, Starts, ProdBusy
<1>2. erred' \in BOOLEAN  BY <1>0 DEF LsuErr
<1>3. weq' \in [Lanes -> Seq(Masks)]
  <2>1. ASSUME NEW l \in Lanes
        PROVE  FifoNext(weq[l], WeDepth, rswe_fsm[l] = "RECV", we_wr[l], we_mask[l]) \in Seq(Masks)
    BY NextSeq, Constants DEF ReqTypes
  <2> QED  BY <1>0, <2>1 DEF WeClock
<1> DEFINE asked == IF rqa_wr /\ ready THEN [mem EXCEPT ![rqa.lane] = Append(@, rqa.pair)] ELSE mem
<1>4. asked \in [Lanes -> Seq(Int)]
  <2>1. CASE rqa_wr /\ ready
    <3>1. rqa.lane \in Lanes /\ rqa.pair \in Int  BY <2>1 DEF LsuTypes, Request
    <3>2. Append(mem[rqa.lane], rqa.pair) \in Seq(Int)  BY <3>1, AppendProperties
    <3> QED  BY <2>1, <3>1, <3>2
  <2>2. CASE ~(rqa_wr /\ ready)  BY <2>2
  <2> QED  BY <2>1, <2>2
<1>5. FifoRead(chan, rss_rd) \in Seq(Response)  BY ReadSeq
<1>6. mem' \in [Lanes -> Seq(Int)] /\ chan' \in Seq(Response)
  <2>1. CASE ans = Silent
    <3>1. mem' = asked /\ chan' = FifoRead(chan, rss_rd)  BY <1>0, <2>1 DEF MemoryClock
    <3> QED  BY <1>4, <1>5, <3>1
  <2>2. CASE ans # Silent
    <3> DEFINE d == [lane |-> ans.lane, pair |-> Head(mem[ans.lane]), err |-> ans.err]
    <3>1. /\ mem[ans.lane] # << >>
          /\ mem' = [asked EXCEPT ![ans.lane] = Tail(@)]
          /\ chan' = Append(FifoRead(chan, rss_rd), d)
      BY <1>0, <2>2 DEF MemoryClock
    <3>2. ans.lane \in Lanes /\ ans.err \in BOOLEAN  BY <2>2 DEF Answers
    <3>3. Head(mem[ans.lane]) \in Int  BY <3>1, <3>2, HeadIn
    <3>4. d \in Response  BY <3>2, <3>3 DEF Response
    <3>5. asked[ans.lane] # << >>
      <4>1. CASE rqa_wr /\ ready /\ rqa.lane = ans.lane
        <5>1. mem[ans.lane] \in Seq(Int) /\ rqa.pair \in Int
          BY <3>2, <4>1 DEF LsuTypes, Request
        <5>2. /\ Len(Append(mem[ans.lane], rqa.pair)) = Len(mem[ans.lane]) + 1
              /\ Len(mem[ans.lane]) \in Nat
          BY <5>1, AppendProperties, LenProperties
        <5>3. asked[ans.lane] = Append(mem[ans.lane], rqa.pair)  BY <3>2, <4>1
        <5>4. Len(asked[ans.lane]) # 0  BY <5>2, <5>3
        <5> HIDE DEF asked
        <5> QED  BY <5>4, EmptySeq
      <4>2. CASE ~(rqa_wr /\ ready /\ rqa.lane = ans.lane)
        <5>1. asked[ans.lane] = mem[ans.lane]  BY <3>2, <4>2 DEF LsuTypes, Request
        <5> QED  BY <3>1, <5>1
      <4> QED  BY <4>1, <4>2
    <3>6. Tail(asked[ans.lane]) \in Seq(Int)  BY <1>4, <3>2, <3>5, HeadTailProperties
    <3> HIDE DEF asked, d
    <3> QED  BY <1>4, <1>5, <3>1, <3>2, <3>4, <3>6, AppendProperties
  <2> QED  BY <2>1, <2>2
<1> QED  BY <1>1, <1>2, <1>3, <1>6

-----------------------------------------------------------------------------
(* A step keeps the room.                                                  *)

\* A FIFO that is not near full has room for two.
LEMMA FarFromFull ==
    ASSUME NEW S, NEW q \in Seq(S), NEW n \in Nat, Len(q) <= n, ~NearFull(q, n)
    PROVE  Len(q) < n - 1
<1>1. Len(q) \in Nat  BY LenProperties
<1>2. Len(q) # n - 1 /\ Len(q) # n  BY DEF NearFull
<1> HIDE DEF NearFull
<1> QED  BY <1>1, <1>2

\* A FIFO behind a machine that takes what is offered: the machine is stalled,
\* it takes nothing, or there is room for two.
LEMMA TakeCases ==
    ASSUME NEW fsm \in {"IDLE", "RECV", "STLL"}, NEW vld \in BOOLEAN, NEW stall \in BOOLEAN
    PROVE  TakeFSM(fsm, vld, stall) = "STLL" \/ ~stall \/ (fsm # "STLL" /\ ~(fsm = "RECV" /\ vld))
BY DEF TakeFSM

\* A FIFO of four that is neither full nor one from full takes two more.
LEMMA TwoLeft == \A n \in Nat : n <= 4 /\ n # 3 /\ n # 4 => n < 3
OBVIOUS

\* The receiver of requests stops in time: both its FIFOs are written in one state.
LEMMA ReqRooms ==
    ASSUME Types, NEW r \in RegisterFiles \cup {Idles}, NEW ans, NEW ready,
           ProductClock(r, ans, ready),
           QueuesFit, Rooms, NEW l \in Lanes
    PROVE  /\ Len(rq_fifo'[l]) <= RqdInDepth /\ Len(we_fifo'[l]) <= RqdInDepth
           /\ rx_fsm'[l] \in {"IDLE", "RECV"} => /\ Len(rq_fifo'[l]) < RqdInDepth
                                                /\ Len(we_fifo'[l]) < RqdInDepth
<1> DEFINE q == rq_fifo[l]   w == we_fifo[l]   n == RqdInDepth
           q2 == rq_fifo'[l]   w2 == we_fifo'[l]
           weLoads == Loads(we_wr[l], WeRdy[l], we_fifo[l])
<1>0. ReqDispClock(LsuErr, RrqRdy, WeRdy)  BY DEF ProductClock
<1>1. /\ q2 = FifoRead(q, Schedules(l)) \o (IF Requests(l) THEN <<vaddr[l] \div 2>> ELSE << >>)
      /\ w2 = FifoRead(w, weLoads) \o (IF Requests(l) THEN <<WordMask(l)>> ELSE << >>)
      /\ rx_fsm'[l] = RxFSM(l, LsuErr)
  BY <1>0 DEF ReqDispClock
<1>2. q \in Seq(Int) /\ w \in Seq(Masks) /\ vaddr[l] \in Nat
  BY DEF Types, ReqTypes
<1>3. /\ Requests(l) => Len(q2) <= Len(q) + 1 /\ Len(w2) <= Len(w) + 1
      /\ ~Requests(l) => Len(q2) <= Len(q) /\ Len(w2) <= Len(w)
      /\ Len(q2) \in Nat /\ Len(w2) \in Nat /\ Len(q) \in Nat /\ Len(w) \in Nat
  <2>1. /\ FifoRead(q, Schedules(l)) \in Seq(Int) /\ Len(FifoRead(q, Schedules(l))) \in Nat
        /\ Len(FifoRead(q, Schedules(l))) <= Len(q) /\ Len(q) \in Nat
    BY <1>2, ReadSeq
  <2>2. /\ FifoRead(w, weLoads) \in Seq(Masks) /\ Len(FifoRead(w, weLoads)) \in Nat
        /\ Len(FifoRead(w, weLoads)) <= Len(w) /\ Len(w) \in Nat
    BY <1>2, ReadSeq
  <2>3. vaddr[l] \div 2 \in Int /\ WordMask(l) \in Masks  BY <1>2 DEF WordMask, Masks
  <2> DEFINE fq == FifoRead(q, Schedules(l))   fw == FifoRead(w, weLoads)
  <2> HIDE DEF weLoads, fq, fw, q, w, q2, w2
  <2>4. /\ Requests(l) => Len(q2) = Len(fq) + 1
        /\ ~Requests(l) => q2 = fq
    BY <1>1, <2>1, <2>3, PutSeq DEF fq
  <2>5. /\ Requests(l) => Len(w2) = Len(fw) + 1
        /\ ~Requests(l) => w2 = fw
    BY <1>1, <2>2, <2>3, PutSeq DEF fw
  <2> QED  BY <2>1, <2>2, <2>4, <2>5 DEF fq, fw
<1>4. /\ Len(q) <= n /\ Len(w) <= n /\ n \in Nat /\ n > 1
      /\ rx_fsm[l] \in {"IDLE", "RECV"} => Len(q) < n /\ Len(w) < n
      /\ rx_fsm[l] \in {"IDLE", "RECV", "STALL", "FLUSH"}
  BY Constants DEF QueuesFit, Rooms, Types, ReqTypes
<1>5. Requests(l) => rx_fsm[l] = "RECV" /\ Valid(l)  BY DEF Requests
<1>6. ~InStall(l) => Len(q) < n - 1 /\ Len(w) < n - 1
  <2>1. SUFFICES ASSUME ~InStall(l)  PROVE Len(q) < n - 1 /\ Len(w) < n - 1
    OBVIOUS
  <2>2. ~NearFull(q, n) /\ ~NearFull(w, n)  BY <2>1 DEF InStall
  <2> HIDE DEF q, w, n
  <2> QED  BY <1>2, <1>4, <2>2, FarFromFull
<1>7. rx_fsm[l] = "FLUSH" /\ ~FlushBusy => Len(q) = 0 /\ Len(w) = 0
  <2>1. ~FlushBusy => q = << >> /\ w = << >>  BY DEF FlushBusy, InFifosBusy
  <2> QED  BY <2>1, EmptySeq
<1>8. rx_fsm'[l] \in {"IDLE", "RECV"} =>
        \/ rx_fsm[l] \in {"IDLE", "RECV"} /\ ~Requests(l)
        \/ ~InStall(l)
        \/ rx_fsm[l] = "FLUSH" /\ ~FlushBusy
  BY <1>1, <1>4 DEF RxFSM, Requests
<1> HIDE DEF q, w, q2, w2
<1> QED  BY <1>3, <1>4, <1>5, <1>6, <1>7, <1>8 DEF q2, w2

\* So do both machines of the distributor; the writer of the operand FIFOs sees itself that
\* they are full.
LEMMA RespRooms ==
    ASSUME Types, NEW r \in RegisterFiles \cup {Idles}, NEW ans, NEW ready,
           ProductClock(r, ans, ready),
           QueuesFit, Rooms
    PROVE  /\ Len(rs_fifo') <= RsdRsDepth /\ (rs_fsm' # "STLL" => Len(rs_fifo') < RsdRsDepth)
           /\ \A l \in Lanes :
                /\ Len(rswe_fifo'[l]) <= RsdWeDepth
                /\ rswe_fsm'[l] # "STLL" => Len(rswe_fifo'[l]) < RsdWeDepth
                /\ Len(op_fifo'[l]) <= RsdOpDepth
<1> DEFINE vld == rrs_fifo # << >>
           in == IF rrs_fifo = << >> THEN << >> ELSE Head(rrs_fifo)
           wvld == [l \in Lanes |-> weq[l] # << >>]
           win == [l \in Lanes |-> IF weq[l] = << >> THEN {} ELSE Head(weq[l])]
           rd == [l \in Lanes |-> opr_fsm[l] = "RECV"]
           flush == LsuErr \/ q_err_flush
<1>0. RespDistClock(LsuErr, vld, in, wvld, win, rd)  BY DEF ProductClock
<1>a. vld => in \in Request  BY HeadIn DEF Types, LsuTypes
<1>b. win \in [Lanes -> Masks] /\ wvld \in [Lanes -> BOOLEAN]
  <2>1. ASSUME NEW l \in Lanes, weq[l] # << >>  PROVE Head(weq[l]) \in Masks
    BY <2>1, HeadIn DEF Types, CtlTypes
  <2> QED  BY <2>1 DEF Masks
<1>c. vld \in BOOLEAN  OBVIOUS
<1> HIDE DEF vld, in, wvld, win, rd
<1>1. Len(rs_fifo') <= RsdRsDepth /\ (rs_fsm' # "STLL" => Len(rs_fifo') < RsdRsDepth)
  <2> DEFINE b == \E l \in Lanes : Distributes(l, flush)
             kept == IF flush THEN << >> ELSE FifoRead(rs_fifo, b)
  <2>1. /\ rs_fifo' = kept \o (IF rs_fsm = "RECV" /\ vld THEN <<in>> ELSE << >>)
        /\ rs_fsm' = TakeFSM(rs_fsm, vld, NearFull(rs_fifo, RsdRsDepth))
    BY <1>0 DEF RespDistClock
  <2>2. rs_fifo \in Seq(Request) /\ rs_fsm \in {"IDLE", "RECV", "STLL"}  BY DEF Types, RespTypes
  <2>3. kept \in Seq(Request) /\ Len(kept) <= Len(rs_fifo)
    <3>1. Len(<< >>) <= Len(rs_fifo)  BY <2>2, LenProperties, EmptySeq
    <3> QED  BY <2>2, <3>1, ReadSeq, EmptySeq
  <2>4. /\ Len(rs_fifo) <= RsdRsDepth /\ (rs_fsm # "STLL" => Len(rs_fifo) < RsdRsDepth)
        /\ RsdRsDepth \in Nat /\ RsdRsDepth > 1
    BY Constants DEF QueuesFit, Rooms
  <2> DEFINE p == rs_fsm = "RECV" /\ vld
  <2>5. rs_fsm' = "STLL" \/ ~NearFull(rs_fifo, RsdRsDepth) \/ ~(rs_fsm = "STLL" \/ p)
    <3>1. NearFull(rs_fifo, RsdRsDepth) \in BOOLEAN  BY DEF NearFull
    <3> QED  BY <1>c, <2>1, <2>2, <3>1, TakeCases
  <2>6. p => rs_fsm # "STLL" /\ in \in Request  BY <1>a
  <2>7. rs_fifo' = kept \o (IF p THEN <<in>> ELSE << >>)  BY <2>1
  <2> HIDE DEF kept, p
  <2>8. /\ (p => Len(rs_fifo') = Len(kept) + 1) /\ (~p => rs_fifo' = kept)
        /\ Len(rs_fifo') \in Nat /\ Len(kept) \in Nat /\ Len(rs_fifo) \in Nat
    BY <2>2, <2>3, <2>6, <2>7, PutSeq, LenProperties
  <2>9. ~NearFull(rs_fifo, RsdRsDepth) => Len(rs_fifo) < RsdRsDepth - 1
    BY <2>2, <2>4, FarFromFull
  <2> QED  BY <2>3, <2>4, <2>5, <2>6, <2>8, <2>9
<1>2. ASSUME NEW l \in Lanes
      PROVE  /\ Len(rswe_fifo'[l]) <= RsdWeDepth
             /\ rswe_fsm'[l] # "STLL" => Len(rswe_fifo'[l]) < RsdWeDepth
  <2> DEFINE q == rswe_fifo[l]
             kept == IF flush THEN << >> ELSE FifoRead(q, Distributes(l, flush))
  <2>1. /\ rswe_fifo'[l] = kept \o (IF rswe_fsm[l] = "RECV" /\ wvld[l] THEN <<win[l]>> ELSE << >>)
        /\ rswe_fsm'[l] = TakeFSM(rswe_fsm[l], wvld[l], NearFull(q, RsdWeDepth))
    BY <1>0 DEF RespDistClock
  <2>2. q \in Seq(Masks) /\ rswe_fsm[l] \in {"IDLE", "RECV", "STLL"}  BY DEF Types, RespTypes
  <2>3. kept \in Seq(Masks) /\ Len(kept) <= Len(q)
    <3>1. Len(<< >>) <= Len(q)  BY <2>2, LenProperties, EmptySeq
    <3> QED  BY <2>2, <3>1, ReadSeq, EmptySeq
  <2>4. /\ Len(q) <= RsdWeDepth /\ (rswe_fsm[l] # "STLL" => Len(q) < RsdWeDepth)
        /\ RsdWeDepth \in Nat /\ RsdWeDepth > 1
    BY Constants DEF QueuesFit, Rooms
  <2>5. win[l] \in Masks /\ wvld[l] \in BOOLEAN  BY <1>b
  <2> DEFINE p == rswe_fsm[l] = "RECV" /\ wvld[l]
  <2>6. rswe_fsm'[l] = "STLL" \/ ~NearFull(q, RsdWeDepth) \/ ~(rswe_fsm[l] = "STLL" \/ p)
    <3>1. NearFull(q, RsdWeDepth) \in BOOLEAN  BY DEF NearFull
    <3> QED  BY <2>1, <2>2, <2>5, <3>1, TakeCases
  <2>7. p => rswe_fsm[l] # "STLL"  OBVIOUS
  <2>8. rswe_fifo'[l] = kept \o (IF p THEN <<win[l]>> ELSE << >>)  BY <2>1
  <2> HIDE DEF kept, q, p
  <2>9. /\ (p => Len(rswe_fifo'[l]) = Len(kept) + 1) /\ (~p => rswe_fifo'[l] = kept)
        /\ Len(rswe_fifo'[l]) \in Nat /\ Len(kept) \in Nat /\ Len(q) \in Nat
    BY <2>2, <2>3, <2>5, <2>8, PutSeq, LenProperties
  <2>10. ~NearFull(q, RsdWeDepth) => Len(q) < RsdWeDepth - 1
    BY <2>2, <2>4, FarFromFull
  <2> QED  BY <2>3, <2>4, <2>6, <2>7, <2>9, <2>10
<1>3. ASSUME NEW l \in Lanes  PROVE Len(op_fifo'[l]) <= RsdOpDepth
  <2> DEFINE p == Distributes(l, flush)
             q == op_fifo[l]
             kept == FifoRead(q, Loads(opd_wr[l], F21Rdy(l), q))
             d == [pair |-> Head(rs_fifo).pair, mask |-> Head(rswe_fifo[l])]
  <2>1. op_fifo'[l] = kept \o (IF p THEN <<d>> ELSE << >>)  BY <1>0 DEF RespDistClock
  <2>2. q \in Seq(Pair)  BY DEF Types, RespTypes
  <2>3. kept \in Seq(Pair) /\ Len(kept) <= Len(q) /\ Len(kept) \in Nat /\ Len(q) \in Nat
    BY <2>2, ReadSeq
  <2>4. p => d \in Pair
    <3>1. SUFFICES ASSUME p  PROVE d \in Pair
      OBVIOUS
    <3>2. Head(rs_fifo) \in Request  BY <3>1, HeadIn DEF Distributes, Types, RespTypes
    <3>3. Head(rswe_fifo[l]) \in Masks  BY <3>1, HeadIn DEF Distributes, Types, RespTypes
    <3> QED  BY <3>2, <3>3 DEF Request, Pair
  <2>5. Len(q) <= RsdOpDepth /\ RsdOpDepth \in Nat  BY Constants DEF QueuesFit
  <2>6. p => Len(q) # RsdOpDepth  BY DEF Distributes, OpStall
  <2> HIDE DEF kept, p, d, q
  <2>7. (p => Len(op_fifo'[l]) = Len(kept) + 1) /\ (~p => op_fifo'[l] = kept)
    BY <2>1, <2>3, <2>4, PutSeq
  <2> QED  BY <2>3, <2>5, <2>6, <2>7
<1> QED  BY <1>1, <1>2, <1>3

\* So do the input machines of the multiplier.
LEMMA FmacRooms ==
    ASSUME Types, NEW r \in RegisterFiles \cup {Idles}, NEW ans, NEW ready,
           ProductClock(r, ans, ready),
           QueuesFit, Rooms, NEW l \in Lanes
    PROVE  /\ Len(opr_fifo'[l]) <= FmacDepth
           /\ opr_fsm'[l] # "STLL" => Len(opr_fifo'[l]) < FmacDepth
<1> DEFINE q == opr_fifo[l]   vld == F21Vld(l)   d == F21Out(l)
           kept == IF fmacd = "ERRF" THEN << >> ELSE FifoRead(q, Dispatched(l[1]))
<1>1. /\ opr_fifo'[l] = kept \o (IF opr_fsm[l] = "RECV" /\ vld THEN <<d>> ELSE << >>)
      /\ opr_fsm'[l] = TakeFSM(opr_fsm[l], vld, NearFull(q, FmacDepth))
  BY DEF ProductClock, FmacClock
<1>2. /\ q \in Seq(Int) /\ opr_fsm[l] \in {"IDLE", "RECV", "STLL"} /\ vld \in BOOLEAN
  BY DEF Types, FmacTypes, F21Vld
<1>3. kept \in Seq(Int) /\ Len(kept) <= Len(q)
  <2>1. Len(<< >>) <= Len(q)  BY <1>2, LenProperties, EmptySeq
  <2> QED  BY <1>2, <2>1, ReadSeq, EmptySeq
<1>4. /\ Len(q) <= FmacDepth /\ (opr_fsm[l] # "STLL" => Len(q) < FmacDepth)
      /\ FmacDepth \in Nat /\ FmacDepth > 1
  BY Constants DEF QueuesFit, Rooms
<1>5. d \in Int
  <2>1. f21[l].word \in Seq(Int) \X Seq(Int) /\ f21[l].sel \in {0, 1}
    BY DEF Types, RespTypes, Halves
  <2>2. Selected(l) \in Seq(Int)  BY <2>1 DEF Selected
  <2> QED  BY <2>2, HeadIn DEF F21Out, NoWord
<1> DEFINE p == opr_fsm[l] = "RECV" /\ vld
<1>6. opr_fsm'[l] = "STLL" \/ ~NearFull(q, FmacDepth) \/ ~(opr_fsm[l] = "STLL" \/ p)
  <2>1. NearFull(q, FmacDepth) \in BOOLEAN  BY DEF NearFull
  <2> QED  BY <1>1, <1>2, <2>1, TakeCases
<1>7. p => opr_fsm[l] # "STLL"  OBVIOUS
<1>8. opr_fifo'[l] = kept \o (IF p THEN <<d>> ELSE << >>)  BY <1>1
<1> HIDE DEF kept, q, vld, d, p
<1>9. /\ (p => Len(opr_fifo'[l]) = Len(kept) + 1) /\ (~p => opr_fifo'[l] = kept)
      /\ Len(opr_fifo'[l]) \in Nat /\ Len(kept) \in Nat /\ Len(q) \in Nat
  BY <1>2, <1>3, <1>5, <1>8, PutSeq, LenProperties
<1>10. ~NearFull(q, FmacDepth) => Len(q) < FmacDepth - 1
  BY <1>2, <1>4, FarFromFull
<1> QED  BY <1>3, <1>4, <1>6, <1>7, <1>9, <1>10

\* So do the two machines of the load-store unit.
LEMMA LsuRooms ==
    ASSUME Types, NEW r \in RegisterFiles \cup {Idles}, NEW ans, NEW ready,
           ProductClock(r, ans, ready),
           QueuesFit, Rooms
    PROVE  /\ Len(rss_fifo') <= Slots4 /\ (rss_rd' => Len(rss_fifo') < Slots4)
           /\ Len(rqa_fifo') <= Slots4 /\ (arb' = "RDFIFO" => Len(rqa_fifo') < Slots4)
<1> DEFINE in == IF chan = << >> THEN << >> ELSE Head(chan)
<1>0. /\ RequestClock(rrq_wr, rrq, ready)
      /\ ResponseClock(chan # << >>, in, ready, rs_fsm = "RECV", Reinit(r))
  BY DEF ProductClock
<1>a. chan # << >> => in \in Response  BY HeadIn DEF Types, CtlTypes
<1> HIDE DEF in
<1>b. /\ Len(rss_fifo) <= 4 /\ (rss_rd => Len(rss_fifo) < 4) /\ Len(rqa_fifo) <= 4
      /\ arb = "RDFIFO" => Len(rqa_fifo) < 4
      /\ rss_fifo \in Seq(Response) /\ rqa_fifo \in Seq(Request) /\ lrq_fifo \in Seq(Request)
      /\ arb \in {"EMPTY", "RDFIFO", "RDSTALL"} /\ rss_rd \in BOOLEAN
  BY DEF QueuesFit, Rooms, Slots4, Types, LsuTypes
<1>1. Len(rss_fifo') <= 4 /\ (rss_rd' => Len(rss_fifo') < 4)
  <2> DEFINE takes == rss_rd /\ chan # << >> /\ on_fly > 0
             new == IF takes THEN <<in>> ELSE << >>
             hands == rss_fifo # << >> /\ (rrs_wr => ~(Len(rrs_fifo) = LsuRsDepth))
             kept == IF Reinit(r) THEN rss_fifo
                     ELSE IF Disabled THEN << >> ELSE FifoRead(rss_fifo, hands)
  <2>1. takes => rss_rd /\ in \in Response  BY <1>a
  <2>2. /\ kept \in Seq(Response) /\ Len(kept) <= Len(rss_fifo) /\ Len(kept) \in Nat
        /\ Len(rss_fifo) \in Nat
    <3>1. Len(<< >>) <= Len(rss_fifo) /\ Len(rss_fifo) \in Nat  BY <1>b, LenProperties, EmptySeq
    <3> HIDE DEF hands
    <3> QED  BY <1>b, <3>1, ReadSeq, EmptySeq
  <2>3. rss_fifo' = kept \o new
    <3>1. << >> \o new = new
      <4>1. new \in Seq(Response)  BY <1>a, EmptySeq
      <4> QED  BY <4>1, ConcatEmptySeq
    <3> QED  BY <1>0, <3>1 DEF ResponseClock
  <2> HIDE DEF takes, kept
  <2>4. (takes => Len(rss_fifo') = Len(kept) + 1) /\ (~takes => rss_fifo' = kept)
    BY <2>1, <2>2, <2>3, PutSeq
  <2>5. rss_rd' => Len(rss_fifo) # 3 /\ Len(rss_fifo) # 4
    <3>1. rss_rd' = ~Stalled(rss_fifo)  BY <1>0 DEF ResponseClock
    <3>2. SUFFICES ASSUME rss_rd'  PROVE ~Stalled(rss_fifo)
      BY DEF Stalled, Slots4
    <3> QED  BY <3>1, <3>2, Zenon
  <2>6. Len(rss_fifo) <= 4 /\ (rss_rd => Len(rss_fifo) < 4)  BY <1>b
  <2>7. Len(rss_fifo') <= 4
    <3>1. takes => Len(rss_fifo) < 4  BY <2>1, <2>6
    <3> QED  BY <2>2, <2>4, <2>6, <3>1
  <2>8. ASSUME rss_rd'  PROVE Len(rss_fifo') < 4
    <3>1. Len(rss_fifo) # 3 /\ Len(rss_fifo) # 4  BY <2>5, <2>8, Zenon
    <3>2. Len(rss_fifo) \in Nat /\ Len(rss_fifo) <= 4  BY <2>2, <2>6
    <3>3. Len(rss_fifo) < 3  BY <3>1, <3>2, TwoLeft, Zenon
    <3> QED  BY <2>2, <2>4, <3>3
  <2> QED  BY <2>7, <2>8
<1>2. Len(rqa_fifo') <= 4 /\ (arb' = "RDFIFO" => Len(rqa_fifo') < 4)
  <2> DEFINE p == arb = "RDFIFO" /\ lrq_fifo # << >> /\ ~Disabled
             kept == FifoRead(rqa_fifo, Sends(ready))
  <2>1. rqa_fifo' = kept \o (IF p THEN <<Head(lrq_fifo)>> ELSE << >>)
    BY <1>0 DEF RequestClock
  <2>2. /\ kept \in Seq(Request) /\ Len(kept) <= Len(rqa_fifo) /\ Len(kept) \in Nat
        /\ Len(rqa_fifo) \in Nat
    BY <1>b, ReadSeq
  <2>3. p => Head(lrq_fifo) \in Request  BY <1>b, HeadIn
  <2>4. arb' = ArbFSM  BY <1>0 DEF RequestClock
  <2>5. arb' = "RDFIFO" =>
          \/ (~p /\ Len(rqa_fifo) < 4)
          \/ (Len(rqa_fifo) # 3 /\ Len(rqa_fifo) # 4)
    BY <1>b, <2>4 DEF ArbFSM, Stalled, Slots4
  <2>6. p => Len(rqa_fifo) < 4  BY <1>b
  <2> HIDE DEF p, kept
  <2>7. (p => Len(rqa_fifo') = Len(kept) + 1) /\ (~p => rqa_fifo' = kept)
    BY <2>1, <2>2, <2>3, PutSeq
  <2>8. Len(rqa_fifo) <= 4  BY <1>b
  <2>9. Len(rqa_fifo') <= 4  BY <2>2, <2>6, <2>7, <2>8
  <2>10. ASSUME arb' = "RDFIFO"  PROVE Len(rqa_fifo') < 4
    <3>1. CASE ~p /\ Len(rqa_fifo) < 4  BY <2>2, <2>7, <3>1
    <3>2. CASE Len(rqa_fifo) # 3 /\ Len(rqa_fifo) # 4
      <4>1. Len(rqa_fifo) < 3  BY <2>2, <2>8, <3>2, TwoLeft, Zenon
      <4> QED  BY <2>2, <2>7, <4>1
    <3> QED  BY <2>5, <2>10, <3>1, <3>2, Zenon
  <2> QED  BY <2>9, <2>10
<1> QED  BY <1>1, <1>2 DEF Slots4

\* Every edge keeps the types and the room.
LEMMA RoomsStep ==
    ASSUME Types, NEW r \in RegisterFiles \cup {Idles}, NEW ans \in Answers \cup {Silent},
           NEW ready, ProductClock(r, ans, ready), QueuesFit, Rooms
    PROVE  Types' /\ QueuesFit' /\ Rooms'
<1>1. Types'
  BY ReqTypesStep, RespTypesStep, FmacTypesStep, LsuTypesStep, CtlTypesStep DEF Types
<1>2. Len(rrs_fifo') <= LsuRsDepth  BY LsuTypesStep DEF Rooms
<1>3. Rooms'  BY <1>2, ReqRooms, RespRooms, FmacRooms, LsuRooms DEF Rooms
<1>4. QueuesFit'  BY ReqRooms, RespRooms, FmacRooms, LsuRooms DEF QueuesFit
<1> QED  BY <1>1, <1>3, <1>4

-----------------------------------------------------------------------------
(* No FIFO is written when it is full.                                     *)

\* At first the FIFOs are empty.
LEMMA TypesInit == ProductInit => Types /\ Rooms /\ QueuesFit
<1> SUFFICES ASSUME ProductInit  PROVE Types /\ Rooms /\ QueuesFit
  OBVIOUS
<1> USE DEF ProductInit, ReqInit, RespInit, FmacInit, LsuInit
<1>1. \A S : << >> \in Seq(S)  BY EmptySeq
<1>2. ReqTypes  BY <1>1 DEF ReqTypes, Masks
<1>3. RespTypes
  <2>1. [word |-> <<<< >>, << >>>>, sel |-> 0] \in Halves  BY <1>1 DEF Halves
  <2> QED  BY <1>1, <2>1 DEF RespTypes
<1>4. FmacTypes  BY <1>1 DEF FmacTypes, Operands
<1>5. LsuTypes
  <2>1. {lrq_fifo, rqa_fifo, rrs_fifo} \subseteq Seq(Request) /\ rss_fifo \in Seq(Response)
    BY <1>1
  <2>2. arb \in {"EMPTY", "RDFIFO", "RDSTALL"} /\ on_fly \in Int  OBVIOUS
  <2>3. {rqa_wr, rrs_wr, rss_rd, disabled_q} \subseteq BOOLEAN /\ ~rqa_wr /\ ~rrs_wr
    OBVIOUS
  <2> QED  BY <2>1, <2>2, <2>3 DEF LsuTypes
<1>6. CtlTypes  BY <1>1 DEF CtlTypes, RegisterFiles, Off
<1>7. Len(<< >>) = 0  BY EmptySeq
<1>8. Rooms  BY <1>7, Constants DEF Rooms
<1>9. QueuesFit  BY <1>7, Constants DEF QueuesFit
<1> QED  BY <1>2, <1>3, <1>4, <1>5, <1>6, <1>8, <1>9 DEF Types

\* A stuttering step keeps them too.
LEMMA TypesStutter ==
    ASSUME Types, Rooms, QueuesFit, UNCHANGED productVars  PROVE Types' /\ Rooms' /\ QueuesFit'
<1> USE DEF productVars, reqVars, respVars, fmacVars, lsuVars, ctlVars, memVars
<1>1. Types'  BY DEF Types, ReqTypes, RespTypes, FmacTypes, LsuTypes, CtlTypes
<1>2. Rooms'  BY DEF Rooms
<1>3. QueuesFit'  BY DEF QueuesFit
<1> QED  BY <1>1, <1>2, <1>3

\* Every register keeps its type, no FIFO is written when full, and every machine that
\* is about to write has room for it, whatever the depths, the threads and memory.
THEOREM FifosHaveRoom == ProductSpec => [](Types /\ Rooms /\ QueuesFit)
<1>1. ProductInit => Types /\ Rooms /\ QueuesFit  BY TypesInit
<1>2. Types /\ Rooms /\ QueuesFit /\ [ProductNext]_productVars => (Types /\ Rooms /\ QueuesFit)'
  BY RoomsStep, TypesStutter DEF ProductNext
<1> QED  BY <1>1, <1>2, PTL DEF ProductSpec

\* No FIFO of the product unit is written when it is full, before and after memory errors.
THEOREM QueuesNeverOverflow == ProductSpec => []QueuesFit
<1>1. Types /\ Rooms /\ QueuesFit => QueuesFit  OBVIOUS
<1> QED  BY <1>1, FifosHaveRoom, PTL

-----------------------------------------------------------------------------
(* What is under way, from its front to its end.                           *)

\* Requests; responses from memory; responses for the product unit; masks; and
\* pairs with their masks.
Up == (((Reg(rqa_wr, rqa) \o rqa_fifo) \o lrq_fifo) \o Reg(rrq_wr, rrq)) \o rrq_fifo
Back == rss_fifo \o chan
Near == (rs_fifo \o rrs_fifo) \o Reg(rrs_wr, rrs)
MaskLine(l) == ((rswe_fifo[l] \o weq[l]) \o Reg(we_wr[l], we_mask[l])) \o we_fifo[l]
PairLine(l) == Reg(opd_wr[l], opd[l]) \o op_fifo[l]

\* No unit is in its way of dealing with an error.
Undisturbed ==
    /\ ~disabled_q /\ ~q_err_flush /\ fmacd # "ERRF"
    /\ \A l \in Lanes : rx_fsm[l] # "FLUSH"
Calm == Undisturbed /\ ~LsuErr

\* What moves at the next edge.
Chosen == arb = "RDFIFO" /\ lrq_fifo # << >>
Accepted == rrq_wr /\ Len(lrq_fifo) < LsuRdDepth
SomeSchedules == \E l \in Lanes : Schedules(l)
Scheduled == CHOOSE l \in Lanes : Schedules(l)
Hands == rss_fifo # << >> /\ (rrs_wr => ~(Len(rrs_fifo) = LsuRsDepth))
Gives == rrs_wr /\ ~(Len(rrs_fifo) = LsuRsDepth)
Receives == rs_fsm = "RECV" /\ rrs_fifo # << >>
Distributed(l) == Distributes(l, FALSE)
SomeDistributed == \E l \in Lanes : Distributed(l)
Masked(l) == rswe_fsm[l] = "RECV" /\ weq[l] # << >>
MaskTaken(l) == we_wr[l] /\ Len(weq[l]) < WeDepth
PairTaken(l) == opd_wr[l] /\ F21Rdy(l)
Heard(l) == opr_fsm[l] = "RECV" /\ F21Vld(l)

\* A move, said with equal terms.
LEMMA MovesEq ==
    ASSUME NEW q, NEW r, NEW b \in BOOLEAN, NEW p \in BOOLEAN, NEW d,
           NEW b2 \in BOOLEAN, NEW p2 \in BOOLEAN, NEW d2,
           Moves(q, r, b, p, d), b2 <=> b, p2 <=> p, p => d2 = d
    PROVE  Moves(q, r, b2, p2, d2)
BY DEF Moves, Popped, Reg

\* What memory hands on and what is sent.
LEMMA SentMoves ==
    ASSUME Types, NEW r \in RegisterFiles \cup {Idles}, NEW ans, NEW ready,
           ProductClock(r, ans, ready), Calm
    PROVE  /\ Moves(Reg(rqa_wr, rqa), Reg(rqa_wr', rqa'), rqa_wr /\ ready, Sends(ready),
                    Head(rqa_fifo))
           /\ rqa_wr' = (Sends(ready) \/ (rqa_wr /\ ~ready))
           /\ Moves(rqa_fifo, rqa_fifo', Sends(ready), Chosen, Head(lrq_fifo))
<1>0. RequestClock(rrq_wr, rrq, ready)  BY DEF ProductClock
<1>a. ~Disabled  BY DEF Calm, Undisturbed, Disabled
<1>1. /\ rqa_wr' = (Sends(ready) \/ (rqa_wr /\ ~ready))
      /\ rqa' = IF Sends(ready) THEN Head(rqa_fifo) ELSE rqa
  BY <1>0 DEF RequestClock
<1>2. Moves(Reg(rqa_wr, rqa), Reg(rqa_wr', rqa'), rqa_wr /\ ready, Sends(ready),
            Head(rqa_fifo))
  <2> DEFINE taken == rqa_wr /\ ready   sends == Sends(ready)   h == Head(rqa_fifo)
  <2>1. rqa_wr \in BOOLEAN /\ taken \in BOOLEAN /\ sends \in BOOLEAN
    BY DEF Sends, Types, LsuTypes
  <2>2. (taken => rqa_wr) /\ (sends => ~rqa_wr \/ taken)  BY DEF Sends
  <2>3. /\ rqa_wr' = (sends \/ (rqa_wr /\ ~taken))
        /\ rqa' = IF sends THEN h ELSE rqa
    BY <1>1
  <2> HIDE DEF taken, sends, h
  <2>4. \A v : /\ Tail(<<v>>) = << >> /\ <<v>> # << >>
               /\ <<v>> \o << >> = <<v>> /\ << >> \o <<v>> = <<v>>
    OBVIOUS
  <2>5. << >> \o << >> = << >>  BY EmptySeq, ConcatEmptySeq
  <2>6. Moves(Reg(rqa_wr, rqa), Reg(rqa_wr', rqa'), taken, sends, h)
    BY <2>1, <2>2, <2>3, <2>4, <2>5 DEF Moves, Reg, Popped
  <2> QED  BY <2>6 DEF taken, sends, h
<1>3. Moves(rqa_fifo, rqa_fifo', Sends(ready), Chosen, Head(lrq_fifo))
  <2>1. rqa_fifo' = FifoRead(rqa_fifo, Sends(ready)) \o Reg(Chosen, Head(lrq_fifo))
    BY <1>0, <1>a DEF RequestClock, Reg, Chosen
  <2>2. FifoRead(rqa_fifo, Sends(ready)) = Popped(rqa_fifo, Sends(ready))
    BY DEF FifoRead, Popped, Sends
  <2>3. Sends(ready) => rqa_fifo # << >>  BY DEF Sends
  <2> QED  BY <2>1, <2>2, <2>3 DEF Moves
<1> QED  BY <1>1, <1>2, <1>3

\* A scheduled request enters the load-store unit if that takes it.
LEMMA AcceptedMoves ==
    ASSUME Types, NEW r \in RegisterFiles \cup {Idles}, NEW ans, NEW ready,
           ProductClock(r, ans, ready), Calm
    PROVE  /\ Moves(lrq_fifo, lrq_fifo', Chosen, Accepted, rrq)
           /\ Moves(Reg(rrq_wr, rrq), Reg(rrq_wr', rrq'), Accepted,
                    Loads(rrq_wr, RrqRdy, rrq_fifo), Head(rrq_fifo))
<1>0. RequestClock(rrq_wr, rrq, ready) /\ ReqDispClock(LsuErr, RrqRdy, WeRdy)
  BY DEF ProductClock
<1>a. ~Disabled  BY DEF Calm, Undisturbed, Disabled
<1>1. /\ lrq_fifo \in Seq(Request) /\ rrq_fifo \in Seq(Request) /\ rrq_wr \in BOOLEAN
      /\ rrq_wr => rrq \in Request
  BY DEF Types, ReqTypes, LsuTypes
<1>2. Moves(lrq_fifo, lrq_fifo', Chosen, Accepted, rrq)
  <2>1. lrq_fifo' = FifoNext(lrq_fifo, LsuRdDepth, arb = "RDFIFO", rrq_wr, rrq)
    BY <1>0, <1>a DEF RequestClock
  <2> DEFINE b == arb = "RDFIFO"
  <2>2. b \in BOOLEAN  OBVIOUS
  <2>3. Accepted = (rrq_wr /\ Len(lrq_fifo) < LsuRdDepth)  BY DEF Accepted
  <2>4. Chosen <=> b /\ lrq_fifo # << >>  BY DEF Chosen
  <2>a. lrq_fifo' = FifoNext(lrq_fifo, LsuRdDepth, b, rrq_wr, rrq)  BY <2>1
  <2> HIDE DEF b
  <2>5. Moves(lrq_fifo, FifoNext(lrq_fifo, LsuRdDepth, b, rrq_wr, rrq), b /\ lrq_fifo # << >>,
              Accepted, rrq)
    BY <1>1, <2>2, <2>3, NextMoves
  <2> QED  BY <2>a, <2>4, <2>5 DEF Moves, Popped
<1>3. Moves(Reg(rrq_wr, rrq), Reg(rrq_wr', rrq'), Accepted,
            Loads(rrq_wr, RrqRdy, rrq_fifo), Head(rrq_fifo))
  <2>1. /\ rrq_wr' = StillOffers(rrq_wr, RrqRdy, rrq_fifo)
        /\ rrq' = IF Loads(rrq_wr, RrqRdy, rrq_fifo) THEN Head(rrq_fifo) ELSE rrq
    BY <1>0 DEF ReqDispClock
  <2>2. RrqRdy \in BOOLEAN /\ (Accepted <=> rrq_wr /\ RrqRdy)
    BY <1>a DEF RrqRdy, Accepted
  <2>3. Accepted = (rrq_wr /\ RrqRdy)  BY <1>1, <2>2 DEF Accepted
  <2> HIDE DEF Accepted
  <2> DEFINE taken == RrqRdy
  <2>5. taken \in BOOLEAN  BY <2>2
  <2> HIDE DEF taken
  <2>6. Moves(Reg(rrq_wr, rrq),
              Reg(StillOffers(rrq_wr, taken, rrq_fifo),
                  IF Loads(rrq_wr, taken, rrq_fifo) THEN Head(rrq_fifo) ELSE rrq),
              rrq_wr /\ taken, Loads(rrq_wr, taken, rrq_fifo), Head(rrq_fifo))
    BY <1>1, <2>5, RegMoves
  <2>4. Moves(Reg(rrq_wr, rrq),
              Reg(StillOffers(rrq_wr, RrqRdy, rrq_fifo),
                  IF Loads(rrq_wr, RrqRdy, rrq_fifo) THEN Head(rrq_fifo) ELSE rrq),
              rrq_wr /\ RrqRdy, Loads(rrq_wr, RrqRdy, rrq_fifo), Head(rrq_fifo))
    BY <2>6 DEF taken
  <2> QED  BY <2>1, <2>3, <2>4
<1> QED  BY <1>2, <1>3

\* The lanes have different numbers, so one is scheduled at a time.
LEMMA ScheduledIs ==
    ASSUME NEW l \in Lanes, Schedules(l)
    PROVE  SomeSchedules /\ Scheduled = l
<1>1. \A k \in Lanes : LaneNo(k) = LaneNo(l) => k = l
  <2>1. SUFFICES ASSUME NEW k \in Lanes, LaneNo(k) = LaneNo(l)  PROVE k = l
    OBVIOUS
  <2>2. /\ k[1] \in 0 .. 7 /\ k[2] \in {0, 1} /\ k = <<k[1], k[2]>>
        /\ l[1] \in 0 .. 7 /\ l[2] \in {0, 1} /\ l = <<l[1], l[2]>>
    BY LaneParts
  <2>3. 2 * k[1] + k[2] = 2 * l[1] + l[2]  BY <2>1 DEF LaneNo
  <2>4. k[1] = l[1] /\ k[2] = l[2]  BY <2>2, <2>3
  <2> QED  BY <2>2, <2>4
<1>2. \A k \in Lanes : Schedules(k) => k = l  BY <1>1 DEF Schedules
<1>3. Scheduled \in Lanes /\ Schedules(Scheduled)  BY DEF Scheduled
<1> QED  BY <1>2, <1>3 DEF SomeSchedules

\* The scheduler puts one request at a time into its output FIFO.
LEMMA ScheduledMoves ==
    ASSUME Types, NEW r \in RegisterFiles \cup {Idles}, NEW ans, NEW ready,
           ProductClock(r, ans, ready), Calm
    PROVE  /\ Moves(rrq_fifo, rrq_fifo', Loads(rrq_wr, RrqRdy, rrq_fifo), SomeSchedules,
                    [lane |-> Scheduled, pair |-> Head(rq_fifo[Scheduled])])
           /\ SomeSchedules => [lane |-> Scheduled, pair |-> Head(rq_fifo[Scheduled])] \in Request
           /\ SomeSchedules => Scheduled \in Lanes /\ Schedules(Scheduled)
<1>0. ReqDispClock(LsuErr, RrqRdy, WeRdy)  BY DEF ProductClock
<1> DEFINE d == [lane |-> Scheduled, pair |-> Head(rq_fifo[Scheduled])]
           b == Loads(rrq_wr, RrqRdy, rrq_fifo)
<1>1. SomeSchedules => Scheduled \in Lanes /\ Schedules(Scheduled)
  BY DEF SomeSchedules, Scheduled
<1>2. SomeSchedules => d \in Request
  <2>1. SUFFICES ASSUME SomeSchedules  PROVE d \in Request
    OBVIOUS
  <2>2. Head(rq_fifo[Scheduled]) \in Int
    BY <1>1, <2>1, HeadIn DEF Schedules, Types, ReqTypes
  <2> QED  BY <1>1, <2>1, <2>2 DEF Request
<1>3. rrq_fifo' = FifoRead(rrq_fifo, b) \o Reg(SomeSchedules, d)
  BY <1>0 DEF ReqDispClock, SomeSchedules, Scheduled, Reg
<1>4. b => rrq_fifo # << >>  BY DEF Loads
<1>5. FifoRead(rrq_fifo, b) = Popped(rrq_fifo, b)  BY <1>4 DEF FifoRead, Popped
<1> HIDE DEF b, d
<1>6. Moves(rrq_fifo, rrq_fifo', b, SomeSchedules, d)  BY <1>3, <1>4, <1>5 DEF Moves
<1> QED  BY <1>1, <1>2, <1>6 DEF b, d

\* All places between the scheduler and memory are one queue.
LEMMA UpMoves ==
    ASSUME Types, NEW r \in RegisterFiles \cup {Idles}, NEW ans, NEW ready,
           ProductClock(r, ans, ready), Calm
    PROVE  /\ Moves(Up, Up', rqa_wr /\ ready, SomeSchedules,
                    [lane |-> Scheduled, pair |-> Head(rq_fifo[Scheduled])])
           /\ Up \in Seq(Request) /\ (rqa_wr => Head(Up) = rqa)
<1> DEFINE d == [lane |-> Scheduled, pair |-> Head(rq_fifo[Scheduled])]
           loads == Loads(rrq_wr, RrqRdy, rrq_fifo)
           sends == Sends(ready)   sent == rqa_wr /\ ready
           q1 == Reg(rqa_wr, rqa)   r1 == Reg(rqa_wr', rqa')
           q4 == Reg(rrq_wr, rrq)   r4 == Reg(rrq_wr', rrq')
           x == q1 \o rqa_fifo      x2 == r1 \o rqa_fifo'
           y == x \o lrq_fifo       y2 == x2 \o lrq_fifo'
           z == y \o q4             z2 == y2 \o r4
<1>1. /\ rqa_fifo \in Seq(Request) /\ lrq_fifo \in Seq(Request) /\ rrq_fifo \in Seq(Request)
      /\ rqa_wr \in BOOLEAN /\ rrq_wr \in BOOLEAN
      /\ (rqa_wr => rqa \in Request) /\ (rrq_wr => rrq \in Request)
  BY DEF Types, ReqTypes, LsuTypes
<1>2. /\ q1 \in Seq(Request) /\ (q1 = << >> <=> ~rqa_wr) /\ (rqa_wr => Head(q1) = rqa)
      /\ q4 \in Seq(Request) /\ (rrq_wr => Head(q4) = rrq)
  <2>1. \A v : Head(<<v>>) = v  OBVIOUS
  <2> QED  BY <1>1, <2>1, RegType DEF Reg
<1>3. sends \in BOOLEAN /\ sent \in BOOLEAN /\ loads \in BOOLEAN
      /\ Chosen \in BOOLEAN /\ Accepted \in BOOLEAN /\ SomeSchedules \in BOOLEAN
  BY <1>1 DEF Sends, Loads, Chosen, Accepted, SomeSchedules
<1>4. /\ Moves(q1, r1, sent, sends, Head(rqa_fifo))
      /\ Moves(rqa_fifo, rqa_fifo', sends, Chosen, Head(lrq_fifo))
  BY SentMoves
<1>5. /\ Moves(lrq_fifo, lrq_fifo', Chosen, Accepted, rrq)
      /\ Moves(q4, r4, Accepted, loads, Head(rrq_fifo))
  BY AcceptedMoves
<1>6. Moves(rrq_fifo, rrq_fifo', loads, SomeSchedules, d) /\ (SomeSchedules => d \in Request)
  BY ScheduledMoves
<1>7. /\ Chosen => lrq_fifo # << >> /\ Head(lrq_fifo) \in Request
      /\ loads => rrq_fifo # << >> /\ Head(rrq_fifo) \in Request
  BY <1>1, HeadIn DEF Chosen, Loads
<1>8. Moves(lrq_fifo, lrq_fifo', Chosen, Accepted, Head(q4)) /\ (Accepted => Head(q4) \in Request)
  <2>1. Accepted => Head(q4) = rrq /\ rrq \in Request  BY <1>1, <1>2 DEF Accepted
  <2> HIDE DEF q4
  <2> QED  BY <1>3, <1>5, <2>1, MovesEq
<1>a. Up = z \o rrq_fifo /\ Up' = z2 \o rrq_fifo'  BY DEF Up
<1>b. x = q1 \o rqa_fifo /\ x2 = r1 \o rqa_fifo' /\ y = x \o lrq_fifo /\ y2 = x2 \o lrq_fifo'
      /\ z = y \o q4 /\ z2 = y2 \o r4
  OBVIOUS
<1> HIDE DEF d, loads, sends, sent, q1, r1, q4, r4, x, x2, y, y2, z, z2
<1>9. /\ Moves(x, x2, sent, Chosen, Head(lrq_fifo)) /\ x \in Seq(Request)
      /\ q1 # << >> => x # << >> /\ Head(x) = Head(q1)
  <2>1. /\ Moves(q1 \o rqa_fifo, r1 \o rqa_fifo', sent, Chosen, Head(lrq_fifo))
        /\ q1 \o rqa_fifo \in Seq(Request)
    <3>1. /\ q1 \in Seq(Request) /\ rqa_fifo \in Seq(Request)
          /\ sent \in BOOLEAN /\ sends \in BOOLEAN /\ Chosen \in BOOLEAN
          /\ Chosen => Head(lrq_fifo) \in Request
      BY <1>1, <1>2, <1>3, <1>7
    <3> QED  BY <1>4, <3>1, Join
  <2>2. q1 # << >> => q1 \o rqa_fifo # << >> /\ Head(q1 \o rqa_fifo) = Head(q1)
    BY <1>1, <1>2, ConcatPopped
  <2> QED  BY <1>b, <2>1, <2>2
<1>10. /\ Moves(y, y2, sent, Accepted, Head(q4)) /\ y \in Seq(Request)
       /\ x # << >> => y # << >> /\ Head(y) = Head(x)
  <2>1. /\ Moves(x \o lrq_fifo, x2 \o lrq_fifo', sent, Accepted, Head(q4))
        /\ x \o lrq_fifo \in Seq(Request)
    <3>1. /\ x \in Seq(Request) /\ lrq_fifo \in Seq(Request)
          /\ sent \in BOOLEAN /\ Chosen \in BOOLEAN /\ Accepted \in BOOLEAN
          /\ Moves(x, x2, sent, Chosen, Head(lrq_fifo))
      BY <1>1, <1>3, <1>9
    <3> QED  BY <1>8, <3>1, Join
  <2>2. x # << >> => x \o lrq_fifo # << >> /\ Head(x \o lrq_fifo) = Head(x)
    BY <1>1, <1>9, ConcatPopped
  <2> QED  BY <1>b, <2>1, <2>2
<1>11. /\ Moves(z, z2, sent, loads, Head(rrq_fifo)) /\ z \in Seq(Request)
       /\ y # << >> => z # << >> /\ Head(z) = Head(y)
  <2>1. /\ Moves(y \o q4, y2 \o r4, sent, loads, Head(rrq_fifo))
        /\ y \o q4 \in Seq(Request)
    <3>1. /\ y \in Seq(Request) /\ q4 \in Seq(Request)
          /\ sent \in BOOLEAN /\ Accepted \in BOOLEAN /\ loads \in BOOLEAN
          /\ loads => Head(rrq_fifo) \in Request
      BY <1>1, <1>2, <1>3, <1>7, <1>10
    <3>2. Moves(y, y2, sent, Accepted, Head(q4)) /\ Moves(q4, r4, Accepted, loads, Head(rrq_fifo))
      BY <1>5, <1>10
    <3> QED  BY <3>1, <3>2, Join
  <2>2. y # << >> => y \o q4 # << >> /\ Head(y \o q4) = Head(y)
    BY <1>2, <1>10, ConcatPopped
  <2> QED  BY <1>b, <2>1, <2>2
<1>12. /\ Moves(Up, Up', sent, SomeSchedules, d) /\ Up \in Seq(Request)
       /\ z # << >> => Head(Up) = Head(z)
  <2>1. /\ Moves(z \o rrq_fifo, z2 \o rrq_fifo', sent, SomeSchedules, d)
        /\ z \o rrq_fifo \in Seq(Request)
    BY <1>1, <1>3, <1>6, <1>11, Join
  <2>2. z # << >> => Head(z \o rrq_fifo) = Head(z)  BY <1>1, <1>11, ConcatPopped
  <2> QED  BY <1>a, <2>1, <2>2
<1>13. rqa_wr => Head(Up) = rqa  BY <1>2, <1>9, <1>10, <1>11, <1>12
<1> QED  BY <1>12, <1>13 DEF d, sent

\* All places between memory and the response port are one queue.
LEMMA BackMoves ==
    ASSUME Types, NEW r \in RegisterFiles \cup {Idles}, NEW ans \in Answers \cup {Silent},
           NEW ready, ProductClock(r, ans, ready), Calm, chan # << >> => on_fly > 0
    PROVE  /\ Moves(Back, Back', Hands, ans # Silent,
                    [lane |-> ans.lane, pair |-> Head(mem[ans.lane]), err |-> ans.err])
           /\ Back \in Seq(Response) /\ (Hands => Head(Back) = Head(rss_fifo))
           /\ ans # Silent => /\ ans.lane \in Lanes /\ mem[ans.lane] # << >>
                              /\ [lane |-> ans.lane, pair |-> Head(mem[ans.lane]),
                                  err |-> ans.err] \in Response
<1> DEFINE in == IF chan = << >> THEN << >> ELSE Head(chan)
           d == [lane |-> ans.lane, pair |-> Head(mem[ans.lane]), err |-> ans.err]
           takes == rss_rd /\ chan # << >>
           says == ans # Silent
<1>0. /\ ResponseClock(chan # << >>, in, ready, rs_fsm = "RECV", Reinit(r))
      /\ MemoryClock(ans, ready)
  BY DEF ProductClock
<1>a. ~Disabled /\ ~Reinit(r)  BY DEF Calm, Undisturbed, Disabled, Reinit
<1>1. rss_fifo \in Seq(Response) /\ chan \in Seq(Response)
  BY DEF Types, LsuTypes, CtlTypes
<1>2. takes \in BOOLEAN /\ says \in BOOLEAN /\ Hands \in BOOLEAN
  BY DEF Types, LsuTypes, Hands
<1>3. says => ans.lane \in Lanes /\ mem[ans.lane] # << >> /\ d \in Response
  <2>1. SUFFICES ASSUME says
                 PROVE  ans.lane \in Lanes /\ mem[ans.lane] # << >> /\ d \in Response
    OBVIOUS
  <2>2. ans.lane \in Lanes /\ ans.err \in BOOLEAN  BY <2>1 DEF Answers
  <2>3. mem[ans.lane] # << >>  BY <1>0, <2>1 DEF MemoryClock
  <2>4. Head(mem[ans.lane]) \in Int  BY <2>2, <2>3, HeadIn DEF Types, CtlTypes
  <2> QED  BY <2>2, <2>3, <2>4 DEF Response
<1>4. Moves(rss_fifo, rss_fifo', Hands, takes, Head(chan))
  <2>1. rss_fifo' = FifoRead(rss_fifo, Hands)
                      \o (IF rss_rd /\ chan # << >> /\ on_fly > 0 THEN <<in>> ELSE << >>)
    BY <1>0, <1>a DEF ResponseClock, Hands
  <2>2. rss_fifo' = FifoRead(rss_fifo, Hands) \o Reg(takes, Head(chan))
    BY <2>1 DEF Reg
  <2>3. Hands => rss_fifo # << >>  BY DEF Hands
  <2>4. FifoRead(rss_fifo, Hands) = Popped(rss_fifo, Hands)  BY <2>3 DEF FifoRead, Popped
  <2> QED  BY <2>2, <2>3, <2>4 DEF Moves
<1>5. Moves(chan, chan', takes, says, d)
  <2>1. chan' = IF says THEN Append(FifoRead(chan, rss_rd), d) ELSE FifoRead(chan, rss_rd)
    BY <1>0 DEF MemoryClock
  <2>2. FifoRead(chan, rss_rd) = Popped(chan, takes)  BY DEF FifoRead, Popped
  <2>3. Popped(chan, takes) \in Seq(Response)  BY <1>1, <1>2, PoppedType
  <2> DEFINE k == Popped(chan, takes)
  <2>4. chan' = IF says THEN Append(k, d) ELSE k  BY <2>1, <2>2
  <2>5. k \in Seq(Response)  BY <2>3
  <2> HIDE DEF k, d, says
  <2>6. says => Append(k, d) = k \o <<d>>  BY <1>3, <2>5, AppendIsConcat
  <2>7. ~says => k \o << >> = k  BY <2>5, ConcatEmptySeq
  <2>8. chan' = k \o Reg(says, d)  BY <2>4, <2>6, <2>7 DEF Reg
  <2> QED  BY <2>8 DEF Moves, k
<1>6. takes => chan # << >> /\ Head(chan) \in Response  BY <1>1, HeadIn
<1>7. Hands => rss_fifo # << >>  BY DEF Hands
<1> HIDE DEF in, takes, d, says
<1>8. /\ Moves(rss_fifo \o chan, rss_fifo' \o chan', Hands, says, d)
      /\ rss_fifo \o chan \in Seq(Response)
      /\ rss_fifo # << >> => Head(rss_fifo \o chan) = Head(rss_fifo)
  BY <1>1, <1>2, <1>3, <1>4, <1>5, Join
<1> QED  BY <1>3, <1>7, <1>8 DEF Back, d, says

\* All places between that port and the distributor are one queue.
LEMMA NearMoves ==
    ASSUME Types, Rooms, NEW r \in RegisterFiles \cup {Idles}, NEW ans, NEW ready,
           ProductClock(r, ans, ready), Calm
    PROVE  /\ Moves(Near, Near', SomeDistributed, Hands,
                    [lane |-> Head(rss_fifo).lane, pair |-> Head(rss_fifo).pair])
           /\ Near \in Seq(Request) /\ (rs_fifo # << >> => Head(Near) = Head(rs_fifo))
           /\ Hands => [lane |-> Head(rss_fifo).lane, pair |-> Head(rss_fifo).pair] \in Request
<1> DEFINE vld == rrs_fifo # << >>
           in == IF rrs_fifo = << >> THEN << >> ELSE Head(rrs_fifo)
           wvld == [l \in Lanes |-> weq[l] # << >>]
           win == [l \in Lanes |-> IF weq[l] = << >> THEN {} ELSE Head(weq[l])]
           rd == [l \in Lanes |-> opr_fsm[l] = "RECV"]
           d == [lane |-> Head(rss_fifo).lane, pair |-> Head(rss_fifo).pair]
           q3 == Reg(rrs_wr, rrs)   r3 == Reg(rrs_wr', rrs')
           cin == IF chan = << >> THEN << >> ELSE Head(chan)
<1>0. /\ RespDistClock(LsuErr, vld, in, wvld, win, rd)
      /\ ResponseClock(chan # << >>, cin, ready, rs_fsm = "RECV", Reinit(r))
  BY DEF ProductClock
<1>a. ~Disabled /\ ~Reinit(r) /\ ~(LsuErr \/ q_err_flush)
  BY DEF Calm, Undisturbed, Disabled, Reinit
<1>1. /\ rs_fifo \in Seq(Request) /\ rrs_fifo \in Seq(Request) /\ rss_fifo \in Seq(Response)
      /\ rrs_wr \in BOOLEAN /\ (rrs_wr => rrs \in Request)
  BY DEF Types, RespTypes, LsuTypes
<1>2. Hands \in BOOLEAN /\ Gives \in BOOLEAN /\ Receives \in BOOLEAN /\ SomeDistributed \in BOOLEAN
  BY <1>1 DEF Hands, Gives, Receives, SomeDistributed
<1>3. Hands => d \in Request
  <2>1. Hands => Head(rss_fifo) \in Response  BY <1>1, HeadIn DEF Hands
  <2> QED  BY <2>1 DEF Response, Request
<1>4. Moves(rs_fifo, rs_fifo', SomeDistributed, Receives, Head(rrs_fifo))
  <2>1. rs_fifo' = FifoRead(rs_fifo, SomeDistributed) \o Reg(Receives, Head(rrs_fifo))
    BY <1>0, <1>a DEF RespDistClock, SomeDistributed, Distributed, Distributes, Receives, Reg
  <2>2. SomeDistributed => rs_fifo # << >>  BY DEF SomeDistributed, Distributed, Distributes
  <2>3. FifoRead(rs_fifo, SomeDistributed) = Popped(rs_fifo, SomeDistributed)
    BY <2>2 DEF FifoRead, Popped
  <2> QED  BY <2>1, <2>2, <2>3 DEF Moves
<1>5. Moves(rrs_fifo, rrs_fifo', Receives, Gives, rrs)
  <2> DEFINE b == rs_fsm = "RECV"
  <2>1. rrs_fifo' = FifoNext(rrs_fifo, LsuRsDepth, b, rrs_wr, rrs)
    BY <1>0 DEF ResponseClock
  <2>2. Gives = (rrs_wr /\ Len(rrs_fifo) < LsuRsDepth)
    <3>1. Len(rrs_fifo) < LsuRsDepth <=> ~(Len(rrs_fifo) = LsuRsDepth)
      BY <1>1, Constants, LenProperties DEF Rooms
    <3> QED  BY <1>1, <3>1 DEF Gives
  <2>3. Receives <=> b /\ rrs_fifo # << >>  BY DEF Receives
  <2>4. b \in BOOLEAN  OBVIOUS
  <2> HIDE DEF b, Gives
  <2>5. Moves(rrs_fifo, FifoNext(rrs_fifo, LsuRsDepth, b, rrs_wr, rrs), b /\ rrs_fifo # << >>,
              Gives, rrs)
    BY <1>1, <2>2, <2>4, NextMoves
  <2> QED  BY <2>1, <2>3, <2>5 DEF Moves, Popped
<1>6. Moves(q3, r3, Gives, Hands, d)
  <2>1. /\ rrs_wr' = (Hands \/ (rrs_wr /\ Len(rrs_fifo) = LsuRsDepth))
        /\ rrs' = IF Hands THEN d ELSE rrs
    BY <1>0, <1>a DEF ResponseClock, Hands
  <2>2. \A x : Tail(<<x>>) = << >> /\ <<x>> # << >>  OBVIOUS
  <2>3. \A x : << >> \o <<x>> = <<x>> /\ <<x>> \o << >> = <<x>>  OBVIOUS
  <2>4. << >> \o << >> = << >>  BY EmptySeq, ConcatEmptySeq
  <2> DEFINE full == Len(rrs_fifo) = LsuRsDepth
  <2>5. Gives <=> rrs_wr /\ ~full  BY DEF Gives
  <2>6. Hands => ~(rrs_wr /\ full)  BY DEF Hands
  <2>7. rrs_wr' = (Hands \/ (rrs_wr /\ full))  BY <2>1
  <2> HIDE DEF full, d
  <2>8. CASE Hands
    <3>1. r3 = <<d>>  BY <2>1, <2>7, <2>8 DEF Reg
    <3>2. Popped(q3, Gives) = << >>  BY <2>2, <2>5, <2>6, <2>8 DEF Popped, Reg
    <3>3. Gives => q3 # << >>  BY <2>2, <2>5 DEF Reg
    <3>4. Reg(Hands, d) = <<d>>  BY <2>8 DEF Reg
    <3> QED  BY <2>3, <3>1, <3>2, <3>3, <3>4 DEF Moves
  <2>9. CASE ~Hands
    <3>1. r3 = Reg(rrs_wr /\ full, rrs)  BY <2>1, <2>7, <2>9 DEF Reg
    <3>2. Popped(q3, Gives) = Reg(rrs_wr /\ full, rrs)  BY <2>2, <2>5 DEF Popped, Reg
    <3>3. Gives => q3 # << >>  BY <2>2, <2>5 DEF Reg
    <3>4. Reg(Hands, d) = << >>  BY <2>9 DEF Reg
    <3>5. Reg(rrs_wr /\ full, rrs) \o << >> = Reg(rrs_wr /\ full, rrs)
      BY <2>3, <2>4 DEF Reg
    <3> QED  BY <3>1, <3>2, <3>3, <3>4, <3>5 DEF Moves
  <2> QED  BY <2>8, <2>9
<1>7. /\ q3 \in Seq(Request) /\ (Gives => rrs \in Request /\ rrs = Head(q3))
      /\ Receives => Head(rrs_fifo) \in Request
  <2>1. \A x : Head(<<x>>) = x  OBVIOUS
  <2> QED  BY <1>1, <2>1, RegType, HeadIn DEF Reg, Gives, Receives
<1>8. Near = (rs_fifo \o rrs_fifo) \o q3 /\ Near' = (rs_fifo' \o rrs_fifo') \o r3
  BY DEF Near
<1> DEFINE x == rs_fifo \o rrs_fifo   x2 == rs_fifo' \o rrs_fifo'
<1>b. x = rs_fifo \o rrs_fifo /\ x2 = rs_fifo' \o rrs_fifo' /\ Near = x \o q3 /\ Near' = x2 \o r3
  BY <1>8
<1> HIDE DEF d, q3, r3, x, x2
<1>9. /\ Moves(x, x2, SomeDistributed, Gives, rrs) /\ x \in Seq(Request)
      /\ rs_fifo # << >> => x # << >> /\ Head(x) = Head(rs_fifo)
  <2>1. /\ Moves(rs_fifo \o rrs_fifo, rs_fifo' \o rrs_fifo', SomeDistributed, Gives, rrs)
        /\ rs_fifo \o rrs_fifo \in Seq(Request)
    BY <1>1, <1>2, <1>4, <1>5, <1>7, Join
  <2>2. rs_fifo # << >> => rs_fifo \o rrs_fifo # << >> /\ Head(rs_fifo \o rrs_fifo) = Head(rs_fifo)
    BY <1>1, ConcatPopped
  <2> QED  BY <1>b, <2>1, <2>2
<1>10. Moves(x, x2, SomeDistributed, Gives, Head(q3)) /\ (Gives => Head(q3) \in Request)
  BY <1>2, <1>7, <1>9, MovesEq
<1>11. /\ Moves(x \o q3, x2 \o r3, SomeDistributed, Hands, d) /\ x \o q3 \in Seq(Request)
       /\ x # << >> => Head(x \o q3) = Head(x)
  BY <1>2, <1>3, <1>6, <1>7, <1>9, <1>10, Join
<1> QED  BY <1>3, <1>9, <1>b, <1>11 DEF d

\* What memory has of a lane is a queue.
LEMMA MemMoves ==
    ASSUME Types, NEW r \in RegisterFiles \cup {Idles}, NEW ans \in Answers \cup {Silent},
           NEW ready, ProductClock(r, ans, ready), NEW l \in Lanes
    PROVE  Moves(mem[l], mem'[l], ans # Silent /\ ans.lane = l, rqa_wr /\ ready /\ rqa.lane = l,
                 rqa.pair)
<1> DEFINE asked == IF rqa_wr /\ ready THEN [mem EXCEPT ![rqa.lane] = Append(@, rqa.pair)] ELSE mem
           q == mem[l]   b == ans # Silent /\ ans.lane = l
           p == rqa_wr /\ ready /\ rqa.lane = l   d == rqa.pair
<1>0. MemoryClock(ans, ready)  BY DEF ProductClock
<1>1. mem \in [Lanes -> Seq(Int)] /\ q \in Seq(Int)  BY DEF Types, CtlTypes
<1>2. p => d \in Int  BY DEF Types, LsuTypes, Request
<1>3. asked[l] = IF p THEN Append(q, d) ELSE q
  <2>1. rqa_wr => rqa.lane \in Lanes  BY DEF Types, LsuTypes, Request
  <2> QED  BY <1>1, <2>1
<1>4. b => q # << >>  BY <1>0 DEF MemoryClock
<1>5. mem'[l] = IF b THEN Tail(asked[l]) ELSE asked[l]
  <2>1. CASE ans = Silent
    <3>1. mem' = asked  BY <1>0, <2>1 DEF MemoryClock
    <3> QED  BY <2>1, <3>1
  <2>2. CASE ans # Silent
    <3>1. mem' = [asked EXCEPT ![ans.lane] = Tail(@)]  BY <1>0, <2>2 DEF MemoryClock
    <3>2. l \in DOMAIN asked  BY <1>1 DEF Types, LsuTypes, Request
    <3> HIDE DEF asked
    <3> QED  BY <2>2, <3>1, <3>2
  <2> QED  BY <2>1, <2>2
<1> DEFINE s == asked[l]
<1>b. s = (IF p THEN Append(q, d) ELSE q) /\ mem'[l] = IF b THEN Tail(s) ELSE s
  BY <1>3, <1>5
<1> HIDE DEF q, b, p, d, s, asked
<1>6. s = q \o Reg(p, d)
  <2>1. CASE p  BY <1>1, <1>2, <1>b, <2>1, AppendIsConcat DEF Reg
  <2>2. CASE ~p  BY <1>1, <1>b, <2>2, ConcatEmptySeq DEF Reg
  <2> QED  BY <2>1, <2>2
<1>7. mem'[l] = Popped(q, b) \o Reg(p, d)
  <2>1. CASE b
    <3>1. Reg(p, d) \in Seq(Int)
      <4>1. CASE p  BY <1>2, <4>1 DEF Reg
      <4>2. CASE ~p  BY <4>2, EmptySeq DEF Reg
      <4> QED  BY <4>1, <4>2
    <3>2. Tail(q \o Reg(p, d)) = Tail(q) \o Reg(p, d)
      BY <1>1, <1>4, <2>1, <3>1, ConcatPopped
    <3> QED  BY <1>b, <1>6, <2>1, <3>2 DEF Popped
  <2>2. CASE ~b  BY <1>b, <1>6, <2>2 DEF Popped
  <2> QED  BY <2>1, <2>2
<1>8. Moves(q, mem'[l], b, p, d)  BY <1>4, <1>7 DEF Moves
<1> QED  BY <1>8 DEF q, b, p, d

\* What a lane has asked and the scheduler not seen is a queue.
LEMMA RqMoves ==
    ASSUME Types, NEW r \in RegisterFiles \cup {Idles}, NEW ans, NEW ready,
           ProductClock(r, ans, ready),
           NEW l \in Lanes
    PROVE  /\ Moves(rq_fifo[l], rq_fifo'[l], Schedules(l), Requests(l), vaddr[l] \div 2)
           /\ rq_fifo[l] \in Seq(Int) /\ vaddr[l] \div 2 \in Int
<1>0. ReqDispClock(LsuErr, RrqRdy, WeRdy)  BY DEF ProductClock
<1>1. /\ rq_fifo'[l] = FifoRead(rq_fifo[l], Schedules(l)) \o Reg(Requests(l), vaddr[l] \div 2)
      /\ rq_fifo[l] \in Seq(Int) /\ vaddr[l] \in Nat
  BY <1>0 DEF ReqDispClock, Types, ReqTypes, Reg
<1>2. Schedules(l) => rq_fifo[l] # << >>  BY DEF Schedules
<1>3. FifoRead(rq_fifo[l], Schedules(l)) = Popped(rq_fifo[l], Schedules(l))
  BY <1>2 DEF FifoRead, Popped
<1> QED  BY <1>1, <1>2, <1>3 DEF Moves

\* The distributor of the responses while there is no error.
LEMMA CalmDistClock ==
    ASSUME Types, NEW r \in RegisterFiles \cup {Idles}, NEW ans, NEW ready,
           ProductClock(r, ans, ready), Calm,
           NEW l \in Lanes
    PROVE  /\ rswe_fsm'[l] = TakeFSM(rswe_fsm[l], weq[l] # << >>, NearFull(rswe_fifo[l], RsdWeDepth))
           /\ rswe_fifo'[l] = FifoRead(rswe_fifo[l], Distributed(l))
                                \o Reg(Masked(l), Head(weq[l]))
           /\ op_fifo'[l] = FifoRead(op_fifo[l], Loads(opd_wr[l], F21Rdy(l), op_fifo[l]))
                              \o Reg(Distributed(l), [pair |-> Head(rs_fifo).pair,
                                                      mask |-> Head(rswe_fifo[l])])
           /\ opd_wr'[l] = StillOffers(opd_wr[l], F21Rdy(l), op_fifo[l])
           /\ opd'[l] = IF Loads(opd_wr[l], F21Rdy(l), op_fifo[l]) THEN Head(op_fifo[l])
                        ELSE opd[l]
           /\ f21'[l] = F21Clock(l, opr_fsm[l] = "RECV")
           /\ ~q_err_flush'
<1> DEFINE vld == rrs_fifo # << >>
           in == IF rrs_fifo = << >> THEN << >> ELSE Head(rrs_fifo)
           wvld == [k \in Lanes |-> weq[k] # << >>]
           win == [k \in Lanes |-> IF weq[k] = << >> THEN {} ELSE Head(weq[k])]
           rd == [k \in Lanes |-> opr_fsm[k] = "RECV"]
           flush == LsuErr \/ q_err_flush
<1>0. RespDistClock(LsuErr, vld, in, wvld, win, rd)  BY DEF ProductClock
<1>a. ~flush  BY DEF Calm, Undisturbed
<1>1. Distributes(l, flush) <=> Distributed(l)  BY <1>a DEF Distributes, Distributed
<1>2. rswe_fifo'[l] = FifoRead(rswe_fifo[l], Distributed(l)) \o Reg(Masked(l), Head(weq[l]))
  <2>1. rswe_fifo'[l] = (IF flush THEN << >> ELSE FifoRead(rswe_fifo[l], Distributes(l, flush)))
              \o (IF rswe_fsm[l] = "RECV" /\ wvld[l] THEN <<win[l]>> ELSE << >>)
    BY <1>0 DEF RespDistClock
  <2>2. FifoRead(rswe_fifo[l], Distributes(l, flush)) = FifoRead(rswe_fifo[l], Distributed(l))
    BY <1>1 DEF FifoRead
  <2>3. (IF rswe_fsm[l] = "RECV" /\ wvld[l] THEN <<win[l]>> ELSE << >>)
            = Reg(Masked(l), Head(weq[l]))
    BY DEF Reg, Masked
  <2> QED  BY <1>a, <2>1, <2>2, <2>3
<1>3. op_fifo'[l] = FifoRead(op_fifo[l], Loads(opd_wr[l], F21Rdy(l), op_fifo[l]))
                      \o Reg(Distributed(l), [pair |-> Head(rs_fifo).pair,
                                              mask |-> Head(rswe_fifo[l])])
  <2> DEFINE d == [pair |-> Head(rs_fifo).pair, mask |-> Head(rswe_fifo[l])]
  <2>1. op_fifo'[l] = FifoRead(op_fifo[l], Loads(opd_wr[l], F21Rdy(l), op_fifo[l]))
                        \o (IF Distributes(l, flush) THEN <<d>> ELSE << >>)
    BY <1>0 DEF RespDistClock
  <2>2. (IF Distributes(l, flush) THEN <<d>> ELSE << >>) = Reg(Distributed(l), d)
    BY <1>1 DEF Reg
  <2> QED  BY <2>1, <2>2
<1>4. /\ opd_wr'[l] = StillOffers(opd_wr[l], F21Rdy(l), op_fifo[l])
      /\ opd'[l] = IF Loads(opd_wr[l], F21Rdy(l), op_fifo[l]) THEN Head(op_fifo[l]) ELSE opd[l]
      /\ f21'[l] = F21Clock(l, opr_fsm[l] = "RECV")
  BY <1>0 DEF RespDistClock
<1>5. rswe_fsm'[l] = TakeFSM(rswe_fsm[l], weq[l] # << >>, NearFull(rswe_fifo[l], RsdWeDepth))
  BY <1>0 DEF RespDistClock
<1>6. ~q_err_flush'
  <2>1. q_err_flush' = (flush /\ InBusy)  BY <1>0 DEF RespDistClock
  <2> QED  BY <1>a, <2>1
<1> QED  BY <1>2, <1>3, <1>4, <1>5, <1>6

\* The mask FIFO of a lane, and the one before it, move.
LEMMA WeMoves ==
    ASSUME Types, NEW r \in RegisterFiles \cup {Idles}, NEW ans, NEW ready,
           ProductClock(r, ans, ready),
           NEW l \in Lanes
    PROVE  /\ Moves(weq[l], weq'[l], Masked(l), MaskTaken(l), we_mask[l])
           /\ weq[l] \in Seq(Masks) /\ we_mask[l] \in Masks
           /\ Moves(we_fifo[l], we_fifo'[l], Loads(we_wr[l], WeRdy[l], we_fifo[l]), Requests(l),
                    WordMask(l))
           /\ we_fifo[l] \in Seq(Masks) /\ WordMask(l) \in Masks
           /\ we_wr'[l] = StillOffers(we_wr[l], WeRdy[l], we_fifo[l]) /\ we_wr[l] \in BOOLEAN
           /\ WeRdy[l] = (Len(weq[l]) < WeDepth)
<1> DEFINE loads == Loads(we_wr[l], WeRdy[l], we_fifo[l])
           p2 == weq[l]   p4 == we_fifo[l]   s2 == weq'[l]  s4 == we_fifo'[l]
           m == Masked(l)  t == MaskTaken(l)  w == Requests(l)
<1>0. ReqDispClock(LsuErr, RrqRdy, WeRdy) /\ WeClock  BY DEF ProductClock
<1>1. /\ p2 \in Seq(Masks) /\ p4 \in Seq(Masks)
      /\ we_wr[l] \in BOOLEAN /\ we_mask[l] \in Masks /\ WordMask(l) \in Masks
  BY DEF Types, ReqTypes, RespTypes, CtlTypes, WordMask, Masks
<1>2. Moves(p2, s2, m, t, we_mask[l])
  <2> DEFINE rd == rswe_fsm[l] = "RECV"
  <2>1. s2 = FifoNext(p2, WeDepth, rd, we_wr[l], we_mask[l])  BY <1>0 DEF WeClock
  <2>2. rd \in BOOLEAN /\ t = (we_wr[l] /\ Len(p2) < WeDepth) /\ (m <=> rd /\ p2 # << >>)
    BY DEF MaskTaken, Masked
  <2> DEFINE wr == we_wr[l]   d == we_mask[l]
  <2>3. /\ p2 \in Seq(Masks) /\ wr \in BOOLEAN /\ d \in Masks /\ t = (wr /\ Len(p2) < WeDepth)
        /\ s2 = FifoNext(p2, WeDepth, rd, wr, d)
    BY <1>1, <2>1, <2>2
  <2> HIDE DEF rd, p2, s2, t, m, wr, d
  <2>4. Moves(p2, FifoNext(p2, WeDepth, rd, wr, d), rd /\ p2 # << >>, t, d)
    BY <2>2, <2>3, NextMoves
  <2>5. Moves(p2, s2, m, t, d)  BY <2>2, <2>3, <2>4 DEF Moves, Popped
  <2> QED  BY <2>5 DEF d
<1>3. Moves(p4, s4, loads, w, WordMask(l))
  <2>1. s4 = FifoRead(p4, loads) \o Reg(w, WordMask(l))
    BY <1>0 DEF ReqDispClock, Reg
  <2>2. loads => p4 # << >>  BY DEF Loads
  <2>3. FifoRead(p4, loads) = Popped(p4, loads)  BY <2>2 DEF FifoRead, Popped
  <2> QED  BY <2>1, <2>2, <2>3 DEF Moves
<1>4. we_wr'[l] = StillOffers(we_wr[l], WeRdy[l], we_fifo[l])
  BY <1>0 DEF ReqDispClock
<1>5. WeRdy[l] = (Len(weq[l]) < WeDepth)  BY DEF WeRdy
<1> QED  BY <1>1, <1>2, <1>3, <1>4, <1>5

\* All places a mask passes are one queue.
LEMMA MaskLineMoves ==
    ASSUME Types, NEW r \in RegisterFiles \cup {Idles}, NEW ans, NEW ready,
           ProductClock(r, ans, ready), Calm,
           NEW l \in Lanes
    PROVE  /\ Moves(MaskLine(l), MaskLine(l)', Distributed(l), Requests(l), WordMask(l))
           /\ MaskLine(l) \in Seq(Masks) /\ WordMask(l) \in Masks
           /\ Distributed(l) => Head(MaskLine(l)) = Head(rswe_fifo[l])
<1> DEFINE loads == Loads(we_wr[l], WeRdy[l], we_fifo[l])
           q3 == Reg(we_wr[l], we_mask[l])   r3 == Reg(we_wr'[l], we_mask'[l])
           p1 == rswe_fifo[l]   p2 == weq[l]   p4 == we_fifo[l]
           s1 == rswe_fifo'[l]  s2 == weq'[l]  s4 == we_fifo'[l]
           b == Distributed(l)  m == Masked(l)  t == MaskTaken(l)  w == Requests(l)
           x == p1 \o p2   x2 == s1 \o s2
           y == x \o q3    y2 == x2 \o r3
<1>0. ReqDispClock(LsuErr, RrqRdy, WeRdy) /\ WeClock  BY DEF ProductClock
<1>1. /\ p1 \in Seq(Masks) /\ p2 \in Seq(Masks) /\ p4 \in Seq(Masks)
      /\ we_wr[l] \in BOOLEAN /\ we_mask[l] \in Masks /\ WordMask(l) \in Masks
  BY DEF Types, ReqTypes, RespTypes, CtlTypes, WordMask, Masks
<1>2. b \in BOOLEAN /\ m \in BOOLEAN /\ t \in BOOLEAN /\ w \in BOOLEAN /\ loads \in BOOLEAN
  BY <1>1 DEF Distributed, Distributes, Masked, MaskTaken, Requests, Valid, Loads
<1>3. Moves(p1, s1, b, m, Head(p2))
  <2>1. s1 = FifoRead(p1, b) \o Reg(m, Head(p2))  BY CalmDistClock
  <2>2. b => p1 # << >>  BY DEF Distributed, Distributes
  <2>3. FifoRead(p1, b) = Popped(p1, b)  BY <2>2 DEF FifoRead, Popped
  <2> QED  BY <2>1, <2>2, <2>3 DEF Moves
<1>4. Moves(p2, s2, m, t, we_mask[l])
  BY WeMoves
<1>5. Moves(q3, r3, t, loads, Head(p4))
  <2> DEFINE taken == WeRdy[l]
  <2>4. taken = (Len(weq[l]) < WeDepth)  BY DEF WeRdy
  <2>1. taken \in BOOLEAN /\ t = (we_wr[l] /\ taken)
    <3>1. taken \in BOOLEAN  BY <2>4
    <3>2. t = (we_wr[l] /\ taken)  BY <2>4 DEF MaskTaken
    <3> QED  BY <3>1, <3>2
  <2>2. /\ we_wr'[l] = StillOffers(we_wr[l], taken, p4)
        /\ we_mask'[l] = IF Loads(we_wr[l], taken, p4) THEN Head(p4) ELSE we_mask[l]
    BY <1>0 DEF ReqDispClock
  <2>a. loads = Loads(we_wr[l], taken, p4)  OBVIOUS
  <2>b. q3 = Reg(we_wr[l], we_mask[l]) /\ r3 = Reg(we_wr'[l], we_mask'[l])  OBVIOUS
  <2> HIDE DEF taken, p4, t, loads, q3, r3
  <2>3. Moves(Reg(we_wr[l], we_mask[l]),
              Reg(StillOffers(we_wr[l], taken, p4),
                  IF Loads(we_wr[l], taken, p4) THEN Head(p4) ELSE we_mask[l]),
              we_wr[l] /\ taken, Loads(we_wr[l], taken, p4), Head(p4))
    BY <1>1, <2>1, RegMoves
  <2> QED  BY <2>1, <2>2, <2>3, <2>a, <2>b
<1>6. Moves(p4, s4, loads, w, WordMask(l))
  BY WeMoves
<1>7. /\ q3 \in Seq(Masks) /\ (t => Head(q3) = we_mask[l])
      /\ m => Head(p2) \in Masks
      /\ loads => Head(p4) \in Masks
      /\ b => p1 # << >>
  <2>1. \A v : Head(<<v>>) = v  OBVIOUS
  <2> QED  BY <1>1, <2>1, RegType, HeadIn
           DEF Reg, MaskTaken, Masked, Loads, Distributed, Distributes
<1>b. /\ x = p1 \o p2 /\ x2 = s1 \o s2 /\ y = x \o q3 /\ y2 = x2 \o r3
      /\ MaskLine(l) = y \o p4 /\ MaskLine(l)' = y2 \o s4
  BY DEF MaskLine
<1> HIDE DEF loads, q3, r3, p1, p2, p4, s1, s2, s4, b, m, t, w, x, x2, y, y2
<1>8. /\ Moves(x, x2, b, t, we_mask[l]) /\ x \in Seq(Masks)
      /\ p1 # << >> => x # << >> /\ Head(x) = Head(p1)
  <2>1. Moves(p1 \o p2, s1 \o s2, b, t, we_mask[l]) /\ p1 \o p2 \in Seq(Masks)
    BY <1>1, <1>2, <1>3, <1>4, <1>7, Join
  <2>2. p1 # << >> => p1 \o p2 # << >> /\ Head(p1 \o p2) = Head(p1)
    BY <1>1, ConcatPopped
  <2> QED  BY <1>b, <2>1, <2>2
<1>9. Moves(x, x2, b, t, Head(q3)) /\ (t => Head(q3) \in Masks)
  BY <1>1, <1>2, <1>7, <1>8, MovesEq
<1>10. /\ Moves(y, y2, b, loads, Head(p4)) /\ y \in Seq(Masks)
       /\ x # << >> => y # << >> /\ Head(y) = Head(x)
  <2>1. Moves(x \o q3, x2 \o r3, b, loads, Head(p4)) /\ x \o q3 \in Seq(Masks)
    BY <1>2, <1>5, <1>7, <1>8, <1>9, Join
  <2>2. x # << >> => x \o q3 # << >> /\ Head(x \o q3) = Head(x)
    BY <1>7, <1>8, ConcatPopped
  <2> QED  BY <1>b, <2>1, <2>2
<1>11. /\ Moves(y \o p4, y2 \o s4, b, w, WordMask(l)) /\ y \o p4 \in Seq(Masks)
       /\ y # << >> => Head(y \o p4) = Head(y)
  BY <1>1, <1>2, <1>6, <1>7, <1>10, Join
<1> QED  BY <1>1, <1>7, <1>8, <1>10, <1>b, <1>11 DEF b, w, p1

\* All places between the distributor and the operand FIFO of a lane are one queue.
LEMMA PairLineMoves ==
    ASSUME Types, NEW r \in RegisterFiles \cup {Idles}, NEW ans, NEW ready,
           ProductClock(r, ans, ready), Calm,
           NEW l \in Lanes
    PROVE  /\ Moves(PairLine(l), PairLine(l)', PairTaken(l), Distributed(l),
                    [pair |-> Head(rs_fifo).pair, mask |-> Head(rswe_fifo[l])])
           /\ PairLine(l) \in Seq(Pair) /\ (PairTaken(l) => Head(PairLine(l)) = opd[l])
           /\ Distributed(l) => [pair |-> Head(rs_fifo).pair, mask |-> Head(rswe_fifo[l])] \in Pair
<1> DEFINE loads == Loads(opd_wr[l], F21Rdy(l), op_fifo[l])
           q == Reg(opd_wr[l], opd[l])   r1 == Reg(opd_wr'[l], opd'[l])
           p == op_fifo[l]   s == op_fifo'[l]
           d == [pair |-> Head(rs_fifo).pair, mask |-> Head(rswe_fifo[l])]
           t == PairTaken(l)   b == Distributed(l)   rdy == F21Rdy(l)   wr == opd_wr[l]
<1>1. /\ p \in Seq(Pair) /\ wr \in BOOLEAN /\ (wr => opd[l] \in Pair)
  BY DEF Types, RespTypes
<1>2. rdy \in BOOLEAN /\ loads \in BOOLEAN /\ t \in BOOLEAN /\ b \in BOOLEAN
  BY <1>1 DEF F21Rdy, Loads, PairTaken, Distributed, Distributes
<1>3. b => d \in Pair
  <2>1. SUFFICES ASSUME b  PROVE d \in Pair
    OBVIOUS
  <2>2. Head(rs_fifo) \in Request  BY <2>1, HeadIn DEF Distributed, Distributes, Types, RespTypes
  <2>3. Head(rswe_fifo[l]) \in Masks
    BY <2>1, HeadIn DEF Distributed, Distributes, Types, RespTypes
  <2> QED  BY <2>2, <2>3 DEF Request, Pair
<1>4. Moves(q, r1, t, loads, Head(p))
  <2>1. /\ opd_wr'[l] = StillOffers(wr, rdy, p)
        /\ opd'[l] = IF Loads(wr, rdy, p) THEN Head(p) ELSE opd[l]
    BY CalmDistClock
  <2>2. t = (wr /\ rdy) /\ loads = Loads(wr, rdy, p)
        /\ q = Reg(wr, opd[l]) /\ r1 = Reg(opd_wr'[l], opd'[l])
    BY <1>1 DEF PairTaken
  <2> HIDE DEF q, r1, t, loads, p, wr, rdy
  <2>3. Moves(Reg(wr, opd[l]),
              Reg(StillOffers(wr, rdy, p), IF Loads(wr, rdy, p) THEN Head(p) ELSE opd[l]),
              wr /\ rdy, Loads(wr, rdy, p), Head(p))
    BY <1>1, <1>2, RegMoves
  <2> QED  BY <2>1, <2>2, <2>3
<1>5. Moves(p, s, loads, b, d)
  <2>1. s = FifoRead(p, loads) \o Reg(b, d)  BY CalmDistClock
  <2>2. loads => p # << >>  BY DEF Loads
  <2>3. FifoRead(p, loads) = Popped(p, loads)  BY <2>2 DEF FifoRead, Popped
  <2> QED  BY <2>1, <2>2, <2>3 DEF Moves
<1>6. /\ q \in Seq(Pair) /\ (t => q # << >> /\ Head(q) = opd[l])
      /\ loads => Head(p) \in Pair
  <2>1. \A v : Head(<<v>>) = v /\ <<v>> # << >>  OBVIOUS
  <2> QED  BY <1>1, <2>1, RegType, HeadIn DEF Reg, PairTaken, Loads
<1>7. PairLine(l) = q \o p /\ PairLine(l)' = r1 \o s  BY DEF PairLine
<1> HIDE DEF loads, q, r1, p, s, d, t, b
<1>8. /\ Moves(q \o p, r1 \o s, t, b, d) /\ q \o p \in Seq(Pair)
      /\ q # << >> => Head(q \o p) = Head(q)
  BY <1>1, <1>2, <1>3, <1>4, <1>5, <1>6, Join
<1> QED  BY <1>3, <1>6, <1>7, <1>8 DEF t, b, d

\* The input FIFO of the multiplier, of one lane, moves.
LEMMA OprMoves ==
    ASSUME Types, NEW r \in RegisterFiles \cup {Idles}, NEW ans, NEW ready,
           ProductClock(r, ans, ready), Calm,
           NEW l \in Lanes
    PROVE  /\ Moves(opr_fifo[l], opr_fifo'[l], Dispatched(l[1]), Heard(l), F21Out(l))
           /\ opr_fifo[l] \in Seq(Int) /\ F21Out(l) \in Int
           /\ opr_fsm'[l] = TakeFSM(opr_fsm[l], F21Vld(l), NearFull(opr_fifo[l], FmacDepth))
<1>0. FmacClock(LsuErr, [k \in Lanes |-> F21Vld(k)], [k \in Lanes |-> F21Out(k)], Starts(r))
  BY DEF ProductClock
<1>1. /\ opr_fifo'[l] = FifoRead(opr_fifo[l], Dispatched(l[1])) \o Reg(Heard(l), F21Out(l))
      /\ opr_fsm'[l] = TakeFSM(opr_fsm[l], F21Vld(l), NearFull(opr_fifo[l], FmacDepth))
  BY <1>0 DEF FmacClock, Calm, Undisturbed, Reg, Heard
<1>2. Dispatched(l[1]) => opr_fifo[l] # << >>
  <2>1. l[2] \in {Rs, Rt} /\ l = <<l[1], l[2]>>  BY LaneParts, Constants
  <2> QED  BY <2>1 DEF Dispatched, Rdy
<1>3. FifoRead(opr_fifo[l], Dispatched(l[1])) = Popped(opr_fifo[l], Dispatched(l[1]))
  BY <1>2 DEF FifoRead, Popped
<1>4. opr_fifo[l] \in Seq(Int)  BY DEF Types, FmacTypes
<1>5. F21Out(l) \in Int
  <2>1. f21[l].word \in Seq(Int) \X Seq(Int) /\ f21[l].sel \in {0, 1}
    BY DEF Types, RespTypes, Halves
  <2>2. Selected(l) \in Seq(Int)  BY <2>1 DEF Selected
  <2> QED  BY <2>2, HeadIn DEF F21Out, NoWord
<1> QED  BY <1>1, <1>2, <1>3, <1>4, <1>5 DEF Moves

-----------------------------------------------------------------------------
(* The way of the words of a lane.                                         *)

\* Where the vector of a lane is: its words, and the pairs of words they are in.
FirstWord(l) == IF l[2] = Rs THEN regs[l[1]].rs ELSE regs[l[1]].rt
Words(l) == IF regs[l[1]].en THEN regs[l[1]].vl ELSE 0
PastWord(l) == FirstWord(l) + Words(l)
FirstPair(l) == FirstWord(l) \div 2
PastPair(l) == IF Words(l) = 0 THEN FirstPair(l) ELSE (PastWord(l) - 1) \div 2 + 1
MaskOf(l, p) == {h \in {0, 1} : FirstWord(l) <= 2 * p + h /\ 2 * p + h < PastWord(l)}

\* The next pair to be asked for, to meet its mask, and to be taken apart, and the word
\* behind those taken apart.
Asked(l) == IF eu_start THEN FirstPair(l)
            ELSE IF Valid(l) THEN vaddr[l] \div 2 ELSE PastPair(l)
Matched(l) == Asked(l) - Len(MaskLine(l))
Parted(l) == Matched(l) - Len(PairLine(l))
PartedWord(l) == IF Parted(l) <= FirstPair(l) THEN FirstWord(l)
                 ELSE IF Parted(l) >= PastPair(l) THEN PastWord(l) ELSE 2 * Parted(l)

\* The generator of a lane is inside its vector, at its begin or at an even word.
Asking(l) ==
    /\ eu_start => vlen[l] = 0
    /\ Valid(l) => /\ FirstWord(l) <= vaddr[l] /\ vaddr[l] + vlen[l] = PastWord(l)
                   /\ vaddr[l] = FirstWord(l) \/ vaddr[l] % 2 = 0

\* The numbers of words and pairs of a lane are natural.
LEMMA VectorTypes ==
    ASSUME Types, NEW l \in Lanes
    PROVE  /\ FirstWord(l) \in Nat /\ Words(l) \in Nat /\ PastWord(l) \in Nat
           /\ FirstPair(l) \in Nat /\ PastPair(l) \in Nat
           /\ Asked(l) \in Nat /\ Matched(l) \in Int /\ Parted(l) \in Int /\ PartedWord(l) \in Int
           /\ Len(MaskLine(l)) \in Nat /\ Len(PairLine(l)) \in Nat
           /\ vaddr[l] \in Nat /\ vlen[l] \in Nat
<1>1. l[1] \in Threads  BY LaneParts
<1>2. /\ regs[l[1]].en \in BOOLEAN /\ regs[l[1]].rs \in Nat /\ regs[l[1]].rt \in Nat
      /\ regs[l[1]].vl \in Nat
  BY <1>1 DEF Types, CtlTypes, RegisterFiles
<1>3. FirstWord(l) \in Nat /\ Words(l) \in Nat  BY <1>2 DEF FirstWord, Words
<1>4. PastWord(l) \in Nat  BY <1>3 DEF PastWord
<1>5. FirstPair(l) \in Nat  BY <1>3 DEF FirstPair
<1>6. PastPair(l) \in Nat
  <2>1. CASE Words(l) = 0  BY <1>5, <2>1 DEF PastPair
  <2>2. CASE Words(l) # 0
    <3>1. PastWord(l) - 1 \in Nat  BY <1>3, <2>2 DEF PastWord
    <3> HIDE DEF PastWord
    <3>2. (PastWord(l) - 1) \div 2 + 1 \in Nat  BY <3>1
    <3> QED  BY <2>2, <3>2 DEF PastPair
  <2> QED  BY <2>1, <2>2
<1>7. vaddr[l] \in Nat /\ vlen[l] \in Nat  BY DEF Types, ReqTypes
<1>8. Asked(l) \in Nat
  <2>1. vaddr[l] \div 2 \in Nat  BY <1>7
  <2> QED  BY <1>5, <1>6, <2>1 DEF Asked
<1>9. Len(MaskLine(l)) \in Nat
  <2>1. /\ rswe_fifo[l] \in Seq(Masks) /\ weq[l] \in Seq(Masks) /\ we_fifo[l] \in Seq(Masks)
        /\ Reg(we_wr[l], we_mask[l]) \in Seq(Masks)
    BY RegType DEF Types, ReqTypes, RespTypes, CtlTypes
  <2> DEFINE p1 == rswe_fifo[l]   p2 == weq[l]   p3 == Reg(we_wr[l], we_mask[l])
             p4 == we_fifo[l]
  <2>2. MaskLine(l) = ((p1 \o p2) \o p3) \o p4  BY DEF MaskLine
  <2>3. p1 \in Seq(Masks) /\ p2 \in Seq(Masks) /\ p3 \in Seq(Masks) /\ p4 \in Seq(Masks)
    BY <2>1
  <2> HIDE DEF p1, p2, p3, p4
  <2>4. p1 \o p2 \in Seq(Masks)  BY <2>3, ConcatProperties
  <2>5. (p1 \o p2) \o p3 \in Seq(Masks)  BY <2>3, <2>4, ConcatProperties
  <2>6. ((p1 \o p2) \o p3) \o p4 \in Seq(Masks)  BY <2>3, <2>5, ConcatProperties
  <2> QED  BY <2>2, <2>6, LenProperties
<1>10. Len(PairLine(l)) \in Nat
  <2>1. op_fifo[l] \in Seq(Pair) /\ Reg(opd_wr[l], opd[l]) \in Seq(Pair)
    BY RegType DEF Types, RespTypes
  <2>2. PairLine(l) \in Seq(Pair)  BY <2>1, ConcatProperties DEF PairLine
  <2> QED  BY <2>2, LenProperties
<1>11. Matched(l) \in Int /\ Parted(l) \in Int  BY <1>8, <1>9, <1>10 DEF Matched, Parted
<1>12. PartedWord(l) \in Int  BY <1>3, <1>4, <1>11 DEF PartedWord
<1> QED  BY <1>3, <1>4, <1>5, <1>6, <1>7, <1>8, <1>9, <1>10, <1>11, <1>12

\* The arithmetic of the address generator: what one step takes, of which pair.
LEMMA AgenArith ==
    ASSUME NEW f \in Nat, NEW v \in Nat, NEW n \in Nat, n > 0, f <= v, v = f \/ v % 2 = 0,
           NEW k, k = IF v % 2 = 1 \/ n = 1 THEN 1 ELSE 2
    PROVE  /\ k \in {1, 2} /\ n - k \in Nat /\ v + k + (n - k) = v + n
           /\ n - k > 0 => (v + k) % 2 = 0 /\ (v + k) \div 2 = v \div 2 + 1
           /\ n - k = 0 => (v + n - 1) \div 2 = v \div 2
           /\ v \div 2 <= (v + n - 1) \div 2
           /\ f \div 2 <= v \div 2
<1>1. v % 2 \in {0, 1} /\ v = 2 * (v \div 2) + (v % 2) /\ v \div 2 \in Nat  OBVIOUS
<1>2. CASE v % 2 = 1  BY <1>1, <1>2
<1>3. CASE v % 2 = 0 /\ n = 1  BY <1>1, <1>3
<1>4. CASE v % 2 = 0 /\ n # 1  BY <1>1, <1>4
<1> QED  BY <1>1, <1>2, <1>3, <1>4

\* The words of a pair that the generator takes are those of the vector.
LEMMA MaskArith ==
    ASSUME NEW f \in Nat, NEW v \in Nat, NEW n \in Nat, n > 0, f <= v, v = f \/ v % 2 = 0,
           NEW h \in {0, 1}
    PROVE  LET p == v \div 2
               m == IF v % 2 = 1 THEN {1} ELSE IF n = 1 THEN {0} ELSE {0, 1}
           IN  h \in m <=> f <= 2 * p + h /\ 2 * p + h < v + n
<1>1. v % 2 \in {0, 1} /\ v = 2 * (v \div 2) + (v % 2) /\ v \div 2 \in Nat  OBVIOUS
<1>2. CASE v % 2 = 1  BY <1>1, <1>2
<1>3. CASE v % 2 = 0 /\ n = 1  BY <1>1, <1>3
<1>4. CASE v % 2 = 0 /\ n # 1  BY <1>1, <1>4
<1> QED  BY <1>1, <1>2, <1>3, <1>4

\* The pairs asked for are between the first and the last of the vector.
LEMMA AskedBounds ==
    ASSUME Types, NEW l \in Lanes, Asking(l)
    PROVE  /\ FirstPair(l) <= Asked(l) /\ Asked(l) <= PastPair(l) /\ FirstPair(l) <= PastPair(l)
           /\ Valid(l) => ~eu_start /\ Words(l) # 0
<1>1. /\ FirstWord(l) \in Nat /\ Words(l) \in Nat /\ PastWord(l) = FirstWord(l) + Words(l)
      /\ vaddr[l] \in Nat /\ vlen[l] \in Nat
  BY VectorTypes DEF PastWord
<1> DEFINE f == FirstWord(l)   w == Words(l)   e == PastWord(l)   v == vaddr[l]   n == vlen[l]
<1>2. f \div 2 <= (IF w = 0 THEN f \div 2 ELSE (f + w - 1) \div 2 + 1)  BY <1>1
<1>3. FirstPair(l) <= PastPair(l)  BY <1>1, <1>2 DEF FirstPair, PastPair
<1>4. CASE Valid(l)
  <2>1. n > 0 /\ f <= v /\ v + n = e /\ (v = f \/ v % 2 = 0) /\ ~eu_start
    BY <1>1, <1>4 DEF Valid, Asking
  <2>2. w # 0  BY <1>1, <2>1
  <2>3. v \div 2 <= (v + n - 1) \div 2 /\ f \div 2 <= v \div 2  BY <1>1, <2>1, AgenArith
  <2>4. Asked(l) = v \div 2 /\ PastPair(l) = (e - 1) \div 2 + 1 /\ FirstPair(l) = f \div 2
    BY <1>4, <2>1, <2>2 DEF Asked, PastPair, FirstPair
  <2>5. Asked(l) <= PastPair(l) /\ FirstPair(l) <= Asked(l)  BY <1>1, <2>1, <2>3, <2>4
  <2> QED  BY <1>3, <1>4, <2>1, <2>2, <2>5
<1>5. CASE ~Valid(l)
  <2>1. Asked(l) = FirstPair(l) \/ Asked(l) = PastPair(l)  BY <1>5 DEF Asked
  <2>2. FirstPair(l) \in Nat /\ PastPair(l) \in Nat  BY VectorTypes
  <2> QED  BY <1>3, <1>5, <2>1, <2>2
<1> QED  BY <1>4, <1>5

\* The generator of a lane at an edge.
LEMMA AgenStep ==
    ASSUME Types, NEW r \in RegisterFiles \cup {Idles}, NEW ans, NEW ready,
           ProductClock(r, ans, ready), Undisturbed,
           NEW l \in Lanes
    PROVE  /\ vlen'[l] = IF Requests(l) THEN vlen[l] - WordsTaken(l)
                         ELSE IF eu_start /\ regs[l[1]].en THEN regs[l[1]].vl ELSE vlen[l]
           /\ vaddr'[l] = IF Requests(l) THEN vaddr[l] + WordsTaken(l)
                          ELSE IF eu_start /\ regs[l[1]].en THEN FirstWord(l) ELSE vaddr[l]
<1> DEFINE base == [k \in Lanes |-> IF k[2] = Rs THEN regs[k[1]].rs ELSE regs[k[1]].rt]
           len == [k \in Lanes |-> regs[k[1]].vl]
           latch == [k \in Lanes |-> eu_start /\ regs[k[1]].en]
<1>1. AgenClock(latch, base, len)  BY DEF ProductClock
<1>2. Incr(l) /\ Valid(l) <=> Requests(l)  BY DEF Incr, Requests, Undisturbed
<1>3. /\ vlen'[l] = IF Incr(l) /\ Valid(l) THEN vlen[l] - WordsTaken(l)
                    ELSE IF latch[l] THEN len[l] ELSE vlen[l]
      /\ vaddr'[l] = IF Incr(l) /\ Valid(l) THEN vaddr[l] + WordsTaken(l)
                     ELSE IF latch[l] THEN base[l] ELSE vaddr[l]
  BY <1>1 DEF AgenClock
<1>4. (latch[l] <=> eu_start /\ regs[l[1]].en) /\ len[l] = regs[l[1]].vl /\ base[l] = FirstWord(l)
  BY DEF FirstWord
<1> HIDE DEF latch, len, base
<1> QED  BY <1>2, <1>3, <1>4

\* The words of a vector depend on the registers only.
LEMMA RegsSame ==
    ASSUME regs' = regs, NEW l
    PROVE  /\ FirstWord(l)' = FirstWord(l) /\ Words(l)' = Words(l) /\ PastWord(l)' = PastWord(l)
           /\ FirstPair(l)' = FirstPair(l) /\ PastPair(l)' = PastPair(l)
           /\ \A p : MaskOf(l, p)' = MaskOf(l, p)
BY DEF FirstWord, Words, PastWord, FirstPair, PastPair, MaskOf

\* The address generator asks for the next pair with the mask of its words.
LEMMA AskingStep ==
    ASSUME Types, NEW r \in RegisterFiles \cup {Idles}, NEW ans, NEW ready,
           ProductClock(r, ans, ready), Undisturbed,
           ~Starts(r), NEW l \in Lanes, Asking(l)
    PROVE  /\ Asking(l)' /\ Asked(l)' = Asked(l) + B(Requests(l))
           /\ Requests(l) => /\ vaddr[l] \div 2 = Asked(l)
                             /\ WordMask(l) = MaskOf(l, Asked(l))
           /\ Valid(l)' => Valid(l) \/ eu_start
<1> DEFINE f == FirstWord(l)   w == Words(l)   e == PastWord(l)   v == vaddr[l]   n == vlen[l]
           v2 == vaddr'[l]   n2 == vlen'[l]
<1>1. f \in Nat /\ w \in Nat /\ e = f + w /\ v \in Nat /\ n \in Nat /\ Asked(l) \in Nat
  BY VectorTypes DEF PastWord
<1>2. /\ n2 = IF Requests(l) THEN n - WordsTaken(l)
              ELSE IF eu_start /\ regs[l[1]].en THEN regs[l[1]].vl ELSE n
      /\ v2 = IF Requests(l) THEN v + WordsTaken(l)
              ELSE IF eu_start /\ regs[l[1]].en THEN f ELSE v
  BY AgenStep
<1>3. ~eu_start' /\ regs' = regs  BY DEF ProductClock, EcuClock
<1>4. /\ FirstWord(l)' = f /\ Words(l)' = w /\ PastWord(l)' = e
      /\ FirstPair(l)' = FirstPair(l) /\ PastPair(l)' = PastPair(l)
  BY <1>3, RegsSame
<1>5. /\ Asking(l)' <=> (n2 > 0 => f <= v2 /\ v2 + n2 = e /\ (v2 = f \/ v2 % 2 = 0))
      /\ Asked(l)' = IF n2 > 0 THEN v2 \div 2 ELSE PastPair(l)
      /\ Valid(l)' <=> n2 > 0
  BY <1>3, <1>4 DEF Asking, Asked, Valid
<1>6. CASE Requests(l)
  <2>1. /\ ~eu_start /\ n > 0 /\ f <= v /\ v + n = e /\ (v = f \/ v % 2 = 0) /\ w # 0 /\ Valid(l)
    BY <1>1, <1>6 DEF Requests, Valid, Asking, PastWord
  <2>2. WordsTaken(l) = IF v % 2 = 1 \/ n = 1 THEN 1 ELSE 2  BY DEF WordsTaken, Odd
  <2> DEFINE k == WordsTaken(l)
  <2>b. k = IF v % 2 = 1 \/ n = 1 THEN 1 ELSE 2  BY <2>2
  <2> HIDE DEF k, v, n, f
  <2>3. /\ k \in {1, 2} /\ n - k \in Nat /\ v + k + (n - k) = v + n
        /\ n - k > 0 => (v + k) % 2 = 0 /\ (v + k) \div 2 = v \div 2 + 1
        /\ n - k = 0 => (v + n - 1) \div 2 = v \div 2
    BY <1>1, <2>1, <2>b, AgenArith
  <2>4. n2 = n - k /\ v2 = v + k  BY <1>2, <1>6 DEF k
  <2>5. Asked(l) = v \div 2 /\ PastPair(l) = (e - 1) \div 2 + 1
    BY <2>1 DEF Asked, PastPair, v
  <2>a. v \div 2 \in Nat  BY <1>1
  <2> HIDE DEF n2, v2, f, w, e, v, n
  <2>6. Asking(l)'  BY <1>1, <1>5, <2>1, <2>3, <2>4
  <2>7. Asked(l)' = v \div 2 + 1
    <3>1. CASE n2 > 0  BY <1>5, <2>3, <2>4, <3>1
    <3>2. CASE ~(n2 > 0)
      <4>1. n - k = 0  BY <2>3, <2>4, <3>2
      <4>2. Asked(l)' = (e - 1) \div 2 + 1  BY <1>5, <2>5, <3>2
      <4>3. e - 1 = v + n - 1  BY <1>1, <2>1
      <4> QED  BY <2>3, <4>1, <4>2, <4>3
    <3> QED  BY <3>1, <3>2
  <2>8. WordMask(l) = MaskOf(l, v \div 2)
    <3>1. WordMask(l) = IF v % 2 = 1 THEN {1} ELSE IF n = 1 THEN {0} ELSE {0, 1}
      BY DEF WordMask, Odd, v, n
    <3>2. \A h \in {0, 1} : h \in WordMask(l) <=> f <= 2 * (v \div 2) + h /\ 2 * (v \div 2) + h < v + n
      BY <1>1, <2>1, <3>1, MaskArith
    <3>3. WordMask(l) \subseteq {0, 1}  BY <3>1
    <3>4. MaskOf(l, v \div 2) = {h \in {0, 1} : f <= 2 * (v \div 2) + h /\ 2 * (v \div 2) + h < v + n}
      BY <2>1 DEF MaskOf, f, e
    <3> HIDE DEF WordMask, MaskOf
    <3> QED  BY <3>2, <3>3, <3>4
  <2>9. B(Requests(l)) = 1  BY <1>6 DEF B
  <2> QED  BY <1>6, <2>1, <2>5, <2>6, <2>7, <2>8, <2>9 DEF v
<1>7. CASE ~Requests(l) /\ eu_start
  <2>1. n = 0 /\ ~Valid(l) /\ Asked(l) = FirstPair(l)  BY <1>1, <1>7 DEF Asking, Valid, Asked
  <2>2. B(Requests(l)) = 0  BY <1>7 DEF B
  <2>3. FirstPair(l) \in Nat /\ FirstPair(l) = f \div 2  BY VectorTypes DEF FirstPair
  <2>4. CASE regs[l[1]].en
    <3>1. w = regs[l[1]].vl  BY <2>4 DEF Words
    <3>2. n2 = w /\ v2 = f  BY <1>2, <1>7, <2>4, <3>1
    <3>3. Asking(l)'  BY <1>1, <1>5, <3>2
    <3>4. Asked(l)' = FirstPair(l)
      <4>1. CASE n2 > 0  BY <1>5, <2>3, <3>2, <4>1
      <4>2. CASE ~(n2 > 0)
        <5>1. w = 0  BY <1>1, <3>2, <4>2
        <5> QED  BY <1>5, <4>2, <5>1 DEF PastPair
      <4> QED  BY <4>1, <4>2
    <3> QED  BY <1>7, <2>1, <2>2, <2>3, <3>3, <3>4
  <2>5. CASE ~regs[l[1]].en
    <3>1. w = 0 /\ n2 = 0  BY <1>2, <1>7, <2>1, <2>5 DEF Words
    <3>2. Asking(l)' /\ Asked(l)' = FirstPair(l)  BY <1>5, <3>1 DEF PastPair
    <3> QED  BY <1>7, <2>1, <2>2, <2>3, <3>2
  <2> QED  BY <2>4, <2>5
<1>8. CASE ~Requests(l) /\ ~eu_start
  <2>1. n2 = n /\ v2 = v  BY <1>2, <1>8
  <2>2. B(Requests(l)) = 0  BY <1>8 DEF B
  <2>3. Asked(l) = IF n > 0 THEN v \div 2 ELSE PastPair(l)  BY <1>8 DEF Asked, Valid
  <2>4. Asked(l)' = Asked(l)  BY <1>5, <2>1, <2>3
  <2>5. Asking(l)'  BY <1>5, <2>1 DEF Asking, Valid
  <2>6. Valid(l)' => Valid(l)  BY <1>5, <2>1 DEF Valid
  <2> QED  BY <1>1, <1>8, <2>2, <2>4, <2>5, <2>6
<1> QED  BY <1>6, <1>7, <1>8

\* The values of the function f from s on.
Follows(q, f, s) == \A i \in 1 .. Len(q) : q[i] = f[s + i - 1]
MaskAt(l) == [p \in Int |-> MaskOf(l, p)]
PairAt(l) == [p \in Int |-> [pair |-> p, mask |-> MaskOf(l, p)]]

\* The pairs of a lane are one run: in its request FIFO, on the way to memory, in memory,
\* on the way back, and before the distributor.
Fetching(l) ==
    \E a, c \in Int :
        /\ Carries(Near, l, Matched(l), a)
        /\ Carries(Back, l, a, c - Len(mem[l])) /\ Run(mem[l], c - Len(mem[l]))
        /\ Carries(Up, l, c, Asked(l) - Len(rq_fifo[l]))
        /\ Run(rq_fifo[l], Asked(l) - Len(rq_fifo[l]))

\* The masks of a lane are those of the pairs that wait for one, in their order.
Matching(l) ==
    /\ Follows(MaskLine(l), MaskAt(l), Matched(l))
    /\ Follows(PairLine(l), PairAt(l), Parted(l))
    /\ FirstPair(l) <= Parted(l)

\* A queue that follows a function stays one when its next value enters.
LEMMA FollowsMoves ==
    ASSUME NEW S, NEW q \in Seq(S), NEW r, NEW b \in BOOLEAN, NEW p \in BOOLEAN, NEW d,
           p => d \in S, Moves(q, r, b, p, d), NEW f, NEW s \in Int, Follows(q, f, s),
           p => d = f[s + Len(q)]
    PROVE  Follows(r, f, s + B(b)) /\ (b => Head(q) = f[s])
<1>0. /\ r \in Seq(S) /\ Len(q) \in Nat /\ Len(r) = Len(q) - B(b) + B(p)
      /\ Len(q) >= B(b) /\ Len(r) \in Nat
      /\ \A i \in 1 .. Len(q) - B(b) : r[i] = q[i + B(b)]
      /\ p => r[Len(r)] = d
  BY MovesType, SMTT(30)
<1> DEFINE n == B(b)   k == B(p)
<1>1. /\ r \in Seq(S) /\ Len(q) \in Nat /\ Len(r) = Len(q) - n + k
      /\ Len(q) >= n /\ Len(r) \in Nat
      /\ \A i \in 1 .. Len(q) - n : r[i] = q[i + n]
      /\ p => r[Len(r)] = d
  BY <1>0
<1>2. n \in {0, 1} /\ k \in {0, 1} /\ (p <=> k = 1)  BY DEF B
<1>3. b => Head(q) = f[s]
  <2>1. b => Len(q) >= 1 /\ Head(q) = q[1]
    BY <1>1, HeadTailProperties, EmptySeq DEF Moves
  <2>2. b => 1 \in 1 .. Len(q) /\ s + 1 - 1 = s  BY <1>1, <2>1
  <2> QED  BY <2>1, <2>2 DEF Follows
<1> HIDE DEF n, k
<1>4. ASSUME NEW i \in 1 .. Len(r)  PROVE r[i] = f[(s + n) + i - 1]
  <2>1. CASE i <= Len(q) - n
    <3>1. i \in 1 .. Len(q) - n /\ i + n \in 1 .. Len(q)  BY <1>1, <1>2, <2>1
    <3>2. q[i + n] = f[s + (i + n) - 1]  BY <3>1 DEF Follows
    <3>3. s + (i + n) - 1 = (s + n) + i - 1  BY <1>2
    <3> QED  BY <1>1, <3>1, <3>2, <3>3
  <2>2. CASE i > Len(q) - n
    <3>1. k = 1 /\ i = Len(r) /\ i = Len(q) - n + 1  BY <1>1, <1>2, <2>2
    <3>2. r[i] = f[s + Len(q)]  BY <1>1, <1>2, <3>1
    <3>3. s + Len(q) = (s + n) + i - 1  BY <1>1, <1>2, <3>1
    <3> QED  BY <3>2, <3>3
  <2> QED  BY <1>1, <1>2, <2>1, <2>2
<1> QED  BY <1>3, <1>4 DEF Follows, n

\* A response is distributed to the lane that it names.
LEMMA DistributedIs ==
    ASSUME NEW l \in Lanes
    PROVE  Distributed(l) <=> SomeDistributed /\ Head(rs_fifo).lane = l
BY DEF Distributed, Distributes, SomeDistributed

\* Pairs of words have numbers.
LEMMA PairsInt ==
    (\A e \in Request : e.pair \in Int) /\ (\A e \in Response : e.pair \in Int)
BY DEF Request, Response

\* The requests of a lane on their way to memory and back.
LEMMA FetchingStep ==
    ASSUME Types, Rooms, NEW r \in RegisterFiles \cup {Idles}, NEW ans \in Answers \cup {Silent},
           NEW ready, ProductClock(r, ans, ready), Calm, ~Starts(r),
           chan # << >> => on_fly > 0, NEW l \in Lanes, Asking(l), Fetching(l)
    PROVE  /\ Matched(l)' = Matched(l) + B(Distributed(l)) => Fetching(l)'
           /\ Distributed(l) => Head(rs_fifo).pair = Matched(l)
<1> DEFINE A == Asked(l)   A2 == Asked(l)'   M == Matched(l)
           n == Len(mem[l])   n2 == Len(mem'[l])   k == Len(rq_fifo[l])   k2 == Len(rq_fifo'[l])
           req == Requests(l)   picked == Schedules(l)   dis == Distributed(l)
           answers == ans # Silent   answered == answers /\ ans.lane = l
           hands == Hands /\ Head(rss_fifo).lane = l
           sent == rqa_wr /\ ready /\ rqa.lane = l
           dUp == [lane |-> Scheduled, pair |-> Head(rq_fifo[Scheduled])]
           dBack == [lane |-> ans.lane, pair |-> Head(mem[ans.lane]), err |-> ans.err]
           dNear == [lane |-> Head(rss_fifo).lane, pair |-> Head(rss_fifo).pair]
<1>1. PICK a \in Int, c \in Int :
        /\ Carries(Near, l, M, a)
        /\ Carries(Back, l, a, c - n) /\ Run(mem[l], c - n)
        /\ Carries(Up, l, c, A - k)
        /\ Run(rq_fifo[l], A - k)
  BY DEF Fetching
<1>2. A \in Int /\ M \in Int  BY VectorTypes
<1>3. Undisturbed  BY DEF Calm
<1>4. A2 = A + B(req) /\ (req => vaddr[l] \div 2 = A)  BY <1>3, AskingStep
<1>5. /\ mem[l] \in Seq(Int) /\ rqa_wr \in BOOLEAN /\ (rqa_wr => rqa \in Request)
      /\ rss_fifo \in Seq(Response) /\ rs_fifo \in Seq(Request)
  BY DEF Types, CtlTypes, LsuTypes, RespTypes
<1>6. /\ req \in BOOLEAN /\ picked \in BOOLEAN /\ dis \in BOOLEAN /\ answered \in BOOLEAN
      /\ hands \in BOOLEAN /\ sent \in BOOLEAN /\ answers \in BOOLEAN
      /\ Hands \in BOOLEAN /\ SomeSchedules \in BOOLEAN /\ SomeDistributed \in BOOLEAN
  BY <1>5 DEF Requests, Valid, Schedules, Distributed, Distributes, Hands, SomeSchedules,
              SomeDistributed
<1>7. /\ Moves(rq_fifo[l], rq_fifo'[l], picked, req, vaddr[l] \div 2) /\ rq_fifo[l] \in Seq(Int)
      /\ vaddr[l] \div 2 \in Int
  BY RqMoves
<1>8. Moves(mem[l], mem'[l], answered, sent, rqa.pair)  BY MemMoves
<1>9. sent => rqa.pair \in Int  BY <1>5 DEF Request
<1>10. k \in Nat /\ k2 = k - B(picked) + B(req) /\ n \in Nat /\ n2 = n - B(answered) + B(sent)
  <2>1. k \in Nat /\ k2 = k - B(picked) + B(req)
    <3> DEFINE q == rq_fifo[l]   q2 == rq_fifo'[l]   w == vaddr[l] \div 2
    <3>1. /\ Moves(q, q2, picked, req, w) /\ q \in Seq(Int) /\ w \in Int
          /\ picked \in BOOLEAN /\ req \in BOOLEAN
      BY <1>6, <1>7
    <3> HIDE DEF picked, req, q, q2, w
    <3>2. Len(q) \in Nat /\ Len(q2) = Len(q) - B(picked) + B(req)  BY <3>1, MovesType
    <3> QED  BY <3>2 DEF q, q2
  <2>2. n \in Nat /\ n2 = n - B(answered) + B(sent)
    <3> DEFINE mm == mem[l]   mm2 == mem'[l]   pr == rqa.pair
    <3>1. /\ Moves(mm, mm2, answered, sent, pr) /\ mm \in Seq(Int) /\ (sent => pr \in Int)
          /\ answered \in BOOLEAN /\ sent \in BOOLEAN
      BY <1>5, <1>6, <1>8, <1>9
    <3> HIDE DEF answered, sent, mm, mm2, pr
    <3>2. Len(mm) \in Nat /\ Len(mm2) = Len(mm) - B(answered) + B(sent)  BY <3>1, MovesType
    <3> QED  BY <3>2 DEF mm, mm2
  <2> QED  BY <2>1, <2>2
<1>11. /\ Moves(Up, Up', rqa_wr /\ ready, SomeSchedules, dUp) /\ Up \in Seq(Request)
       /\ rqa_wr => Head(Up) = rqa
       /\ SomeSchedules => dUp \in Request /\ Schedules(Scheduled)
  BY UpMoves, ScheduledMoves
<1>12. /\ Moves(Back, Back', Hands, answers, dBack) /\ Back \in Seq(Response)
       /\ Hands => Head(Back) = Head(rss_fifo)
       /\ answers => dBack \in Response
  BY BackMoves
<1>13. /\ Moves(Near, Near', SomeDistributed, Hands, dNear) /\ Near \in Seq(Request)
       /\ rs_fifo # << >> => Head(Near) = Head(rs_fifo)
       /\ Hands => dNear \in Request
  BY NearMoves
<1>14. picked <=> SomeSchedules /\ dUp.lane = l
  <2>1. picked => SomeSchedules /\ Scheduled = l  BY ScheduledIs
  <2>2. SomeSchedules => Schedules(Scheduled)  BY <1>11
  <2>3. dUp.lane = Scheduled  OBVIOUS
  <2> HIDE DEF dUp
  <2> QED  BY <2>1, <2>2, <2>3
<1>15. answered <=> answers /\ dBack.lane = l  OBVIOUS
<1>16. hands <=> Hands /\ dNear.lane = l  OBVIOUS
<1>17. sent <=> rqa_wr /\ ready /\ Head(Up).lane = l  BY <1>11
<1>18. hands <=> Hands /\ Head(Back).lane = l  BY <1>12
<1>19. dis <=> SomeDistributed /\ Head(Near).lane = l
  <2>1. SomeDistributed => rs_fifo # << >>  BY DEF SomeDistributed, Distributed, Distributes
  <2> QED  BY <1>13, <2>1, DistributedIs
<1>20. /\ dUp.pair = Head(rq_fifo[Scheduled]) /\ (picked => Scheduled = l)
       /\ answered => dBack.pair = Head(mem[l])
       /\ hands => dNear.pair = Head(Back).pair
  <2>1. picked => Scheduled = l  BY ScheduledIs
  <2> QED  BY <1>12, <2>1
<1> DEFINE mm == mem[l]   mm2 == mem'[l]   rr == rq_fifo[l]   rr2 == rq_fifo'[l]
           ask == vaddr[l] \div 2   u == Up   u2 == Up'   bk == Back   bk2 == Back'
           nr == Near   nr2 == Near'   pr == rqa.pair   wr == rqa_wr /\ ready
           ss == SomeSchedules   sd == SomeDistributed   hh == Hands   hp == Head(mem[l])
           rp == Head(rq_fifo[l])
<1>21. /\ Run(rr, A - k) /\ Moves(rr, rr2, picked, req, ask) /\ rr \in Seq(Int) /\ ask \in Int
       /\ k = Len(rr) /\ (req => ask = A)
  BY <1>1, <1>4, <1>7
<1>22. Run(rr2, A2 - k2) /\ (picked => rp = A - k)
  <2>1. A - k \in Int /\ (req => ask = (A - k) + Len(rr))  BY <1>2, <1>10, <1>21
  <2>2. Run(rr2, (A - k) + B(picked)) /\ (picked => Head(rr) = A - k)
    <3> DEFINE x == A - k
    <3>1. /\ Run(rr, x) /\ Moves(rr, rr2, picked, req, ask) /\ rr \in Seq(Int) /\ ask \in Int
          /\ picked \in BOOLEAN /\ req \in BOOLEAN /\ x \in Int /\ (req => ask = x + Len(rr))
      BY <1>6, <1>21, <2>1
    <3> HIDE DEF rr, rr2, picked, req, ask, x
    <3>2. Run(rr2, x + B(picked)) /\ (picked => Head(rr) = x)  BY <3>1, RunMoves
    <3> QED  BY <3>2 DEF x
  <2>3. (A - k) + B(picked) = A2 - k2
    <3>1. B(picked) \in Int /\ B(req) \in Int  BY DEF B
    <3> HIDE DEF A, A2, k, k2, picked, req
    <3> QED  BY <1>2, <1>4, <1>10, <3>1
  <2> QED  BY <2>2, <2>3
<1>23. Carries(u2, l, c + B(sent), (A - k) + B(picked)) /\ (sent => pr = c)
  <2>1. A - k \in Int /\ (picked => dUp.pair = A - k)
    <3>1. picked => dUp.pair = rp  BY <1>20
    <3> QED  BY <1>2, <1>10, <1>22, <3>1
  <2>2. sent => pr = Head(u).pair  BY <1>11
  <2>3. /\ u \in Seq(Request) /\ Moves(u, u2, wr, ss, dUp) /\ Carries(u, l, c, A - k)
        /\ (sent <=> wr /\ Head(u).lane = l) /\ wr \in BOOLEAN /\ ss \in BOOLEAN
        /\ (ss => dUp \in Request) /\ (picked <=> ss /\ dUp.lane = l)
    BY <1>1, <1>5, <1>6, <1>11, <1>14, <1>17
  <2> DEFINE y == A - k
  <2>5. y \in Int /\ (picked => dUp.pair = y) /\ Carries(u, l, c, y)  BY <2>1, <2>3
  <2> HIDE DEF u, u2, wr, ss, dUp, sent, picked, pr, y
  <2>6. \A e \in Request : e.pair \in Int  BY PairsInt
  <2>4. /\ Carries(u2, l, c + B(sent), y + B(picked))
        /\ sent => Head(u).pair = c
    <3>1. c \in Int  OBVIOUS
    <3>2. /\ u \in Seq(Request) /\ Moves(u, u2, wr, ss, dUp) /\ wr \in BOOLEAN /\ ss \in BOOLEAN
          /\ ss => dUp \in Request
      BY <2>3
    <3>3. (sent <=> wr /\ Head(u).lane = l) /\ (picked <=> ss /\ dUp.lane = l)  BY <2>3
    <3>4. y \in Int /\ Carries(u, l, c, y) /\ (picked => dUp.pair = y)  BY <2>5
    <3> QED  BY <2>6, <3>1, <3>2, <3>3, <3>4, CarriesMoves
  <2> QED  BY <2>2, <2>4 DEF y
<1>24. Run(mm2, (c - n) + B(answered)) /\ (answered => hp = c - n)
  <2>1. c - n \in Int /\ (sent => pr = (c - n) + Len(mm))  BY <1>10, <1>23
  <2>2. /\ mm \in Seq(Int) /\ Moves(mm, mm2, answered, sent, pr) /\ Run(mm, c - n)
        /\ (sent => pr \in Int) /\ answered \in BOOLEAN /\ sent \in BOOLEAN /\ hp = Head(mm)
    BY <1>1, <1>5, <1>6, <1>8, <1>9
  <2> HIDE DEF mm, mm2, answered, sent, pr, n, hp
  <2> QED  BY <2>1, <2>2, RunMoves
<1>25. Carries(bk2, l, a + B(hands), (c - n) + B(answered)) /\ (hands => dNear.pair = a)
  <2>1. c - n \in Int /\ (answered => dBack.pair = c - n)  BY <1>10, <1>20, <1>24
  <2>2. /\ bk \in Seq(Response) /\ Moves(bk, bk2, hh, answers, dBack) /\ Carries(bk, l, a, c - n)
        /\ (hands <=> hh /\ Head(bk).lane = l) /\ hh \in BOOLEAN /\ answers \in BOOLEAN
        /\ (answers => dBack \in Response) /\ (answered <=> answers /\ dBack.lane = l)
        /\ (hands => dNear.pair = Head(bk).pair)
    BY <1>1, <1>6, <1>12, <1>15, <1>18, <1>20
  <2> HIDE DEF bk, bk2, hh, answers, dBack, hands, answered, n, dNear
  <2>3. /\ Carries(bk2, l, a + B(hands), (c - n) + B(answered))
        /\ hands => Head(bk).pair = a
    BY <2>1, <2>2, PairsInt, CarriesMoves, SMTT(30)
  <2> QED  BY <2>2, <2>3
<1>26. Carries(nr2, l, M + B(dis), a + B(hands)) /\ (dis => Head(nr).pair = M)
  <2>1. /\ nr \in Seq(Request) /\ Moves(nr, nr2, sd, hh, dNear) /\ Carries(nr, l, M, a)
        /\ (dis <=> sd /\ Head(nr).lane = l) /\ sd \in BOOLEAN /\ hh \in BOOLEAN
        /\ (hh => dNear \in Request) /\ (hands <=> hh /\ dNear.lane = l)
        /\ (hands => dNear.pair = a)
    BY <1>1, <1>6, <1>13, <1>16, <1>19, <1>25
  <2> HIDE DEF nr, nr2, sd, hh, dNear, dis, hands, M
  <2> QED  BY <1>2, <2>1, PairsInt, CarriesMoves, SMTT(30)
<1>27. dis => Head(rs_fifo).pair = M
  <2>1. dis => rs_fifo # << >>  BY DEF Distributed, Distributes
  <2> QED  BY <1>13, <1>26, <2>1
<1>28. ASSUME Matched(l)' = M + B(dis)  PROVE Fetching(l)'
  <2> DEFINE a2 == a + B(hands)   c2 == c + B(sent)
  <2>0. B(hands) \in Int /\ B(sent) \in Int /\ B(answered) \in Int /\ B(picked) \in Int /\ B(req) \in Int
    BY DEF B
  <2>1. a2 \in Int /\ c2 \in Int  BY <2>0
  <2>2. c2 - n2 = (c - n) + B(answered)
    <3> HIDE DEF n, n2, sent, answered
    <3> QED  BY <1>10, <2>0
  <2>3. A2 - k2 = (A - k) + B(picked)
    <3> HIDE DEF A, A2, k, k2, picked, req
    <3> QED  BY <1>2, <1>4, <1>10, <2>0
  <2>4. /\ Carries(nr2, l, Matched(l)', a2)
        /\ Carries(bk2, l, a2, c2 - n2) /\ Run(mm2, c2 - n2)
        /\ Carries(u2, l, c2, A2 - k2)
        /\ Run(rr2, A2 - k2)
    BY <1>22, <1>23, <1>24, <1>25, <1>26, <1>28, <2>2, <2>3
  <2> HIDE DEF a2, c2
  <2> QED  BY <2>1, <2>4 DEF Fetching
<1> QED  BY <1>27, <1>28

\* The masks and the parts of a vector depend on the registers only.
LEMMA AtSame ==
    ASSUME regs' = regs, NEW l
    PROVE  MaskAt(l)' = MaskAt(l) /\ PairAt(l)' = PairAt(l)
BY DEF MaskAt, PairAt, MaskOf, FirstWord, PastWord, Words

\* Masks meet their responses, and pairs are taken apart, in the order of the pairs.
LEMMA MatchingStep ==
    ASSUME Types, NEW r \in RegisterFiles \cup {Idles}, NEW ans, NEW ready,
           ProductClock(r, ans, ready), Calm,
           ~Starts(r), NEW l \in Lanes, Asking(l), Matching(l),
           Distributed(l) => Head(rs_fifo).pair = Matched(l)
    PROVE  /\ Matching(l)'
           /\ Matched(l)' = Matched(l) + B(Distributed(l))
           /\ Parted(l)' = Parted(l) + B(PairTaken(l))
           /\ PairTaken(l) => /\ opd[l] = [pair |-> Parted(l), mask |-> MaskOf(l, Parted(l))]
                              /\ Parted(l) < Asked(l)
<1> DEFINE A == Asked(l)   A2 == Asked(l)'   M == Matched(l)   M2 == Matched(l)'
           P == Parted(l)   P2 == Parted(l)'
           mq == MaskLine(l)   mq2 == MaskLine(l)'   pq == PairLine(l)   pq2 == PairLine(l)'
           req == Requests(l)   dis == Distributed(l)   part == PairTaken(l)
           d == [pair |-> Head(rs_fifo).pair, mask |-> Head(rswe_fifo[l])]
           wm == WordMask(l)   mf == MaskAt(l)   pf == PairAt(l)
<1>1. /\ A \in Int /\ M \in Int /\ P \in Int /\ Len(mq) \in Nat /\ Len(pq) \in Nat
      /\ FirstPair(l) \in Nat
  BY VectorTypes
<1>2. regs' = regs  BY DEF ProductClock, EcuClock
<1>3. A2 = A + B(req) /\ (req => wm = MaskOf(l, A))
  <2>1. Undisturbed  BY DEF Calm
  <2> QED  BY <2>1, AskingStep
<1>4. M = A - Len(mq) /\ M2 = A2 - Len(mq2) /\ P = M - Len(pq) /\ P2 = M2 - Len(pq2)
  BY DEF Matched, Parted
<1>5. /\ Follows(mq, mf, M) /\ Follows(pq, pf, P) /\ FirstPair(l) <= P
  BY DEF Matching
<1>6. /\ Moves(mq, mq2, dis, req, wm) /\ mq \in Seq(Masks) /\ wm \in Masks
      /\ dis => Head(mq) = Head(rswe_fifo[l])
  BY MaskLineMoves
<1>7. /\ Moves(pq, pq2, part, dis, d) /\ pq \in Seq(Pair) /\ (dis => d \in Pair)
      /\ part => Head(pq) = opd[l]
  BY PairLineMoves
<1>8. req \in BOOLEAN /\ dis \in BOOLEAN /\ part \in BOOLEAN
  BY DEF Requests, Valid, Distributed, Distributes, PairTaken, F21Rdy, Types, RespTypes
<1>9. mf[A] = MaskOf(l, A) /\ mf[M] = MaskOf(l, M)
      /\ pf[M] = [pair |-> M, mask |-> MaskOf(l, M)]
      /\ pf[P] = [pair |-> P, mask |-> MaskOf(l, P)]
  BY <1>1 DEF MaskAt, PairAt
<1>a. B(req) \in {0, 1} /\ B(dis) \in {0, 1} /\ B(part) \in {0, 1}  BY DEF B
<1>10. /\ Len(mq2) = Len(mq) - B(dis) + B(req)
       /\ Len(pq2) = Len(pq) - B(part) + B(dis) /\ Len(pq) >= B(part)
  <2>1. Len(mq2) = Len(mq) - B(dis) + B(req)
    <3> HIDE DEF mq, mq2, dis, req, wm
    <3> QED  BY <1>6, <1>8, MovesType
  <2>2. Len(pq2) = Len(pq) - B(part) + B(dis) /\ Len(pq) >= B(part)
    <3> HIDE DEF pq, pq2, dis, part, d
    <3> QED  BY <1>7, <1>8, MovesType
  <2> QED  BY <2>1, <2>2
<1>11. M2 = M + B(dis) /\ P2 = P + B(part) /\ A = M + Len(mq) /\ M = P + Len(pq)
  <2> DEFINE i == B(req)   j == B(dis)   k == B(part)
             n == Len(mq)   n2 == Len(mq2)   m == Len(pq)   m2 == Len(pq2)
  <2>1. /\ i \in Int /\ j \in Int /\ k \in Int /\ n \in Int /\ m \in Int
        /\ A \in Int /\ M \in Int /\ P \in Int
    BY <1>1, <1>a
  <2>2. /\ A2 = A + i /\ n2 = n - j + i /\ m2 = m - k + j
        /\ M = A - n /\ M2 = A2 - n2 /\ P = M - m /\ P2 = M2 - m2
    BY <1>3, <1>4, <1>10
  <2> HIDE DEF A, A2, M, M2, P, P2, i, j, k, n, n2, m, m2
  <2>3. M2 = M + j /\ P2 = P + k /\ A = M + n /\ M = P + m  BY <2>1, <2>2
  <2> QED  BY <2>3 DEF j, k, n, m
<1>12. Follows(mq2, mf, M2) /\ (dis => Head(mq) = mf[M])
  <2>1. /\ mq \in Seq(Masks) /\ Moves(mq, mq2, dis, req, wm) /\ dis \in BOOLEAN /\ req \in BOOLEAN
        /\ wm \in Masks /\ Follows(mq, mf, M) /\ M \in Int /\ M2 = M + B(dis)
        /\ (req => wm = mf[M + Len(mq)])
    BY <1>1, <1>3, <1>5, <1>6, <1>8, <1>9, <1>11
  <2> HIDE DEF mq, mq2, dis, req, wm, mf, M, M2
  <2>2. Follows(mq2, mf, M + B(dis)) /\ (dis => Head(mq) = mf[M])
    BY <2>1, FollowsMoves, SMTT(30)
  <2> QED  BY <2>1, <2>2
<1>13. dis => d = pf[M]
  BY <1>6, <1>9, <1>12
<1>14. Follows(pq2, pf, P2) /\ (part => Head(pq) = pf[P])
  <2>1. /\ pq \in Seq(Pair) /\ Moves(pq, pq2, part, dis, d) /\ dis \in BOOLEAN /\ part \in BOOLEAN
        /\ (dis => d \in Pair) /\ Follows(pq, pf, P) /\ P \in Int /\ P2 = P + B(part)
        /\ (dis => d = pf[P + Len(pq)])
    BY <1>1, <1>5, <1>7, <1>8, <1>11, <1>13
  <2> HIDE DEF pq, pq2, dis, part, d, pf, P, P2
  <2>2. Follows(pq2, pf, P + B(part)) /\ (part => Head(pq) = pf[P])
    BY <2>1, FollowsMoves, SMTT(30)
  <2> QED  BY <2>1, <2>2
<1>15. Matching(l)'
  <2>1. MaskAt(l)' = mf /\ PairAt(l)' = pf /\ FirstPair(l)' = FirstPair(l)
    BY <1>2, AtSame, RegsSame
  <2>2. FirstPair(l) <= P2
    <3> HIDE DEF P, P2, part
    <3> QED  BY <1>1, <1>5, <1>a, <1>11
  <2>3. Follows(MaskLine(l)', MaskAt(l)', Matched(l)') /\ Follows(PairLine(l)', PairAt(l)', Parted(l)')
    BY <1>12, <1>14, <2>1
  <2>4. FirstPair(l)' <= Parted(l)'  BY <2>1, <2>2
  <2> QED  BY <2>3, <2>4 DEF Matching
<1>16. part => opd[l] = [pair |-> P, mask |-> MaskOf(l, P)] /\ P < A
  <2>1. part => opd[l] = pf[P]  BY <1>7, <1>14
  <2>2. part => P < A
    <3>1. SUFFICES ASSUME part  PROVE P < A
      OBVIOUS
    <3>2. B(part) = 1  BY <3>1 DEF B
    <3>3. Len(pq) >= 1  BY <1>10, <3>2
    <3>4. A = P + Len(pq) + Len(mq)
      <4> HIDE DEF P, A, M, mq, pq, part
      <4> QED  BY <1>1, <1>11
    <3> HIDE DEF P, A, mq, pq, part
    <3> QED  BY <1>1, <3>3, <3>4
  <2> QED  BY <1>9, <2>1, <2>2
<1> QED  BY <1>11, <1>15, <1>16

-----------------------------------------------------------------------------
(* The words of a pair.                                                    *)

WordBefore(f, e, x, y, p) == IF p <= x THEN f ELSE IF p >= y THEN e ELSE 2 * p

\* The words of the pair that the operand FIFO takes: those of its mask are the next ones.
LEMMA PartedWords ==
    ASSUME Types, NEW l \in Lanes, FirstPair(l) <= Parted(l), Parted(l) < PastPair(l),
           NEW z, z = WordBefore(FirstWord(l), PastWord(l), FirstPair(l), PastPair(l), Parted(l) + 1)
    PROVE  LET p == Parted(l)   s == PartedWord(l)   m == MaskOf(l, p)
           IN  /\ s \in Int /\ z \in Int /\ s < z /\ p \in Int
               /\ \A h \in {0, 1} : h \in m <=> s <= 2 * p + h /\ 2 * p + h < z
               /\ m \subseteq {0, 1}
               /\ \A a \in s .. z - 1, h \in {0, 1} : a % 2 = h => h \in m /\ a = 2 * p + h
               /\ m # {}
               /\ 0 \in m => s % 2 = 0
               /\ 0 \notin m => s % 2 = 1
<1> DEFINE f == FirstWord(l)   w == Words(l)   p == Parted(l)   x == FirstPair(l)   y == PastPair(l)
           e == f + w   s == PartedWord(l)   m == MaskOf(l, p)
<1>1. f \in Nat /\ w \in Nat /\ p \in Int /\ PastWord(l) = e  BY VectorTypes DEF PastWord
<1>2. x = f \div 2 /\ y = IF w = 0 THEN x ELSE (f + w - 1) \div 2 + 1
  BY <1>1 DEF FirstPair, PastPair
<1>3. s = WordBefore(f, e, x, y, p) /\ z = WordBefore(f, e, x, y, p + 1)
  BY <1>1 DEF PartedWord, WordBefore
<1>4. m = {h \in {0, 1} : f <= 2 * p + h /\ 2 * p + h < e}  BY <1>1 DEF MaskOf
<1>5. x <= p /\ p < y  OBVIOUS
<1>e. e = f + w  OBVIOUS
<1> HIDE DEF f, w, p, x, y, s, m, e
<1>6. /\ s \in Int /\ z \in Int /\ s < z
      /\ \A h \in {0, 1} : f <= 2 * p + h /\ 2 * p + h < e <=> s <= 2 * p + h /\ 2 * p + h < z
      /\ 2 * p <= s /\ z <= 2 * p + 2
      /\ s % 2 = IF f <= 2 * p THEN 0 ELSE 1
  <2>0. /\ f \in Nat /\ w \in Nat /\ p \in Int /\ x = f \div 2
        /\ y = IF w = 0 THEN x ELSE (f + w - 1) \div 2 + 1
        /\ x <= p /\ p < y /\ e = f + w
        /\ s = WordBefore(f, e, x, y, p) /\ z = WordBefore(f, e, x, y, p + 1)
    BY <1>1, <1>2, <1>3, <1>5, <1>e
  <2> USE <2>0
  <2>1. f % 2 \in {0, 1} /\ f = 2 * (f \div 2) + (f % 2) /\ f \div 2 \in Nat  OBVIOUS
  <2>2. w # 0  OBVIOUS
  <2>3. y = (f + w - 1) \div 2 + 1  BY <2>2
  <2> DEFINE g == f + w - 1
  <2>4. g \in Nat /\ g % 2 \in {0, 1} /\ g = 2 * (g \div 2) + (g % 2) /\ g \div 2 \in Nat  BY <2>2
  <2>5. y = g \div 2 + 1 /\ f + w = g + 1  BY <2>3
  <2>6. x \in Nat /\ y \in Nat /\ p \in Nat /\ x <= p /\ p + 1 <= y  BY <2>1, <2>4, <2>5
  <2> HIDE DEF g
  <2>7. s = IF p = x THEN f ELSE 2 * p  BY <2>6 DEF WordBefore
  <2>8. z = IF p + 1 = y THEN f + w ELSE 2 * p + 2  BY <2>6 DEF WordBefore
  <2>9. s \in Int /\ z \in Int  BY <2>6, <2>7, <2>8
  <2>10. p = x => 2 * p <= f /\ f <= 2 * p + 1 /\ (f % 2 = 0 <=> f = 2 * p)  BY <2>1, <2>6
  <2>11. p # x => f < 2 * p  BY <2>1, <2>6
  <2>12. p + 1 = y => 2 * p < f + w /\ f + w <= 2 * p + 2  BY <2>4, <2>5, <2>6
  <2>13. p + 1 # y => 2 * p + 2 < f + w  BY <2>4, <2>5, <2>6
  <2>14. 2 * p <= s /\ z <= 2 * p + 2 /\ s <= 2 * p + 1 /\ 2 * p < z
    BY <2>6, <2>7, <2>8, <2>10, <2>12
  <2>15. s < z
    <3>1. CASE p = x  BY <2>2, <2>6, <2>7, <2>8, <2>10, <3>1
    <3>2. CASE p # x  BY <2>6, <2>7, <2>14, <3>2
    <3> QED  BY <3>1, <3>2
  <2>16. \A h \in {0, 1} : f <= 2 * p + h <=> s <= 2 * p + h
    BY <2>6, <2>7, <2>11
  <2>17. \A h \in {0, 1} : 2 * p + h < f + w <=> 2 * p + h < z
    BY <2>6, <2>8, <2>13
  <2>18. s % 2 = IF f <= 2 * p THEN 0 ELSE 1
    <3>1. CASE p = x
      <4>1. s = f  BY <2>7, <3>1
      <4>2. f <= 2 * p <=> f = 2 * p  BY <2>6, <2>10, <3>1
      <4> QED  BY <2>1, <2>10, <3>1, <4>1, <4>2
    <3>2. CASE p # x  BY <2>6, <2>7, <2>11, <3>2
    <3> QED  BY <3>1, <3>2
  <2> QED  BY <2>9, <2>14, <2>15, <2>16, <2>17, <2>18
<1>7. \A h \in {0, 1} : h \in m <=> s <= 2 * p + h /\ 2 * p + h < z
  BY <1>4, <1>6
<1>8. m \subseteq {0, 1}  BY <1>4
<1>9. ASSUME NEW a \in s .. z - 1, NEW h \in {0, 1}, a % 2 = h  PROVE h \in m /\ a = 2 * p + h
  <2>1. 2 * p <= a /\ a <= 2 * p + 1 /\ a \in Int  BY <1>1, <1>6
  <2>2. a = 2 * p + h  BY <1>1, <1>9, <2>1
  <2>3. s <= 2 * p + h /\ 2 * p + h < z  BY <1>1, <1>6, <2>2
  <2> QED  BY <1>7, <2>2, <2>3
<1>10. s % 2 \in {0, 1} /\ s \in s .. z - 1  BY <1>6
<1>11. s % 2 \in m /\ s = 2 * p + (s % 2)  BY <1>9, <1>10
<1>12. m # {}  BY <1>11
<1>13. 0 \in m => s % 2 = 0
  <2>1. SUFFICES ASSUME 0 \in m  PROVE s % 2 = 0
    OBVIOUS
  <2>2. s <= 2 * p + 0  BY <1>7, <2>1
  <2>3. s = 2 * p  BY <1>1, <1>6, <2>2
  <2> QED  BY <1>1, <2>3
<1>14. 0 \notin m => s % 2 = 1  BY <1>10, <1>11
<1> QED  BY <1>1, <1>6, <1>7, <1>8, <1>9, <1>12, <1>13, <1>14 DEF p, s, m

-----------------------------------------------------------------------------
(* The multiplier.                                                         *)

PairsTo(t, n) == [k \in 1 .. n |-> <<regs[t].rs + k - 1, regs[t].rt + k - 1>>]

\* An operation in the pipe comes out before its thread has its turn again.
Turn(t) == IF fmacd = "DISP" THEN (t - slot) % 8 ELSE 1 + t
OpOf(i, t) == pipe[i] # NoOp /\ pipe[i][1] = t
InPipe(t) == \E i \in 1 .. PipeLength : OpOf(i, t)
Multiplied(t) == Len(acc[t]) + B(InPipe(t))

PipeRight ==
    \A i \in 1 .. PipeLength, t \in Threads : OpOf(i, t) =>
        /\ Turn(t) + i >= 8
        /\ pipe[i][2] = PairsTo(t, Len(acc[t]) + 1)
        /\ \A j \in 1 .. PipeLength : OpOf(j, t) => j = i

\* An accumulator holds the first pairs, and each operation in the pipe is its next one.
Piped ==
    /\ fmacd = "IDLE" => slot = 0
    /\ pipe[1] # NoOp => fmacd = "DISP"
    /\ PipeRight
    /\ \A t \in Threads : acc[t] = PairsTo(t, Len(acc[t]))

\* The pairs multiplied so far, and one more.
LEMMA PairsType ==
    ASSUME Types, NEW t \in Threads, NEW n \in Nat
    PROVE  /\ PairsTo(t, n) \in Operands /\ Len(PairsTo(t, n)) = n
           /\ Append(PairsTo(t, n), <<regs[t].rs + n, regs[t].rt + n>>) = PairsTo(t, n + 1)
<1> DEFINE f == [k \in 1 .. n |-> <<regs[t].rs + k - 1, regs[t].rt + k - 1>>]
           g == [k \in 1 .. n + 1 |-> <<regs[t].rs + k - 1, regs[t].rt + k - 1>>]
           e == <<regs[t].rs + n, regs[t].rt + n>>
<1>1. regs[t].rs \in Nat /\ regs[t].rt \in Nat
  BY DEF Types, CtlTypes, RegisterFiles
<1>2. \A k \in 1 .. n + 1 : <<regs[t].rs + k - 1, regs[t].rt + k - 1>> \in Int \X Int
  BY <1>1
<1>3. f \in Operands /\ Len(f) = n
  <2>1. f \in [1 .. n -> Int \X Int]  BY <1>2
  <2> HIDE DEF f
  <2> QED  BY <2>1 DEF Operands
<1>4. g \in Operands /\ Len(g) = n + 1
  <2>1. g \in [1 .. n + 1 -> Int \X Int]  BY <1>2
  <2> HIDE DEF g
  <2> QED  BY <2>1 DEF Operands
<1>5. e = g[n + 1] /\ \A k \in 1 .. n : f[k] = g[k]
  <2>1. \A k \in 1 .. n : k \in 1 .. n + 1  OBVIOUS
  <2>2. \A k \in 1 .. n : f[k] = g[k]  BY <2>1
  <2> DEFINE a == regs[t].rs   b == regs[t].rt
  <2>3. n + 1 \in 1 .. n + 1  OBVIOUS
  <2>4. g[n + 1] = <<a + (n + 1) - 1, b + (n + 1) - 1>>  BY <2>3, Zenon
  <2>5. e = <<a + n, b + n>> /\ a \in Nat /\ b \in Nat  BY <1>1
  <2> HIDE DEF a, b, e, g, f
  <2>6. a + (n + 1) - 1 = a + n /\ b + (n + 1) - 1 = b + n  BY <2>5
  <2> QED  BY <2>2, <2>4, <2>5, <2>6
<1> HIDE DEF f, g, e
<1>6. e \in Int \X Int  BY <1>4, <1>5 DEF Operands
<1>7. Append(f, e) \in Operands /\ Len(Append(f, e)) = n + 1
  BY <1>3, <1>6 DEF Operands
<1>8. \A k \in 1 .. n + 1 : Append(f, e)[k] = g[k]
  BY <1>3, <1>5, <1>6 DEF Operands
<1>9. Append(f, e) = g
  BY <1>4, <1>7, <1>8, SeqEqual DEF Operands
<1> QED  BY <1>3, <1>9 DEF f, g, e, PairsTo

\* How the turns pass.
LEMMA TurnStep ==
    ASSUME Types, NEW r \in RegisterFiles \cup {Idles}, NEW ans, NEW ready,
           ProductClock(r, ans, ready), Calm,
           fmacd = "IDLE" => slot = 0
    PROVE  /\ fmacd' = "IDLE" => slot' = 0
           /\ pipe'[1] # NoOp => fmacd' = "DISP"
           /\ \A t \in Threads : /\ Turn(t) \in 0 .. 8 /\ Turn(t)' \in 0 .. 8
                                 /\ Turn(t) >= 1 => Turn(t)' >= Turn(t) - 1
                                 /\ Turn(t) = 0 => Turn(t)' >= 7
                                 /\ Dispatched(t) => Turn(t) = 0
<1>1. fmacd \in {"IDLE", "DISP"} /\ slot \in 0 .. 7
  BY DEF Types, FmacTypes, Calm, Undisturbed
<1>2. ~LsuErr  BY DEF Calm
<1>3. /\ fmacd' = DispatchFSM(LsuErr)
      /\ slot' = IF fmacd = "DISP" /\ ~LsuErr THEN (slot + 1) % 8 ELSE 0
  BY DEF ProductClock, FmacClock
<1>4. /\ fmacd = "IDLE" => fmacd' = IF WorkRdy THEN "DISP" ELSE "IDLE"
      /\ fmacd = "DISP" => fmacd' = IF slot < 7 \/ WorkRdy THEN "DISP" ELSE "IDLE"
      /\ slot' = IF fmacd = "DISP" THEN (slot + 1) % 8 ELSE 0
  BY <1>1, <1>2, <1>3 DEF DispatchFSM
<1>5. fmacd' = "IDLE" => slot' = 0
  <2>1. CASE fmacd = "DISP"
    <3>1. fmacd' = "IDLE" => slot = 7  BY <1>1, <1>4, <2>1
    <3> QED  BY <1>4, <2>1, <3>1
  <2> QED  BY <1>1, <1>4, <2>1
<1>6. pipe'[1] # NoOp => fmacd' = "DISP"
  <2>1. pipe'[1] = Operation  BY FmacTypesStep
  <2>2. SUFFICES ASSUME SomeDispatched  PROVE fmacd' = "DISP"
    BY <2>1 DEF Operation
  <2>3. WorkRdy /\ fmacd = "DISP"  BY <2>2 DEF SomeDispatched, Dispatched, WorkRdy
  <2> QED  BY <1>4, <2>3
<1>7. ASSUME NEW t \in Threads
      PROVE  /\ Turn(t) \in 0 .. 8 /\ Turn(t)' \in 0 .. 8
             /\ Turn(t) >= 1 => Turn(t)' >= Turn(t) - 1
             /\ Turn(t) = 0 => Turn(t)' >= 7
             /\ Dispatched(t) => Turn(t) = 0
  <2>1. t \in 0 .. 7  BY LaneParts
  <2>2. slot' \in 0 .. 7 /\ fmacd' \in {"IDLE", "DISP"}  BY <1>1, <1>4
  <2>3. /\ Turn(t) = IF fmacd = "DISP" THEN (t - slot) % 8 ELSE 1 + t
        /\ Turn(t)' = IF fmacd' = "DISP" THEN (t - slot') % 8 ELSE 1 + t
    BY DEF Turn
  <2>4. (t - slot) % 8 = IF t >= slot THEN t - slot ELSE t - slot + 8  BY <1>1, <2>1
  <2>5. (t - slot') % 8 = IF t >= slot' THEN t - slot' ELSE t - slot' + 8  BY <2>1, <2>2
  <2>6. Turn(t) \in 0 .. 8 /\ Turn(t)' \in 0 .. 8
    <3> DEFINE x == Turn(t)   x2 == Turn(t)'   d == (t - slot) % 8   d2 == (t - slot') % 8
    <3>1. d \in 0 .. 7  BY <1>1, <2>1, <2>4
    <3>2. d2 \in 0 .. 7
      <4> DEFINE s2 == slot'
      <4>1. s2 \in 0 .. 7 /\ d2 = IF t >= s2 THEN t - s2 ELSE t - s2 + 8  BY <2>2, <2>5
      <4> HIDE DEF s2, d2
      <4> QED  BY <2>1, <4>1
    <3>3. x = d \/ x = 1 + t  BY <2>3
    <3>4. x2 = d2 \/ x2 = 1 + t  BY <2>3
    <3> HIDE DEF x, x2, d, d2
    <3>5. x \in 0 .. 8  BY <2>1, <3>1, <3>3
    <3>6. x2 \in 0 .. 8  BY <2>1, <3>2, <3>4
    <3> QED  BY <3>5, <3>6 DEF x, x2
  <2>7. fmacd = "DISP" => slot' = IF slot = 7 THEN 0 ELSE slot + 1  BY <1>1, <1>4
  <2>8. Turn(t) >= 1 => Turn(t)' >= Turn(t) - 1
    <3>1. CASE fmacd = "IDLE"
      <4>1. Turn(t) = 1 + t /\ slot' = 0  BY <1>4, <2>3, <3>1
      <4>2. Turn(t)' >= t  BY <2>1, <2>3, <2>5, <4>1
      <4> QED  BY <2>1, <4>1, <4>2
    <3>2. CASE fmacd = "DISP"
      <4>1. Turn(t) = IF t >= slot THEN t - slot ELSE t - slot + 8  BY <2>3, <2>4, <3>2
      <4>2. CASE fmacd' = "DISP"
        <5>1. Turn(t)' = IF t >= slot' THEN t - slot' ELSE t - slot' + 8  BY <2>3, <2>5, <4>2
        <5> QED  BY <1>1, <2>1, <2>7, <3>2, <4>1, <5>1
      <4>3. CASE fmacd' = "IDLE"
        <5>1. slot = 7 /\ Turn(t)' = 1 + t  BY <1>1, <1>4, <2>3, <3>2, <4>3
        <5> QED  BY <2>1, <4>1, <5>1
      <4> QED  BY <2>2, <4>2, <4>3
    <3> QED  BY <1>1, <3>1, <3>2
  <2>9. Turn(t) = 0 => Turn(t)' >= 7
    <3>1. SUFFICES ASSUME Turn(t) = 0  PROVE Turn(t)' >= 7
      OBVIOUS
    <3>2. fmacd = "DISP" /\ slot = t  BY <1>1, <2>1, <2>3, <2>4, <3>1
    <3>3. CASE fmacd' = "DISP"
      <4>1. Turn(t)' = IF t >= slot' THEN t - slot' ELSE t - slot' + 8  BY <2>3, <2>5, <3>3
      <4> QED  BY <1>1, <2>1, <2>7, <3>2, <4>1
    <3>4. CASE fmacd' = "IDLE"
      <4>1. slot = 7 /\ Turn(t)' = 1 + t  BY <1>1, <1>4, <2>3, <3>2, <3>4
      <4> QED  BY <3>2, <4>1
    <3> QED  BY <2>2, <3>3, <3>4
  <2>10. Dispatched(t) => Turn(t) = 0
    BY <1>1, <2>1, <2>3, <2>4 DEF Dispatched
  <2> QED  BY <2>6, <2>8, <2>9, <2>10
<1> QED  BY <1>5, <1>6, <1>7

\* A sum comes out of the pipe before its accumulator is read again.
LEMMA PipedStep ==
    ASSUME Types, NEW r \in RegisterFiles \cup {Idles}, NEW ans, NEW ready,
           ProductClock(r, ans, ready), Calm,
           ~Starts(r), Piped,
           \A l \in Lanes : Run(opr_fifo[l], FirstWord(l) + Multiplied(l[1]))
    PROVE  Piped' /\ \A t \in Threads : Multiplied(t)' = Multiplied(t) + B(Dispatched(t))
<1>1. /\ \A i \in 1 .. 7 : pipe[i] \in (Threads \X Operands) \cup {NoOp}
      /\ \A t \in Threads : acc[t] \in Operands /\ Len(acc[t]) \in Nat
      /\ \A t \in Threads : acc'[t] \in Operands /\ Len(acc'[t]) \in Nat
      /\ \A i \in 1 .. 7 : pipe'[i] \in (Threads \X Operands) \cup {NoOp}
  BY FmacTypesStep, Constants DEF Types, FmacTypes, Operands
<1>2. pipe'[1] = Operation /\ \A i \in 2 .. 7 : pipe'[i] = pipe[i - 1]
  BY FmacTypesStep, Constants
<1>3. regs' = regs  BY DEF ProductClock, EcuClock
<1>4. /\ fmacd' = "IDLE" => slot' = 0
      /\ pipe'[1] # NoOp => fmacd' = "DISP"
      /\ \A t \in Threads : /\ Turn(t) \in 0 .. 8 /\ Turn(t)' \in 0 .. 8
                            /\ Turn(t) >= 1 => Turn(t)' >= Turn(t) - 1
                            /\ Turn(t) = 0 => Turn(t)' >= 7
                            /\ Dispatched(t) => Turn(t) = 0
  BY TurnStep DEF Piped
<1>5. \A i \in 1 .. 7, t \in Threads : OpOf(i, t) =>
        /\ Turn(t) + i >= 8
        /\ pipe[i][2] = PairsTo(t, Len(acc[t]) + 1)
        /\ \A j \in 1 .. 7 : OpOf(j, t) => j = i
  BY Constants DEF Piped, PipeRight
<1>6. acc' = IF pipe[7] # NoOp THEN [acc EXCEPT ![pipe[7][1]] = pipe[7][2]] ELSE acc
  BY Constants DEF ProductClock, FmacClock
<1>7. \A t \in Threads : acc'[t] = IF OpOf(7, t) THEN PairsTo(t, Len(acc[t]) + 1) ELSE acc[t]
  <2> TAKE t \in Threads
  <2>1. CASE OpOf(7, t)
    <3>1. pipe[7][2] = PairsTo(t, Len(acc[t]) + 1)  BY <1>5, <2>1
    <3> QED  BY <1>6, <2>1, <3>1 DEF OpOf, Types, FmacTypes
  <2>2. CASE ~OpOf(7, t)
    <3> QED  BY <1>6, <2>2 DEF OpOf, Types, FmacTypes
  <2> QED  BY <2>1, <2>2
<1>8. \A t \in Threads : Dispatched(t) =>
        /\ ~InPipe(t) /\ acc'[t] = acc[t]
        /\ pipe'[1] = <<t, PairsTo(t, Len(acc[t]) + 1)>>
  <2> SUFFICES ASSUME NEW t \in Threads, Dispatched(t)
               PROVE  /\ ~InPipe(t) /\ acc'[t] = acc[t]
                      /\ pipe'[1] = <<t, PairsTo(t, Len(acc[t]) + 1)>>
    OBVIOUS
  <2>1. Turn(t) = 0  BY <1>4
  <2>2. \A i \in 1 .. 7 : ~OpOf(i, t)  BY <1>5, <2>1
  <2>3. ~InPipe(t)  BY <2>2, Constants DEF InPipe
  <2>4. acc'[t] = acc[t]  BY <1>7, <2>2
  <2>5. slot = t /\ SomeDispatched /\ Rdy(t)  BY DEF Dispatched, SomeDispatched
  <2>6. Multiplied(t) = Len(acc[t])
    <3>1. B(InPipe(t)) = 0  BY <2>3 DEF B
    <3> QED  BY <1>1, <3>1 DEF Multiplied
  <2>7. /\ Head(opr_fifo[<<t, Rs>>]) = regs[t].rs + Len(acc[t])
        /\ Head(opr_fifo[<<t, Rt>>]) = regs[t].rt + Len(acc[t])
    <3>1. ASSUME NEW a \in {Rs, Rt}
          PROVE  Head(opr_fifo[<<t, a>>]) = FirstWord(<<t, a>>) + Len(acc[t])
      <4> DEFINE l == <<t, a>>   q == opr_fifo[l]   s == FirstWord(l) + Multiplied(l[1])
      <4>1. l \in Lanes  BY DEF Lanes
      <4>2. q \in Seq(Int) /\ Run(q, s)  BY <4>1 DEF Types, FmacTypes
      <4>3. q # << >>  BY <2>5 DEF Rdy
      <4>4. FirstWord(l) \in Nat  BY <4>1, VectorTypes
      <4>5. s = FirstWord(l) + Len(acc[t])  BY <2>6
      <4> HIDE DEF l, q
      <4>6. s \in Int  BY <1>1, <4>4, <4>5
      <4> HIDE DEF s
      <4>7. Len(q) >= 1 /\ Head(q) = q[1]  BY <4>2, <4>3
      <4>8. Head(q) = s  BY <4>2, <4>6, <4>7 DEF Run
      <4> QED  BY <4>5, <4>8 DEF q, l
    <3>2. FirstWord(<<t, Rs>>) = regs[t].rs /\ FirstWord(<<t, Rt>>) = regs[t].rt
      BY DEF FirstWord, Rs, Rt
    <3> QED  BY <3>1, <3>2
  <2>8. acc[t] = PairsTo(t, Len(acc[t]))  BY DEF Piped
  <2>9. Operation = <<t, Append(acc[t], <<regs[t].rs + Len(acc[t]), regs[t].rt + Len(acc[t])>>)>>
    BY <2>5, <2>7 DEF Operation
  <2>10. Append(PairsTo(t, Len(acc[t])), <<regs[t].rs + Len(acc[t]), regs[t].rt + Len(acc[t])>>)
            = PairsTo(t, Len(acc[t]) + 1)
    BY <1>1, PairsType
  <2> QED  BY <1>2, <2>3, <2>4, <2>8, <2>9, <2>10
<1>9. \A t \in Threads : OpOf(1, t)' <=> Dispatched(t)
  <2> TAKE t \in Threads
  <2>1. OpOf(1, t)' => Dispatched(t)
    <3> SUFFICES ASSUME pipe'[1] # NoOp, pipe'[1][1] = t  PROVE Dispatched(t)
      BY DEF OpOf
    <3>1. SomeDispatched /\ slot = t  BY <1>2 DEF Operation
    <3> QED  BY <3>1 DEF SomeDispatched, Dispatched
  <2>2. Dispatched(t) => OpOf(1, t)'
    BY <1>8 DEF OpOf, NoOp
  <2> QED  BY <2>1, <2>2
<1>10. \A i \in 2 .. 7, t \in Threads : OpOf(i, t)' <=> OpOf(i - 1, t)
  BY <1>2 DEF OpOf
<1>11. ASSUME NEW i \in 1 .. 7, NEW t \in Threads, OpOf(i, t)'
       PROVE  /\ Turn(t)' + i >= 8
              /\ pipe'[i][2] = PairsTo(t, Len(acc'[t]) + 1)
              /\ \A j \in 1 .. 7 : OpOf(j, t)' => j = i
  <2>1. CASE i = 1
    <3>1. Dispatched(t)  BY <1>9, <1>11, <2>1
    <3>2. Turn(t)' >= 7 /\ Turn(t)' \in 0 .. 8  BY <1>4, <3>1
    <3>3. pipe'[1] = <<t, PairsTo(t, Len(acc[t]) + 1)>> /\ acc'[t] = acc[t] /\ ~InPipe(t)
      BY <1>8, <3>1
    <3>4. \A j \in 1 .. 7 : ~OpOf(j, t)  BY <3>3, Constants DEF InPipe
    <3>5. \A j \in 2 .. 7 : ~OpOf(j, t)'  BY <1>10, <3>4
    <3> QED  BY <2>1, <3>2, <3>3, <3>5
  <2>2. CASE i # 1
    <3>1. i - 1 \in 1 .. 6 /\ i \in 2 .. 7 /\ OpOf(i - 1, t)  BY <1>10, <1>11, <2>2
    <3>2. Turn(t) + (i - 1) >= 8 /\ \A j \in 1 .. 7 : OpOf(j, t) => j = i - 1
      BY <1>5, <3>1
    <3>3. pipe[i - 1][2] = PairsTo(t, Len(acc[t]) + 1)  BY <1>5, <3>1
    <3>4. Turn(t) \in 0 .. 8 /\ Turn(t)' \in 0 .. 8 /\ Turn(t)' >= Turn(t) - 1
      BY <1>4, <3>1, <3>2
    <3>5. acc'[t] = acc[t]
      <4>1. ~OpOf(7, t)  BY <3>1, <3>2
      <4> QED  BY <1>7, <4>1
    <3>6. ~Dispatched(t)  BY <1>4, <3>1, <3>2
    <3>7. \A j \in 1 .. 7 : OpOf(j, t)' => j = i
      <4> SUFFICES ASSUME NEW j \in 1 .. 7, OpOf(j, t)'  PROVE j = i
        OBVIOUS
      <4>1. j # 1  BY <1>9, <3>6
      <4>2. j \in 2 .. 7 /\ OpOf(j - 1, t)  BY <1>10, <4>1
      <4>3. j - 1 = i - 1  BY <3>2, <4>2
      <4> QED  BY <4>3
    <3>8. Turn(t)' + i >= 8  BY <3>1, <3>2, <3>4
    <3> QED  BY <1>2, <3>1, <3>3, <3>5, <3>7, <3>8
  <2> QED  BY <2>1, <2>2
<1>12. PipeRight'
  <2>1. \A t, n : PairsTo(t, n)' = PairsTo(t, n)  BY <1>3 DEF PairsTo
  <2> QED  BY <1>11, <2>1, Constants DEF PipeRight
<1>13. \A t \in Threads : acc'[t] = PairsTo(t, Len(acc'[t])) /\ Len(acc[t]) + 1 \in Nat
                          /\ Len(PairsTo(t, Len(acc[t]) + 1)) = Len(acc[t]) + 1
  <2> TAKE t \in Threads
  <2>1. acc[t] = PairsTo(t, Len(acc[t]))  BY DEF Piped
  <2>2. Len(acc[t]) + 1 \in Nat  BY <1>1
  <2>3. Len(PairsTo(t, Len(acc[t]) + 1)) = Len(acc[t]) + 1  BY <2>2, PairsType
  <2> QED  BY <1>7, <2>1, <2>2, <2>3
<1>n. \A t \in Threads : acc'[t] = PairsTo(t, Len(acc[t]))'
  BY <1>3, <1>13 DEF PairsTo
<1>14. ASSUME NEW t \in Threads  PROVE Multiplied(t)' = Multiplied(t) + B(Dispatched(t))
  <2>1. InPipe(t)' <=> Dispatched(t) \/ \E i \in 1 .. 6 : OpOf(i, t)
    <3>1. InPipe(t)' <=> \E i \in 1 .. 7 : OpOf(i, t)'  BY Constants DEF InPipe
    <3>2. ASSUME NEW i \in 1 .. 6, OpOf(i, t)  PROVE OpOf(i + 1, t)'
      <4>1. i + 1 \in 2 .. 7 /\ (i + 1) - 1 = i  OBVIOUS
      <4> QED  BY <1>10, <3>2, <4>1
    <3>3. ASSUME NEW i \in 1 .. 7, OpOf(i, t)', i # 1  PROVE \E j \in 1 .. 6 : OpOf(j, t)
      <4>1. i \in 2 .. 7 /\ i - 1 \in 1 .. 6  BY <3>3
      <4> QED  BY <1>10, <3>3, <4>1
    <3>4. ASSUME NEW i \in 1 .. 6, OpOf(i, t)  PROVE \E j \in 1 .. 7 : OpOf(j, t)'
      <4>1. i + 1 \in 1 .. 7  OBVIOUS
      <4> QED  BY <3>2, <3>4, <4>1
    <3>5. 1 \in 1 .. 7  OBVIOUS
    <3> QED  BY <1>9, <3>1, <3>3, <3>4, <3>5
  <2>2. InPipe(t) <=> \E i \in 1 .. 7 : OpOf(i, t)  BY Constants DEF InPipe
  <2>3. Multiplied(t) = Len(acc[t]) + B(InPipe(t)) /\ Multiplied(t)' = Len(acc'[t]) + B(InPipe(t)')
    BY DEF Multiplied, B
  <2>4. CASE Dispatched(t)
    <3>1. B(InPipe(t)') = 1 /\ B(InPipe(t)) = 0 /\ B(Dispatched(t)) = 1
      BY <1>8, <2>1, <2>4 DEF B
    <3>2. acc'[t] = acc[t]  BY <1>8, <2>4
    <3> QED  BY <1>1, <2>3, <3>1, <3>2
  <2>5. CASE ~Dispatched(t) /\ OpOf(7, t)
    <3>1. \A i \in 1 .. 7 : OpOf(i, t) => i = 7  BY <1>5, <2>5
    <3>2. ~InPipe(t)' /\ InPipe(t)  BY <2>1, <2>2, <2>5, <3>1
    <3>3. B(InPipe(t)') = 0 /\ B(InPipe(t)) = 1 /\ B(Dispatched(t)) = 0
      BY <2>5, <3>2 DEF B
    <3>4. Len(acc'[t]) = Len(acc[t]) + 1  BY <1>7, <1>13, <2>5
    <3> QED  BY <1>1, <2>3, <3>3, <3>4
  <2>6. CASE ~Dispatched(t) /\ ~OpOf(7, t)
    <3>1. InPipe(t)' <=> InPipe(t)
      <4>1. ASSUME NEW i \in 1 .. 7, OpOf(i, t)  PROVE i \in 1 .. 6
        BY <2>6, <4>1
      <4>2. \A i \in 1 .. 6 : i \in 1 .. 7  OBVIOUS
      <4> QED  BY <2>1, <2>2, <2>6, <4>1, <4>2
    <3>2. B(InPipe(t)') = B(InPipe(t)) /\ B(Dispatched(t)) = 0 /\ B(InPipe(t)) \in {0, 1}
      BY <2>6, <3>1 DEF B
    <3>3. acc'[t] = acc[t]  BY <1>7, <2>6
    <3> QED  BY <1>1, <2>3, <3>2, <3>3
  <2> QED  BY <2>4, <2>5, <2>6
<1> QED  BY <1>4, <1>12, <1>n, <1>14 DEF Piped

-----------------------------------------------------------------------------
(* The words that the operand FIFO gives out.                              *)

Taken(l) == FirstWord(l) + Multiplied(l[1]) + Len(opr_fifo[l])

\* Both halves of the operand FIFO, its toggle and the input FIFO of the multiplier have
\* the words from the one to be multiplied next.
Taking(l) ==
    /\ \A h \in {0, 1} : Half(f21[l].word[h + 1], h, Taken(l), PartedWord(l))
    /\ F21Vld(l) => f21[l].sel = Taken(l) % 2
    /\ Run(opr_fifo[l], FirstWord(l) + Multiplied(l[1]))

\* Types of what the operand FIFO and the multiplier have taken.
LEMMA TakenTypes ==
    ASSUME Types, NEW l \in Lanes
    PROVE  /\ Multiplied(l[1]) \in Nat /\ Len(opr_fifo[l]) \in Nat /\ Taken(l) \in Int
           /\ \A h \in {0, 1} : f21[l].word[h + 1] \in Seq(Int)
           /\ f21[l].sel \in {0, 1} /\ l[1] \in Threads
<1>1. l[1] \in Threads  BY LaneParts
<1>2. acc[l[1]] \in Operands  BY <1>1 DEF Types, FmacTypes
<1>3. Len(acc[l[1]]) \in Nat  BY <1>2 DEF Operands
<1>4. B(InPipe(l[1])) \in {0, 1}  BY DEF B
<1>5. Multiplied(l[1]) \in Nat  BY <1>3, <1>4 DEF Multiplied
<1>6. Len(opr_fifo[l]) \in Nat  BY DEF Types, FmacTypes
<1>7. FirstWord(l) \in Nat  BY VectorTypes
<1>8. f21[l] \in Halves  BY DEF Types, RespTypes
<1>9. f21[l].sel \in {0, 1} /\ f21[l].word[1] \in Seq(Int) /\ f21[l].word[2] \in Seq(Int)
  BY <1>8 DEF Halves
<1>10. \A h \in {0, 1} : f21[l].word[h + 1] \in Seq(Int)
  <2> TAKE h \in {0, 1}
  <2>1. h + 1 = 1 \/ h + 1 = 2  OBVIOUS
  <2> QED  BY <1>9, <2>1
<1> QED  BY <1>1, <1>5, <1>6, <1>7, <1>9, <1>10 DEF Taken

\* The word that the operand FIFO offers is the next one.
LEMMA OfferedIs ==
    ASSUME Types, NEW l \in Lanes, Taking(l)
    PROVE  /\ F21Vld(l) => F21Out(l) = Taken(l) /\ Taken(l) < PartedWord(l)
           /\ ~F21Vld(l) => Taken(l) = PartedWord(l)
           /\ \A h \in {0, 1} : Taken(l) % 2 = h /\ F21Vld(l) => f21[l].word[h + 1] # << >>
<1> DEFINE x == Taken(l)   y == PartedWord(l)   w(h) == f21[l].word[h + 1]
<1>1. x \in Int /\ y \in Int /\ \A h \in {0, 1} : w(h) \in Seq(Int) /\ Half(w(h), h, x, y)
  BY TakenTypes, VectorTypes DEF Taking
<1>2. F21Vld(l) <=> \E h \in {0, 1} : w(h) # << >>  BY DEF F21Vld
<1>3. F21Vld(l) => f21[l].sel = x % 2  BY DEF Taking
<1>4. F21Out(l) = IF w(f21[l].sel) = << >> THEN NoWord ELSE Head(w(f21[l].sel))
  BY DEF F21Out, Selected
<1> HIDE DEF x, y, w
<1>5. F21Vld(l) => x < y
  BY <1>1, <1>2, HalfHead
<1>6. \A h \in {0, 1} : x % 2 = h /\ F21Vld(l) => w(h) # << >> /\ Head(w(h)) = x
  BY <1>1, <1>5, HalfHead
<1>7. x % 2 \in {0, 1}  BY <1>1
<1>8. F21Vld(l) => F21Out(l) = x
  BY <1>3, <1>4, <1>6, <1>7
<1>9. ~F21Vld(l) => x = y
  <2>1. SUFFICES ASSUME ~F21Vld(l)  PROVE x = y
    OBVIOUS
  <2>2. w(0) = << >> /\ w(1) = << >>  BY <1>2, <2>1
  <2>3. Half(<< >>, 0, x, y) /\ Half(<< >>, 1, x, y)  BY <1>1, <2>2
  <2> QED  BY <1>1, <2>3, HalfEmpty
<1> QED  BY <1>5, <1>6, <1>8, <1>9 DEF x, y, w

\* The halves of the operand FIFO at an edge.
LEMMA HalvesStep ==
    ASSUME Types, NEW r \in RegisterFiles \cup {Idles}, NEW ans, NEW ready,
           ProductClock(r, ans, ready), Calm,
           NEW l \in Lanes, Taking(l), NEW h \in {0, 1}
    PROVE  /\ f21'[l].word[h + 1] =
                Popped(f21[l].word[h + 1], Heard(l) /\ Taken(l) % 2 = h)
                  \o Reg(PairTaken(l) /\ h \in opd[l].mask, 2 * opd[l].pair + h)
           /\ PairTaken(l) => opd[l].pair \in Int /\ opd[l].mask \subseteq {0, 1}
<1> DEFINE q == f21[l].word[h + 1]   wr == IF PairTaken(l) THEN opd[l].mask ELSE {}
           rd == opr_fsm[l] = "RECV"   s == f21[l].sel   x == Taken(l)
           d == 2 * opd[l].pair + h
           pop == rd /\ s = h
           half(i) == FifoNext(f21[l].word[i + 1], OpDepth, rd /\ f21[l].sel = i, i \in wr,
                               2 * opd[l].pair + i)
<1>1. q \in Seq(Int) /\ s \in {0, 1} /\ x \in Int  BY TakenTypes
<1>2. PairTaken(l) => opd[l] \in Pair  BY DEF Types, RespTypes, PairTaken
<1>3. PairTaken(l) => opd[l].pair \in Int /\ opd[l].mask \subseteq {0, 1}
  BY <1>2 DEF Pair, Masks
<1>4. f21'[l].word[h + 1] = half(h)
  <2>1. f21'[l] = F21Clock(l, rd)  BY CalmDistClock
  <2>2. F21Clock(l, rd).word = <<half(0), half(1)>>
    BY DEF F21Clock, PairTaken
  <2>3. <<half(0), half(1)>>[h + 1] = half(h)
    <3>1. CASE h = 0
      <4> HIDE DEF half
      <4> QED  BY <3>1
    <3>2. CASE h = 1
      <4> HIDE DEF half
      <4> QED  BY <3>2
    <3> QED  BY <3>1, <3>2
  <2> QED  BY <2>1, <2>2, <2>3
<1>5. half(h) = FifoNext(q, OpDepth, pop, h \in wr, d)  OBVIOUS
<1>6. h \in wr => Len(q) < OpDepth /\ d \in Int /\ PairTaken(l)
  <2> SUFFICES ASSUME h \in wr  PROVE Len(q) < OpDepth /\ d \in Int /\ PairTaken(l)
    OBVIOUS
  <2>1. PairTaken(l)  OBVIOUS
  <2>2. F21Rdy(l)  BY <2>1 DEF PairTaken
  <2> QED  BY <1>3, <2>1, <2>2 DEF F21Rdy
<1>7. Moves(q, FifoNext(q, OpDepth, pop, h \in wr, d), pop /\ q # << >>, h \in wr, d)
  <2>1. /\ q \in Seq(Int) /\ pop \in BOOLEAN /\ (h \in wr) \in BOOLEAN /\ (h \in wr => d \in Int)
        /\ (h \in wr) = (h \in wr /\ Len(q) < OpDepth)
    BY <1>1, <1>6
  <2> HIDE DEF q, pop, wr, d
  <2> QED  BY <2>1, NextMoves
<1>8. (pop /\ q # << >>) = (Heard(l) /\ x % 2 = h)
  <2>1. F21Vld(l) => s = x % 2  BY DEF Taking
  <2>2. q # << >> => F21Vld(l)  BY DEF F21Vld
  <2>3. x % 2 = h /\ F21Vld(l) => q # << >>  BY OfferedIs
  <2> QED  BY <2>1, <2>2, <2>3 DEF Heard
<1>9. (h \in wr) = (PairTaken(l) /\ h \in opd[l].mask)  OBVIOUS
<1>10. f21'[l].word[h + 1] = Popped(q, pop /\ q # << >>) \o Reg(h \in wr, d)
  BY <1>4, <1>5, <1>7 DEF Moves
<1> QED  BY <1>3, <1>8, <1>9, <1>10

\* A lane takes the words one after the other, and each pair that is taken apart adds
\* those of its words that belong to the vector.
LEMMA HalvesHold ==
    ASSUME Types, NEW r \in RegisterFiles \cup {Idles}, NEW ans, NEW ready,
           ProductClock(r, ans, ready), Calm,
           NEW l \in Lanes, Taking(l), NEW h \in {0, 1},
           NEW z \in Int,
           ~PairTaken(l) => z = PartedWord(l),
           PairTaken(l) => /\ PartedWord(l) < z
                           /\ \A a \in PartedWord(l) .. z - 1 :
                                  a % 2 = h => h \in opd[l].mask /\ a = 2 * opd[l].pair + h
                           /\ h \in opd[l].mask => /\ PartedWord(l) <= 2 * opd[l].pair + h
                                                   /\ 2 * opd[l].pair + h < z
    PROVE  Half(f21'[l].word[h + 1], h, Taken(l) + B(Heard(l)), z)
<1> DEFINE q == f21[l].word[h + 1]   x == Taken(l)   y == PartedWord(l)   hd == Heard(l)
           x2 == x + B(hd)   q2 == Popped(q, hd /\ x % 2 = h)
           w == PairTaken(l) /\ h \in opd[l].mask   d == IF w THEN 2 * opd[l].pair + h ELSE h
<1>1. q \in Seq(Int) /\ x \in Int /\ y \in Int  BY TakenTypes, VectorTypes
<1>2. Half(q, h, x, y)  BY DEF Taking
<1>3. f21'[l].word[h + 1] = q2 \o Reg(w, d) /\ (PairTaken(l) => opd[l].pair \in Int)
  BY HalvesStep DEF Reg
<1>4. hd => x < y
  BY OfferedIs DEF Heard
<1>5. Half(q2, h, x2, y) /\ q2 \in Seq(Int) /\ x2 \in Int
  <2>1. CASE hd
    <3>1. x2 = x + 1  BY <2>1 DEF B
    <3>2. q2 = Popped(q, x % 2 = h)  BY <2>1
    <3>3. x % 2 = h => q # << >>
      BY <2>1, OfferedIs DEF Heard
    <3> HIDE DEF q, x, y, q2, x2
    <3>4. Half(Popped(q, x % 2 = h), h, x + 1, y)
      BY <1>1, <1>2, <1>4, <2>1, HalfPop
    <3>5. Popped(q, x % 2 = h) \in Seq(Int)
      BY <1>1, <3>3, PoppedType
    <3> QED  BY <1>1, <3>1, <3>2, <3>4, <3>5
  <2>2. CASE ~hd
    <3>1. x2 = x  BY <1>1, <2>2 DEF B
    <3>2. q2 = q  BY <2>2 DEF Popped
    <3> QED  BY <1>1, <1>2, <3>1, <3>2
  <2> QED  BY <2>1, <2>2
<1>6. /\ y <= z /\ w \in BOOLEAN /\ d \in Int
      /\ w => y <= d /\ d < z /\ d % 2 = h
      /\ \A a \in y .. z - 1 : a % 2 = h => w /\ a = d
  <2>1. CASE PairTaken(l)
    <3> DEFINE p == opd[l].pair
    <3>1. p \in Int /\ y < z  BY <1>3, <2>1
    <3>2. (2 * p + h) % 2 = h
      <4> HIDE DEF p
      <4> QED  BY <3>1
    <3>3. w <=> h \in opd[l].mask  BY <2>1
    <3>4. w => d = 2 * p + h  OBVIOUS
    <3>5. d \in Int
      <4>1. 2 * p + h \in Int
        <5> HIDE DEF p
        <5> QED  BY <3>1
      <4> QED  BY <4>1
    <3>6. \A a \in y .. z - 1 : a % 2 = h => w /\ a = d  BY <2>1, <3>3, <3>4
    <3>7. w => y <= d /\ d < z  BY <2>1, <3>3, <3>4
    <3>8. w => d % 2 = h  BY <3>2, <3>4
    <3>9. y <= z  BY <1>1, <3>1
    <3>10. w \in BOOLEAN  BY <2>1 DEF w
    <3> HIDE DEF y, w, d
    <3> QED  BY <3>5, <3>6, <3>7, <3>8, <3>9, <3>10
  <2>2. CASE ~PairTaken(l)
    <3>1. z = y /\ ~w /\ d = h  BY <2>2
    <3>2. w \in BOOLEAN  BY <2>2 DEF w
    <3> HIDE DEF y, w, d
    <3>3. y <= z /\ d \in Int  BY <1>1, <3>1
    <3>4. \A a \in y .. z - 1 : a % 2 = h => w /\ a = d  BY <1>1, <3>1
    <3> QED  BY <3>1, <3>2, <3>3, <3>4
  <2> QED  BY <2>1, <2>2
<1> HIDE DEF q, x, y, hd, x2, q2, w, d
<1>7. Half(q2 \o Reg(w, d), h, x2, z)
  BY <1>1, <1>5, <1>6, HalfPush
<1> QED  BY <1>3, <1>7 DEF x2, x, hd

\* Words of a vector are in the two halves by turns.
LEMMA OtherHalf == \A n \in Int : n % 2 \in {0, 1} /\ (n + 1) % 2 = 1 - (n % 2)
<1>1. SUFFICES ASSUME NEW n \in Int  PROVE n % 2 \in {0, 1} /\ (n + 1) % 2 = 1 - (n % 2)
  OBVIOUS
<1>2. n % 2 \in {0, 1}  OBVIOUS
<1>3. (n + 1) % 2 = 1 - (n % 2)  OBVIOUS
<1> QED  BY <1>2, <1>3

\* The toggle of the operand FIFO picks the half that has the next word, at every edge.
LEMMA TakingStep ==
    ASSUME Types, NEW r \in RegisterFiles \cup {Idles}, NEW ans, NEW ready,
           ProductClock(r, ans, ready), Calm,
           ~Starts(r), NEW l \in Lanes, Taking(l), Asking(l), FirstPair(l) <= Parted(l),
           Parted(l)' = Parted(l) + B(PairTaken(l)),
           PairTaken(l) => /\ opd[l] = [pair |-> Parted(l), mask |-> MaskOf(l, Parted(l))]
                           /\ Parted(l) < Asked(l),
           Multiplied(l[1])' = Multiplied(l[1]) + B(Dispatched(l[1]))
    PROVE  Taking(l)' /\ Taken(l)' = Taken(l) + B(Heard(l))
<1> DEFINE x == Taken(l)   x2 == Taken(l)'   y == PartedWord(l)   z == PartedWord(l)'
           f == FirstWord(l)   n == Len(opr_fifo[l])   n2 == Len(opr_fifo'[l])
           m == Multiplied(l[1])   m2 == Multiplied(l[1])'
           hd == Heard(l)   ds == Dispatched(l[1])   pt == PairTaken(l)
<1>1. regs' = regs  BY DEF ProductClock, EcuClock
<1>2. /\ FirstWord(l)' = f /\ PastWord(l)' = PastWord(l)
      /\ FirstPair(l)' = FirstPair(l) /\ PastPair(l)' = PastPair(l)
  BY <1>1, RegsSame
<1>3. /\ m \in Nat /\ n \in Nat /\ f \in Nat /\ x \in Int /\ y \in Int /\ Parted(l) \in Int
      /\ PastWord(l) \in Nat /\ FirstPair(l) \in Nat /\ PastPair(l) \in Nat
  BY TakenTypes, VectorTypes
<1>4. Moves(opr_fifo[l], opr_fifo'[l], ds, hd, F21Out(l)) /\ opr_fifo[l] \in Seq(Int)
  BY OprMoves
<1>5. hd => F21Out(l) = x /\ x < y
  BY OfferedIs DEF Heard
<1>6. ds \in BOOLEAN /\ hd \in BOOLEAN /\ pt \in BOOLEAN
  BY DEF Dispatched, Heard, F21Vld, PairTaken, F21Rdy, Types, RespTypes
<1>7. B(ds) \in {0, 1} /\ B(hd) \in {0, 1} /\ B(pt) \in {0, 1}  BY DEF B
<1>8. n2 = n - B(ds) + B(hd)
  <2>1. hd => F21Out(l) \in Int  BY <1>3, <1>5
  <2> DEFINE q == opr_fifo[l]   q2 == opr_fifo'[l]   d == F21Out(l)
  <2>2. q \in Seq(Int) /\ Moves(q, q2, ds, hd, d) /\ (hd => d \in Int)  BY <1>4, <2>1
  <2> HIDE DEF q, q2, d, hd, ds
  <2>3. Len(q2) = Len(q) - B(ds) + B(hd)  BY <1>6, <2>2, MovesType
  <2> QED  BY <2>3 DEF q, q2
<1>9. x = f + m + n /\ x2 = f + m2 + n2 /\ m2 = m + B(ds)
  BY <1>2 DEF Taken
<1>10. x2 = x + B(hd) /\ x2 \in Int
  <2> DEFINE i == B(ds)   j == B(hd)
  <2>1. /\ i \in Int /\ j \in Int /\ m \in Int /\ n \in Int /\ f \in Int
        /\ x = f + m + n /\ x2 = f + m2 + n2 /\ m2 = m + i /\ n2 = n - i + j
    BY <1>3, <1>7, <1>8, <1>9
  <2> HIDE DEF i, j, x, x2, f, m, m2, n, n2
  <2>2. x2 = x + j /\ x2 \in Int  BY <2>1
  <2> QED  BY <2>2 DEF j
<1>11. Run(opr_fifo'[l], f + m2)
  <2> DEFINE q == opr_fifo[l]   q2 == opr_fifo'[l]   d == F21Out(l)   s == f + m
  <2>1. /\ q \in Seq(Int) /\ Moves(q, q2, ds, hd, d) /\ Run(q, s) /\ s \in Int
        /\ (hd => d = s + Len(q)) /\ (hd => d \in Int)
    BY <1>3, <1>4, <1>5, <1>9 DEF Taking
  <2>2. s + B(ds) = f + m2  BY <1>3, <1>7, <1>9
  <2> HIDE DEF q, q2, d, s, hd, ds
  <2>3. Run(q2, s + B(ds))  BY <1>6, <2>1, RunMoves
  <2> QED  BY <2>2, <2>3 DEF q2
<1>12. pt => FirstPair(l) <= Parted(l) /\ Parted(l) < PastPair(l)
  <2>1. Asked(l) <= PastPair(l) /\ Asked(l) \in Nat  BY AskedBounds, VectorTypes
  <2> QED  BY <1>3, <2>1
<1>13. ~pt => z = y
  <2>1. SUFFICES ASSUME ~pt  PROVE z = y
    OBVIOUS
  <2>2. B(pt) = 0  BY <2>1 DEF B
  <2>3. Parted(l)' = Parted(l)  BY <1>3, <2>2
  <2> QED  BY <1>2, <2>3 DEF PartedWord
<1>14. pt => LET p == Parted(l)   k == MaskOf(l, p)
             IN  /\ opd[l].pair = p /\ opd[l].mask = k
                 /\ y < z /\ z \in Int /\ p \in Int
                 /\ \A h \in {0, 1} : h \in k <=> y <= 2 * p + h /\ 2 * p + h < z
                 /\ \A a \in y .. z - 1, h \in {0, 1} : a % 2 = h => h \in k /\ a = 2 * p + h
                 /\ k # {} /\ (0 \in k => y % 2 = 0) /\ (0 \notin k => y % 2 = 1)
  <2> SUFFICES ASSUME pt
               PROVE LET p == Parted(l)   k == MaskOf(l, p)
                     IN  /\ opd[l].pair = p /\ opd[l].mask = k
                         /\ y < z /\ z \in Int /\ p \in Int
                         /\ \A h \in {0, 1} : h \in k <=> y <= 2 * p + h /\ 2 * p + h < z
                         /\ \A a \in y .. z - 1, h \in {0, 1} :
                                a % 2 = h => h \in k /\ a = 2 * p + h
                         /\ k # {} /\ (0 \in k => y % 2 = 0) /\ (0 \notin k => y % 2 = 1)
    OBVIOUS
  <2>1. Parted(l)' = Parted(l) + 1
    <3>1. B(pt) = 1  BY DEF B
    <3> QED  BY <3>1
  <2>2. z = WordBefore(FirstWord(l), PastWord(l), FirstPair(l), PastPair(l), Parted(l) + 1)
    BY <1>2, <2>1 DEF PartedWord, WordBefore
  <2>3. FirstPair(l) <= Parted(l) /\ Parted(l) < PastPair(l)  BY <1>12
  <2>4. opd[l].pair = Parted(l) /\ opd[l].mask = MaskOf(l, Parted(l))  OBVIOUS
  <2> HIDE DEF z, pt
  <2>5. LET p == Parted(l)   s == PartedWord(l)   k == MaskOf(l, p)
        IN  /\ s \in Int /\ z \in Int /\ s < z /\ p \in Int
            /\ \A h \in {0, 1} : h \in k <=> s <= 2 * p + h /\ 2 * p + h < z
            /\ k \subseteq {0, 1}
            /\ \A a \in s .. z - 1, h \in {0, 1} : a % 2 = h => h \in k /\ a = 2 * p + h
            /\ k # {}
            /\ 0 \in k => s % 2 = 0
            /\ 0 \notin k => s % 2 = 1
    BY <2>2, <2>3, PartedWords
  <2> QED  BY <2>4, <2>5
<1>15. z \in Int
  BY <1>3, <1>13, <1>14
<1>16. ASSUME NEW h \in {0, 1}  PROVE Half(f21'[l].word[h + 1], h, x2, z)
  <2>1. pt => /\ y < z
              /\ \A a \in y .. z - 1 : a % 2 = h => h \in opd[l].mask /\ a = 2 * opd[l].pair + h
              /\ h \in opd[l].mask => y <= 2 * opd[l].pair + h /\ 2 * opd[l].pair + h < z
    <3> HIDE DEF pt, y, z
    <3> QED  BY <1>14
  <2> HIDE DEF z
  <2>2. Half(f21'[l].word[h + 1], h, Taken(l) + B(Heard(l)), z)
    BY <1>13, <1>15, <2>1, HalvesHold
  <2>3. Taken(l) + B(Heard(l)) = x2  BY <1>10
  <2> HIDE DEF x2
  <2> QED  BY <2>2, <2>3
<1>17. F21Vld(l)' => f21'[l].sel = x2 % 2
  <2> DEFINE rd == opr_fsm[l] = "RECV"   wr == IF pt THEN opd[l].mask ELSE {}
             s == f21[l].sel   s2 == f21'[l].sel
  <2>1. s2 = IF ~F21Vld(l) /\ wr # {} THEN IF 0 \in wr THEN 0 ELSE 1
             ELSE IF F21Vld(l) /\ rd THEN 1 - s ELSE s
    <3>1. f21'[l] = F21Clock(l, rd)  BY CalmDistClock
    <3> QED  BY <3>1 DEF F21Clock, PairTaken
  <2>2. F21Vld(l) => s = x % 2  BY DEF Taking
  <2>3. x % 2 \in {0, 1} /\ (x + 1) % 2 = 1 - (x % 2)
    <3> HIDE DEF x
    <3> QED  BY <1>3, OtherHalf
  <2>4. CASE F21Vld(l) /\ rd
    <3>1. hd  BY <2>4 DEF Heard
    <3>2. B(hd) = 1  BY <3>1 DEF B
    <3>3. x2 = x + 1  BY <1>10, <3>2
    <3>4. s2 = 1 - s  BY <2>1, <2>4
    <3>5. s = x % 2  BY <2>2, <2>4
    <3> HIDE DEF s, s2, x, x2
    <3>6. s2 = x2 % 2
      <4>1. x \in Int  BY <1>3
      <4> QED  BY <2>3, <3>3, <3>4, <3>5, <4>1
    <3> QED  BY <3>6 DEF s2, x2
  <2>5. CASE F21Vld(l) /\ ~rd
    <3>1. ~hd  BY <2>5 DEF Heard
    <3>2. B(hd) = 0  BY <3>1 DEF B
    <3>3. x2 = x  BY <1>3, <1>10, <3>2
    <3>4. s2 = s  BY <2>1, <2>5
    <3> QED  BY <2>2, <2>5, <3>3, <3>4
  <2>6. CASE ~F21Vld(l)
    <3>1. ~hd  BY <2>6 DEF Heard
    <3>2. B(hd) = 0  BY <3>1 DEF B
    <3>3. x2 = x /\ x = y  BY <1>3, <1>10, <2>6, <3>2, OfferedIs
    <3>4. CASE pt
      <4>1. wr # {} /\ (0 \in wr => y % 2 = 0) /\ (0 \notin wr => y % 2 = 1)
        BY <1>14, <3>4
      <4>2. s2 = IF 0 \in wr THEN 0 ELSE 1  BY <2>1, <2>6, <4>1
      <4> QED  BY <3>3, <4>1, <4>2
    <3>5. CASE ~pt
      <4>1. ASSUME NEW h \in {0, 1}  PROVE f21'[l].word[h + 1] = << >>
        <5>1. f21[l].word[h + 1] = << >>  BY <2>6 DEF F21Vld
        <5>2. f21'[l].word[h + 1] = Popped(f21[l].word[h + 1], Heard(l) /\ Taken(l) % 2 = h)
                \o Reg(PairTaken(l) /\ h \in opd[l].mask, 2 * opd[l].pair + h)
          BY HalvesStep
        <5>3. Reg(PairTaken(l) /\ h \in opd[l].mask, 2 * opd[l].pair + h) = << >>
          BY <3>5 DEF Reg
        <5>4. Popped(f21[l].word[h + 1], Heard(l) /\ Taken(l) % 2 = h) = << >>
          BY <3>1, <5>1 DEF Popped
        <5>5. << >> \o << >> = << >>  OBVIOUS
        <5>6. f21'[l].word[h + 1] = << >> \o << >>  BY <5>2, <5>3, <5>4
        <5> QED  BY <5>5, <5>6
      <4>2. ~F21Vld(l)'  BY <4>1 DEF F21Vld
      <4> QED  BY <4>2
    <3> QED  BY <3>4, <3>5
  <2> QED  BY <2>4, <2>5, <2>6
<1>18. Taking(l)'
  <2>1. (FirstWord(l) + Multiplied(l[1]))' = f + m2  BY <1>2
  <2>2. Run(opr_fifo[l], FirstWord(l) + Multiplied(l[1]))'  BY <1>11, <2>1 DEF Run
  <2> QED  BY <1>16, <1>17, <2>2 DEF Taking
<1> QED  BY <1>10, <1>18

-----------------------------------------------------------------------------
(* How many requests memory has.                                           *)

Cells(n) == {c \in Lanes \X Nat : c[2] \in 1 .. n[c[1]]}
Waits == [l \in Lanes |-> Len(mem[l])]

\* The counter of requests on the fly counts those in memory and those on both wires.
Counted == /\ IsFiniteSet(Cells(Waits))
           /\ on_fly = B(rqa_wr) + Cardinality(Cells(Waits)) + Len(chan)

\* One waiting request more is one cell more ...
LEMMA CellsAdd ==
    ASSUME NEW n \in [Lanes -> Nat], NEW k \in Lanes, IsFiniteSet(Cells(n))
    PROVE  LET m == [n EXCEPT ![k] = @ + 1]
           IN  /\ m \in [Lanes -> Nat] /\ IsFiniteSet(Cells(m))
               /\ Cardinality(Cells(m)) = Cardinality(Cells(n)) + 1
<1> DEFINE m == [n EXCEPT ![k] = @ + 1]   c == <<k, n[k] + 1>>
<1>1. m \in [Lanes -> Nat] /\ n[k] \in Nat  OBVIOUS
<1>2. c \notin Cells(n)
  <2>1. c[1] = k /\ c[2] = n[k] + 1  OBVIOUS
  <2> HIDE DEF c
  <2> QED  BY <1>1, <2>1 DEF Cells
<1>3. Cells(m) = Cells(n) \cup {c}
  <2>1. ASSUME NEW e \in Lanes \X Nat
        PROVE  e[2] \in 1 .. m[e[1]] <=> e[2] \in 1 .. n[e[1]] \/ e = c
    <3>1. e[1] \in Lanes /\ e[2] \in Nat /\ e = <<e[1], e[2]>>  OBVIOUS
    <3>2. CASE e[1] = k
      <4>1. m[e[1]] = n[k] + 1 /\ n[e[1]] = n[k]  BY <3>1, <3>2
      <4>2. e = c <=> e[2] = n[k] + 1  BY <3>1, <3>2
      <4> HIDE DEF m, c
      <4> QED  BY <1>1, <3>1, <4>1, <4>2
    <3>3. CASE e[1] # k
      <4>1. m[e[1]] = n[e[1]] /\ e # c  BY <3>1, <3>3
      <4> QED  BY <4>1
    <3> QED  BY <3>2, <3>3
  <2>2. c \in Lanes \X Nat  BY <1>1
  <2> HIDE DEF m, c
  <2>3. \A e : e \in Cells(m) <=> e \in Cells(n) \cup {c}
    BY <2>1, <2>2 DEF Cells
  <2> QED  BY <2>3
<1> HIDE DEF c, m
<1>4. IsFiniteSet(Cells(m)) /\ Cardinality(Cells(m)) = Cardinality(Cells(n)) + 1
  BY <1>2, <1>3, FS_AddElement
<1> QED  BY <1>1, <1>4 DEF m

\* ... and one less is one cell less.
LEMMA CellsRemove ==
    ASSUME NEW n \in [Lanes -> Nat], NEW k \in Lanes, IsFiniteSet(Cells(n)), n[k] > 0
    PROVE  LET m == [n EXCEPT ![k] = @ - 1]
           IN  /\ m \in [Lanes -> Nat] /\ IsFiniteSet(Cells(m))
               /\ Cardinality(Cells(m)) = Cardinality(Cells(n)) - 1
<1> DEFINE m == [n EXCEPT ![k] = @ - 1]
<1>1. m \in [Lanes -> Nat]  OBVIOUS
<1>2. n = [m EXCEPT ![k] = @ + 1]
  <2> DEFINE g == [m EXCEPT ![k] = @ + 1]
  <2>1. m[k] = n[k] - 1 /\ n[k] \in Nat /\ \A l \in Lanes \ {k} : m[l] = n[l]  OBVIOUS
  <2> HIDE DEF m
  <2>2. g \in [Lanes -> Nat] /\ \A l \in Lanes : g[l] = n[l]  BY <1>1, <2>1
  <2> HIDE DEF g
  <2>3. n = g  BY <2>2
  <2> QED  BY <2>3 DEF g
<1>3. Cells(m) \subseteq Cells(n)
  <2>1. \A l \in Lanes : m[l] \in Nat /\ n[l] \in Nat /\ m[l] <= n[l]  OBVIOUS
  <2> HIDE DEF m
  <2>2. ASSUME NEW e \in Lanes \X Nat, e[2] \in 1 .. m[e[1]]  PROVE e[2] \in 1 .. n[e[1]]
    <3>1. e[1] \in Lanes  OBVIOUS
    <3>2. m[e[1]] \in Nat /\ n[e[1]] \in Nat /\ m[e[1]] <= n[e[1]]  BY <2>1, <3>1
    <3> QED  BY <2>2, <3>2
  <2> QED  BY <2>2 DEF Cells
<1>4. IsFiniteSet(Cells(m))  BY <1>3, FS_Subset
<1>5. Cardinality(Cells(m)) \in Nat  BY <1>4, FS_CardinalityType
<1> HIDE DEF m
<1>6. Cardinality(Cells(n)) = Cardinality(Cells(m)) + 1
  BY <1>1, <1>2, <1>4, CellsAdd
<1> QED  BY <1>1, <1>4, <1>5, <1>6 DEF m

\* The counter of requests on the fly is not zero while any is.
LEMMA CountedMeans ==
    ASSUME Types, Counted
    PROVE  /\ chan # << >> => on_fly > 0
           /\ Cardinality(Cells(Waits)) \in Nat
           /\ on_fly = 0 => Cells(Waits) = {} /\ chan = << >> /\ ~rqa_wr
<1>1. Cardinality(Cells(Waits)) \in Nat  BY FS_CardinalityType DEF Counted
<1>2. B(rqa_wr) \in {0, 1} /\ (rqa_wr => B(rqa_wr) = 1)  BY DEF B
<1>3. Len(chan) \in Nat /\ (chan # << >> => Len(chan) > 0)
  BY DEF Types, CtlTypes
<1>4. on_fly = B(rqa_wr) + Cardinality(Cells(Waits)) + Len(chan)  BY DEF Counted
<1>5. Cardinality(Cells(Waits)) = 0 => Cells(Waits) = {}  BY FS_EmptySet DEF Counted
<1> QED  BY <1>1, <1>2, <1>3, <1>4, <1>5

\* The counter of requests on the fly is exact after every edge without an error.
LEMMA CountedStep ==
    ASSUME Types, NEW r \in RegisterFiles \cup {Idles}, NEW ans \in Answers \cup {Silent},
           NEW ready, ProductClock(r, ans, ready), Calm, Counted
    PROVE  Counted'
<1> DEFINE a == rqa_wr /\ ready   b == ans # Silent   n == Waits
           n1 == IF a THEN [n EXCEPT ![rqa.lane] = @ + 1] ELSE n
           n2 == IF b THEN [n1 EXCEPT ![ans.lane] = @ - 1] ELSE n1
           takes == rss_rd /\ chan # << >> /\ on_fly > 0
<1>1. n \in [Lanes -> Nat]  BY DEF Waits, Types, CtlTypes
<1>2. a \in BOOLEAN /\ (a => rqa.lane \in Lanes)  BY DEF Types, LsuTypes, Request
<1>3. b => ans.lane \in Lanes /\ ans \in Answers  BY DEF Answers
<1>4. \A l \in Lanes : n2[l] = Len(mem'[l]) /\ (b /\ ans.lane = l => n1[l] > 0)
  <2> TAKE l \in Lanes
  <2> DEFINE bl == b /\ ans.lane = l   pl == a /\ rqa.lane = l
             q == mem[l]   q2 == mem'[l]   d == rqa.pair
  <2>1. Moves(q, q2, bl, pl, d)  BY MemMoves
  <2>2. q \in Seq(Int) /\ (pl => d \in Int)  BY DEF Types, CtlTypes, LsuTypes, Request
  <2>3. bl \in BOOLEAN /\ pl \in BOOLEAN  BY <1>2
  <2>4. Len(q2) = Len(q) - B(bl) + B(pl) /\ Len(q) >= B(bl) /\ Len(q) \in Nat
    <3> HIDE DEF q, q2, bl, pl, d
    <3> QED  BY <2>1, <2>2, <2>3, MovesType
  <2>5. n1[l] = Len(q) + B(pl)
    <3>1. n[l] = Len(q)  BY DEF Waits
    <3>2. CASE pl
      <4>1. B(pl) = 1  BY <3>2 DEF B
      <4> HIDE DEF n
      <4> QED  BY <1>1, <3>1, <3>2, <4>1
    <3>3. CASE ~pl
      <4>1. B(pl) = 0  BY <3>3 DEF B
      <4>2. n1[l] = n[l]
        <5> HIDE DEF n
        <5> QED  BY <1>1, <3>3
      <4> QED  BY <2>4, <3>1, <4>1, <4>2
    <3> QED  BY <3>2, <3>3
  <2>6. l \in DOMAIN n1
    <3> HIDE DEF n
    <3> QED  BY <1>1
  <2>7. n2[l] = IF bl THEN n1[l] - 1 ELSE n1[l]
    <3> HIDE DEF n1
    <3> QED  BY <2>6
  <2>8. B(bl) = (IF bl THEN 1 ELSE 0) /\ B(pl) \in {0, 1}  BY DEF B
  <2> HIDE DEF n1, n2, bl, q, q2, pl
  <2>9. n2[l] = Len(q2) /\ (bl => n1[l] > 0)
    <3>1. CASE bl  BY <2>4, <2>5, <2>7, <2>8, <3>1
    <3>2. CASE ~bl  BY <2>4, <2>5, <2>7, <2>8, <3>2
    <3> QED  BY <3>1, <3>2
  <2> QED  BY <2>9 DEF bl, q2
<1>5. n1 \in [Lanes -> Nat] /\ IsFiniteSet(Cells(n1))
      /\ Cardinality(Cells(n1)) = Cardinality(Cells(n)) + B(a)
  <2>1. IsFiniteSet(Cells(n)) /\ Cardinality(Cells(n)) \in Nat
    BY FS_CardinalityType DEF Counted
  <2>2. CASE a
    <3>1. n1 = [n EXCEPT ![rqa.lane] = @ + 1] /\ rqa.lane \in Lanes  BY <1>2, <2>2
    <3>2. B(a) = 1  BY <2>2 DEF B
    <3> HIDE DEF n, n1
    <3> QED  BY <1>1, <2>1, <3>1, <3>2, CellsAdd
  <2>3. CASE ~a
    <3>1. n1 = n  BY <2>3
    <3>2. B(a) = 0  BY <2>3 DEF B
    <3> HIDE DEF n, n1
    <3> QED  BY <1>1, <2>1, <3>1, <3>2
  <2> QED  BY <2>2, <2>3
<1>6. n2 \in [Lanes -> Nat] /\ IsFiniteSet(Cells(n2))
      /\ Cardinality(Cells(n2)) = Cardinality(Cells(n1)) - B(b)
  <2>1. Cardinality(Cells(n1)) \in Nat  BY <1>5, FS_CardinalityType
  <2>2. CASE b
    <3>1. n2 = [n1 EXCEPT ![ans.lane] = @ - 1] /\ ans.lane \in Lanes /\ n1[ans.lane] > 0
      BY <1>3, <1>4, <2>2
    <3>2. B(b) = 1  BY <2>2 DEF B
    <3> HIDE DEF n1, n2
    <3> QED  BY <1>5, <3>1, <3>2, CellsRemove
  <2>3. CASE ~b
    <3>1. n2 = n1  BY <2>3
    <3>2. B(b) = 0  BY <2>3 DEF B
    <3> HIDE DEF n1, n2
    <3> QED  BY <1>5, <2>1, <3>1, <3>2
  <2> QED  BY <2>2, <2>3
<1>7. Waits' = n2
  <2>1. Waits' = [l \in Lanes |-> Len(mem'[l])]  BY DEF Waits
  <2> HIDE DEF n2
  <2> QED  BY <1>4, <1>6, <2>1
<1>8. /\ Len(chan') = Len(chan) - B(takes) + B(b) /\ Len(chan) \in Nat
      /\ B(rqa_wr') = B(rqa_wr) - B(a) + B(Sends(ready))
      /\ on_fly' = on_fly + B(Sends(ready)) - B(takes)
  <2>1. chan # << >> => on_fly > 0  BY CountedMeans
  <2>2. takes <=> rss_rd /\ chan # << >>  BY <2>1
  <2>3. chan \in Seq(Response)  BY DEF Types, CtlTypes
  <2>4. Len(FifoRead(chan, rss_rd)) = Len(chan) - B(takes) /\ FifoRead(chan, rss_rd) \in Seq(Response)
        /\ Len(chan) \in Nat
    <3>1. CASE takes
      <4>1. B(takes) = 1  BY <3>1 DEF B
      <4>2. FifoRead(chan, rss_rd) = Tail(chan) /\ chan # << >>  BY <2>2, <3>1 DEF FifoRead
      <4> HIDE DEF takes
      <4> QED  BY <2>3, <4>1, <4>2
    <3>2. CASE ~takes
      <4>1. B(takes) = 0  BY <3>2 DEF B
      <4>2. FifoRead(chan, rss_rd) = chan  BY <2>2, <3>2 DEF FifoRead
      <4> HIDE DEF takes
      <4> QED  BY <2>3, <4>1, <4>2
    <3> QED  BY <3>1, <3>2
  <2>5. Len(chan') = Len(FifoRead(chan, rss_rd)) + B(b)
    <3>1. CASE b
      <4>1. B(b) = 1  BY <3>1 DEF B
      <4>2. \E e : chan' = Append(FifoRead(chan, rss_rd), e)
        BY <3>1 DEF ProductClock, MemoryClock
      <4> QED  BY <2>4, <4>1, <4>2
    <3>2. CASE ~b
      <4>1. B(b) = 0  BY <3>2 DEF B
      <4>2. chan' = FifoRead(chan, rss_rd)  BY <3>2 DEF ProductClock, MemoryClock
      <4> QED  BY <2>4, <4>1, <4>2
    <3> QED  BY <3>1, <3>2
  <2>6. B(rqa_wr') = B(rqa_wr) - B(a) + B(Sends(ready))
    <3>1. rqa_wr' = (Sends(ready) \/ (rqa_wr /\ ~ready))  BY SentMoves
    <3>2. Sends(ready) => ~rqa_wr \/ ready  BY DEF Sends
    <3>3. rqa_wr \in BOOLEAN /\ Sends(ready) \in BOOLEAN  BY DEF Types, LsuTypes, Sends
    <3> QED  BY <3>1, <3>2, <3>3 DEF B
  <2>7. on_fly' = on_fly + B(Sends(ready)) - B(takes)
    BY DEF ProductClock, ResponseClock, B
  <2> QED  BY <2>4, <2>5, <2>6, <2>7
<1>9. Counted'
  <2> DEFINE o == B(rqa_wr)   o2 == B(rqa_wr')
             i == B(a)   j == B(b)   k == B(takes)   s == B(Sends(ready))
             c == Cardinality(Cells(n))   c2 == Cardinality(Cells(n2))
             m == Len(chan)   m2 == Len(chan')
  <2>1. o \in Int /\ i \in Int /\ j \in Int /\ k \in Int /\ s \in Int  BY DEF B
  <2>2. c \in Int  BY FS_CardinalityType DEF Counted
  <2>3. c2 = c + i - j  BY <1>5, <1>6, <2>1, <2>2
  <2>4. m \in Int /\ m2 = m - k + j /\ on_fly = o + c + m /\ on_fly' = on_fly + s - k
    BY <1>8 DEF Counted
  <2>5. o2 = o - i + s  BY <1>8
  <2> HIDE DEF o, o2, i, j, k, s, c, c2, m, m2
  <2>6. on_fly' = o2 + c2 + m2  BY <2>1, <2>2, <2>3, <2>4, <2>5
  <2>7. on_fly' = B(rqa_wr') + Cardinality(Cells(Waits')) + Len(chan')
    BY <1>7, <2>6 DEF o2, c2, m2
  <2>8. IsFiniteSet(Cells(Waits'))  BY <1>6, <1>7
  <2> QED  BY <2>7, <2>8 DEF Counted, Cells, B
<1> QED  BY <1>9

-----------------------------------------------------------------------------
(* What the busy flags do not see.                                         *)

\* A mask is not at the end of its way before its request is.
AheadOfMasks(l) ==
    /\ we_fifo[l] # << >> /\ ~we_wr[l] => rq_fifo[l] # << >>
    /\ we_wr[l] /\ weq[l] = << >> => rq_fifo[l] # << >> \/ rrq_fifo # << >>
    /\ weq[l] # << >> /\ rswe_fsm[l] = "IDLE" =>
            rq_fifo[l] # << >> \/ rrq_fifo # << >> \/ rrq_wr

\* Pairs come to the lanes one by one.
InFifoOnly(l) == op_fifo[l] # << >> /\ ~opd_wr[l]
InRegOnly(l) == opd_wr[l] /\ ~F21Vld(l)
Unheard(l) == F21Vld(l) /\ opr_fsm[l] = "IDLE"
OneByOne == \A l, m \in Lanes : /\ InFifoOnly(l) /\ InFifoOnly(m) => l = m
                                /\ InRegOnly(l) /\ InRegOnly(m) => l = m
                                /\ Unheard(l) /\ Unheard(m) => l = m

\* When a queue is empty after a move.
LEMMA MovesEmpty ==
    ASSUME NEW S, NEW q \in Seq(S), NEW r, NEW b \in BOOLEAN, NEW p \in BOOLEAN, NEW d,
           p => d \in S, Moves(q, r, b, p, d)
    PROVE  /\ p => r # << >>
           /\ q # << >> /\ ~b => r # << >>
           /\ Len(q) >= 2 => r # << >>
           /\ q = << >> /\ ~p => r = << >>
<1>1. /\ r \in Seq(S) /\ Len(q) \in Nat /\ Len(r) = Len(q) - B(b) + B(p)
      /\ Len(q) >= B(b) /\ Len(r) \in Nat
  BY MovesType
<1>2. B(b) = (IF b THEN 1 ELSE 0) /\ B(p) = IF p THEN 1 ELSE 0  BY DEF B
<1>3. (r = << >> <=> Len(r) = 0) /\ (q = << >> <=> Len(q) = 0)  BY <1>1, EmptySeq
<1> DEFINE n == Len(q)   m == Len(r)
<1>4. n \in Nat /\ m \in Nat /\ m = n - (IF b THEN 1 ELSE 0) + (IF p THEN 1 ELSE 0)
      /\ n >= (IF b THEN 1 ELSE 0)
  BY <1>1, <1>2
<1> HIDE DEF n, m
<1>5. /\ p => m # 0
      /\ n # 0 /\ ~b => m # 0
      /\ n >= 2 => m # 0
      /\ n = 0 /\ ~p => m = 0
  BY <1>4
<1> QED  BY <1>3, <1>5 DEF n, m

\* Without an error, no unit turns to dealing with one.
LEMMA UndisturbedStep ==
    ASSUME Types, NEW r \in RegisterFiles \cup {Idles}, NEW ans, NEW ready,
           ProductClock(r, ans, ready), Calm
    PROVE  Undisturbed'
<1>1. ~LsuErr /\ ~disabled_q /\ ~q_err_flush /\ fmacd # "ERRF" /\ \A l \in Lanes : rx_fsm[l] # "FLUSH"
  BY DEF Calm, Undisturbed
<1>2. ~disabled_q'
  <2>1. ~Disabled /\ ~Reinit(r)  BY <1>1 DEF Disabled, Reinit
  <2> QED  BY <1>1, <2>1 DEF ProductClock, ResponseClock
<1>3. ~q_err_flush'
  BY <1>1 DEF ProductClock, RespDistClock
<1>4. fmacd' # "ERRF"
  <2>1. fmacd \in {"IDLE", "DISP"}  BY <1>1 DEF Types, FmacTypes
  <2> QED  BY <1>1, <2>1 DEF ProductClock, FmacClock, DispatchFSM
<1>5. ASSUME NEW l \in Lanes  PROVE rx_fsm'[l] # "FLUSH"
  <2>1. rx_fsm[l] \in {"IDLE", "RECV", "STALL"}  BY <1>1 DEF Types, ReqTypes
  <2>2. rx_fsm'[l] = RxFSM(l, LsuErr)  BY DEF ProductClock, ReqDispClock
  <2> QED  BY <1>1, <2>1, <2>2 DEF RxFSM
<1> QED  BY <1>2, <1>3, <1>4, <1>5 DEF Undisturbed

\* A mask does not overtake its request.
LEMMA AheadStep ==
    ASSUME Types, NEW r \in RegisterFiles \cup {Idles}, NEW ans, NEW ready,
           ProductClock(r, ans, ready), Calm,
           NEW l \in Lanes, AheadOfMasks(l)
    PROVE  AheadOfMasks(l)'
<1> DEFINE wf == we_fifo[l]   wf2 == we_fifo'[l]   wq == weq[l]   wq2 == weq'[l]
           rq == rq_fifo[l]   rq2 == rq_fifo'[l]   room == WeRdy[l]
           loads == Loads(we_wr[l], room, wf)   reqs == Requests(l)   sched == Schedules(l)
           m == Masked(l)   t == MaskTaken(l)
           out == Loads(rrq_wr, RrqRdy, rrq_fifo)
           req == [lane |-> Scheduled, pair |-> Head(rq_fifo[Scheduled])]
<1>1. /\ Moves(wq, wq2, m, t, we_mask[l]) /\ wq \in Seq(Masks) /\ we_mask[l] \in Masks
      /\ Moves(wf, wf2, loads, reqs, WordMask(l)) /\ wf \in Seq(Masks) /\ WordMask(l) \in Masks
      /\ we_wr'[l] = StillOffers(we_wr[l], room, wf) /\ we_wr[l] \in BOOLEAN
      /\ room = (Len(wq) < WeDepth)
  BY WeMoves
<1>2. Moves(rq, rq2, sched, reqs, vaddr[l] \div 2) /\ rq \in Seq(Int) /\ vaddr[l] \div 2 \in Int
  BY RqMoves
<1>3. /\ Moves(rrq_fifo, rrq_fifo', out, SomeSchedules, req) /\ rrq_fifo \in Seq(Request)
      /\ SomeSchedules => req \in Request
  BY ScheduledMoves DEF Types, ReqTypes
<1>4. rrq_wr' = StillOffers(rrq_wr, RrqRdy, rrq_fifo)  BY DEF ProductClock, ReqDispClock
<1>5. /\ loads \in BOOLEAN /\ reqs \in BOOLEAN /\ sched \in BOOLEAN /\ m \in BOOLEAN /\ t \in BOOLEAN
      /\ out \in BOOLEAN /\ SomeSchedules \in BOOLEAN
  BY <1>1 DEF Loads, Requests, Valid, Schedules, Masked, MaskTaken, SomeSchedules
<1>6. sched => SomeSchedules  BY DEF SomeSchedules
<1>7. rswe_fsm'[l] = TakeFSM(rswe_fsm[l], wq # << >>, NearFull(rswe_fifo[l], RsdWeDepth))
  BY CalmDistClock
<1>8. rswe_fsm[l] \in {"IDLE", "RECV", "STLL"}  BY DEF Types, RespTypes
<1>9. /\ we_fifo[l] # << >> /\ ~we_wr[l] => rq # << >>
      /\ we_wr[l] /\ wq = << >> => rq # << >> \/ rrq_fifo # << >>
  BY DEF AheadOfMasks
<1>10. WeDepth \in Nat /\ WeDepth > 1  BY Constants
<1>a. t <=> we_wr[l] /\ room  BY <1>1 DEF MaskTaken
<1>b. loads <=> (~we_wr[l] \/ room) /\ wf # << >>  BY DEF Loads
<1>c. we_wr'[l] <=> wf # << >> \/ (we_wr[l] /\ ~room)  BY <1>1 DEF StillOffers
<1>d. rrq_wr' <=> rrq_fifo # << >> \/ (rrq_wr /\ ~RrqRdy)  BY <1>4 DEF StillOffers
<1>e. rswe_fsm'[l] = "IDLE" => wq = << >>
  <2> DEFINE full == NearFull(rswe_fifo[l], RsdWeDepth)   fsm == rswe_fsm[l]   fsm2 == rswe_fsm'[l]
             vld == wq # << >>
  <2>1. fsm2 = TakeFSM(fsm, vld, full) /\ fsm \in {"IDLE", "RECV", "STLL"}  BY <1>7, <1>8
  <2> HIDE DEF full, fsm, fsm2, vld
  <2>2. fsm2 = "IDLE" => ~vld  BY <2>1 DEF TakeFSM
  <2> QED  BY <2>2 DEF fsm2, vld
<1>h. Len(wq) \in Nat  BY <1>1
<1>r. room <=> Len(wq) < WeDepth  BY <1>1
<1> HIDE DEF wf, wf2, wq, wq2, rq, rq2, room, loads, reqs, sched, m, t, out, req
<1>11. /\ t => wq2 # << >>
       /\ Len(wq) >= 2 => wq2 # << >>
       /\ wq = << >> /\ ~t => wq2 = << >>
  BY <1>1, <1>5, MovesEmpty
<1>12. wf = << >> /\ ~reqs => wf2 = << >>
  <2> DEFINE d == WordMask(l)
  <2>1. /\ wf \in Seq(Masks) /\ loads \in BOOLEAN /\ reqs \in BOOLEAN /\ (reqs => d \in Masks)
        /\ Moves(wf, wf2, loads, reqs, d)
    BY <1>1, <1>5
  <2> HIDE DEF d
  <2>2. /\ reqs => wf2 # << >>
        /\ wf # << >> /\ ~loads => wf2 # << >>
        /\ Len(wf) >= 2 => wf2 # << >>
        /\ wf = << >> /\ ~reqs => wf2 = << >>
    BY <2>1, MovesEmpty
  <2> QED  BY <2>2
<1>13. /\ reqs => rq2 # << >>
       /\ rq # << >> /\ ~sched => rq2 # << >>
  BY <1>2, <1>5, MovesEmpty
<1>14. /\ SomeSchedules => rrq_fifo' # << >>
       /\ rrq_fifo # << >> /\ ~out => rrq_fifo' # << >>
  BY <1>3, <1>5, MovesEmpty
<1>15. rq # << >> => rq2 # << >> \/ rrq_fifo' # << >>
  BY <1>6, <1>13, <1>14
<1>16. wf2 # << >> /\ ~we_wr'[l] => rq2 # << >>
  BY <1>c, <1>12, <1>13
<1>17. we_wr'[l] /\ wq2 = << >> => rq2 # << >> \/ rrq_fifo' # << >>
  <2>1. we_wr[l] => wq2 # << >>
    <3>1. ~room => Len(wq) >= 2  BY <1>10, <1>h, <1>r
    <3> QED  BY <1>a, <1>11, <3>1
  <2> QED  BY <1>9, <1>c, <1>15, <2>1 DEF wf
<1>18. wq2 # << >> /\ rswe_fsm'[l] = "IDLE" => rq2 # << >> \/ rrq_fifo' # << >> \/ rrq_wr'
  <2>1. wq2 # << >> /\ rswe_fsm'[l] = "IDLE" => wq = << >> /\ we_wr[l]
    BY <1>a, <1>e, <1>11
  <2> QED  BY <1>9, <1>15, <1>d, <2>1
<1> QED  BY <1>16, <1>17, <1>18 DEF AheadOfMasks, wf2, wq2, rq2

\* What a pair does to the operand FIFO of its lane.
LEMMA PairWord ==
    ASSUME Types, NEW r \in RegisterFiles \cup {Idles}, NEW ans, NEW ready,
           ProductClock(r, ans, ready), Calm,
           NEW l \in Lanes, Taking(l), PairTaken(l) => opd[l].mask # {}
    PROVE  /\ PairTaken(l) => F21Vld(l)'
           /\ opd_wr[l] => F21Vld(l)'
           /\ ~PairTaken(l) /\ ~F21Vld(l) => ~F21Vld(l)'
<1>1. ASSUME NEW h \in {0, 1}
      PROVE  /\ PairTaken(l) /\ h \in opd[l].mask => f21'[l].word[h + 1] # << >>
             /\ Len(f21[l].word[h + 1]) >= 2 => f21'[l].word[h + 1] # << >>
             /\ f21[l].word[h + 1] = << >> /\ ~PairTaken(l) => f21'[l].word[h + 1] = << >>
  <2> DEFINE q == f21[l].word[h + 1]   q2 == f21'[l].word[h + 1]
             b == Heard(l) /\ Taken(l) % 2 = h   p == PairTaken(l) /\ h \in opd[l].mask
             d == 2 * opd[l].pair + h
  <2>1. q2 = Popped(q, b) \o Reg(p, d) /\ (PairTaken(l) => opd[l].pair \in Int)
    BY HalvesStep
  <2>2. q \in Seq(Int)  BY TakenTypes
  <2>3. b => q # << >>  BY OfferedIs DEF Heard
  <2>4. p => d \in Int
    <3> SUFFICES ASSUME p  PROVE d \in Int
      OBVIOUS
    <3>1. opd[l].pair \in Int  BY <2>1
    <3> QED  BY <3>1
  <2>5. b \in BOOLEAN /\ p \in BOOLEAN
    <3>1. F21Rdy(l) \in BOOLEAN /\ F21Vld(l) \in BOOLEAN  BY DEF F21Rdy, F21Vld
    <3>2. opd_wr[l] \in BOOLEAN  BY DEF Types, RespTypes
    <3> QED  BY <3>1, <3>2 DEF Heard, PairTaken
  <2>6. Moves(q, q2, b, p, d)  BY <2>1, <2>3 DEF Moves
  <2>p. PairTaken(l) /\ h \in opd[l].mask => p  OBVIOUS
  <2>n. ~PairTaken(l) => ~p  OBVIOUS
  <2> HIDE DEF q, q2, b, p, d
  <2>7. /\ p => q2 # << >>
        /\ Len(q) >= 2 => q2 # << >>
        /\ q = << >> /\ ~p => q2 = << >>
    BY <2>2, <2>4, <2>5, <2>6, MovesEmpty
  <2> QED  BY <2>7, <2>p, <2>n DEF q, q2
<1>2. F21Vld(l)' <=> \E h \in {0, 1} : f21'[l].word[h + 1] # << >>  BY DEF F21Vld
<1>3. PairTaken(l) => F21Vld(l)'
  <2> SUFFICES ASSUME PairTaken(l)  PROVE F21Vld(l)'
    OBVIOUS
  <2>1. opd[l].mask \subseteq {0, 1}  BY HalvesStep
  <2>2. \E h \in {0, 1} : h \in opd[l].mask  BY <2>1
  <2> QED  BY <1>1, <1>2, <2>2
<1>4. opd_wr[l] => F21Vld(l)'
  <2> SUFFICES ASSUME opd_wr[l], ~F21Rdy(l)  PROVE F21Vld(l)'
    BY <1>3 DEF PairTaken
  <2>1. PICK h \in {0, 1} : ~(Len(f21[l].word[h + 1]) < OpDepth)  BY DEF F21Rdy
  <2>2. OpDepth \in Nat /\ OpDepth > 1 /\ f21[l].word[h + 1] \in Seq(Int)
    BY Constants, TakenTypes
  <2>3. Len(f21[l].word[h + 1]) >= 2  BY <2>1, <2>2
  <2> QED  BY <1>1, <1>2, <2>3
<1>5. ~PairTaken(l) /\ ~F21Vld(l) => ~F21Vld(l)'
  BY <1>1, <1>2 DEF F21Vld
<1> QED  BY <1>3, <1>4, <1>5

\* At most one lane has its only pair in each of three places: pairs come one at a time.
LEMMA OneByOneStep ==
    ASSUME Types, NEW r \in RegisterFiles \cup {Idles}, NEW ans, NEW ready,
           ProductClock(r, ans, ready), Calm,
           OneByOne,
           \A l \in Lanes : Taking(l) /\ (PairTaken(l) => opd[l].mask # {})
    PROVE  OneByOne'
<1>1. ASSUME NEW l \in Lanes  PROVE InFifoOnly(l)' => Distributed(l)
  <2>1. /\ op_fifo'[l] = FifoRead(op_fifo[l], Loads(opd_wr[l], F21Rdy(l), op_fifo[l]))
                           \o Reg(Distributed(l), [pair |-> Head(rs_fifo).pair,
                                                   mask |-> Head(rswe_fifo[l])])
        /\ opd_wr'[l] = StillOffers(opd_wr[l], F21Rdy(l), op_fifo[l])
    BY CalmDistClock
  <2> SUFFICES ASSUME op_fifo'[l] # << >>, ~opd_wr'[l], ~Distributed(l)  PROVE FALSE
    BY DEF InFifoOnly
  <2>2. op_fifo[l] = << >>  BY <2>1 DEF StillOffers
  <2>3. FifoRead(op_fifo[l], Loads(opd_wr[l], F21Rdy(l), op_fifo[l])) = << >>
    BY <2>2 DEF FifoRead
  <2> QED  BY <2>1, <2>3 DEF Reg
<1>2. ASSUME NEW l \in Lanes  PROVE InRegOnly(l)' => InFifoOnly(l)
  <2>1. opd_wr'[l] = StillOffers(opd_wr[l], F21Rdy(l), op_fifo[l])  BY CalmDistClock
  <2>2. opd_wr[l] => F21Vld(l)'  BY PairWord
  <2> SUFFICES ASSUME opd_wr'[l], ~F21Vld(l)'  PROVE InFifoOnly(l)
    BY DEF InRegOnly
  <2>3. ~opd_wr[l]  BY <2>2
  <2> QED  BY <2>1, <2>3 DEF StillOffers, InFifoOnly
<1>3. ASSUME NEW l \in Lanes  PROVE Unheard(l)' => InRegOnly(l)
  <2>1. opr_fsm'[l] = TakeFSM(opr_fsm[l], F21Vld(l), NearFull(opr_fifo[l], FmacDepth))  BY OprMoves
  <2>2. ~PairTaken(l) /\ ~F21Vld(l) => ~F21Vld(l)'  BY PairWord
  <2> SUFFICES ASSUME F21Vld(l)', opr_fsm'[l] = "IDLE"  PROVE InRegOnly(l)
    BY DEF Unheard
  <2>3. ~F21Vld(l)
    <3>1. opr_fsm[l] \in {"IDLE", "RECV", "STLL"}  BY DEF Types, FmacTypes
    <3> QED  BY <2>1, <3>1 DEF TakeFSM
  <2> QED  BY <2>2, <2>3 DEF InRegOnly, PairTaken
<1>4. \A l, m \in Lanes : Distributed(l) /\ Distributed(m) => l = m
  BY DEF Distributed, Distributes
<1>5. ASSUME NEW l \in Lanes, NEW m \in Lanes
      PROVE  /\ InFifoOnly(l)' /\ InFifoOnly(m)' => l = m
             /\ InRegOnly(l)' /\ InRegOnly(m)' => l = m
             /\ Unheard(l)' /\ Unheard(m)' => l = m
  BY <1>1, <1>2, <1>3, <1>4 DEF OneByOne
<1> QED  BY <1>5 DEF OneByOne

-----------------------------------------------------------------------------
(* Nothing is under way.                                                   *)

CleanLane(l) ==
    /\ vlen[l] = 0 /\ rq_fifo[l] = << >> /\ mem[l] = << >>
    /\ MaskLine(l) = << >> /\ PairLine(l) = << >>
    /\ ~F21Vld(l) /\ opr_fifo[l] = << >>
Clean ==
    /\ Up = << >> /\ Back = << >> /\ Near = << >>
    /\ \A l \in Lanes : CleanLane(l)
    /\ \A i \in 1 .. PipeLength : pipe[i] = NoOp

\* The control unit waits while anything is under way.
Control ==
    /\ eu_start <=> eu_wait = 1
    /\ done => eu_wait = 0
    /\ eu_wait # 3 => Clean
    /\ \A l \in Lanes : Valid(l) => busy_q \/ rx_fsm[l] # "IDLE"

\* A register that offers nothing is an empty queue.
LEMMA RegEmpty == \A p, d : Reg(p, d) = << >> <=> ~p
BY DEF Reg

\* Two queues in a row are empty if both are.
LEMMA ConcatEmpty ==
    ASSUME NEW S, NEW p \in Seq(S), NEW q \in Seq(S)
    PROVE  p \o q = << >> <=> p = << >> /\ q = << >>
<1>1. p \o q \in Seq(S) /\ Len(p \o q) = Len(p) + Len(q)  BY ConcatProperties
<1>2. Len(p) \in Nat /\ Len(q) \in Nat  OBVIOUS
<1>3. /\ p \o q = << >> <=> Len(p \o q) = 0
      /\ p = << >> <=> Len(p) = 0
      /\ q = << >> <=> Len(q) = 0
  BY <1>1, EmptySeq
<1> DEFINE m == Len(p)   n == Len(q)
<1>4. m + n = 0 <=> m = 0 /\ n = 0
  <2> HIDE DEF m, n
  <2> QED  BY <1>2 DEF m, n
<1> QED  BY <1>1, <1>3, <1>4

\* The queue to memory is empty if each of its places is ...
LEMMA UpEmpty ==
    ASSUME Types
    PROVE  Up = << >> <=> /\ ~rqa_wr /\ rqa_fifo = << >> /\ lrq_fifo = << >>
                          /\ ~rrq_wr /\ rrq_fifo = << >>
<1> DEFINE a == Reg(rqa_wr, rqa)   b == rqa_fifo   c == lrq_fifo   d == Reg(rrq_wr, rrq)
           e == rrq_fifo   ab == a \o b   abc == ab \o c   abcd == abc \o d
<1>1. /\ a \in Seq(Request) /\ b \in Seq(Request) /\ c \in Seq(Request) /\ d \in Seq(Request)
      /\ e \in Seq(Request)
  BY RegType DEF Types, LsuTypes, ReqTypes
<1>2. (a = << >> <=> ~rqa_wr) /\ (d = << >> <=> ~rrq_wr)  BY RegEmpty
<1>3. Up = abcd \o e  BY DEF Up
<1> HIDE DEF a, d
<1>4. ab \in Seq(Request) /\ (ab = << >> <=> a = << >> /\ b = << >>)
  BY <1>1, ConcatEmpty, ConcatProperties
<1> HIDE DEF ab
<1>5. abc \in Seq(Request) /\ (abc = << >> <=> ab = << >> /\ c = << >>)
  BY <1>1, <1>4, ConcatEmpty, ConcatProperties
<1> HIDE DEF abc
<1>6. abcd \in Seq(Request) /\ (abcd = << >> <=> abc = << >> /\ d = << >>)
  BY <1>1, <1>5, ConcatEmpty, ConcatProperties
<1> HIDE DEF abcd
<1>7. abcd \o e = << >> <=> abcd = << >> /\ e = << >>
  BY <1>1, <1>6, ConcatEmpty
<1> QED  BY <1>2, <1>3, <1>4, <1>5, <1>6, <1>7

\* ... and so are the two back ...
LEMMA BackNearEmpty ==
    ASSUME Types
    PROVE  /\ Back = << >> <=> rss_fifo = << >> /\ chan = << >>
           /\ Near = << >> <=> rs_fifo = << >> /\ rrs_fifo = << >> /\ ~rrs_wr
<1> DEFINE a == rs_fifo   b == rrs_fifo   c == Reg(rrs_wr, rrs)   ab == a \o b
<1>1. /\ a \in Seq(Request) /\ b \in Seq(Request) /\ c \in Seq(Request)
      /\ rss_fifo \in Seq(Response) /\ chan \in Seq(Response)
  BY RegType DEF Types, LsuTypes, RespTypes, CtlTypes
<1>2. c = << >> <=> ~rrs_wr  BY RegEmpty
<1>3. Near = ab \o c  BY DEF Near
<1> HIDE DEF c
<1>4. ab \in Seq(Request) /\ (ab = << >> <=> a = << >> /\ b = << >>)
  BY <1>1, ConcatEmpty, ConcatProperties
<1> HIDE DEF ab
<1>5. ab \o c = << >> <=> ab = << >> /\ c = << >>
  BY <1>1, <1>4, ConcatEmpty
<1>6. rss_fifo \o chan = << >> <=> rss_fifo = << >> /\ chan = << >>
  BY <1>1, ConcatEmpty
<1> QED  BY <1>2, <1>3, <1>4, <1>5, <1>6 DEF Back

\* ... and those of the masks and pairs of a lane.
LEMMA LinesEmpty ==
    ASSUME Types, NEW l \in Lanes
    PROVE  /\ MaskLine(l) = << >> <=> /\ rswe_fifo[l] = << >> /\ weq[l] = << >> /\ ~we_wr[l]
                                      /\ we_fifo[l] = << >>
           /\ PairLine(l) = << >> <=> ~opd_wr[l] /\ op_fifo[l] = << >>
<1> DEFINE a == rswe_fifo[l]   b == weq[l]   c == Reg(we_wr[l], we_mask[l])   d == we_fifo[l]
           ab == a \o b   abc == ab \o c   u == Reg(opd_wr[l], opd[l])   v == op_fifo[l]
<1>1. /\ a \in Seq(Masks) /\ b \in Seq(Masks) /\ c \in Seq(Masks) /\ d \in Seq(Masks)
      /\ u \in Seq(Pair) /\ v \in Seq(Pair)
  BY RegType DEF Types, RespTypes, ReqTypes, CtlTypes
<1>2. (c = << >> <=> ~we_wr[l]) /\ (u = << >> <=> ~opd_wr[l])  BY RegEmpty
<1>3. MaskLine(l) = abc \o d /\ PairLine(l) = u \o v  BY DEF MaskLine, PairLine
<1> HIDE DEF a, b, c, d, u, v
<1>4. ab \in Seq(Masks) /\ (ab = << >> <=> a = << >> /\ b = << >>)
  BY <1>1, ConcatEmpty, ConcatProperties
<1> HIDE DEF ab
<1>5. abc \in Seq(Masks) /\ (abc = << >> <=> ab = << >> /\ c = << >>)
  BY <1>1, <1>4, ConcatEmpty, ConcatProperties
<1> HIDE DEF abc
<1>6. abc \o d = << >> <=> abc = << >> /\ d = << >>  BY <1>1, <1>5, ConcatEmpty
<1>7. u \o v = << >> <=> u = << >> /\ v = << >>  BY <1>1, ConcatEmpty
<1> QED  BY <1>2, <1>3, <1>4, <1>5, <1>6, <1>7 DEF a, b, d, v

\* Nothing comes of nothing.
LEMMA CleanStep ==
    ASSUME Types, Rooms, NEW r \in RegisterFiles \cup {Idles}, NEW ans \in Answers \cup {Silent},
           NEW ready, ProductClock(r, ans, ready), Calm, Clean, ~eu_start
    PROVE  Clean'
<1>1. /\ ~rqa_wr /\ rrq_fifo = << >> /\ rss_fifo = << >> /\ chan = << >> /\ rs_fifo = << >>
  BY UpEmpty, BackNearEmpty DEF Clean
<1>2. \A l \in Lanes : /\ vlen[l] = 0 /\ rq_fifo[l] = << >> /\ mem[l] = << >> /\ rswe_fifo[l] = << >>
                       /\ MaskLine(l) = << >> /\ PairLine(l) = << >> /\ ~opd_wr[l]
                       /\ ~F21Vld(l) /\ opr_fifo[l] = << >>
  BY LinesEmpty DEF Clean, CleanLane
<1>3. /\ ~SomeSchedules /\ ~Hands /\ ans = Silent /\ ~SomeDistributed
      /\ \A l \in Lanes : ~Requests(l) /\ ~Distributed(l) /\ ~PairTaken(l) /\ ~Heard(l)
  <2>1. ~SomeSchedules  BY <1>2 DEF SomeSchedules, Schedules
  <2>2. ~Hands  BY <1>1 DEF Hands
  <2>3. ~SomeDistributed /\ \A l \in Lanes : ~Distributed(l)
    BY <1>1 DEF SomeDistributed, Distributed, Distributes
  <2>4. ans = Silent
    <3>1. ans # Silent => ans.lane \in Lanes /\ mem[ans.lane] # << >>  BY <1>1, BackMoves
    <3> QED  BY <1>2, <3>1
  <2>5. \A l \in Lanes : ~Requests(l) /\ ~PairTaken(l) /\ ~Heard(l)
    BY <1>2 DEF Requests, Valid, PairTaken, Heard
  <2> QED  BY <2>1, <2>2, <2>3, <2>4, <2>5
<1>4. \A S, r2, b, d : Moves(<< >>, r2, b, FALSE, d) => r2 = << >>
  <2> SUFFICES ASSUME NEW r2, NEW b, NEW d, Moves(<< >>, r2, b, FALSE, d)  PROVE r2 = << >>
    OBVIOUS
  <2>1. r2 = Popped(<< >>, b) \o Reg(FALSE, d) /\ ~b  BY DEF Moves
  <2>2. Popped(<< >>, b) = << >> /\ Reg(FALSE, d) = << >>  BY <2>1 DEF Popped, Reg
  <2>3. << >> \o << >> = << >>
    <3>1. << >> \in Seq(Int)  OBVIOUS
    <3> QED  BY <3>1, ConcatEmptySeq
  <2> QED  BY <2>1, <2>2, <2>3
<1>5. Up' = << >>
  <2> DEFINE d == [lane |-> Scheduled, pair |-> Head(rq_fifo[Scheduled])]
  <2>1. Moves(Up, Up', rqa_wr /\ ready, SomeSchedules, d)  BY UpMoves
  <2>2. Up = << >> /\ SomeSchedules = FALSE  BY <1>3 DEF Clean, SomeSchedules
  <2> HIDE DEF d
  <2>3. Moves(<< >>, Up', rqa_wr /\ ready, FALSE, d)  BY <2>1, <2>2
  <2> QED  BY <1>4, <2>3
<1>6. Back' = << >>
  <2> DEFINE d == [lane |-> ans.lane, pair |-> Head(mem[ans.lane]), err |-> ans.err]
  <2>1. Moves(Back, Back', Hands, ans # Silent, d)  BY <1>1, BackMoves
  <2>2. Back = << >> /\ (ans # Silent) = FALSE  BY <1>3 DEF Clean
  <2> HIDE DEF d
  <2>3. Moves(<< >>, Back', Hands, FALSE, d)  BY <2>1, <2>2
  <2> QED  BY <1>4, <2>3
<1>7. Near' = << >>
  <2> DEFINE d == [lane |-> Head(rss_fifo).lane, pair |-> Head(rss_fifo).pair]
  <2>1. Moves(Near, Near', SomeDistributed, Hands, d)  BY NearMoves
  <2>2. Near = << >> /\ Hands = FALSE  BY <1>1 DEF Clean, Hands
  <2> HIDE DEF d
  <2>3. Moves(<< >>, Near', SomeDistributed, FALSE, d)  BY <2>1, <2>2
  <2> QED  BY <1>4, <2>3
<1>8. ASSUME NEW l \in Lanes  PROVE CleanLane(l)'
  <2>1. vlen'[l] = 0
    <3>1. Undisturbed  BY DEF Calm
    <3>2. vlen'[l] = IF Requests(l) THEN vlen[l] - WordsTaken(l)
                     ELSE IF eu_start /\ regs[l[1]].en THEN regs[l[1]].vl ELSE vlen[l]
      BY <3>1, AgenStep
    <3> QED  BY <1>2, <1>3, <3>2
  <2>2. Requests(l) = FALSE /\ Distributed(l) = FALSE /\ Heard(l) = FALSE
    <3>1. Requests(l) \in BOOLEAN /\ Distributed(l) \in BOOLEAN /\ Heard(l) \in BOOLEAN
      BY DEF Requests, Distributed, Distributes, Heard, Valid, F21Vld
    <3> QED  BY <1>3, <3>1
  <2>3. rq_fifo'[l] = << >>
    <3>1. Moves(rq_fifo[l], rq_fifo'[l], Schedules(l), Requests(l), vaddr[l] \div 2)  BY RqMoves
    <3>2. Moves(<< >>, rq_fifo'[l], Schedules(l), FALSE, vaddr[l] \div 2)  BY <1>2, <2>2, <3>1
    <3> QED  BY <1>4, <3>2
  <2>4. mem'[l] = << >>
    <3> DEFINE p == rqa_wr /\ ready /\ rqa.lane = l   b == ans # Silent /\ ans.lane = l
    <3>1. Moves(mem[l], mem'[l], b, p, rqa.pair)  BY MemMoves
    <3>2. p = FALSE  BY <1>1
    <3> HIDE DEF p, b
    <3>3. Moves(<< >>, mem'[l], b, FALSE, rqa.pair)  BY <1>2, <3>1, <3>2
    <3> QED  BY <1>4, <3>3
  <2>5. MaskLine(l)' = << >>
    <3>1. Moves(MaskLine(l), MaskLine(l)', Distributed(l), Requests(l), WordMask(l))
      BY MaskLineMoves
    <3>2. Moves(<< >>, MaskLine(l)', Distributed(l), FALSE, WordMask(l))  BY <1>2, <2>2, <3>1
    <3> QED  BY <1>4, <3>2
  <2>6. PairLine(l)' = << >>
    <3> DEFINE d == [pair |-> Head(rs_fifo).pair, mask |-> Head(rswe_fifo[l])]
    <3>1. Moves(PairLine(l), PairLine(l)', PairTaken(l), Distributed(l), d)  BY PairLineMoves
    <3> HIDE DEF d
    <3>2. Moves(<< >>, PairLine(l)', PairTaken(l), FALSE, d)  BY <1>2, <2>2, <3>1
    <3> QED  BY <1>4, <3>2
  <2>7. opr_fifo'[l] = << >>
    <3>1. Moves(opr_fifo[l], opr_fifo'[l], Dispatched(l[1]), Heard(l), F21Out(l))  BY OprMoves
    <3>2. Moves(<< >>, opr_fifo'[l], Dispatched(l[1]), FALSE, F21Out(l))  BY <1>2, <2>2, <3>1
    <3> QED  BY <1>4, <3>2
  <2>8. ~F21Vld(l)'
    <3>1. f21'[l] = F21Clock(l, opr_fsm[l] = "RECV")  BY CalmDistClock
    <3>2. f21[l].word[1] = << >> /\ f21[l].word[2] = << >>
      <4>1. 0 + 1 = 1 /\ 1 + 1 = 2  OBVIOUS
      <4> QED  BY <1>2, <4>1 DEF F21Vld
    <3>3. F21Clock(l, opr_fsm[l] = "RECV").word = << << >>, << >> >>
      <4>1. ~(opd_wr[l] /\ F21Rdy(l))  BY <1>2
      <4>2. \A n, rd, d : FifoNext(<< >>, n, rd, FALSE, d) = << >>  BY DEF FifoNext, FifoRead
      <4> DEFINE rd == opr_fsm[l] = "RECV"
                 half(h) == FifoNext(f21[l].word[h + 1], OpDepth, rd /\ f21[l].sel = h, h \in {},
                                     2 * opd[l].pair + h)
      <4>3. F21Clock(l, rd).word = <<half(0), half(1)>>  BY <4>1 DEF F21Clock
      <4>4. ASSUME NEW h \in {0, 1}  PROVE half(h) = << >>
        <5>1. f21[l].word[h + 1] = << >>  BY <1>2 DEF F21Vld
        <5>2. (h \in {}) = FALSE  OBVIOUS
        <5> QED  BY <4>2, <5>1, <5>2 DEF FifoNext, FifoRead
      <4> QED  BY <4>3, <4>4
    <3>4. f21'[l].word[1] = << >> /\ f21'[l].word[2] = << >>  BY <3>1, <3>3
    <3>5. \A h \in {0, 1} : h + 1 = 1 \/ h + 1 = 2  OBVIOUS
    <3> QED  BY <3>4, <3>5 DEF F21Vld
  <2> QED  BY <2>1, <2>3, <2>4, <2>5, <2>6, <2>7, <2>8 DEF CleanLane
<1>9. \A i \in 1 .. PipeLength : pipe'[i] = NoOp
  <2>1. pipe'[1] = Operation /\ \A i \in 2 .. PipeLength : pipe'[i] = pipe[i - 1]
    BY FmacTypesStep
  <2>2. Operation = NoOp
    <3>1. \A t \in Threads : ~Dispatched(t)
      <4> SUFFICES ASSUME NEW t \in Threads  PROVE ~Rdy(t)
        BY DEF Dispatched
      <4>1. <<t, Rs>> \in Lanes  BY DEF Lanes
      <4> QED  BY <1>2, <4>1 DEF Rdy
    <3> QED  BY <3>1 DEF Operation, SomeDispatched
  <2>3. \A i \in 1 .. 7 : i = 1 \/ (i \in 2 .. 7 /\ i - 1 \in 1 .. 7)  OBVIOUS
  <2> QED  BY <2>1, <2>2, <2>3, Constants DEF Clean
<1> QED  BY <1>5, <1>6, <1>7, <1>8, <1>9 DEF Clean

-----------------------------------------------------------------------------
(* Together.                                                               *)

\* The way of the words of a lane, and of all of them.
Line(l) == Asking(l) /\ Fetching(l) /\ Matching(l) /\ Taking(l)
Flow == /\ \A l \in Lanes : Line(l) /\ AheadOfMasks(l)
        /\ Counted /\ Piped /\ OneByOne /\ Undisturbed /\ Control

\* Types of the shared queues.
LEMMA LinesTypes ==
    ASSUME Types
    PROVE  Up \in Seq(Request) /\ Near \in Seq(Request) /\ Back \in Seq(Response)
BY ConcatProperties, RegType DEF Up, Near, Back, Types, LsuTypes, ReqTypes, RespTypes, CtlTypes

\* No request, response or pair of a lane is left when it has nothing to ask for and
\* no machine is busy.
LEMMA FetchedAll ==
    ASSUME Types, NEW l \in Lanes, Fetching(l), MaskLine(l) = << >>, rq_fifo[l] = << >>
    PROVE  /\ mem[l] = << >>
           /\ \A i \in 1 .. Len(Up) : Up[i].lane # l
           /\ \A i \in 1 .. Len(Back) : Back[i].lane # l
           /\ \A i \in 1 .. Len(Near) : Near[i].lane # l
<1> DEFINE x == Asked(l)   n == Len(mem[l])
<1>1. x \in Int /\ n \in Nat /\ (n = 0 => mem[l] = << >>)
  BY VectorTypes DEF Types, CtlTypes
<1>2. Len(MaskLine(l)) = 0 /\ Len(rq_fifo[l]) = 0  OBVIOUS
<1>3. Matched(l) = x /\ Asked(l) - Len(rq_fifo[l]) = x
  BY <1>1, <1>2 DEF Matched
<1>4. PICK a \in Int, c \in Int :
        Carries(Near, l, x, a) /\ Carries(Back, l, a, c - n) /\ Carries(Up, l, c, x)
  BY <1>3 DEF Fetching
<1> HIDE DEF x, n
<1>5. x <= a /\ a <= c - n /\ c <= x  BY <1>4 DEF Carries
<1>6. n = 0 /\ a = x /\ c = x  BY <1>1, <1>5
<1>7. ASSUME NEW S, \A e \in S : e.pair \in Int, NEW q \in Seq(S), Carries(q, l, x, x),
             NEW i \in 1 .. Len(q), q[i].lane = l
      PROVE  FALSE
  <2>1. x <= q[i].pair /\ q[i].pair < x  BY <1>7 DEF Carries
  <2>2. q[i].pair \in Int  BY <1>7
  <2> QED  BY <1>1, <2>1, <2>2
<1>8. Carries(Near, l, x, x) /\ Carries(Back, l, x, x) /\ Carries(Up, l, x, x)
  <2>1. c - n = x  BY <1>1, <1>6
  <2> QED  BY <1>4, <1>6, <2>1
<1>9. Up \in Seq(Request) /\ Near \in Seq(Request) /\ Back \in Seq(Response)
  BY LinesTypes
<1> QED  BY <1>1, <1>6, <1>7, <1>8, <1>9, PairsInt

\* A shared queue that holds nothing of any lane is empty.
LEMMA NobodyLeft ==
    ASSUME NEW S, NEW q \in Seq(S), \A e \in S : e.lane \in Lanes,
           \A l \in Lanes : \A i \in 1 .. Len(q) : q[i].lane # l
    PROVE  q = << >>
<1>1. SUFFICES ASSUME q # << >>  PROVE FALSE
  OBVIOUS
<1>2. 1 \in 1 .. Len(q) /\ q[1] \in S  BY <1>1
<1> QED  BY <1>2

\* A lane that was asked for everything, and has no pair left, has what it is to take.
LEMMA AskedAll ==
    ASSUME Types, NEW l \in Lanes, ~eu_start, ~Valid(l), MaskLine(l) = << >>, PairLine(l) = << >>
    PROVE  PartedWord(l) = PastWord(l)
<1>1. /\ FirstWord(l) \in Nat /\ Words(l) \in Nat /\ FirstPair(l) \in Nat /\ PastPair(l) \in Nat
      /\ PastWord(l) = FirstWord(l) + Words(l)
  BY VectorTypes DEF PastWord
<1>2. Parted(l) = PastPair(l)
  <2>1. Len(MaskLine(l)) = 0 /\ Len(PairLine(l)) = 0  OBVIOUS
  <2>2. Asked(l) = PastPair(l)  BY DEF Asked
  <2> QED  BY <1>1, <2>1, <2>2 DEF Parted, Matched
<1>3. PastPair(l) <= FirstPair(l) => Words(l) = 0
  <2>1. SUFFICES ASSUME Words(l) # 0, PastPair(l) <= FirstPair(l)  PROVE FALSE
    OBVIOUS
  <2> DEFINE f == FirstWord(l)   w == Words(l)
  <2>2. PastPair(l) = (f + w - 1) \div 2 + 1 /\ FirstPair(l) = f \div 2
    BY <1>1, <2>1 DEF PastPair, FirstPair
  <2>3. f \in Nat /\ w \in Nat /\ w # 0  BY <1>1, <2>1
  <2> HIDE DEF f, w
  <2>4. (f + w - 1) \div 2 >= f \div 2  BY <2>3
  <2>5. (f + w - 1) \div 2 \in Int /\ f \div 2 \in Int  BY <2>3
  <2> QED  BY <2>1, <2>2, <2>4, <2>5
<1>4. CASE PastPair(l) <= FirstPair(l)
  BY <1>1, <1>2, <1>3, <1>4 DEF PartedWord
<1>5. CASE ~(PastPair(l) <= FirstPair(l))
  <2>1. PastPair(l) >= PastPair(l)  BY <1>1
  <2> QED  BY <1>2, <1>5, <2>1 DEF PartedWord
<1> QED  BY <1>4, <1>5

\* When no unit says that it is busy, nothing is under way: what the busy flags leave
\* out holds nothing then.
LEMMA NothingLeft ==
    ASSUME Types, Flow, eu_wait = 3, ~ProdBusy
    PROVE  Clean
<1>1. /\ \A l \in Lanes : /\ rq_fifo[l] = << >> /\ we_fifo[l] = << >> /\ ~we_wr[l]
                          /\ rx_fsm[l] = "IDLE"
      /\ rrq_fifo = << >> /\ ~rrq_wr /\ ~busy_q
  BY DEF ProdBusy, ReqBusy, FlushBusy, InFifosBusy
<1>2. /\ \A l \in Lanes : /\ rswe_fifo[l] = << >> /\ rswe_fsm[l] = "IDLE"
                          /\ op_fifo[l] = << >> /\ ~opd_wr[l]
      /\ rs_fifo = << >>
  BY DEF ProdBusy, RespBusy, InBusy
<1>3. /\ \A l \in Lanes : opr_fifo[l] = << >> /\ opr_fsm[l] = "IDLE"
      /\ fmacd = "IDLE" /\ \A i \in 2 .. PipeLength : pipe[i] = NoOp
  BY DEF ProdBusy, FmacBusy, OprFSMsBusy
<1>4. ~eu_start /\ \A l \in Lanes : ~Valid(l)
  BY <1>1 DEF Flow, Control
<1>5. \A l \in Lanes : weq[l] = << >>
  BY <1>1, <1>2 DEF Flow, AheadOfMasks
<1>6. \A l \in Lanes : MaskLine(l) = << >> /\ PairLine(l) = << >>
  BY <1>1, <1>2, <1>5, LinesEmpty
<1>7. \A l \in Lanes : /\ mem[l] = << >>
                       /\ \A i \in 1 .. Len(Up) : Up[i].lane # l
                       /\ \A i \in 1 .. Len(Back) : Back[i].lane # l
                       /\ \A i \in 1 .. Len(Near) : Near[i].lane # l
  <2> TAKE l \in Lanes
  <2>1. Fetching(l)  BY DEF Flow, Line
  <2> QED  BY <1>1, <1>6, <2>1, FetchedAll
<1>8. Up = << >> /\ Back = << >> /\ Near = << >>
  <2>1. Up \in Seq(Request) /\ Near \in Seq(Request) /\ Back \in Seq(Response)
    BY LinesTypes
  <2>2. (\A e \in Request : e.lane \in Lanes) /\ (\A e \in Response : e.lane \in Lanes)
    BY DEF Request, Response
  <2>3. Up = << >>  BY <1>7, <2>1, <2>2, NobodyLeft
  <2>4. Near = << >>  BY <1>7, <2>1, <2>2, NobodyLeft
  <2>5. Back = << >>  BY <1>7, <2>1, <2>2, NobodyLeft
  <2> QED  BY <2>3, <2>4, <2>5
<1>9. \A i \in 1 .. PipeLength : pipe[i] = NoOp
  <2>1. pipe[1] = NoOp  BY <1>3 DEF Flow, Piped
  <2>2. \A i \in 1 .. 7 : i = 1 \/ i \in 2 .. 7  OBVIOUS
  <2> QED  BY <1>3, <2>1, <2>2, Constants
<1>10. \A l \in Lanes : F21Vld(l) <=> Multiplied(l[1]) < Words(l)
  <2> TAKE l \in Lanes
  <2>1. PartedWord(l) = PastWord(l)  BY <1>4, <1>6, AskedAll
  <2>2. /\ F21Vld(l) => Taken(l) < PartedWord(l)
        /\ ~F21Vld(l) => Taken(l) = PartedWord(l)
    BY OfferedIs DEF Flow, Line
  <2>3. /\ FirstWord(l) \in Nat /\ Words(l) \in Nat /\ Multiplied(l[1]) \in Nat
    BY VectorTypes, TakenTypes
  <2>4. Len(opr_fifo[l]) = 0  BY <1>3
  <2> DEFINE f == FirstWord(l)   w == Words(l)   m == Multiplied(l[1])
  <2>5. Taken(l) = f + m /\ PastWord(l) = f + w
    BY <2>3, <2>4 DEF Taken, PastWord
  <2> HIDE DEF f, w, m
  <2>6. (F21Vld(l) => f + m < f + w) /\ (~F21Vld(l) => f + m = f + w)
    BY <2>1, <2>2, <2>5
  <2>7. f \in Nat /\ m \in Nat /\ w \in Nat  BY <2>3 DEF f, m, w
  <2>8. F21Vld(l) <=> m < w  BY <2>6, <2>7
  <2> QED  BY <2>8 DEF m, w
<1>11. \A l \in Lanes : ~F21Vld(l)
  <2> SUFFICES ASSUME NEW l \in Lanes, F21Vld(l)  PROVE FALSE
    OBVIOUS
  <2> DEFINE t == l[1]   k == <<t, 0>>   j == <<t, 1>>
  <2>1. k \in Lanes /\ j \in Lanes /\ k[1] = t /\ j[1] = t /\ k # j  BY LaneParts
  <2>2. Words(k) = Words(l) /\ Words(j) = Words(l)  BY <2>1 DEF Words
  <2>3. Multiplied(t) < Words(l)  BY <1>10
  <2> HIDE DEF k, j
  <2>4. F21Vld(k) /\ F21Vld(j)  BY <1>10, <2>1, <2>2, <2>3
  <2>5. Unheard(k) /\ Unheard(j)  BY <1>3, <2>1, <2>4 DEF Unheard
  <2> QED  BY <2>1, <2>5 DEF Flow, OneByOne
<1>12. \A l \in Lanes : vlen[l] = 0
  BY <1>4, VectorTypes DEF Valid
<1> QED  BY <1>1, <1>3, <1>6, <1>7, <1>8, <1>9, <1>11, <1>12 DEF Clean, CleanLane

\* The engine is started, and reports the end, when nothing is under way.
LEMMA ControlStep ==
    ASSUME Types, Rooms, Flow, Calm, NEW r \in RegisterFiles \cup {Idles},
           NEW ans \in Answers \cup {Silent},
           NEW ready, ProductClock(r, ans, ready)
    PROVE  Control' /\ (Starts(r) => Clean' /\ eu_start')
<1>1. /\ Starts(r) => eu_wait = 0
      /\ eu_start' = Starts(r)
      /\ eu_wait' = CASE eu_wait = 0 -> IF Starts(r) THEN 1 ELSE 0
                      [] eu_wait = 1 -> 3
                      [] eu_wait = 3 -> IF ProdBusy THEN 3 ELSE 0
      /\ done' = (eu_wait = 3 /\ ~ProdBusy)
      /\ busy_q' = eu_start
  BY DEF ProductClock, EcuClock
<1>2. eu_wait \in {0, 1, 3} /\ (eu_start <=> eu_wait = 1) /\ (eu_wait # 3 => Clean)
  BY DEF Types, CtlTypes, Flow, Control
<1>3. eu_start' <=> eu_wait' = 1
  <2>1. CASE eu_wait = 0  BY <1>1, <2>1
  <2>2. CASE eu_wait # 0  BY <1>1, <1>2, <2>2
  <2> QED  BY <2>1, <2>2
<1>4. done' => eu_wait' = 0
  <2>1. SUFFICES ASSUME done'  PROVE eu_wait' = 0
    OBVIOUS
  <2>2. eu_wait = 3 /\ ~ProdBusy  BY <1>1, <2>1
  <2> QED  BY <1>1, <2>2
<1>5. eu_wait' # 3 => Clean /\ ~eu_start
  <2> SUFFICES ASSUME eu_wait' # 3  PROVE Clean /\ ~eu_start
    OBVIOUS
  <2>1. CASE eu_wait = 0  BY <1>2, <2>1
  <2>2. CASE eu_wait = 3
    <3>1. ~ProdBusy  BY <1>1, <2>2
    <3> QED  BY <1>2, <2>2, <3>1, NothingLeft
  <2> QED  BY <1>1, <1>2, <2>1, <2>2
<1>6. eu_wait' # 3 => Clean'
  BY <1>5, CleanStep
<1>7. ASSUME NEW l \in Lanes, Valid(l)'  PROVE busy_q' \/ rx_fsm'[l] # "IDLE"
  <2>1. CASE Starts(r)
    <3>1. eu_wait' = 1  BY <1>1, <2>1
    <3>2. vlen'[l] = 0  BY <1>6, <3>1 DEF Clean, CleanLane
    <3> QED  BY <1>7, <3>2 DEF Valid
  <2>2. CASE ~Starts(r)
    <3>1. Asking(l) /\ Undisturbed  BY DEF Flow, Line
    <3>2. Valid(l) \/ eu_start  BY <1>7, <2>2, <3>1, AskingStep
    <3>3. CASE eu_start  BY <1>1, <3>3
    <3>4. CASE Valid(l)
      <4>1. rx_fsm[l] \in {"IDLE", "RECV", "STALL"} /\ ~LsuErr
        BY DEF Types, ReqTypes, Calm, Undisturbed
      <4>2. rx_fsm'[l] = RxFSM(l, LsuErr)  BY DEF ProductClock, ReqDispClock
      <4> QED  BY <3>4, <4>1, <4>2 DEF RxFSM
    <3> QED  BY <3>2, <3>3, <3>4
  <2> QED  BY <2>1, <2>2
<1>8. Starts(r) => Clean' /\ eu_start'
  <2>1. Starts(r) => eu_wait' = 1  BY <1>1
  <2> QED  BY <1>1, <1>6, <2>1
<1> QED  BY <1>3, <1>4, <1>6, <1>7, <1>8 DEF Control

\* A product begins with empty lines and empty accumulators.
LEMMA FreshLines ==
    Types /\ Clean /\ (\A t \in Threads : acc[t] = << >>)
          /\ (\A l \in Lanes : Asked(l) = FirstPair(l))
    => \A l \in Lanes : Line(l)
<1> SUFFICES ASSUME Types, Clean, \A t \in Threads : acc[t] = << >>,
                    NEW l \in Lanes, Asked(l) = FirstPair(l)
             PROVE  Line(l)
  OBVIOUS
<1>1. /\ FirstWord(l) \in Nat /\ FirstPair(l) \in Nat
  BY VectorTypes
<1>2. /\ vlen[l] = 0 /\ rq_fifo[l] = << >> /\ mem[l] = << >>
      /\ MaskLine(l) = << >> /\ PairLine(l) = << >> /\ ~F21Vld(l) /\ opr_fifo[l] = << >>
      /\ Up = << >> /\ Back = << >> /\ Near = << >>
  BY DEF Clean, CleanLane
<1>3. Len(<< >>) = 0  OBVIOUS
<1>4. Matched(l) = FirstPair(l) /\ Parted(l) = FirstPair(l)
  BY <1>1, <1>2, <1>3 DEF Matched, Parted
<1>5. Asking(l)  BY <1>2 DEF Asking, Valid
<1>6. \A x : Run(<< >>, x)  BY DEF Run
<1>7. Fetching(l)
  <2> DEFINE x == FirstPair(l)
  <2>1. x \in Int /\ Matched(l) = x /\ x - Len(mem[l]) = x /\ Asked(l) - Len(rq_fifo[l]) = x
    BY <1>1, <1>2, <1>3, <1>4
  <2> HIDE DEF x
  <2>2. Carries(<< >>, l, x, x)  BY <2>1, CarriesNothing
  <2> QED  BY <1>2, <1>6, <2>1, <2>2 DEF Fetching
<1>8. Matching(l)
  <2>1. \A f, x : Follows(<< >>, f, x)  BY DEF Follows
  <2> QED  BY <1>1, <1>2, <1>4, <2>1 DEF Matching
<1>9. Taking(l)
  <2>1. ~InPipe(l[1])  BY DEF InPipe, OpOf, Clean
  <2>2. Multiplied(l[1]) = 0
    <3>1. acc[l[1]] = << >>  BY LaneParts
    <3>2. B(InPipe(l[1])) = 0  BY <2>1 DEF B
    <3> QED  BY <1>3, <3>1, <3>2 DEF Multiplied
  <2>3. Taken(l) = FirstWord(l)  BY <1>1, <1>2, <1>3, <2>2 DEF Taken
  <2>4. PartedWord(l) = FirstWord(l)  BY <1>1, <1>4 DEF PartedWord
  <2>5. ASSUME NEW h \in {0, 1}  PROVE Half(f21[l].word[h + 1], h, Taken(l), PartedWord(l))
    <3>1. f21[l].word[h + 1] = << >>  BY <1>2 DEF F21Vld
    <3>2. Half(<< >>, h, FirstWord(l), FirstWord(l))
      BY <1>1 DEF Half
    <3> QED  BY <2>3, <2>4, <3>1, <3>2
  <2> QED  BY <1>2, <1>6, <2>5 DEF Taking
<1> QED  BY <1>5, <1>7, <1>8, <1>9 DEF Line

\* A lane without pairs has them nowhere.
LEMMA NoPairs ==
    Types => \A l \in Lanes : PairLine(l) = << >> => ~opd_wr[l] /\ op_fifo[l] = << >>
BY LinesEmpty

\* A start clears the sums and finds the pipe empty.
LEMMA PipedStart ==
    ASSUME Types, NEW r \in RegisterFiles \cup {Idles}, NEW ans, NEW ready,
           ProductClock(r, ans, ready), Calm,
           Starts(r), Clean', Piped
    PROVE  Piped' /\ \A t \in Threads : acc'[t] = << >>
<1>1. \A t \in Threads : acc'[t] = << >>
  BY DEF ProductClock, FmacClock
<1>2. \A i \in 1 .. PipeLength : pipe'[i] = NoOp  BY DEF Clean
<1>3. (fmacd' = "IDLE" => slot' = 0) /\ (pipe'[1] # NoOp => fmacd' = "DISP")
  BY TurnStep DEF Piped
<1>4. PipeRight'  BY <1>2 DEF PipeRight, OpOf
<1>5. ASSUME NEW t \in Threads  PROVE acc'[t] = PairsTo(t, Len(acc[t]))'
  <2>1. acc'[t] = << >> /\ Len(acc'[t]) = 0  BY <1>1
  <2>2. \A f : [k \in 1 .. 0 |-> <<regs'[t].rs + k - 1, regs'[t].rt + k - 1>>] = << >>
    OBVIOUS
  <2> QED  BY <2>1, <2>2 DEF PairsTo
<1> QED  BY <1>1, <1>3, <1>4, <1>5 DEF Piped

\* Between two starts, every lane keeps its order and the multiplier its pairs.
LEMMA LinesStep ==
    ASSUME Types, Rooms, Flow, Calm, NEW r \in RegisterFiles \cup {Idles},
           NEW ans \in Answers \cup {Silent},
           NEW ready, ProductClock(r, ans, ready), ~Starts(r)
    PROVE  /\ \A l \in Lanes : Line(l)'
           /\ Piped'
           /\ \A l \in Lanes : PairTaken(l) => opd[l].mask # {}
<1>1. chan # << >> => on_fly > 0  BY CountedMeans DEF Flow
<1>2. Undisturbed  BY DEF Calm
<1>3. Piped' /\ \A t \in Threads : Multiplied(t)' = Multiplied(t) + B(Dispatched(t))
  <2>1. \A l \in Lanes : Run(opr_fifo[l], FirstWord(l) + Multiplied(l[1]))
    BY DEF Flow, Line, Taking
  <2>2. Piped  BY DEF Flow
  <2> QED  BY <2>1, <2>2, PipedStep
<1>4. ASSUME NEW l \in Lanes
      PROVE  Line(l)' /\ (PairTaken(l) => opd[l].mask # {})
  <2>1. Asking(l) /\ Fetching(l) /\ Matching(l) /\ Taking(l)  BY DEF Flow, Line
  <2>2. Asking(l)'  BY <1>2, <2>1, AskingStep
  <2>3. /\ Matched(l)' = Matched(l) + B(Distributed(l)) => Fetching(l)'
        /\ Distributed(l) => Head(rs_fifo).pair = Matched(l)
    BY <1>1, <2>1, FetchingStep
  <2>4. /\ Matching(l)'
        /\ Matched(l)' = Matched(l) + B(Distributed(l))
        /\ Parted(l)' = Parted(l) + B(PairTaken(l))
        /\ PairTaken(l) => /\ opd[l] = [pair |-> Parted(l), mask |-> MaskOf(l, Parted(l))]
                           /\ Parted(l) < Asked(l)
    BY <2>1, <2>3, MatchingStep
  <2>5. FirstPair(l) <= Parted(l)  BY <2>1 DEF Matching
  <2>6. Multiplied(l[1])' = Multiplied(l[1]) + B(Dispatched(l[1]))  BY <1>3, LaneParts
  <2>7. Taking(l)'  BY <2>1, <2>4, <2>5, <2>6, TakingStep
  <2>8. PairTaken(l) => opd[l].mask # {}
    <3> SUFFICES ASSUME PairTaken(l)  PROVE opd[l].mask # {}
      OBVIOUS
    <3>1. Parted(l) < PastPair(l)
      <4>1. Asked(l) <= PastPair(l)  BY <2>1, AskedBounds
      <4> QED  BY <2>4, <4>1, VectorTypes
    <3> DEFINE z == WordBefore(FirstWord(l), PastWord(l), FirstPair(l), PastPair(l), Parted(l) + 1)
    <3>2. z = WordBefore(FirstWord(l), PastWord(l), FirstPair(l), PastPair(l), Parted(l) + 1)
      OBVIOUS
    <3> HIDE DEF z
    <3>3. MaskOf(l, Parted(l)) # {}  BY <2>5, <3>1, <3>2, PartedWords
    <3> QED  BY <2>4, <3>3
  <2> QED  BY <2>2, <2>3, <2>4, <2>7, <2>8 DEF Line
<1> QED  BY <1>3, <1>4

\* Every edge without an error keeps the flow.
LEMMA FlowStep ==
    ASSUME Types, Rooms, Flow, Calm, NEW r \in RegisterFiles \cup {Idles},
           NEW ans \in Answers \cup {Silent},
           NEW ready, ProductClock(r, ans, ready), Types'
    PROVE  Flow'
<1>1. Control' /\ (Starts(r) => Clean' /\ eu_start')  BY ControlStep
<1>2. Undisturbed'  BY UndisturbedStep
<1>3. Counted'  BY CountedStep DEF Flow
<1>4. \A l \in Lanes : AheadOfMasks(l)'  BY AheadStep DEF Flow
<1>5. CASE Starts(r)
  <2>1. Piped' /\ \A t \in Threads : acc'[t] = << >>
    BY <1>1, <1>5, PipedStart DEF Flow
  <2>2. OneByOne'
    <3>1. \A l \in Lanes : ~F21Vld(l)' /\ PairLine(l)' = << >>  BY <1>1, <1>5 DEF Clean, CleanLane
    <3>2. (\A l \in Lanes : PairLine(l) = << >> => ~opd_wr[l] /\ op_fifo[l] = << >>)'
      BY NoPairs, PTL
    <3>3. \A l \in Lanes : ~opd_wr'[l] /\ op_fifo'[l] = << >>  BY <3>1, <3>2
    <3> QED  BY <3>1, <3>3 DEF OneByOne, InFifoOnly, InRegOnly, Unheard
  <2>3. \A l \in Lanes : Asked(l)' = FirstPair(l)'  BY <1>1, <1>5 DEF Asked
  <2>4. \A l \in Lanes : Line(l)'
    <3>1. (Types /\ Clean /\ (\A t \in Threads : acc[t] = << >>)
              /\ (\A l \in Lanes : Asked(l) = FirstPair(l)))'
      BY <1>1, <1>5, <2>1, <2>3
    <3>2. (\A l \in Lanes : Line(l))'  BY <3>1, FreshLines, PTL
    <3> QED  BY <3>2
  <2> QED  BY <1>1, <1>2, <1>3, <1>4, <2>1, <2>2, <2>4 DEF Flow
<1>6. CASE ~Starts(r)
  <2>1. /\ \A l \in Lanes : Line(l)'
        /\ Piped'
        /\ \A l \in Lanes : PairTaken(l) => opd[l].mask # {}
    BY <1>6, LinesStep
  <2>2. OneByOne'
    <3>1. \A l \in Lanes : Taking(l)  BY DEF Flow, Line
    <3> QED  BY <2>1, <3>1, OneByOneStep DEF Flow
  <2> QED  BY <1>1, <1>2, <1>3, <1>4, <2>1, <2>2 DEF Flow
<1> QED  BY <1>5, <1>6

\* Nothing flows at first.
LEMMA FlowInit == ProductInit => Flow
<1> SUFFICES ASSUME ProductInit  PROVE Flow
  OBVIOUS
<1>1. Types  BY TypesInit
<1>2. Clean
  <2>1. Up = << >> /\ Back = << >> /\ Near = << >>
    <3>1. /\ ~rqa_wr /\ rqa_fifo = << >> /\ lrq_fifo = << >> /\ ~rrq_wr /\ rrq_fifo = << >>
          /\ rss_fifo = << >> /\ chan = << >> /\ rs_fifo = << >> /\ rrs_fifo = << >> /\ ~rrs_wr
      BY DEF ProductInit, ReqInit, RespInit, LsuInit
    <3> QED  BY <1>1, <3>1, UpEmpty, BackNearEmpty
  <2>2. ASSUME NEW l \in Lanes  PROVE CleanLane(l)
    <3>1. /\ vlen[l] = 0 /\ rq_fifo[l] = << >> /\ mem[l] = << >> /\ opr_fifo[l] = << >>
          /\ rswe_fifo[l] = << >> /\ weq[l] = << >> /\ ~we_wr[l] /\ we_fifo[l] = << >>
          /\ ~opd_wr[l] /\ op_fifo[l] = << >>
      BY DEF ProductInit, ReqInit, RespInit, LsuInit, FmacInit
    <3>2. ~F21Vld(l)
      <4>1. f21[l].word = << << >>, << >> >>  BY DEF ProductInit, RespInit
      <4>2. \A h \in {0, 1} : f21[l].word[h + 1] = << >>
        <5>1. f21[l].word[1] = << >> /\ f21[l].word[2] = << >>  BY <4>1
        <5>2. \A h \in {0, 1} : h + 1 = 1 \/ h + 1 = 2  OBVIOUS
        <5> QED  BY <5>1, <5>2
      <4> QED  BY <4>2 DEF F21Vld
    <3> QED  BY <1>1, <3>1, <3>2, LinesEmpty DEF CleanLane
  <2>3. \A i \in 1 .. PipeLength : pipe[i] = NoOp  BY DEF ProductInit, FmacInit
  <2> QED  BY <2>1, <2>2, <2>3 DEF Clean
<1>3. ASSUME NEW l \in Lanes  PROVE Asked(l) = FirstPair(l)
  <2>1. ~eu_start /\ ~Valid(l)
    BY DEF ProductInit, ReqInit, Valid
  <2>2. Words(l) = 0
    <3>1. l[1] \in Threads  BY LaneParts
    <3>2. regs[l[1]].en = FALSE  BY <3>1 DEF ProductInit, Off
    <3> QED  BY <3>2 DEF Words
  <2> QED  BY <2>1, <2>2 DEF Asked, PastPair
<1>4. \A t \in Threads : acc[t] = << >>  BY DEF ProductInit, FmacInit
<1>5. \A l \in Lanes : Line(l)
  BY <1>1, <1>2, <1>3, <1>4, FreshLines
<1>6. \A l \in Lanes : AheadOfMasks(l)
  BY DEF AheadOfMasks, ProductInit, ReqInit
<1>7. Counted
  <2>1. Cells(Waits) = {}
    <3>1. \A l \in Lanes : Waits[l] = 0  BY DEF Waits, ProductInit
    <3>2. \A c \in Lanes \X Nat : c[1] \in Lanes  OBVIOUS
    <3>3. \A c \in Lanes \X Nat : ~(c[2] \in 1 .. Waits[c[1]])  BY <3>1, <3>2
    <3> QED  BY <3>3 DEF Cells
  <2>2. on_fly = 0 /\ ~rqa_wr /\ Len(chan) = 0  BY DEF ProductInit, LsuInit
  <2>3. B(rqa_wr) = 0  BY <2>2 DEF B
  <2> QED  BY <2>1, <2>2, <2>3, FS_EmptySet DEF Counted
<1>8. Piped
  <2>1. slot = 0  BY DEF ProductInit, FmacInit
  <2>2. \A i \in 1 .. PipeLength : pipe[i] = NoOp  BY <1>2 DEF Clean
  <2>3. PipeRight  BY <2>2 DEF PipeRight, OpOf
  <2>4. ASSUME NEW t \in Threads  PROVE acc[t] = PairsTo(t, Len(acc[t]))
    <3>1. acc[t] = << >> /\ Len(acc[t]) = 0  BY <1>4
    <3> QED  BY <3>1 DEF PairsTo
  <2>5. pipe[1] = NoOp  BY <2>2, Constants
  <2> QED  BY <2>1, <2>3, <2>4, <2>5 DEF Piped
<1>9. OneByOne
  <2>1. \A l \in Lanes : ~opd_wr[l] /\ op_fifo[l] = << >>  BY <1>1, <1>2, NoPairs DEF Clean, CleanLane
  <2>2. \A l \in Lanes : ~F21Vld(l)  BY <1>2 DEF Clean, CleanLane
  <2> QED  BY <2>1, <2>2 DEF OneByOne, InFifoOnly, InRegOnly, Unheard
<1>10. Undisturbed
  BY DEF Undisturbed, ProductInit, LsuInit, RespInit, FmacInit, ReqInit
<1>11. Control
  <2>1. ~eu_start /\ eu_wait = 0 /\ ~done /\ \A l \in Lanes : ~Valid(l)
    BY DEF ProductInit, ReqInit, Valid
  <2> QED  BY <1>2, <2>1 DEF Control
<1> QED  BY <1>5, <1>6, <1>7, <1>8, <1>9, <1>10, <1>11 DEF Flow

\* A stuttering step keeps the flow.
LEMMA FlowStutter ==
    ASSUME Flow, UNCHANGED productVars  PROVE Flow'
<1>1. /\ UNCHANGED <<vaddr, vlen, rx_fsm, rq_fifo, we_fifo, sch, rrq_fifo, rrq_wr, rrq, we_wr, we_mask>>
      /\ UNCHANGED <<rswe_fsm, rswe_fifo, rs_fsm, rs_fifo, q_err_flush, op_fifo, op_wp,
                     opd_wr, opd, f21>>
      /\ UNCHANGED <<opr_fsm, opr_fifo, fmacd, slot, pipe, acc>>
      /\ UNCHANGED <<lrq_fifo, arb, rqa_fifo, rqa_wr, rqa, on_fly, rss_rd, rss_fifo,
                     rrs_wr, rrs, rrs_fifo, disabled_q>>
      /\ UNCHANGED <<eu_start, eu_wait, done, busy_q, weq, regs, mem, chan>>
  BY DEF productVars, reqVars, respVars, fmacVars, lsuVars, ctlVars, memVars
<1>2. Up' = Up /\ Back' = Back /\ Near' = Near
  BY <1>1 DEF Up, Back, Near
<1>3. \A l : /\ MaskLine(l)' = MaskLine(l) /\ PairLine(l)' = PairLine(l)
             /\ FirstWord(l)' = FirstWord(l) /\ Words(l)' = Words(l) /\ PastWord(l)' = PastWord(l)
             /\ FirstPair(l)' = FirstPair(l) /\ PastPair(l)' = PastPair(l)
             /\ MaskAt(l)' = MaskAt(l) /\ PairAt(l)' = PairAt(l)
  BY <1>1, RegsSame, AtSame DEF MaskLine, PairLine
<1>4. \A l : /\ (Valid(l)' <=> Valid(l)) /\ (F21Vld(l)' <=> F21Vld(l))
  BY <1>1 DEF Valid, F21Vld
<1>5. \A l : Asked(l)' = Asked(l)
  BY <1>1, <1>3, <1>4 DEF Asked
<1>6. \A l : /\ Matched(l)' = Matched(l) /\ Parted(l)' = Parted(l)
  BY <1>3, <1>5 DEF Matched, Parted
<1>7. \A l : PartedWord(l)' = PartedWord(l)
  BY <1>3, <1>6 DEF PartedWord
<1>8. \A t : Multiplied(t)' = Multiplied(t)
  BY <1>1 DEF Multiplied, InPipe, OpOf
<1>9. \A l : Taken(l)' = Taken(l)
  BY <1>1, <1>3, <1>8 DEF Taken
<1>10. ASSUME NEW l \in Lanes  PROVE Line(l)'
  <2>1. Asking(l) /\ Fetching(l) /\ Matching(l) /\ Taking(l)  BY DEF Flow, Line
  <2>2. Asking(l)'  BY <1>1, <1>3, <1>4, <2>1 DEF Asking
  <2>3. Fetching(l)'
    <3>1. PICK a \in Int, c \in Int :
            /\ Carries(Near, l, Matched(l), a)
            /\ Carries(Back, l, a, c - Len(mem[l])) /\ Run(mem[l], c - Len(mem[l]))
            /\ Carries(Up, l, c, Asked(l) - Len(rq_fifo[l]))
            /\ Run(rq_fifo[l], Asked(l) - Len(rq_fifo[l]))
      BY <2>1 DEF Fetching
    <3>2. /\ Carries(Near', l, Matched(l)', a)
          /\ Carries(Back', l, a, c - Len(mem'[l])) /\ Run(mem'[l], c - Len(mem'[l]))
          /\ Carries(Up', l, c, Asked(l)' - Len(rq_fifo'[l]))
          /\ Run(rq_fifo'[l], Asked(l)' - Len(rq_fifo'[l]))
      BY <1>1, <1>2, <1>5, <1>6, <3>1
    <3> QED  BY <3>2 DEF Fetching
  <2>4. Matching(l)'
    <3>1. /\ Follows(MaskLine(l)', MaskAt(l)', Matched(l)')
          /\ Follows(PairLine(l)', PairAt(l)', Parted(l)')
          /\ FirstPair(l)' <= Parted(l)'
      BY <1>3, <1>6, <2>1 DEF Matching
    <3> QED  BY <3>1 DEF Matching
  <2>5. Taking(l)'
    <3>1. /\ \A h \in {0, 1} : Half(f21'[l].word[h + 1], h, Taken(l)', PartedWord(l)')
          /\ F21Vld(l)' => f21'[l].sel = Taken(l)' % 2
          /\ Run(opr_fifo'[l], FirstWord(l)' + Multiplied(l[1])')
      BY <1>1, <1>3, <1>4, <1>7, <1>8, <1>9, <2>1 DEF Taking
    <3> QED  BY <3>1 DEF Taking
  <2> QED  BY <2>2, <2>3, <2>4, <2>5 DEF Line
<1>11. ASSUME NEW l \in Lanes  PROVE AheadOfMasks(l)'
  BY <1>1 DEF Flow, AheadOfMasks
<1>12. Counted'
  <2>1. Waits' = Waits  BY <1>1 DEF Waits
  <2> QED  BY <1>1, <2>1 DEF Flow, Counted, Cells, B
<1>13. Piped'
  <2>1. \A t, n : PairsTo(t, n)' = PairsTo(t, n)  BY <1>1 DEF PairsTo
  <2>2. \A t, i : Turn(t)' = Turn(t) /\ (OpOf(i, t)' <=> OpOf(i, t))  BY <1>1 DEF Turn, OpOf
  <2>3. PipeRight'  BY <1>1, <2>1, <2>2 DEF Flow, Piped, PipeRight
  <2>4. ASSUME NEW t \in Threads  PROVE acc'[t] = PairsTo(t, Len(acc[t]))'
    BY <1>1 DEF Flow, Piped, PairsTo
  <2> QED  BY <1>1, <2>3, <2>4 DEF Flow, Piped
<1>14. OneByOne'
  <2>1. \A l : /\ InFifoOnly(l)' <=> InFifoOnly(l)
               /\ InRegOnly(l)' <=> InRegOnly(l)
               /\ Unheard(l)' <=> Unheard(l)
    BY <1>1, <1>4 DEF InFifoOnly, InRegOnly, Unheard
  <2> QED  BY <2>1 DEF Flow, OneByOne
<1>15. Undisturbed'  BY <1>1 DEF Flow, Undisturbed
<1>16. Control'
  <2>1. Clean => Clean'
    <3>1. \A l \in Lanes : CleanLane(l) => CleanLane(l)'  BY <1>1, <1>3, <1>4 DEF CleanLane
    <3> QED  BY <1>1, <1>2, <3>1 DEF Clean
  <2> QED  BY <1>1, <1>4, <2>1 DEF Flow, Control
<1> QED  BY <1>10, <1>11, <1>12, <1>13, <1>14, <1>15, <1>16 DEF Flow

\* How to see that a sequence begins another.
LEMMA PrefixOf ==
    ASSUME NEW S, NEW s \in Seq(S), NEW t \in Seq(S), Len(s) <= Len(t),
           \A i \in 1 .. Len(s) : s[i] = t[i]
    PROVE  IsPrefix(s, t)
<1> DEFINE n == Len(s)   u == SubSeq(s, 1, n)   v == SubSeq(t, 1, n)
<1>1. n \in Nat /\ Len(t) \in Nat /\ n <= Len(t)  OBVIOUS
<1>2. u \in Seq(S) /\ Len(u) = n /\ \A i \in 1 .. n : u[i] = s[i]
  BY <1>1, SubSeqProperties
<1>3. v \in Seq(S) /\ Len(v) = n /\ \A i \in 1 .. n : v[i] = t[i]
  BY <1>1, SubSeqProperties
<1>4. u = v
  <2> HIDE DEF u, v
  <2> QED  BY <1>2, <1>3, SeqEqual
<1> QED  BY <1>1, <1>4 DEF IsPrefix

\* No lane takes a word that its vector does not have.
LEMMA WordsBound ==
    ASSUME Types, NEW l \in Lanes
    PROVE  PartedWord(l) <= PastWord(l)
<1> DEFINE f == FirstWord(l)   w == Words(l)   p == Parted(l)   x == FirstPair(l)   y == PastPair(l)
<1>1. f \in Nat /\ w \in Nat /\ p \in Int /\ PastWord(l) = f + w
  BY VectorTypes DEF PastWord
<1>2. x = f \div 2 /\ y = IF w = 0 THEN x ELSE (f + w - 1) \div 2 + 1
  BY <1>1 DEF FirstPair, PastPair
<1>3. PartedWord(l) = IF p <= x THEN f ELSE IF p >= y THEN f + w ELSE 2 * p
  BY <1>1 DEF PartedWord
<1> HIDE DEF f, w, p, x, y
<1>4. ASSUME ~(p <= x), ~(p >= y)  PROVE 2 * p <= f + w
  <2>1. x \in Int /\ y \in Int  BY <1>1, <1>2
  <2>2. w # 0  BY <1>1, <1>2, <1>4, <2>1
  <2>3. y = (f + w - 1) \div 2 + 1  BY <1>2, <2>2
  <2> DEFINE g == f + w - 1
  <2>4. g \in Nat /\ g \div 2 \in Nat /\ 2 * (g \div 2) <= g  BY <1>1, <2>2
  <2>5. p <= g \div 2  BY <1>1, <1>4, <2>1, <2>3, <2>4
  <2>6. f + w = g + 1  BY <1>1
  <2> HIDE DEF g
  <2> QED  BY <1>1, <2>4, <2>5, <2>6
<1> QED  BY <1>1, <1>3, <1>4

\* An accumulator holds the first pairs of words of the two vectors.
LEMMA SumsInOrder ==
    ASSUME Types, Flow, NEW t \in Threads
    PROVE  LET l == <<t, Rs>>
           IN  /\ l \in Lanes /\ l[1] = t
               /\ acc[t] = PairsTo(t, Len(acc[t])) /\ Len(acc[t]) \in Nat
               /\ Len(acc[t]) <= Words(l)
               /\ Wanted(t) = PairsTo(t, Words(l)) /\ Words(l) \in Nat
<1> DEFINE l == <<t, Rs>>
<1>1. l \in Lanes /\ l[1] = t  BY DEF Lanes
<1> HIDE DEF l
<1>2. acc[t] = PairsTo(t, Len(acc[t]))  BY DEF Flow, Piped
<1>3. Len(acc[t]) \in Nat  BY DEF Types, FmacTypes, Operands
<1>4. Words(l) \in Nat /\ FirstWord(l) \in Nat /\ Multiplied(t) \in Nat /\ Len(opr_fifo[l]) \in Nat
      /\ Taken(l) \in Int /\ PartedWord(l) \in Int
  BY <1>1, VectorTypes, TakenTypes
<1>5. Len(acc[t]) <= Words(l)
  <2>1. Taken(l) <= PartedWord(l)
    <3>1. Half(f21[l].word[0 + 1], 0, Taken(l), PartedWord(l))  BY <1>1 DEF Flow, Line, Taking
    <3> QED  BY <3>1 DEF Half
  <2>2. PartedWord(l) <= FirstWord(l) + Words(l)  BY <1>1, WordsBound DEF PastWord
  <2>3. Taken(l) = FirstWord(l) + Multiplied(t) + Len(opr_fifo[l])  BY <1>1 DEF Taken
  <2>4. Multiplied(t) >= Len(acc[t])
    <3>1. B(InPipe(t)) \in {0, 1}  BY DEF B
    <3> QED  BY <1>3, <3>1 DEF Multiplied
  <2> DEFINE f == FirstWord(l)   w == Words(l)   m == Multiplied(t)   n == Len(opr_fifo[l])
             a == Len(acc[t])   x == Taken(l)   y == PartedWord(l)
  <2>5. /\ f \in Nat /\ w \in Nat /\ m \in Nat /\ n \in Nat /\ a \in Nat /\ x \in Int /\ y \in Int
        /\ x <= y /\ y <= f + w /\ x = f + m + n /\ m >= a
    BY <1>3, <1>4, <2>1, <2>2, <2>3, <2>4
  <2> HIDE DEF f, w, m, n, a, x, y
  <2>6. a <= w  BY <2>5
  <2> QED  BY <2>6 DEF a, w
<1>6. Wanted(t) = PairsTo(t, Words(l))
  <2>1. regs[t].en \in BOOLEAN /\ Words(l) = IF regs[t].en THEN regs[t].vl ELSE 0
    BY <1>1 DEF Words, Types, CtlTypes, RegisterFiles
  <2>2. CASE regs[t].en  BY <2>1, <2>2 DEF Wanted, PairsTo
  <2>3. CASE ~regs[t].en
    <3>1. Words(l) = 0 /\ Wanted(t) = << >>  BY <2>1, <2>3 DEF Wanted
    <3>2. PairsTo(t, 0) = << >>  BY DEF PairsTo
    <3> QED  BY <3>1, <3>2
  <2> QED  BY <2>1, <2>2, <2>3
<1> QED  BY <1>1, <1>2, <1>3, <1>4, <1>5, <1>6 DEF l

\* If each lane has taken all its words, every FIFO is empty.
LEMMA AllGone ==
    ASSUME Types, Clean
    PROVE  AllEmpty
<1>1. /\ lrq_fifo = << >> /\ rqa_fifo = << >> /\ ~rqa_wr /\ chan = << >>
      /\ rss_fifo = << >> /\ ~rrs_wr /\ rrs_fifo = << >> /\ rs_fifo = << >>
  BY UpEmpty, BackNearEmpty DEF Clean
<1>2. \A l \in Lanes : /\ vlen[l] = 0 /\ mem[l] = << >> /\ weq[l] = << >> /\ rswe_fifo[l] = << >>
                       /\ op_fifo[l] = << >> /\ ~F21Vld(l) /\ opr_fifo[l] = << >>
  BY LinesEmpty DEF Clean, CleanLane
<1> QED  BY <1>1, <1>2 DEF AllEmpty

\* When nothing is under way, the accumulators hold all that was wanted.
LEMMA SumsComplete ==
    ASSUME Types, Flow, Clean, ~eu_start, NEW t \in Threads
    PROVE  acc[t] = Wanted(t)
<1> DEFINE l == <<t, Rs>>
<1>1. /\ l \in Lanes /\ l[1] = t /\ acc[t] = PairsTo(t, Len(acc[t])) /\ Len(acc[t]) \in Nat
      /\ Wanted(t) = PairsTo(t, Words(l)) /\ Words(l) \in Nat
  BY SumsInOrder
<1> HIDE DEF l
<1>2. /\ vlen[l] = 0 /\ MaskLine(l) = << >> /\ PairLine(l) = << >> /\ ~F21Vld(l)
      /\ opr_fifo[l] = << >>
  BY <1>1 DEF Clean, CleanLane
<1>3. PartedWord(l) = PastWord(l)
  BY <1>1, <1>2, AskedAll DEF Valid
<1>4. Taken(l) = PartedWord(l)
  BY <1>1, <1>2, OfferedIs DEF Flow, Line
<1>5. Multiplied(t) = Len(acc[t])
  <2>1. ~InPipe(t)  BY DEF Clean, InPipe, OpOf
  <2>2. B(InPipe(t)) = 0  BY <2>1 DEF B
  <2> QED  BY <1>1, <2>2 DEF Multiplied
<1>6. Len(acc[t]) = Words(l)
  <2>1. Len(opr_fifo[l]) = 0  BY <1>2
  <2>2. FirstWord(l) \in Nat  BY <1>1, VectorTypes
  <2>3. FirstWord(l) + Multiplied(t) + Len(opr_fifo[l]) = FirstWord(l) + Words(l)
    BY <1>1, <1>3, <1>4 DEF Taken, PastWord
  <2> DEFINE f == FirstWord(l)   w == Words(l)   a == Len(acc[t])
  <2>4. f + a + 0 = f + w /\ f \in Nat /\ a \in Nat /\ w \in Nat  BY <1>1, <1>5, <2>1, <2>2, <2>3
  <2> HIDE DEF f, w, a
  <2>5. a = w  BY <2>4
  <2> QED  BY <2>5 DEF a, w
<1> QED  BY <1>1, <1>6

\* The way of the words is as it should be until memory answers with an error.
FlowUntilError == ~erred => Flow

\* Every edge keeps the flow, or the first error has been answered.
LEMMA FlowUntilErrorStep ==
    ASSUME Types, Rooms, FlowUntilError, Types', ProductNext  PROVE FlowUntilError'
<1>1. SUFFICES ASSUME ~erred'  PROVE Flow'
  BY DEF FlowUntilError
<1>2. PICK r \in RegisterFiles \cup {Idles}, ans \in Answers \cup {Silent}, ready \in BOOLEAN :
        ProductClock(r, ans, ready)
  BY DEF ProductNext
<1>3. ~erred /\ ~LsuErr  BY <1>1, <1>2 DEF ProductClock
<1>4. Flow /\ Calm  BY <1>3 DEF FlowUntilError, Flow, Calm
<1> QED  BY <1>2, <1>4, FlowStep

\* Until memory answers with an error, the k-th word of a lane is, at any time, in just
\* one of the places between its address generator and the sums, in its order: through
\* four FIFOs of its own and the queues it shares with fifteen other lanes.
THEOREM WordsFlow == ProductSpec => []FlowUntilError
<1>1. ProductInit => FlowUntilError  BY FlowInit DEF FlowUntilError
<1>2. /\ Types /\ Rooms /\ QueuesFit /\ (Types /\ Rooms /\ QueuesFit)'
      /\ FlowUntilError /\ [ProductNext]_productVars
      => FlowUntilError'
  <2> SUFFICES ASSUME Types, Rooms, Types', FlowUntilError, [ProductNext]_productVars
               PROVE  FlowUntilError'
    OBVIOUS
  <2>1. CASE ProductNext  BY <2>1, FlowUntilErrorStep
  <2>2. CASE UNCHANGED productVars
    <3>1. SUFFICES ASSUME ~erred'  PROVE Flow'
      BY DEF FlowUntilError
    <3>2. ~erred  BY <2>2, <3>1 DEF productVars
    <3>3. Flow  BY <3>2 DEF FlowUntilError
    <3> QED  BY <2>2, <3>3, FlowStutter
  <2> QED  BY <2>1, <2>2
<1> QED  BY <1>1, <1>2, FifosHaveRoom, PTL DEF ProductSpec

\* A thread multiplies the k-th word of Rs with the k-th of Rt, each once and in order,
\* whatever the alignment of the operands and the order in which memory answers the lanes.
THEOREM SumsAreInOrder == ProductSpec => []ProductsInOrder
<1>1. Types /\ Rooms /\ QueuesFit /\ FlowUntilError => ProductsInOrder
  <2> SUFFICES ASSUME Types, FlowUntilError, ~erred, NEW t \in Threads
               PROVE  IsPrefix(acc[t], Wanted(t))
    BY DEF ProductsInOrder
  <2>1. Flow  BY DEF FlowUntilError
  <2> DEFINE n == Len(acc[t])   w == Words(<<t, Rs>>)
  <2>2. acc[t] = PairsTo(t, n) /\ Wanted(t) = PairsTo(t, w) /\ n \in Nat /\ w \in Nat /\ n <= w
    BY <2>1, SumsInOrder
  <2> HIDE DEF n, w
  <2>3. /\ PairsTo(t, n) \in Operands /\ Len(PairsTo(t, n)) = n
        /\ PairsTo(t, w) \in Operands /\ Len(PairsTo(t, w)) = w
    BY <2>2, PairsType
  <2>4. \A i \in 1 .. n : PairsTo(t, n)[i] = PairsTo(t, w)[i]
    BY <2>2 DEF PairsTo
  <2> DEFINE u == PairsTo(t, n)   v == PairsTo(t, w)
  <2>5. u \in Seq(Int \X Int) /\ v \in Seq(Int \X Int) /\ Len(u) <= Len(v)
        /\ \A i \in 1 .. Len(u) : u[i] = v[i]
    BY <2>2, <2>3, <2>4 DEF Operands
  <2> HIDE DEF u, v
  <2>6. IsPrefix(u, v)  BY <2>5, PrefixOf
  <2> QED  BY <2>2, <2>6 DEF u, v
<1> QED  BY <1>1, FifosHaveRoom, WordsFlow, PTL

\* A product is reported done when every sum is in its accumulator and nothing is under way.
THEOREM DoneIsDone == ProductSpec => []DoneMeansAccumulated
<1>1. Types /\ Rooms /\ QueuesFit /\ FlowUntilError => DoneMeansAccumulated
  <2> SUFFICES ASSUME Types, FlowUntilError, done, ~erred
               PROVE  AllEmpty /\ \A t \in Threads : acc[t] = Wanted(t)
    BY DEF DoneMeansAccumulated
  <2>1. Flow  BY DEF FlowUntilError
  <2>2. eu_wait = 0  BY <2>1 DEF Flow, Control
  <2>3. Clean /\ ~eu_start  BY <2>1, <2>2 DEF Flow, Control
  <2> QED  BY <2>1, <2>3, AllGone, SumsComplete
<1> QED  BY <1>1, FifosHaveRoom, WordsFlow, PTL
=============================================================================
