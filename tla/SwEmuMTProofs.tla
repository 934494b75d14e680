--------------------------- MODULE SwEmuMTProofs ----------------------------
(***************************************************************************)
(* The executor with a worker per thread (SwEmuMT) implements the executor *)
(* that takes one command after the other (SwEmuSeq), for any number of    *)
(* VPUs and threads, any arithmetic, any programs and any number of calls. *)
(*                                                                         *)
(* The invariant says of every thread where it is in its exchange of       *)
(* semaphores with the caller, and what its registers hold there.  With it *)
(* every step is a step of SwEmuSeq or leaves its variables alone: the     *)
(* whole product takes effect when the caller has collected the last       *)
(* worker.                                                                 *)
(***************************************************************************)
EXTENDS SwEmuMT, LeastNumbers, SequenceTheorems

-----------------------------------------------------------------------------
(* Arithmetic of a product, and the order of the threads.                  *)

\* One element more.
AddElement(s, m, acc, i) == Mac(acc, m[Element(s.rs, i)], m[Element(s.rt, i)])

\* The recursion that defines PartialProd has a solution.
LEMMA PartialProdIs ==
    ASSUME NEW s, s.vlen \in Nat, NEW m
    PROVE  /\ PartialProd(s, m)[0] = s.acc
           /\ \A n \in 0 .. s.vlen - 1 :
                  PartialProd(s, m)[n + 1] = AddElement(s, m, PartialProd(s, m)[n], n)
<1> DEFINE Good(n, f) == f = [i \in 0 .. n |-> IF i = 0 THEN s.acc
                                               ELSE AddElement(s, m, f[i - 1], i - 1)]
           N == 0 .. s.vlen
           bad == {n \in N : ~\E f : Good(n, f)}
<1>1. bad = {}
  <2> SUFFICES ASSUME bad # {} PROVE FALSE  OBVIOUS
  <2>1. bad \subseteq Nat  OBVIOUS
  <2>2. PICK n \in bad : \A j \in bad : n <= j  BY <2>1, LeastNumber
  <2>3. n \in Nat /\ n \in N  BY <2>1
  <2>4. CASE n = 0
    <3> DEFINE f == [i \in 0 .. 0 |-> s.acc]
    <3>1. Good(0, f)  OBVIOUS
    <3> QED  BY <2>4, <3>1
  <2>5. CASE n # 0
    <3>1. n - 1 \in N /\ ~(n <= n - 1)  BY <2>3, <2>5
    <3>2. n - 1 \notin bad  BY <2>2, <3>1
    <3>3. PICK f : Good(n - 1, f)  BY <3>1, <3>2
    <3> DEFINE g == [i \in 0 .. n |-> IF i < n THEN f[i] ELSE AddElement(s, m, f[n - 1], n - 1)]
    <3>4. \A i \in 0 .. n - 1 : f[i] = IF i = 0 THEN s.acc ELSE AddElement(s, m, f[i - 1], i - 1)
      BY <3>3
    <3>5. ASSUME NEW i \in 0 .. n
          PROVE  g[i] = IF i = 0 THEN s.acc ELSE AddElement(s, m, g[i - 1], i - 1)
      <4>1. CASE i = 0  BY <2>3, <2>5, <3>4, <4>1
      <4>2. CASE i # 0 /\ i < n
        <5>1. i \in 0 .. n - 1 /\ i - 1 \in 0 .. n /\ i - 1 < n  BY <2>3, <4>2
        <5>2. g[i - 1] = f[i - 1] /\ g[i] = f[i]  BY <4>2, <5>1
        <5> QED  BY <3>4, <4>2, <5>1, <5>2
      <4>3. CASE i = n
        <5>1. n - 1 \in 0 .. n /\ n - 1 < n  BY <2>3, <2>5
        <5>2. g[n - 1] = f[n - 1] /\ g[n] = AddElement(s, m, f[n - 1], n - 1)  BY <2>3, <5>1
        <5> QED  BY <2>5, <4>3, <5>2
      <4> QED  BY <2>3, <4>1, <4>2, <4>3
    <3>6. Good(n, g)
      <4> DEFINE h == [i \in 0 .. n |-> IF i = 0 THEN s.acc ELSE AddElement(s, m, g[i - 1], i - 1)]
      <4>1. \A i \in 0 .. n : g[i] = h[i]  BY <3>5
      <4>2. g = h  BY <4>1
      <4> QED  BY <4>2
    <3> QED  BY <2>2, <3>6
  <2> QED  BY <2>4, <2>5
<1>2. s.vlen \in N  OBVIOUS
<1>3. \E f : Good(s.vlen, f)  BY <1>1, <1>2
<1> DEFINE g == PartialProd(s, m)
<1>4. g = CHOOSE f : Good(s.vlen, f)  BY DEF PartialProd, AddElement
<1> HIDE DEF g
<1>5. Good(s.vlen, g)
  <2> HIDE DEF Good
  <2> QED  BY <1>3, <1>4
<1>6. \A i \in N : g[i] = IF i = 0 THEN s.acc ELSE AddElement(s, m, g[i - 1], i - 1)  BY <1>5
<1>7. g[0] = s.acc  BY <1>6
<1>8. ASSUME NEW n \in 0 .. s.vlen - 1
      PROVE  g[n + 1] = AddElement(s, m, g[n], n)
  <2>1. n + 1 \in N /\ n + 1 # 0 /\ (n + 1) - 1 = n  OBVIOUS
  <2> QED  BY <1>6, <2>1
<1> QED  BY <1>7, <1>8 DEF g

\* Of some threads one is the first and one the last.
LEMMA FirstAndLast ==
    ASSUME NEW W, W \subseteq Threads, W # {}
    PROVE  FirstOf(W) \in W /\ LastOf(W) \in W
<1>0. \A t \in Threads : t[1] \in 0 .. NrVpu - 1 /\ t[2] \in 0 .. NrThr - 1  BY DEF Threads, Vpus
<1>a. NrVpu \in Nat /\ NrThr \in Nat  BY InstrAssumption
<1>1. FirstOf(W) \in W
  <2> DEFINE V == {t[1] : t \in W}
  <2>1. V \subseteq Nat /\ V # {}  BY <1>0
  <2>2. PICK v \in V : \A j \in V : v <= j  BY <2>1, LeastNumber
  <2> DEFINE U == {t[2] : t \in {u \in W : u[1] = v}}
  <2>3. U \subseteq Nat /\ U # {}  BY <1>0, <2>2
  <2>4. PICK n \in U : \A j \in U : n <= j  BY <2>3, LeastNumber
  <2>5. PICK t \in W : t[1] = v /\ t[2] = n  BY <2>4
  <2>6. ASSUME NEW u \in W  PROVE ~Before(u, t)
    <3>1. v <= u[1]  BY <2>2
    <3>2. u[1] = v => n <= u[2]  BY <2>4
    <3>3. u[1] \in Int /\ u[2] \in Int /\ t[1] \in Int /\ t[2] \in Int  BY <1>0
    <3> QED  BY <2>5, <3>1, <3>2, <3>3 DEF Before
  <2>7. \E w \in W : \A u \in W : ~Before(u, w)  BY <2>6
  <2> QED  BY <2>7 DEF FirstOf
<1>2. LastOf(W) \in W
  <2> DEFINE V == {NrVpu - t[1] : t \in W}
  <2>1. V \subseteq Nat /\ V # {}
    <3>1. \A t \in W : NrVpu - t[1] \in Nat  BY <1>0, <1>a
    <3>2. PICK t \in W : TRUE  OBVIOUS
    <3>3. NrVpu - t[1] \in V  BY <3>2
    <3> QED  BY <3>1, <3>3
  <2>2. PICK v \in V : \A j \in V : v <= j  BY <2>1, LeastNumber
  <2> DEFINE U == {NrThr - t[2] : t \in {u \in W : NrVpu - u[1] = v}}
  <2>3. U \subseteq Nat /\ U # {}
    <3>1. \A t \in W : NrThr - t[2] \in Nat  BY <1>0, <1>a
    <3>2. PICK t \in W : NrVpu - t[1] = v  BY <2>2
    <3>3. NrThr - t[2] \in U  BY <3>2
    <3> QED  BY <3>1, <3>3
  <2>4. PICK n \in U : \A j \in U : n <= j  BY <2>3, LeastNumber
  <2>5. PICK t \in W : NrVpu - t[1] = v /\ NrThr - t[2] = n  BY <2>4
  <2>6. ASSUME NEW u \in W  PROVE ~Before(t, u)
    <3>1. v <= NrVpu - u[1]  BY <2>2
    <3>2. NrVpu - u[1] = v => n <= NrThr - u[2]  BY <2>4
    <3>3. u[1] \in Int /\ u[2] \in Int /\ t[1] \in Int /\ t[2] \in Int  BY <1>0
    <3> QED  BY <1>a, <2>5, <3>1, <3>2, <3>3 DEF Before
  <2>7. \E w \in W : \A u \in W : ~Before(w, u)  BY <2>6
  <2> QED  BY <2>7 DEF LastOf
<1> QED  BY <1>1, <1>2

-----------------------------------------------------------------------------
(* The invariant.                                                          *)

Fields == {"en", "acc", "vlen", "rs", "rt", "rd"}

\* The registers of a thread.
IsThread(s) == s = [f \in Fields |-> s[f]] /\ s.en \in BOOLEAN /\ s.vlen \in Nat

IsFile(r) == r = [t \in Threads |-> r[t]] /\ \A t \in Threads : IsThread(r[t])

Types ==
    /\ IsFile(regs) /\ IsFile(before)
    /\ rest \in Seq(Commands) /\ left \in SUBSET Threads
    /\ ready \in [Threads -> {0, 1}] /\ done \in [Threads -> {0, 1}]
    /\ stop \in [Threads -> BOOLEAN] /\ k \in [Threads -> Nat]
    /\ wpc \in [Threads -> {"none", "top", "ready", "again", "product", "done", "exit"}]

InProd == pc \in {"signal", "wait"}
Stopping == pc \in {"stop", "wake", "join"}

\* Where the caller is, what it has left to do.
Control ==
    /\ pc \in {"closed", "starting", "idle", "run", "signal", "wait", "stop", "wake", "join"}
    /\ pc \notin {"run", "signal", "wait"} => rest = << >>
    /\ InProd => /\ rest # << >> /\ Head(rest).op = "prod"
                 /\ left \subseteq Targets(Head(rest))
    /\ pc = "starting" \/ Stopping => left # {}

\* The registers of a thread with the sum of n elements, and after the product.
Summed(s, n) == [s EXCEPT !.acc = PartialProd(s, mem)[n]]
Result(s) == IF s.en THEN Summed(s, s.vlen) ELSE s

\* A worker that does not exist, or no more.
Off(t) == wpc[t] \in {"none", "exit"}

\* A worker as it was made, and one that waits for work, or soon will.
New(t) == ready[t] = 0 /\ done[t] = 0 /\ stop[t] = FALSE /\ wpc[t] = "none"
Resting(t) == ready[t] = 0 /\ done[t] = 0 /\ stop[t] = FALSE /\ wpc[t] \in {"top", "ready"}

\* During a product: a worker that is not asked, or not yet; one that has been
\* asked and has not seen it; one at work; one that has its result; and one
\* that the caller has seen finish.
Unasked(t) == Resting(t) /\ regs[t] = before[t]
Called(t) == /\ ready[t] = 1 /\ done[t] = 0 /\ stop[t] = FALSE /\ wpc[t] \in {"top", "ready"}
             /\ regs[t] = before[t]
Begun(t) == /\ ready[t] = 0 /\ done[t] = 0 /\ stop[t] = FALSE /\ wpc[t] = "again"
            /\ k[t] = 0 /\ regs[t] = before[t]
Summing(t) == /\ ready[t] = 0 /\ done[t] = 0 /\ stop[t] = FALSE /\ wpc[t] = "product"
              /\ k[t] <= before[t].vlen
              /\ regs[t] = IF before[t].en THEN Summed(before[t], k[t]) ELSE before[t]
Answered(t) == /\ ready[t] = 0 /\ stop[t] = FALSE
               /\ \/ done[t] = 0 /\ wpc[t] = "done"
                  \/ done[t] = 1 /\ wpc[t] \in {"top", "ready"}
               /\ regs[t] = Result(before[t])
Collected(t) == Resting(t) /\ regs[t] = Result(before[t])

Asked(t) == Called(t) \/ Begun(t) \/ Summing(t) \/ Answered(t)

Multiplies(t) ==
    IF t \notin Targets(Head(rest)) THEN Unasked(t)
    ELSE IF pc = "signal" THEN IF t \in left THEN Unasked(t) ELSE Asked(t)
    ELSE IF t \in left THEN Asked(t) ELSE Collected(t)

\* The worker that the caller stops.
Woken(t) == /\ stop[t] = TRUE
            /\ pc = "wake" => ready[t] = 0 /\ wpc[t] \in {"top", "ready", "exit"}
            /\ pc = "join" => wpc[t] \in {"top", "ready", "again", "exit"}

Stops(t) ==
    IF t \notin left THEN Off(t)
    ELSE IF pc = "stop" \/ t # LastOf(left) THEN Resting(t) ELSE Woken(t)

\* Where a thread is in its exchange with the caller.
Local(t) == /\ pc = "closed" => Off(t)
            /\ pc = "starting" => IF t \in left THEN New(t) ELSE Resting(t)
            /\ pc \in {"idle", "run"} => Resting(t)
            /\ InProd => Multiplies(t)
            /\ Stopping => Stops(t)

MTInv == Types /\ Control /\ \A t \in Threads : Local(t)

-----------------------------------------------------------------------------
(* The steps of a worker.                                                  *)

\* What a thread is in depends on no other thread.
LEMMA Untouched ==
    ASSUME NEW u, ready'[u] = ready[u], done'[u] = done[u], stop'[u] = stop[u],
           wpc'[u] = wpc[u], k'[u] = k[u], regs'[u] = regs[u], before'[u] = before[u],
           mem' = mem
    PROVE  /\ Off(u)' <=> Off(u)
           /\ New(u)' <=> New(u)
           /\ Resting(u)' <=> Resting(u)
           /\ Unasked(u)' <=> Unasked(u)
           /\ Asked(u)' <=> Asked(u)
           /\ Collected(u)' <=> Collected(u)
<1>1. Off(u)' <=> Off(u)  BY DEF Off
<1>2. New(u)' <=> New(u)  BY DEF New
<1>3. Resting(u)' <=> Resting(u)  BY DEF Resting
<1>4. Unasked(u)' <=> Unasked(u)  BY DEF Resting, Unasked
<1>5. Called(u)' <=> Called(u)  BY DEF Called
<1>6. Begun(u)' <=> Begun(u)  BY DEF Begun
<1>7. Result(before[u])' = Result(before[u])  BY DEF Result, Summed
<1>8. Summed(before[u], k[u])' = Summed(before[u], k[u])  BY DEF Summed
<1>9. Summing(u)' <=> Summing(u)  BY <1>8 DEF Summing
<1>10. Answered(u)' <=> Answered(u)  BY <1>7 DEF Answered
<1>11. Collected(u)' <=> Collected(u)  BY <1>7 DEF Resting, Collected
<1> QED  BY <1>1, <1>2, <1>3, <1>4, <1>5, <1>6, <1>9, <1>10, <1>11 DEF Asked

\* What a worker leaves alone.
LEMMA WorkerFrame ==
    ASSUME Types, NEW t \in Threads, Worker(t)
    PROVE  /\ pc' = pc /\ left' = left /\ rest' = rest /\ mem' = mem /\ before' = before
           /\ stop' = stop /\ calls' = calls
           /\ \A u \in Threads \ {t} :
                  /\ ready'[u] = ready[u] /\ done'[u] = done[u] /\ wpc'[u] = wpc[u]
                  /\ k'[u] = k[u] /\ regs'[u] = regs[u]
<1>1. CASE TestStop(t)  BY <1>1 DEF TestStop, Goto, Types
<1>2. CASE WaitReady(t)  BY <1>2 DEF WaitReady, Goto, Types
<1>3. CASE Product(t)
  <2>1. /\ pc' = pc /\ left' = left /\ rest' = rest /\ mem' = mem /\ before' = before
        /\ stop' = stop /\ calls' = calls /\ ready' = ready /\ done' = done
    BY <1>3 DEF Product
  <2>2. CASE regs[t].en /\ k[t] < regs[t].vlen
    BY <1>3, <2>1, <2>2 DEF Product, Types, IsFile
  <2>3. CASE ~(regs[t].en /\ k[t] < regs[t].vlen)
    BY <1>3, <2>1, <2>3 DEF Product, Goto, Types
  <2> QED  BY <2>2, <2>3
<1>4. CASE SignalDone(t)  BY <1>4 DEF SignalDone, Goto, Up, Types
<1> QED  BY <1>1, <1>2, <1>3, <1>4 DEF Worker

\* The cases in which a worker does something.
LEMMA WorkerMoves ==
    ASSUME Types, NEW t \in Threads, Worker(t)
    PROVE  \/ /\ wpc[t] \in {"top", "again"} /\ stop[t] = TRUE /\ wpc'[t] = "exit"
              /\ UNCHANGED <<ready, done, k, regs>>
           \/ /\ wpc[t] = "top" /\ stop[t] = FALSE /\ wpc'[t] = "ready"
              /\ UNCHANGED <<ready, done, k, regs>>
           \/ /\ wpc[t] = "again" /\ stop[t] = FALSE /\ wpc'[t] = "product"
              /\ UNCHANGED <<ready, done, k, regs>>
           \/ /\ wpc[t] = "ready" /\ ready[t] = 1 /\ ready'[t] = 0 /\ wpc'[t] = "again"
              /\ k'[t] = 0 /\ UNCHANGED <<done, regs>>
           \/ /\ wpc[t] = "product" /\ regs[t].en /\ k[t] < regs[t].vlen
              /\ regs'[t] = [regs[t] EXCEPT !.acc = AddElement(regs[t], mem, regs[t].acc, k[t])]
              /\ k'[t] = k[t] + 1 /\ UNCHANGED <<ready, done, wpc>>
           \/ /\ wpc[t] = "product" /\ ~(regs[t].en /\ k[t] < regs[t].vlen)
              /\ wpc'[t] = "done" /\ UNCHANGED <<ready, done, k, regs>>
           \/ /\ wpc[t] = "done" /\ done'[t] = 1 /\ wpc'[t] = "top"
              /\ UNCHANGED <<ready, k, regs>>
<1>1. CASE TestStop(t)  BY <1>1 DEF TestStop, Goto, Types
<1>2. CASE WaitReady(t)  BY <1>2 DEF WaitReady, Goto, Types
<1>3. CASE Product(t)
  <2>1. CASE regs[t].en /\ k[t] < regs[t].vlen
    BY <1>3, <2>1 DEF Product, Types, IsFile, AddElement
  <2>2. CASE ~(regs[t].en /\ k[t] < regs[t].vlen)
    BY <1>3, <2>2 DEF Product, Goto, Types
  <2> QED  BY <2>1, <2>2
<1>4. CASE SignalDone(t)  BY <1>4 DEF SignalDone, Goto, Up, Types
<1> QED  BY <1>1, <1>2, <1>3, <1>4 DEF Worker

\* A thread with another sum.
LEMMA SummedIs ==
    ASSUME NEW s, IsThread(s), NEW n
    PROVE  /\ Summed(s, n).acc = PartialProd(s, mem)[n]
           /\ Summed(s, n).en = s.en /\ Summed(s, n).vlen = s.vlen
           /\ Summed(s, n).rs = s.rs /\ Summed(s, n).rt = s.rt
           /\ IsThread(Summed(s, n))
           /\ \A v : [Summed(s, n) EXCEPT !.acc = v] = [s EXCEPT !.acc = v]
<1> DEFINE z == Summed(s, n)
<1>1. DOMAIN s = Fields  BY DEF IsThread
<1>2. /\ DOMAIN z = Fields /\ z = [f \in Fields |-> z[f]]
      /\ \A f \in Fields \ {"acc"} : z[f] = s[f]
      /\ z["acc"] = PartialProd(s, mem)[n]
  BY <1>1 DEF Summed, Fields
<1>3. z.en = s.en /\ z.vlen = s.vlen /\ z.rs = s.rs /\ z.rt = s.rt  BY <1>2 DEF Fields
<1>4. IsThread(z)
  <2> HIDE DEF z
  <2> QED  BY <1>2, <1>3 DEF IsThread
<1>5. ASSUME NEW v  PROVE [z EXCEPT !.acc = v] = [s EXCEPT !.acc = v]
  <2> HIDE DEF z
  <2>1. \A f \in Fields : [z EXCEPT !.acc = v][f] = [s EXCEPT !.acc = v][f]  BY <1>1, <1>2
  <2> QED  BY <1>1, <1>2, <2>1
<1> QED  BY <1>2, <1>3, <1>4, <1>5

\* The sum of no element is the thread as it was.
LEMMA NoElement ==
    ASSUME NEW s, IsThread(s)
    PROVE  Summed(s, 0) = s
<1>1. PartialProd(s, mem)[0] = s.acc  BY PartialProdIs DEF IsThread
<1>2. DOMAIN s = Fields /\ s = [f \in Fields |-> s[f]]  BY DEF IsThread
<1>3. \A f \in Fields : Summed(s, 0)[f] = s[f]  BY <1>1, <1>2 DEF Summed, Fields
<1>4. Summed(s, 0) = [f \in Fields |-> Summed(s, 0)[f]]  BY <1>2 DEF Summed
<1> QED  BY <1>2, <1>3, <1>4

LEMMA OffStays ==
    ASSUME Types, NEW t \in Threads, Off(t) \/ New(t)
    PROVE  ~Worker(t)
BY WorkerMoves DEF Off, New

LEMMA RestingMoves ==
    ASSUME Types, NEW t \in Threads, Worker(t), Resting(t)
    PROVE  Resting(t)' /\ regs' = regs
<1>1. ready[t] = 0 /\ done[t] = 0 /\ stop[t] = FALSE /\ wpc[t] \in {"top", "ready"}
  BY DEF Resting
<1>2. wpc'[t] = "ready" /\ ready' = ready /\ done' = done /\ regs' = regs
  <2>1. CASE wpc[t] = "top"  BY <1>1, <2>1, WorkerMoves
  <2>2. CASE wpc[t] = "ready"
    <3>1. ready[t] # 1  BY <1>1
    <3> QED  BY <2>2, <3>1, WorkerMoves
  <2> QED  BY <1>1, <2>1, <2>2
<1>3. stop' = stop  BY WorkerFrame
<1> QED  BY <1>1, <1>2, <1>3 DEF Resting

\* A worker that was asked computes its product, and answers once.
LEMMA AskedMoves ==
    ASSUME Types, NEW t \in Threads, Worker(t), Asked(t)
    PROVE  Asked(t)'
<1> DEFINE b == before[t]
<1>0. IsThread(b)  BY DEF Types, IsFile
<1>1. stop' = stop /\ before' = before /\ mem' = mem  BY WorkerFrame
<1>2. CASE Called(t)
  <2>1. /\ ready[t] = 1 /\ done[t] = 0 /\ stop[t] = FALSE /\ wpc[t] \in {"top", "ready"}
        /\ regs[t] = b
    BY <1>2 DEF Called
  <2>2. CASE wpc[t] = "top"
    <3>1. wpc'[t] = "ready" /\ UNCHANGED <<ready, done, k, regs>>
      BY <2>1, <2>2, WorkerMoves
    <3> QED  BY <1>1, <2>1, <3>1 DEF Called, Asked
  <2>3. CASE wpc[t] = "ready"
    <3>1. ready'[t] = 0 /\ wpc'[t] = "again" /\ k'[t] = 0 /\ UNCHANGED <<done, regs>>
      BY <2>1, <2>3, WorkerMoves
    <3> QED  BY <1>1, <2>1, <3>1 DEF Begun, Asked
  <2> QED  BY <2>1, <2>2, <2>3
<1>3. CASE Begun(t)
  <2>1. /\ ready[t] = 0 /\ done[t] = 0 /\ stop[t] = FALSE /\ wpc[t] = "again"
        /\ k[t] = 0 /\ regs[t] = b
    BY <1>3 DEF Begun
  <2>2. wpc'[t] = "product" /\ UNCHANGED <<ready, done, k, regs>>
    BY <2>1, WorkerMoves
  <2>3. b.vlen \in Nat  BY <1>0 DEF IsThread
  <2>4. Summed(b, k[t])' = b  BY <1>0, <1>1, <2>1, <2>2, NoElement DEF Summed
  <2>5. Summing(t)'  BY <1>1, <2>1, <2>2, <2>3, <2>4 DEF Summing
  <2> QED  BY <2>5 DEF Asked
<1>4. CASE Summing(t)
  <2>1. /\ ready[t] = 0 /\ done[t] = 0 /\ stop[t] = FALSE /\ wpc[t] = "product"
        /\ k[t] <= b.vlen
        /\ regs[t] = IF b.en THEN Summed(b, k[t]) ELSE b
    BY <1>4 DEF Summing
  <2>2. k[t] \in Nat /\ b.vlen \in Nat /\ b.en \in BOOLEAN  BY <1>0 DEF Types, IsThread
  <2>3. regs[t].en = b.en /\ regs[t].vlen = b.vlen  BY <1>0, <2>1, <2>2, SummedIs
  <2>4. CASE b.en /\ k[t] < b.vlen
    <3> DEFINE n == k[t]
    <3>1. /\ regs'[t] = [regs[t] EXCEPT !.acc = AddElement(regs[t], mem, regs[t].acc, n)]
          /\ k'[t] = n + 1 /\ UNCHANGED <<ready, done, wpc>>
      BY <2>1, <2>3, <2>4, WorkerMoves
    <3>2. regs[t] = Summed(b, n)  BY <2>1, <2>4
    <3>3. /\ Summed(b, n).acc = PartialProd(b, mem)[n]
          /\ Summed(b, n).en = b.en /\ Summed(b, n).vlen = b.vlen
          /\ Summed(b, n).rs = b.rs /\ Summed(b, n).rt = b.rt
          /\ IsThread(Summed(b, n))
          /\ \A v : [Summed(b, n) EXCEPT !.acc = v] = [b EXCEPT !.acc = v]
      BY <1>0, SummedIs
    <3>4. AddElement(regs[t], mem, regs[t].acc, n) = AddElement(b, mem, PartialProd(b, mem)[n], n)
      BY <3>2, <3>3 DEF AddElement
    <3>5. n \in 0 .. b.vlen - 1  BY <2>2, <2>4
    <3>6. PartialProd(b, mem)[n + 1] = AddElement(b, mem, PartialProd(b, mem)[n], n)
      BY <2>2, <3>5, PartialProdIs
    <3>7. regs'[t] = Summed(b, n + 1)  BY <3>1, <3>2, <3>3, <3>4, <3>6 DEF Summed
    <3>8. Summed(b, k[t])' = Summed(b, n + 1)  BY <1>1, <3>1 DEF Summed
    <3>9. k'[t] <= b.vlen  BY <2>2, <2>4, <3>1
    <3>10. Summing(t)'  BY <1>1, <2>1, <2>4, <3>1, <3>7, <3>8, <3>9 DEF Summing
    <3> QED  BY <3>10 DEF Asked
  <2>5. CASE ~(b.en /\ k[t] < b.vlen)
    <3>1. wpc'[t] = "done" /\ UNCHANGED <<ready, done, k, regs>>
      BY <2>1, <2>3, <2>5, WorkerMoves
    <3>2. regs[t] = Result(b)
      <4>1. CASE b.en
        <5>1. k[t] = b.vlen  BY <2>1, <2>2, <2>5, <4>1
        <5> QED  BY <2>1, <4>1, <5>1 DEF Result
      <4>2. CASE ~b.en  BY <2>1, <4>2 DEF Result
      <4> QED  BY <4>1, <4>2
    <3>3. Result(b)' = Result(b)  BY <1>1 DEF Result, Summed
    <3>4. Answered(t)'  BY <1>1, <2>1, <3>1, <3>2, <3>3 DEF Answered
    <3> QED  BY <3>4 DEF Asked
  <2> QED  BY <2>4, <2>5
<1>5. CASE Answered(t)
  <2>1. /\ ready[t] = 0 /\ stop[t] = FALSE
        /\ \/ done[t] = 0 /\ wpc[t] = "done"
           \/ done[t] = 1 /\ wpc[t] \in {"top", "ready"}
        /\ regs[t] = Result(b)
    BY <1>5 DEF Answered
  <2>2. /\ \/ done'[t] = 1 /\ wpc'[t] = "top" /\ ready' = ready /\ regs' = regs
           \/ done'[t] = 1 /\ wpc'[t] = "ready" /\ ready' = ready /\ regs' = regs
    <3>1. CASE wpc[t] = "done"  BY <2>1, <3>1, WorkerMoves
    <3>2. CASE wpc[t] = "top"  BY <2>1, <3>2, WorkerMoves
    <3>3. CASE wpc[t] = "ready"
      <4>1. ready[t] # 1  BY <2>1
      <4> QED  BY <3>3, <4>1, WorkerMoves
    <3> QED  BY <2>1, <3>1, <3>2, <3>3
  <2>3. Result(b)' = Result(b)  BY <1>1 DEF Result, Summed
  <2>4. Answered(t)'  BY <1>1, <2>1, <2>2, <2>3 DEF Answered
  <2> QED  BY <2>4 DEF Asked
<1> QED  BY <1>2, <1>3, <1>4, <1>5 DEF Asked

\* A worker that is told to stop never starts a product.
LEMMA WokenMoves ==
    ASSUME Types, NEW t \in Threads, Worker(t), Woken(t), pc \in {"wake", "join"}
    PROVE  Woken(t)' /\ regs' = regs
<1>1. stop[t] = TRUE /\ stop' = stop /\ pc' = pc  BY WorkerFrame DEF Woken
<1>2. CASE pc = "wake"
  <2>1. ready[t] = 0 /\ wpc[t] \in {"top", "ready", "exit"}  BY <1>2 DEF Woken
  <2>2. wpc'[t] = "exit" /\ ready' = ready /\ regs' = regs
    <3>1. CASE wpc[t] = "top"  BY <1>1, <3>1, WorkerMoves
    <3>2. CASE wpc[t] # "top"
      <4>1. ready[t] # 1  BY <2>1
      <4> QED  BY <2>1, <3>2, <4>1, WorkerMoves
    <3> QED  BY <3>1, <3>2
  <2> QED  BY <1>1, <1>2, <2>1, <2>2 DEF Woken
<1>3. CASE pc = "join"
  <2>1. wpc[t] \in {"top", "ready", "again", "exit"}  BY <1>3 DEF Woken
  <2>2. wpc'[t] \in {"exit", "again"} /\ regs' = regs  BY <1>1, <2>1, WorkerMoves
  <2> QED  BY <1>1, <1>3, <2>2 DEF Woken
<1> QED  BY <1>2, <1>3

LEMMA WorkerTypes ==
    ASSUME MTInv, NEW t \in Threads, Worker(t)
    PROVE  Types'
<1>0. Types  BY DEF MTInv
<1>1. /\ before' = before /\ rest' = rest /\ left' = left /\ stop' = stop  BY <1>0, WorkerFrame
<1>2. IsFile(before)' /\ (rest \in Seq(Commands))' /\ (left \in SUBSET Threads)'
      /\ (stop \in [Threads -> BOOLEAN])'
  BY <1>0, <1>1 DEF Types, IsFile, IsThread
<1>3. /\ ready' \in [Threads -> {0, 1}] /\ done' \in [Threads -> {0, 1}]
      /\ k' \in [Threads -> Nat]
      /\ wpc' \in [Threads -> {"none", "top", "ready", "again", "product", "done", "exit"}]
  <2> DEFINE Places == {"none", "top", "ready", "again", "product", "done", "exit"}
  <2>0. /\ ready \in [Threads -> {0, 1}] /\ done \in [Threads -> {0, 1}]
        /\ k \in [Threads -> Nat] /\ wpc \in [Threads -> Places]
    BY <1>0 DEF Types
  <2>a. ASSUME NEW p \in Places, Goto(t, p)  PROVE wpc' \in [Threads -> Places]
    <3>1. wpc' = [wpc EXCEPT ![t] = p]  BY <2>a DEF Goto
    <3> HIDE DEF Places
    <3> QED  BY <2>0, <3>1
  <2>1. CASE TestStop(t)
    <3> DEFINE p == IF stop[t] THEN "exit" ELSE IF wpc[t] = "top" THEN "ready" ELSE "product"
    <3>1. Goto(t, p) /\ UNCHANGED <<ready, done, k>>  BY <2>1 DEF TestStop
    <3>2. p \in Places  OBVIOUS
    <3> HIDE DEF Places, p
    <3>3. wpc' \in [Threads -> Places]  BY <2>a, <3>1, <3>2
    <3> QED  BY <2>0, <3>1, <3>3 DEF Places
  <2>2. CASE WaitReady(t)
    <3>1. /\ ready' = [ready EXCEPT ![t] = 0] /\ k' = [k EXCEPT ![t] = 0]
          /\ done' = done /\ Goto(t, "again")
      BY <2>2 DEF WaitReady
    <3>2. wpc' \in [Threads -> Places]  BY <2>a, <3>1
    <3> HIDE DEF Places
    <3>3. ready' \in [Threads -> {0, 1}]  BY <2>0, <3>1
    <3>4. k' \in [Threads -> Nat]  BY <2>0, <3>1
    <3> QED  BY <2>0, <3>1, <3>2, <3>3, <3>4 DEF Places
  <2>3. CASE Product(t)
    <3>1. ready' = ready /\ done' = done  BY <2>3 DEF Product
    <3>2. CASE regs[t].en /\ k[t] < regs[t].vlen
      <4>1. k' = [k EXCEPT ![t] = k[t] + 1] /\ wpc' = wpc  BY <2>3, <3>2 DEF Product
      <4>2. k[t] + 1 \in Nat  BY <2>0
      <4>3. k' \in [Threads -> Nat]  BY <2>0, <4>1, <4>2
      <4> QED  BY <2>0, <3>1, <4>1, <4>3
    <3>3. CASE ~(regs[t].en /\ k[t] < regs[t].vlen)
      <4>1. Goto(t, "done") /\ k' = k  BY <2>3, <3>3 DEF Product
      <4>2. wpc' \in [Threads -> Places]  BY <2>a, <4>1
      <4> QED  BY <2>0, <3>1, <4>1, <4>2
    <3> QED  BY <3>2, <3>3
  <2>4. CASE SignalDone(t)
    <3>1. done' = [done EXCEPT ![t] = 1] /\ Goto(t, "top") /\ UNCHANGED <<ready, k>>
      BY <2>4 DEF SignalDone, Up
    <3>2. wpc' \in [Threads -> Places]  BY <2>a, <3>1
    <3>3. done' \in [Threads -> {0, 1}]  BY <2>0, <3>1
    <3> QED  BY <2>0, <3>1, <3>2, <3>3
  <2> QED  BY <2>1, <2>2, <2>3, <2>4 DEF Worker
<1>4. IsFile(regs)'
  <2>1. CASE Product(t) /\ regs[t].en /\ k[t] < regs[t].vlen
    <3> DEFINE v == Mac(regs[t].acc, mem[Element(regs[t].rs, k[t])], mem[Element(regs[t].rt, k[t])])
               z == [regs[t] EXCEPT !.acc = v]
    <3>1. regs' = [regs EXCEPT ![t] = z]  BY <2>1 DEF Product
    <3>2. IsThread(regs[t]) /\ regs = [u \in Threads |-> regs[u]]
          /\ \A u \in Threads : IsThread(regs[u])
      BY <1>0 DEF Types, IsFile
    <3>3. IsThread(z)  BY <3>2 DEF IsThread, Fields
    <3> HIDE DEF z
    <3>4. /\ DOMAIN regs' = Threads /\ regs'[t] = z
          /\ \A u \in Threads \ {t} : regs'[u] = regs[u]
      BY <3>1, <3>2
    <3>5. regs' = [u \in Threads |-> regs'[u]]  BY <3>1, <3>2, <3>4
    <3>6. \A u \in Threads : IsThread(regs'[u])  BY <3>2, <3>3, <3>4
    <3> QED  BY <3>5, <3>6 DEF IsFile, IsThread
  <2>2. CASE ~(Product(t) /\ regs[t].en /\ k[t] < regs[t].vlen)
    <3>1. regs' = regs
      BY <2>2 DEF Worker, TestStop, WaitReady, Product, SignalDone
    <3> QED  BY <1>0, <3>1 DEF Types, IsFile, IsThread
  <2> QED  BY <2>1, <2>2
<1> QED  BY <1>2, <1>3, <1>4 DEF Types

LEMMA WorkerInv ==
    ASSUME MTInv, NEW t \in Threads, Worker(t)
    PROVE  MTInv' /\ (regs' = regs \/ InProd)
<1>0. Types /\ Control /\ \A u \in Threads : Local(u)  BY DEF MTInv
<1>1. /\ pc' = pc /\ left' = left /\ rest' = rest /\ mem' = mem /\ before' = before
      /\ stop' = stop
      /\ \A u \in Threads \ {t} :
             /\ ready'[u] = ready[u] /\ done'[u] = done[u] /\ wpc'[u] = wpc[u]
             /\ k'[u] = k[u] /\ regs'[u] = regs[u]
  BY <1>0, WorkerFrame
<1>2. ~Off(t) /\ ~New(t)  BY <1>0, OffStays
<1>3. Local(t)' /\ (regs' = regs \/ InProd)
  <2>1. Local(t)  BY <1>0
  <2>2. CASE pc \in {"closed", "starting", "idle", "run"}
    <3>1. Resting(t)  BY <1>2, <2>1, <2>2 DEF Local
    <3>2. Resting(t)' /\ regs' = regs  BY <1>0, <3>1, RestingMoves
    <3> QED  BY <1>1, <1>2, <2>1, <2>2, <3>2 DEF Local, InProd, Stopping
  <2>3. CASE InProd
    <3>1. Multiplies(t)  BY <2>1, <2>3 DEF Local
    <3>2. Multiplies(t)'
      <4>0. (t \in Targets(Head(rest)))' <=> t \in Targets(Head(rest))  BY <1>1 DEF Targets
      <4>1. Result(before[t])' = Result(before[t])  BY <1>1 DEF Result, Summed
      <4>2. CASE Unasked(t)
        <5>1. Resting(t) /\ regs[t] = before[t]  BY <4>2 DEF Unasked
        <5>2. Resting(t)' /\ regs' = regs  BY <1>0, <5>1, RestingMoves
        <5>3. Unasked(t)'  BY <1>1, <5>1, <5>2 DEF Unasked
        <5>4. ~Asked(t) \/ Asked(t)'  BY <1>0, AskedMoves
        <5>5. ~Collected(t) \/ Collected(t)'  BY <4>1, <5>2 DEF Collected
        <5> QED  BY <1>1, <3>1, <4>0, <5>3, <5>4, <5>5 DEF Multiplies
      <4>3. CASE Asked(t) /\ ~Unasked(t)
        <5>1. Asked(t)'  BY <1>0, <4>3, AskedMoves
        <5>2. ~Collected(t) \/ Collected(t)'
          <6> SUFFICES ASSUME Collected(t) PROVE Collected(t)'  OBVIOUS
          <6>1. Resting(t) /\ regs[t] = Result(before[t])  BY DEF Collected
          <6>2. Resting(t)' /\ regs' = regs  BY <1>0, <6>1, RestingMoves
          <6> QED  BY <4>1, <6>1, <6>2 DEF Collected
        <5> QED  BY <1>1, <3>1, <4>0, <4>3, <5>1, <5>2 DEF Multiplies
      <4>4. CASE ~Asked(t) /\ ~Unasked(t)
        <5>1. Collected(t)  BY <3>1, <4>4 DEF Multiplies
        <5>2. Resting(t) /\ regs[t] = Result(before[t])  BY <5>1 DEF Collected
        <5>3. Resting(t)' /\ regs' = regs  BY <1>0, <5>2, RestingMoves
        <5>4. Collected(t)'  BY <4>1, <5>2, <5>3 DEF Collected
        <5> QED  BY <1>1, <3>1, <4>0, <4>4, <5>4 DEF Multiplies
      <4> QED  BY <4>2, <4>3, <4>4
    <3> QED  BY <1>1, <2>3, <3>2 DEF Local, InProd, Stopping
  <2>4. CASE Stopping
    <3>1. Stops(t)  BY <2>1, <2>4 DEF Local
    <3>2. t \in left  BY <1>2, <3>1 DEF Stops
    <3>3. CASE pc = "stop" \/ t # LastOf(left)
      <4>1. Resting(t)  BY <3>1, <3>2, <3>3 DEF Stops
      <4>2. Resting(t)' /\ regs' = regs  BY <1>0, <4>1, RestingMoves
      <4>3. Stops(t)'  BY <1>1, <3>2, <3>3, <4>2 DEF Stops
      <4> QED  BY <1>1, <2>4, <4>2, <4>3 DEF Local, InProd, Stopping
    <3>4. CASE ~(pc = "stop" \/ t # LastOf(left))
      <4>1. Woken(t) /\ pc \in {"wake", "join"}  BY <2>4, <3>1, <3>2, <3>4 DEF Stops, Stopping
      <4>2. Woken(t)' /\ regs' = regs  BY <1>0, <4>1, WokenMoves
      <4>3. Stops(t)'  BY <1>1, <3>2, <3>4, <4>2 DEF Stops
      <4> QED  BY <1>1, <2>4, <4>2, <4>3 DEF Local, InProd, Stopping
    <3> QED  BY <3>3, <3>4
  <2> QED  BY <1>0, <2>2, <2>3, <2>4 DEF Control, InProd, Stopping
<1>4. ASSUME NEW u \in Threads \ {t}  PROVE Local(u)'
  <2>1. Local(u)  BY <1>0
  <2>2. /\ Off(u)' <=> Off(u)
        /\ New(u)' <=> New(u)
        /\ Resting(u)' <=> Resting(u)
        /\ Unasked(u)' <=> Unasked(u)
        /\ Asked(u)' <=> Asked(u)
        /\ Collected(u)' <=> Collected(u)
    BY <1>1, Untouched
  <2>3. Woken(u)' <=> Woken(u)  BY <1>1 DEF Woken
  <2>4. (u \in Targets(Head(rest)))' <=> u \in Targets(Head(rest))  BY <1>1 DEF Targets
  <2>5. Multiplies(u)' <=> Multiplies(u)  BY <1>1, <2>2, <2>4 DEF Multiplies
  <2>6. Stops(u)' <=> Stops(u)  BY <1>1, <2>2, <2>3 DEF Stops
  <2> QED  BY <1>1, <2>1, <2>2, <2>5, <2>6 DEF Local, InProd, Stopping
<1>5. Types'  BY WorkerTypes
<1>6. Control'  BY <1>0, <1>1 DEF Control, InProd, Stopping, Targets
<1>7. \A u \in Threads : Local(u)'  BY <1>3, <1>4
<1> QED  BY <1>3, <1>5, <1>6, <1>7 DEF MTInv

-----------------------------------------------------------------------------
(* The steps of the caller.                                                *)

State(r, m) == [regs |-> r, mem |-> m]

LEMMA SetRegs ==
    ASSUME NEW r, IsFile(r), NEW m, NEW t, NEW reg \in Fields, NEW v,
           reg = "en" => v \in BOOLEAN, reg = "vlen" => v \in Nat
    PROVE  IsFile(Set(State(r, m), t, reg, v).regs)
<1> DEFINE s == [r[t] EXCEPT ![reg] = v]
           q == [r EXCEPT ![t] = s]
<1>1. Set(State(r, m), t, reg, v).regs = q \/ Set(State(r, m), t, reg, v).regs = r
  BY DEF Set, State
<1>2. r = [u \in Threads |-> r[u]] /\ \A u \in Threads : IsThread(r[u])  BY DEF IsFile
<1>3. ASSUME t \in Threads  PROVE IsThread(s)
  <2>1. IsThread(r[t])  BY <1>2, <1>3
  <2>2. DOMAIN r[t] = Fields /\ r[t].en \in BOOLEAN /\ r[t].vlen \in Nat  BY <2>1 DEF IsThread
  <2>3. /\ DOMAIN s = Fields /\ s = [f \in Fields |-> s[f]] /\ s[reg] = v
        /\ \A f \in Fields \ {reg} : s[f] = r[t][f]
    BY <2>2
  <2> HIDE DEF s
  <2>4. s.en \in BOOLEAN
    <3>1. CASE reg = "en"  BY <2>3, <3>1
    <3>2. CASE reg # "en"  BY <2>2, <2>3, <3>2 DEF Fields
    <3> QED  BY <3>1, <3>2
  <2>5. s.vlen \in Nat
    <3>1. CASE reg = "vlen"  BY <2>3, <3>1
    <3>2. CASE reg # "vlen"  BY <2>2, <2>3, <3>2 DEF Fields
    <3> QED  BY <3>1, <3>2
  <2> QED  BY <2>3, <2>4, <2>5 DEF IsThread
<1> HIDE DEF s
<1>4. DOMAIN r = Threads  BY <1>2
<1>5. /\ DOMAIN q = Threads /\ q = [u \in Threads |-> q[u]]
      /\ \A u \in Threads \ {t} : q[u] = r[u]
      /\ t \in Threads => q[t] = s
  BY <1>4
<1> HIDE DEF q
<1>6. \A u \in Threads : IsThread(q[u])  BY <1>2, <1>3, <1>5
<1>7. IsFile(q)  BY <1>5, <1>6 DEF IsFile
<1> QED  BY <1>1, <1>7

LEMMA ActfRegs ==
    ASSUME NEW r, IsFile(r), NEW m, NEW dst, NEW af
    PROVE  IsFile(Actf(State(r, m), dst, af).regs)
<1> DEFINE W == Working(r, dst)
           s(t) == [r[t] EXCEPT !.acc = Act(af, @)]
           q == [t \in Threads |-> IF t \in W THEN s(t) ELSE r[t]]
<1>1. Actf(State(r, m), dst, af).regs = q  BY DEF Actf, State
<1>2. \A t \in Threads : IsThread(r[t])  BY DEF IsFile
<1>3. ASSUME NEW t \in Threads  PROVE IsThread(s(t))
  <2>1. DOMAIN r[t] = Fields /\ r[t].en \in BOOLEAN /\ r[t].vlen \in Nat  BY <1>2 DEF IsThread
  <2> QED  BY <2>1 DEF IsThread, Fields
<1> HIDE DEF W, s
<1>4. \A t \in Threads : IsThread(q[t])  BY <1>2, <1>3
<1>5. q = [t \in Threads |-> q[t]]  OBVIOUS
<1> HIDE DEF q
<1>6. IsFile(q)  BY <1>4, <1>5 DEF IsFile
<1> QED  BY <1>1, <1>6

\* No command but a product changes anything else than a register or the memory.
LEMMA ExecuteRegs ==
    ASSUME NEW r, IsFile(r), NEW m, NEW c \in Commands, c.op # "prod", NEW res
    PROVE  IsFile(Execute(State(r, m), c, res).regs)
<1> DEFINE x == State(r, m)
           e == Execute(x, c, res)
<1>0. x.regs = r  BY DEF State
<1>1. CASE c.op = "seten"
  <2>1. e = Set(x, c.dst, "en", c.arg = 1)  BY <1>1 DEF Execute
  <2>2. (c.arg = 1) \in BOOLEAN  OBVIOUS
  <2>3. IsFile(Set(State(r, m), c.dst, "en", c.arg = 1).regs)  BY <2>2, SetRegs DEF Fields
  <2> QED  BY <2>1, <2>3
<1>2. CASE c.op = "setacc"
  <2>1. e = Set(x, c.dst, "acc", c.arg)  BY <1>2 DEF Execute
  <2> QED  BY <2>1, SetRegs DEF Fields
<1>3. CASE c.op = "setvl"
  <2>1. e = Set(x, c.dst, "vlen", c.arg)  BY <1>3 DEF Execute
  <2>2. c.arg \in Nat  BY <1>3, ProgramAssumption
  <2> QED  BY <2>1, <2>2, SetRegs DEF Fields
<1>4. CASE c.op = "setrs"
  <2>1. e = Set(x, c.dst, "rs", Pointer(res, c))  BY <1>4 DEF Execute
  <2> QED  BY <2>1, SetRegs DEF Fields
<1>5. CASE c.op = "setrt"
  <2>1. e = Set(x, c.dst, "rt", Pointer(res, c))  BY <1>5 DEF Execute
  <2> QED  BY <2>1, SetRegs DEF Fields
<1>6. CASE c.op = "setrd"
  <2>1. e = Set(x, c.dst, "rd", Pointer(res, c))  BY <1>6 DEF Execute
  <2> QED  BY <2>1, SetRegs DEF Fields
<1>7. CASE c.op = "store"
  <2>1. e = Store(x, c.dst)  BY <1>7 DEF Execute
  <2>2. Store(x, c.dst).regs = r  BY DEF Store, State
  <2> QED  BY <2>1, <2>2
<1>8. CASE c.op = "af"
  <2>1. e = Actf(x, c.dst, c.arg)  BY <1>8 DEF Execute
  <2> QED  BY <2>1, ActfRegs
<1>9. CASE c.op \notin {"seten", "setacc", "setvl", "setrs", "setrt", "setrd", "store", "af"}
  <2>1. e = x  BY <1>9 DEF Execute
  <2> QED  BY <1>0, <2>1
<1> QED  BY <1>1, <1>2, <1>3, <1>4, <1>5, <1>6, <1>7, <1>8, <1>9

\* Registers that are the same are as well typed, and the same for a sequence.
LEMMA SameFile ==
    /\ regs' = regs /\ IsFile(regs) => IsFile(regs)'
    /\ before' = before /\ IsFile(before) => IsFile(before)'
    /\ before' = regs /\ IsFile(regs) => IsFile(before)'
BY DEF IsFile, IsThread

LEMMA ClearIsFile == IsFile(SEQ!Clear)
<1> DEFINE z == [en |-> FALSE, acc |-> 0, vlen |-> 0, rs |-> <<"null", 0>>,
                 rt |-> <<"null", 0>>, rd |-> <<"null", 0>>]
<1>1. SEQ!Clear = [t \in Threads |-> z]
  BY DEF SEQ!Clear, SEQ!Threads, SEQ!Vpus, Threads, Vpus
<1>2. /\ DOMAIN z = Fields /\ z.en \in BOOLEAN /\ z.vlen \in Nat
      /\ z = [f \in Fields |-> z[f]]
  BY DEF Fields
<1> HIDE DEF z
<1>3. IsThread(z)  BY <1>2 DEF IsThread
<1>4. \A t \in Threads : SEQ!Clear[t] = z  BY <1>1
<1>5. SEQ!Clear = [t \in Threads |-> SEQ!Clear[t]]  BY <1>1
<1> QED  BY <1>3, <1>4, <1>5 DEF IsFile

LEMMA SomeThread == <<0, 0>> \in Threads
BY InstrAssumption DEF Threads, Vpus

LEMMA OpenInv ==
    ASSUME MTInv, Open
    PROVE  MTInv'
<1>0. Types /\ Control  BY DEF MTInv
<1>1. /\ pc = "closed" /\ pc' = "starting" /\ left' = Threads /\ regs' = SEQ!Clear
      /\ ready' = All(0) /\ done' = All(0) /\ stop' = All(FALSE) /\ wpc' = All("none")
      /\ rest' = rest /\ before' = before /\ k' = k
  BY DEF Open
<1>2. IsFile(regs)'  BY <1>1, ClearIsFile DEF IsFile, IsThread
<1>3. Types'  BY <1>0, <1>1, <1>2, SameFile DEF Types, All
<1>4. Control'  BY <1>0, <1>1, SomeThread DEF Control, InProd, Stopping
<1>5. \A t \in Threads : New(t)'  BY <1>1 DEF New, All
<1>6. \A t \in Threads : Local(t)'  BY <1>1, <1>5 DEF Local, InProd, Stopping
<1> QED  BY <1>3, <1>4, <1>6 DEF MTInv

LEMMA StartThreadInv ==
    ASSUME MTInv, StartThread
    PROVE  MTInv'
<1> DEFINE f == FirstOf(left)
<1>0. Types /\ Control /\ \A t \in Threads : Local(t)  BY DEF MTInv
<1>1. /\ pc = "starting" /\ left' = left \ {f} /\ wpc' = [wpc EXCEPT ![f] = "top"]
      /\ pc' = (IF left' = {} THEN "idle" ELSE pc)
      /\ rest' = rest /\ regs' = regs /\ ready' = ready /\ done' = done /\ stop' = stop
      /\ k' = k /\ before' = before /\ mem' = mem
  BY DEF StartThread
<1>2. f \in left /\ f \in Threads /\ left \subseteq Threads
  BY <1>0, <1>1, FirstAndLast DEF Types, Control
<1> HIDE DEF f
<1>3. Types'  BY <1>0, <1>1, SameFile DEF Types
<1>4. Control'  BY <1>0, <1>1 DEF Control, InProd, Stopping
<1>5. ASSUME NEW t \in Threads  PROVE IF t \in left' THEN New(t)' ELSE Resting(t)'
  <2>1. IF t \in left THEN New(t) ELSE Resting(t)  BY <1>0, <1>1 DEF Local
  <2>2. CASE t = f
    <3>1. New(t)  BY <1>2, <2>1, <2>2
    <3>2. wpc'[t] = "top"  BY <1>0, <1>1, <1>2, <2>2 DEF Types
    <3>3. Resting(t)'  BY <1>1, <3>1, <3>2 DEF New, Resting
    <3> QED  BY <1>1, <2>2, <3>3
  <2>3. CASE t # f
    <3>1. wpc'[t] = wpc[t]  BY <1>0, <1>1, <2>3 DEF Types
    <3>2. (New(t)' <=> New(t)) /\ (Resting(t)' <=> Resting(t))  BY <1>1, <3>1 DEF New, Resting
    <3> QED  BY <1>1, <2>1, <2>3, <3>2
  <2> QED  BY <2>2, <2>3
<1>6. ASSUME NEW t \in Threads  PROVE Local(t)'
  <2>1. CASE left' = {}  BY <1>1, <1>5, <2>1 DEF Local, InProd, Stopping
  <2>2. CASE left' # {}  BY <1>1, <1>5, <2>2 DEF Local, InProd, Stopping
  <2> QED  BY <2>1, <2>2
<1> QED  BY <1>3, <1>4, <1>6 DEF MTInv

\* The threads that are deleted are those that rest.
LEMMA DeleteInv ==
    ASSUME MTInv, Delete, pc \in {"starting", "idle"}
    PROVE  MTInv'
<1>0. Types /\ Control /\ \A t \in Threads : Local(t)  BY DEF MTInv
<1>1. /\ left' = Joinable /\ pc' = (IF left' = {} THEN "closed" ELSE "stop")
      /\ rest' = rest /\ regs' = regs /\ ready' = ready /\ done' = done /\ stop' = stop
      /\ wpc' = wpc /\ k' = k /\ before' = before /\ mem' = mem
  BY DEF Delete
<1>2. left' \subseteq Threads  BY <1>1 DEF Joinable
<1>3. Types'  BY <1>0, <1>1, <1>2, SameFile DEF Types
<1>4. Control'  BY <1>0, <1>1 DEF Control, InProd, Stopping
<1>5. ASSUME NEW t \in Threads  PROVE IF t \in left' THEN Resting(t)' ELSE Off(t)'
  <2>1. New(t) \/ Resting(t)  BY <1>0 DEF Local
  <2>2. t \in left' <=> wpc[t] # "none"  BY <1>1 DEF Joinable
  <2>3. CASE New(t)  BY <1>1, <2>2, <2>3 DEF New, Off
  <2>4. CASE Resting(t)  BY <1>1, <2>2, <2>4 DEF Resting
  <2> QED  BY <2>1, <2>3, <2>4
<1>6. ASSUME NEW t \in Threads  PROVE Local(t)'
  <2>1. CASE left' = {}  BY <1>1, <1>5, <2>1 DEF Local, InProd, Stopping
  <2>2. CASE left' # {}
    <3>1. pc' = "stop"  BY <1>1, <2>2
    <3>2. Stops(t)'  BY <1>5, <3>1 DEF Stops
    <3> QED  BY <3>1, <3>2 DEF Local, InProd, Stopping
  <2> QED  BY <2>1, <2>2
<1> QED  BY <1>3, <1>4, <1>6 DEF MTInv

LEMMA StopFlagInv ==
    ASSUME MTInv, StopFlag
    PROVE  MTInv'
<1> DEFINE l == LastOf(left)
<1>0. Types /\ Control /\ \A t \in Threads : Local(t)  BY DEF MTInv
<1>1. /\ pc = "stop" /\ pc' = "wake" /\ stop' = [stop EXCEPT ![l] = TRUE]
      /\ left' = left /\ rest' = rest /\ regs' = regs /\ ready' = ready /\ done' = done
      /\ wpc' = wpc /\ k' = k /\ before' = before /\ mem' = mem
  BY DEF StopFlag
<1>2. l \in left /\ l \in Threads
  BY <1>0, <1>1, FirstAndLast DEF Types, Control, Stopping
<1>3. LastOf(left)' = l  BY <1>1
<1> HIDE DEF l
<1>4. Types'  BY <1>0, <1>1, SameFile DEF Types
<1>5. Control'  BY <1>0, <1>1 DEF Control, InProd, Stopping
<1>6. ASSUME NEW t \in Threads  PROVE Stops(t)'
  <2>1. IF t \in left THEN Resting(t) ELSE Off(t)
    BY <1>0, <1>1 DEF Local, Stops, Stopping
  <2>2. CASE t = l
    <3>1. Resting(t)  BY <1>2, <2>1, <2>2
    <3>2. stop'[t] = TRUE  BY <1>0, <1>1, <1>2, <2>2 DEF Types
    <3>3. Woken(t)'  BY <1>1, <3>1, <3>2 DEF Resting, Woken
    <3> QED  BY <1>1, <1>2, <1>3, <2>2, <3>3 DEF Stops
  <2>3. CASE t # l
    <3>1. stop'[t] = stop[t]  BY <1>0, <1>1, <2>3 DEF Types
    <3>2. (Off(t)' <=> Off(t)) /\ (Resting(t)' <=> Resting(t))  BY <1>1, <3>1 DEF Off, Resting
    <3> QED  BY <1>1, <1>3, <2>1, <2>3, <3>2 DEF Stops
  <2> QED  BY <2>2, <2>3
<1>7. \A t \in Threads : Local(t)'  BY <1>1, <1>6 DEF Local, InProd, Stopping
<1> QED  BY <1>4, <1>5, <1>7 DEF MTInv

LEMMA WakeInv ==
    ASSUME MTInv, Wake
    PROVE  MTInv'
<1> DEFINE l == LastOf(left)
<1>0. Types /\ Control /\ \A t \in Threads : Local(t)  BY DEF MTInv
<1>1. /\ pc = "wake" /\ pc' = "join" /\ ready' = [ready EXCEPT ![l] = 1]
      /\ left' = left /\ rest' = rest /\ regs' = regs /\ stop' = stop /\ done' = done
      /\ wpc' = wpc /\ k' = k /\ before' = before /\ mem' = mem
  BY DEF Wake, Up
<1>2. l \in left /\ l \in Threads
  BY <1>0, <1>1, FirstAndLast DEF Types, Control, Stopping
<1>3. LastOf(left)' = l  BY <1>1
<1> HIDE DEF l
<1>4. Types'  BY <1>0, <1>1, SameFile DEF Types
<1>5. Control'  BY <1>0, <1>1 DEF Control, InProd, Stopping
<1>6. ASSUME NEW t \in Threads  PROVE Stops(t)'
  <2>1. Stops(t)  BY <1>0, <1>1 DEF Local, Stopping
  <2>2. CASE t = l
    <3>1. Woken(t)  BY <1>1, <1>2, <2>1, <2>2 DEF Stops, l
    <3>2. Woken(t)'  BY <1>1, <3>1 DEF Woken
    <3> QED  BY <1>1, <1>2, <1>3, <2>2, <3>2 DEF Stops
  <2>3. CASE t # l
    <3>1. IF t \in left THEN Resting(t) ELSE Off(t)  BY <2>1, <2>3 DEF Stops, l
    <3>2. ready'[t] = ready[t]  BY <1>0, <1>1, <2>3 DEF Types
    <3>3. (Off(t)' <=> Off(t)) /\ (Resting(t)' <=> Resting(t))  BY <1>1, <3>2 DEF Off, Resting
    <3> QED  BY <1>1, <1>3, <2>3, <3>1, <3>3 DEF Stops
  <2> QED  BY <2>2, <2>3
<1>7. \A t \in Threads : Local(t)'  BY <1>1, <1>6 DEF Local, InProd, Stopping
<1> QED  BY <1>4, <1>5, <1>7 DEF MTInv

LEMMA JoinInv ==
    ASSUME MTInv, Join
    PROVE  MTInv'
<1> DEFINE l == LastOf(left)
<1>0. Types /\ Control /\ \A t \in Threads : Local(t)  BY DEF MTInv
<1>1. /\ pc = "join" /\ wpc[l] = "exit" /\ left' = left \ {l}
      /\ pc' = (IF left' = {} THEN "closed" ELSE "stop")
      /\ rest' = rest /\ regs' = regs /\ ready' = ready /\ stop' = stop /\ done' = done
      /\ wpc' = wpc /\ k' = k /\ before' = before /\ mem' = mem
  BY DEF Join
<1>2. Types'  BY <1>0, <1>1, SameFile DEF Types
<1>3. Control'  BY <1>0, <1>1 DEF Control, InProd, Stopping
<1>4. ASSUME NEW t \in Threads  PROVE IF t \in left' THEN Resting(t)' ELSE Off(t)'
  <2>1. Stops(t)  BY <1>0, <1>1 DEF Local, Stopping
  <2>2. (Off(t)' <=> Off(t)) /\ (Resting(t)' <=> Resting(t))  BY <1>1 DEF Off, Resting
  <2>3. CASE t = l
    <3>1. Off(t)  BY <1>1, <2>3 DEF Off
    <3> QED  BY <1>1, <2>2, <2>3, <3>1
  <2>4. CASE t # l
    <3>1. IF t \in left THEN Resting(t) ELSE Off(t)  BY <2>1, <2>4 DEF Stops
    <3> QED  BY <1>1, <2>2, <2>4, <3>1
  <2> QED  BY <2>3, <2>4
<1>5. ASSUME NEW t \in Threads  PROVE Local(t)'
  <2>1. CASE left' = {}  BY <1>1, <1>4, <2>1 DEF Local, InProd, Stopping
  <2>2. CASE left' # {}
    <3>1. pc' = "stop"  BY <1>1, <2>2
    <3>2. Stops(t)'  BY <1>4, <3>1 DEF Stops
    <3> QED  BY <3>1, <3>2 DEF Local, InProd, Stopping
  <2> QED  BY <2>1, <2>2
<1> QED  BY <1>2, <1>3, <1>5 DEF MTInv

LEMMA CallInv ==
    ASSUME MTInv, Call
    PROVE  MTInv'
<1>0. Types /\ Control /\ \A t \in Threads : Local(t)  BY DEF MTInv
<1>1. /\ pc = "idle" /\ pc' = "run" /\ rest' \in Program
      /\ left' = left /\ regs' = regs /\ ready' = ready /\ stop' = stop /\ done' = done
      /\ wpc' = wpc /\ k' = k /\ before' = before /\ mem' = mem
  BY DEF Call
<1>2. rest' \in Seq(Commands)  BY <1>1, ProgramAssumption
<1>3. Types'  BY <1>0, <1>1, <1>2, SameFile DEF Types
<1>4. Control'  BY <1>0, <1>1 DEF Control, InProd, Stopping
<1>5. ASSUME NEW t \in Threads  PROVE Local(t)'
  <2>1. Resting(t)  BY <1>0, <1>1 DEF Local
  <2>2. Resting(t)'  BY <1>1, <2>1 DEF Resting
  <2> QED  BY <1>1, <2>2 DEF Local, InProd, Stopping
<1> QED  BY <1>3, <1>4, <1>5 DEF MTInv

LEMMA ReturnInv ==
    ASSUME MTInv, Return
    PROVE  MTInv'
<1>0. Types /\ Control /\ \A t \in Threads : Local(t)  BY DEF MTInv
<1>1. /\ pc = "run" /\ rest = << >> /\ pc' = "idle" /\ rest' = rest
      /\ left' = left /\ regs' = regs /\ ready' = ready /\ stop' = stop /\ done' = done
      /\ wpc' = wpc /\ k' = k /\ before' = before /\ mem' = mem
  BY DEF Return
<1>2. Types'  BY <1>0, <1>1, SameFile DEF Types
<1>3. Control'  BY <1>0, <1>1 DEF Control, InProd, Stopping
<1>4. ASSUME NEW t \in Threads  PROVE Local(t)'
  <2>1. Resting(t)  BY <1>0, <1>1 DEF Local
  <2>2. Resting(t)'  BY <1>1, <2>1 DEF Resting
  <2> QED  BY <1>1, <2>2 DEF Local, InProd, Stopping
<1> QED  BY <1>2, <1>3, <1>4 DEF MTInv

LEMMA NextCommand ==
    ASSUME Types, rest # << >>
    PROVE  Head(rest) \in Commands /\ Tail(rest) \in Seq(Commands)
BY HeadTailProperties DEF Types

LEMMA SimpleInv ==
    ASSUME MTInv, Simple
    PROVE  MTInv'
<1> DEFINE c == Head(rest)
           x == Execute(State(regs, mem), c, SEQ!AsIs(c))
<1>0. Types /\ Control /\ \A t \in Threads : Local(t)  BY DEF MTInv
<1>1. /\ pc = "run" /\ rest # << >> /\ c.op # "prod" /\ rest' = Tail(rest)
      /\ regs' = x.regs
      /\ pc' = pc /\ left' = left /\ ready' = ready /\ stop' = stop /\ done' = done
      /\ wpc' = wpc /\ k' = k /\ before' = before
  BY DEF Simple, State
<1>2. c \in Commands /\ rest' \in Seq(Commands)  BY <1>0, <1>1, NextCommand
<1>3. IsFile(x.regs)  BY <1>0, <1>1, <1>2, ExecuteRegs DEF Types
<1> HIDE DEF x, c
<1>4. IsFile(regs)'  BY <1>1, <1>3 DEF IsFile, IsThread
<1>5. Types'  BY <1>0, <1>1, <1>2, <1>4, SameFile DEF Types
<1>6. Control'  BY <1>0, <1>1 DEF Control, InProd, Stopping
<1>7. ASSUME NEW t \in Threads  PROVE Local(t)'
  <2>1. Resting(t)  BY <1>0, <1>1 DEF Local
  <2>2. Resting(t)'  BY <1>1, <2>1 DEF Resting
  <2> QED  BY <1>1, <2>2 DEF Local, InProd, Stopping
<1> QED  BY <1>5, <1>6, <1>7 DEF MTInv

LEMMA StartProdInv ==
    ASSUME MTInv, StartProd
    PROVE  MTInv'
<1> DEFINE c == Head(rest)
<1>0. Types /\ Control /\ \A t \in Threads : Local(t)  BY DEF MTInv
<1>1. /\ pc = "run" /\ rest # << >> /\ c.op = "prod" /\ pc' = "signal"
      /\ left' = Targets(c) /\ before' = regs
      /\ rest' = rest /\ regs' = regs /\ ready' = ready /\ stop' = stop /\ done' = done
      /\ wpc' = wpc /\ k' = k /\ mem' = mem
  BY DEF StartProd
<1>2. left' \subseteq Threads /\ Targets(Head(rest))' = Targets(c)  BY <1>1 DEF Targets
<1>3. Types'  BY <1>0, <1>1, <1>2, SameFile DEF Types
<1>4. Control'  BY <1>0, <1>1, <1>2 DEF Control, InProd, Stopping
<1>5. ASSUME NEW t \in Threads  PROVE Local(t)'
  <2>1. Resting(t)  BY <1>0, <1>1 DEF Local
  <2>2. Resting(t)'  BY <1>1, <2>1 DEF Resting
  <2>3. Unasked(t)'  BY <1>1, <2>2 DEF Unasked
  <2>4. Multiplies(t)'  BY <1>1, <1>2, <2>3 DEF Multiplies
  <2> QED  BY <1>1, <2>4 DEF Local, InProd, Stopping
<1> QED  BY <1>3, <1>4, <1>5 DEF MTInv

LEMMA SignalReadyInv ==
    ASSUME MTInv, SignalReady
    PROVE  MTInv'
<1> DEFINE f == FirstOf(left)
           T == Targets(Head(rest))
<1>0. Types /\ Control /\ \A t \in Threads : Local(t)  BY DEF MTInv
<1>1. /\ pc = "signal"
      /\ rest' = rest /\ regs' = regs /\ stop' = stop /\ done' = done
      /\ wpc' = wpc /\ k' = k /\ before' = before /\ mem' = mem
  BY DEF SignalReady
<1>2. \A t \in Threads : Multiplies(t)  BY <1>0, <1>1 DEF Local, InProd
<1>3. T' = T /\ T \subseteq Threads  BY <1>1 DEF Targets
<1>4. CASE left # {}
  <2>1. /\ ready' = [ready EXCEPT ![f] = 1] /\ left' = left \ {f} /\ pc' = pc
    BY <1>4 DEF SignalReady, Up
  <2>2. f \in left /\ f \in Threads  BY <1>0, <1>4, FirstAndLast DEF Types
  <2> HIDE DEF f
  <2>3. Types'  BY <1>0, <1>1, <2>1, SameFile DEF Types
  <2>4. Control'  BY <1>0, <1>1, <1>3, <2>1 DEF Control, InProd, Stopping
  <2>5. ASSUME NEW t \in Threads  PROVE Multiplies(t)'
    <3>1. CASE t = f
      <4>1. t \in T  BY <1>0, <1>1, <2>2, <3>1 DEF Control, InProd
      <4>2. Unasked(t)  BY <1>1, <1>2, <2>2, <3>1, <4>1 DEF Multiplies
      <4>3. ready'[t] = 1  BY <1>0, <2>1, <2>2, <3>1 DEF Types
      <4>4. Called(t)'  BY <1>1, <4>2, <4>3 DEF Unasked, Resting, Called
      <4>5. Asked(t)'  BY <4>4 DEF Asked
      <4>6. t \notin left'  BY <2>1, <3>1
      <4> QED  BY <1>1, <1>3, <2>1, <4>1, <4>5, <4>6 DEF Multiplies
    <3>2. CASE t # f
      <4>1. ready'[t] = ready[t]  BY <1>0, <2>1, <3>2 DEF Types
      <4>2. /\ Off(t)' <=> Off(t)
            /\ New(t)' <=> New(t)
            /\ Resting(t)' <=> Resting(t)
            /\ Unasked(t)' <=> Unasked(t)
            /\ Asked(t)' <=> Asked(t)
            /\ Collected(t)' <=> Collected(t)
        BY <1>1, <4>1, Untouched
      <4>3. t \in left' <=> t \in left  BY <2>1, <3>2
      <4>4. Multiplies(t)  BY <1>2
      <4> QED  BY <1>1, <1>3, <2>1, <4>2, <4>3, <4>4 DEF Multiplies
    <3> QED  BY <3>1, <3>2
  <2>6. \A t \in Threads : Local(t)'  BY <1>1, <2>1, <2>5 DEF Local, InProd, Stopping
  <2> QED  BY <2>3, <2>4, <2>6 DEF MTInv
<1>5. CASE left = {}
  <2>1. pc' = "wait" /\ left' = T /\ ready' = ready  BY <1>5 DEF SignalReady
  <2>2. Types'  BY <1>0, <1>1, <1>3, <2>1, SameFile DEF Types
  <2>3. Control'  BY <1>0, <1>1, <1>3, <2>1 DEF Control, InProd, Stopping
  <2>4. ASSUME NEW t \in Threads  PROVE Multiplies(t)'
    <3>1. /\ Off(t)' <=> Off(t)
          /\ New(t)' <=> New(t)
          /\ Resting(t)' <=> Resting(t)
          /\ Unasked(t)' <=> Unasked(t)
          /\ Asked(t)' <=> Asked(t)
          /\ Collected(t)' <=> Collected(t)
      BY <1>1, <2>1, Untouched
    <3>2. Multiplies(t)  BY <1>2
    <3> QED  BY <1>1, <1>3, <1>5, <2>1, <3>1, <3>2 DEF Multiplies
  <2>5. \A t \in Threads : Local(t)'  BY <2>1, <2>4 DEF Local, InProd, Stopping
  <2> QED  BY <2>2, <2>3, <2>5 DEF MTInv
<1> QED  BY <1>4, <1>5

LEMMA WaitDoneInv ==
    ASSUME MTInv, WaitDone
    PROVE  MTInv'
<1> DEFINE f == FirstOf(left)
           T == Targets(Head(rest))
<1>0. Types /\ Control /\ \A t \in Threads : Local(t)  BY DEF MTInv
<1>1. /\ pc = "wait"
      /\ regs' = regs /\ stop' = stop /\ ready' = ready
      /\ wpc' = wpc /\ k' = k /\ before' = before /\ mem' = mem
  BY DEF WaitDone
<1>2. \A t \in Threads : Multiplies(t)  BY <1>0, <1>1 DEF Local, InProd
<1>3. CASE left # {}
  <2>1. /\ done[f] = 1 /\ done' = [done EXCEPT ![f] = 0] /\ left' = left \ {f}
        /\ pc' = pc /\ rest' = rest
    BY <1>3 DEF WaitDone
  <2>2. f \in left /\ f \in Threads  BY <1>0, <1>3, FirstAndLast DEF Types
  <2>3. T' = T  BY <2>1 DEF Targets
  <2> HIDE DEF f
  <2>4. Types'  BY <1>0, <1>1, <2>1, SameFile DEF Types
  <2>5. Control'  BY <1>0, <1>1, <2>1, <2>3 DEF Control, InProd, Stopping
  <2>6. ASSUME NEW t \in Threads  PROVE Multiplies(t)'
    <3>1. CASE t = f
      <4>1. t \in T  BY <1>0, <1>1, <2>2, <3>1 DEF Control, InProd
      <4>2. Asked(t)  BY <1>1, <1>2, <2>2, <3>1, <4>1 DEF Multiplies
      <4>3. Answered(t) /\ wpc[t] \in {"top", "ready"}
        <5>1. done[t] # 0  BY <2>1, <3>1
        <5> QED  BY <4>2, <5>1 DEF Asked, Called, Begun, Summing, Answered
      <4>4. done'[t] = 0  BY <1>0, <2>1, <2>2, <3>1 DEF Types
      <4>5. Result(before[t])' = Result(before[t])  BY <1>1 DEF Result, Summed
      <4>6. Collected(t)'  BY <1>1, <4>3, <4>4, <4>5 DEF Answered, Resting, Collected
      <4>7. t \notin left'  BY <2>1, <3>1
      <4> QED  BY <1>1, <2>1, <2>3, <4>1, <4>6, <4>7 DEF Multiplies
    <3>2. CASE t # f
      <4>1. done'[t] = done[t]  BY <1>0, <2>1, <3>2 DEF Types
      <4>2. /\ Off(t)' <=> Off(t)
            /\ New(t)' <=> New(t)
            /\ Resting(t)' <=> Resting(t)
            /\ Unasked(t)' <=> Unasked(t)
            /\ Asked(t)' <=> Asked(t)
            /\ Collected(t)' <=> Collected(t)
        BY <1>1, <4>1, Untouched
      <4>3. t \in left' <=> t \in left  BY <2>1, <3>2
      <4>4. Multiplies(t)  BY <1>2
      <4> QED  BY <1>1, <2>1, <2>3, <4>2, <4>3, <4>4 DEF Multiplies
    <3> QED  BY <3>1, <3>2
  <2>7. \A t \in Threads : Local(t)'  BY <1>1, <2>1, <2>6 DEF Local, InProd, Stopping
  <2> QED  BY <2>4, <2>5, <2>7 DEF MTInv
<1>4. CASE left = {}
  <2>1. pc' = "run" /\ rest' = Tail(rest) /\ left' = left /\ done' = done
    BY <1>4 DEF WaitDone
  <2>2. rest' \in Seq(Commands)  BY <1>0, <1>1, <2>1, NextCommand DEF Control, InProd
  <2>3. Types'  BY <1>0, <1>1, <2>1, <2>2, SameFile DEF Types
  <2>4. Control'  BY <1>0, <2>1 DEF Control, InProd, Stopping
  <2>5. ASSUME NEW t \in Threads  PROVE Local(t)'
    <3>1. Unasked(t) \/ Collected(t)  BY <1>1, <1>2, <1>4 DEF Multiplies
    <3>2. Resting(t)  BY <3>1 DEF Unasked, Collected
    <3>3. Resting(t)'  BY <1>1, <2>1, <3>2 DEF Resting
    <3> QED  BY <2>1, <3>3 DEF Local, InProd, Stopping
  <2> QED  BY <2>3, <2>4, <2>5 DEF MTInv
<1> QED  BY <1>3, <1>4

-----------------------------------------------------------------------------
\* Through every call, product, failure of the constructor and destruction,
\* every worker is in step with the caller, and a sum is never more than the
\* first elements of the vectors, taken once.
THEOREM WorkersInStep == MTSpec => []MTInv
<1>1. MTInit => MTInv
  <2> SUFFICES ASSUME MTInit PROVE MTInv  OBVIOUS
  <2>1. /\ pc = "closed" /\ left = {} /\ rest = << >> /\ regs = SEQ!Clear /\ before = SEQ!Clear
        /\ ready = All(0) /\ done = All(0) /\ stop = All(FALSE) /\ wpc = All("none")
        /\ k = All(0)
    BY DEF MTInit
  <2>2. Types  BY <2>1, ClearIsFile, EmptySeq DEF Types, All
  <2>3. Control  BY <2>1 DEF Control, InProd, Stopping
  <2>4. \A t \in Threads : Off(t)  BY <2>1 DEF Off, All
  <2>5. \A t \in Threads : Local(t)  BY <2>1, <2>4 DEF Local, InProd, Stopping
  <2> QED  BY <2>2, <2>3, <2>5 DEF MTInv
<1>2. MTInv /\ [MTNext]_mtVars => MTInv'
  <2> SUFFICES ASSUME MTInv, [MTNext]_mtVars PROVE MTInv'  OBVIOUS
  <2>1. CASE Open  BY <2>1, OpenInv
  <2>2. CASE StartFails  BY <2>2, DeleteInv DEF StartFails
  <2>3. CASE Close  BY <2>3, DeleteInv DEF Close
  <2>4. CASE Call  BY <2>4, CallInv
  <2>5. CASE Caller
    BY <2>5, StartThreadInv, StopFlagInv, WakeInv, JoinInv, ReturnInv, SimpleInv, StartProdInv,
       SignalReadyInv, WaitDoneInv DEF Caller
  <2>6. CASE \E t \in Threads : Worker(t)  BY <2>6, WorkerInv
  <2>7. CASE UNCHANGED mtVars
    <3>0. Types /\ Control /\ \A t \in Threads : Local(t)  BY DEF MTInv
    <3>1. /\ pc' = pc /\ left' = left /\ rest' = rest /\ regs' = regs /\ mem' = mem
          /\ ready' = ready /\ done' = done /\ stop' = stop /\ wpc' = wpc /\ k' = k
          /\ before' = before
      BY <2>7 DEF mtVars
    <3>2. Types'  BY <3>0, <3>1, SameFile DEF Types
    <3>3. Control'  BY <3>0, <3>1 DEF Control, InProd, Stopping, Targets
    <3>4. ASSUME NEW t \in Threads  PROVE Local(t)'
      <4>1. /\ Off(t)' <=> Off(t)
            /\ New(t)' <=> New(t)
            /\ Resting(t)' <=> Resting(t)
            /\ Unasked(t)' <=> Unasked(t)
            /\ Asked(t)' <=> Asked(t)
            /\ Collected(t)' <=> Collected(t)
        BY <3>1, Untouched
      <4>2. Woken(t)' <=> Woken(t)  BY <3>1 DEF Woken
      <4>3. Targets(Head(rest))' = Targets(Head(rest))  BY <3>1 DEF Targets
      <4>4. Multiplies(t)' <=> Multiplies(t)  BY <3>1, <4>1, <4>3 DEF Multiplies
      <4>5. Stops(t)' <=> Stops(t)  BY <3>1, <4>1, <4>2 DEF Stops
      <4>6. Local(t)  BY <3>0
      <4> QED  BY <3>1, <4>1, <4>4, <4>5, <4>6 DEF Local, InProd, Stopping
    <3> QED  BY <3>2, <3>3, <3>4 DEF MTInv
  <2> QED  BY <2>1, <2>2, <2>3, <2>4, <2>5, <2>6, <2>7 DEF MTNext
<1> QED  BY <1>1, <1>2, PTL DEF MTSpec

-----------------------------------------------------------------------------
(* The refinement.  First: a command does in SwEmuSeq what it does here.   *)

LEMMA SameSet ==
    ASSUME NEW x, NEW t, NEW reg, NEW v
    PROVE  SEQ!Set(x, t, reg, v) = Set(x, t, reg, v)
BY DEF SEQ!Set, Set

LEMMA SameThreads == SEQ!Threads = Threads
BY DEF SEQ!Threads, SEQ!Vpus, Threads, Vpus

LEMMA SameBroadcast == ASSUME NEW d PROVE SEQ!Broadcast(d) = Broadcast(d)
BY DEF SEQ!Broadcast, Broadcast, SEQ!Vpus, Vpus

LEMMA SameWorking ==
    ASSUME NEW r, NEW d
    PROVE  SEQ!Working(r, d) = Working(r, d)
BY SameThreads, SameBroadcast DEF SEQ!Working, Working

LEMMA SameVecProd == ASSUME NEW s, NEW m PROVE SEQ!VecProd(s, m) = VecProd(s, m)
BY DEF SEQ!VecProd, VecProd, SEQ!PartialProd, PartialProd, SEQ!Element, Element

LEMMA SameProd ==
    ASSUME NEW x, NEW d
    PROVE  SEQ!Prod(x, d) = Prod(x, d)
BY SameThreads, SameWorking, SameVecProd DEF SEQ!Prod, Prod

LEMMA SameLast == ASSUME NEW W PROVE SEQ!LastOf(W) = LastOf(W)
BY DEF SEQ!LastOf, LastOf, SEQ!Before, Before

LEMMA SameStore ==
    ASSUME NEW x, NEW d
    PROVE  SEQ!Store(x, d) = Store(x, d)
BY SameThreads, SameWorking, SameLast DEF SEQ!Store, Store

LEMMA SameActf ==
    ASSUME NEW x, NEW d, NEW a
    PROVE  SEQ!Actf(x, d, a) = Actf(x, d, a)
BY SameThreads, SameWorking DEF SEQ!Actf, Actf

LEMMA SameExecute ==
    ASSUME NEW x, NEW c, NEW res
    PROVE  SEQ!Execute(x, c, res) = Execute(x, c, res)
BY SameSet, SameProd, SameStore, SameActf DEF SEQ!Execute, Execute, SEQ!Pointer, Pointer

\* The registers as the program sees them: a product in progress has not begun.
Shown == IF InProd THEN before ELSE regs

LEMMA IsStutter ==
    ASSUME rest' = rest, mem' = mem, Shown' = Shown
    PROVE  UNCHANGED SEQ!seqVars
BY DEF SEQ!seqVars, Shown, InProd

LEMMA IsExec ==
    ASSUME rest # << >>, rest' = Tail(rest), NEW x,
           x = Execute(State(Shown, mem), Head(rest), SEQ!AsIs(Head(rest))),
           Shown' = x.regs, mem' = x.mem
    PROVE  SEQ!Exec
BY SameExecute DEF SEQ!Exec, Shown, InProd, State

\* When the last worker has been collected, the registers of every thread are
\* those that the product leaves behind.
LEMMA ProductIsOver ==
    ASSUME MTInv, pc = "wait", left = {}
    PROVE  regs = Prod(State(before, mem), Head(rest).dst).regs
<1> DEFINE dst == Head(rest).dst
           W == Working(before, dst)
           f == [t \in Threads |-> IF t \in W
                                   THEN [before[t] EXCEPT !.acc = VecProd(before[t], mem)]
                                   ELSE before[t]]
<1>0. Types /\ Control /\ \A t \in Threads : Local(t)  BY DEF MTInv
<1>1. \A t \in Threads : Multiplies(t)  BY <1>0 DEF Local, InProd
<1>2. Prod(State(before, mem), dst).regs = f  BY DEF Prod, State
<1>3. ASSUME NEW t \in Threads  PROVE regs[t] = f[t]
  <2>1. before[t].en \in BOOLEAN  BY <1>0 DEF Types, IsFile, IsThread
  <2>2. t \in W <=> t \in Targets(Head(rest)) /\ before[t].en  BY DEF Working, Targets
  <2>3. CASE t \in Targets(Head(rest))
    <3>1. regs[t] = Result(before[t])  BY <1>1, <2>3 DEF Multiplies, Collected
    <3> QED  BY <2>1, <2>2, <2>3, <3>1 DEF Result, Summed, VecProd
  <2>4. CASE t \notin Targets(Head(rest))
    <3>1. regs[t] = before[t]  BY <1>1, <2>4 DEF Multiplies, Unasked
    <3> QED  BY <2>2, <2>4, <3>1
  <2> QED  BY <2>3, <2>4
<1>4. regs = [t \in Threads |-> regs[t]]  BY <1>0 DEF Types, IsFile
<1>5. f = [t \in Threads |-> f[t]]  OBVIOUS
<1> HIDE DEF f
<1>6. regs = f  BY <1>3, <1>4, <1>5
<1> QED  BY <1>2, <1>6

\* Every step is a step of SwEmuSeq, or one that it does not see.
LEMMA StepRefines ==
    ASSUME MTInv, [MTNext]_mtVars
    PROVE  [SEQ!SeqNext]_(SEQ!seqVars)
<1>0. Types /\ Control  BY DEF MTInv
<1>1. CASE Open
  <2>1. /\ pc = "closed" /\ pc' = "starting" /\ regs' = SEQ!Clear /\ rest' = rest /\ mem' = mem
    BY <1>1 DEF Open
  <2>2. rest = << >>  BY <1>0, <2>1 DEF Control
  <2>3. SEQ!Renew  BY <2>1, <2>2 DEF SEQ!Renew
  <2> QED  BY <2>3 DEF SEQ!SeqNext
<1>2. CASE StartFails \/ Close
  <2>1. /\ pc \in {"starting", "idle"} /\ pc' \in {"closed", "stop"}
        /\ rest' = rest /\ regs' = regs /\ mem' = mem
    BY <1>2 DEF StartFails, Close, Delete
  <2>2. Shown' = Shown  BY <2>1 DEF Shown, InProd
  <2> QED  BY <2>1, <2>2, IsStutter
<1>3. CASE Call
  <2>1. /\ pc = "idle" /\ pc' = "run" /\ rest' \in Program /\ regs' = regs /\ mem' = mem
    BY <1>3 DEF Call
  <2>2. rest = << >>  BY <1>0, <2>1 DEF Control
  <2>3. SEQ!Take  BY <2>1, <2>2 DEF SEQ!Take
  <2> QED  BY <2>3 DEF SEQ!SeqNext
<1>4. CASE StartThread \/ StopFlag \/ Wake \/ Join \/ Return
  <2>1. /\ pc \notin {"signal", "wait"} /\ pc' \notin {"signal", "wait"}
        /\ rest' = rest /\ regs' = regs /\ mem' = mem
    BY <1>4 DEF StartThread, StopFlag, Wake, Join, Return
  <2>2. Shown' = Shown  BY <2>1 DEF Shown, InProd
  <2> QED  BY <2>1, <2>2, IsStutter
<1>5. CASE Simple
  <2> DEFINE x == Execute(State(regs, mem), Head(rest), SEQ!AsIs(Head(rest)))
  <2>1. /\ pc = "run" /\ pc' = pc /\ rest # << >> /\ rest' = Tail(rest)
        /\ regs' = x.regs /\ mem' = x.mem
    BY <1>5 DEF Simple, State
  <2>2. Shown = regs /\ Shown' = regs'  BY <2>1 DEF Shown, InProd
  <2> HIDE DEF x
  <2>3. x = Execute(State(Shown, mem), Head(rest), SEQ!AsIs(Head(rest)))  BY <2>2 DEF x
  <2>4. SEQ!Exec  BY <2>1, <2>2, <2>3, IsExec
  <2> QED  BY <2>4 DEF SEQ!SeqNext
<1>6. CASE StartProd
  <2>1. /\ pc = "run" /\ pc' = "signal" /\ rest' = rest /\ mem' = mem /\ before' = regs
    BY <1>6 DEF StartProd
  <2>2. Shown' = Shown  BY <2>1 DEF Shown, InProd
  <2> QED  BY <2>1, <2>2, IsStutter
<1>7. CASE SignalReady
  <2>1. /\ pc = "signal" /\ pc' \in {"signal", "wait"}
        /\ rest' = rest /\ mem' = mem /\ before' = before
    BY <1>7 DEF SignalReady
  <2>2. Shown' = Shown  BY <2>1 DEF Shown, InProd
  <2> QED  BY <2>1, <2>2, IsStutter
<1>8. CASE WaitDone /\ left # {}
  <2>1. pc = "wait" /\ pc' = pc /\ rest' = rest /\ mem' = mem /\ before' = before
    BY <1>8 DEF WaitDone
  <2>2. Shown' = Shown  BY <2>1 DEF Shown, InProd
  <2> QED  BY <2>1, <2>2, IsStutter
<1>9. CASE WaitDone /\ left = {}
  <2> DEFINE c == Head(rest)
             x == Prod(State(before, mem), c.dst)
  <2>1. /\ pc = "wait" /\ pc' = "run" /\ rest' = Tail(rest)
        /\ regs' = regs /\ mem' = mem
    BY <1>9 DEF WaitDone
  <2>2. rest # << >> /\ c.op = "prod"  BY <1>0, <2>1 DEF Control, InProd
  <2>3. Shown = before /\ Shown' = regs  BY <2>1 DEF Shown, InProd
  <2>4. x = Execute(State(Shown, mem), c, SEQ!AsIs(c))  BY <2>2, <2>3 DEF Execute
  <2>5. regs = x.regs  BY <1>9, <2>1, ProductIsOver
  <2>6. x.mem = mem  BY DEF Prod, State
  <2> HIDE DEF c, x
  <2>7. SEQ!Exec  BY <2>1, <2>2, <2>3, <2>4, <2>5, <2>6, IsExec DEF c
  <2> QED  BY <2>7 DEF SEQ!SeqNext
<1>10. CASE \E t \in Threads : Worker(t)
  <2>1. PICK t \in Threads : Worker(t)  BY <1>10
  <2>2. pc' = pc /\ rest' = rest /\ mem' = mem /\ before' = before
    BY <1>0, <2>1, WorkerFrame
  <2>3. regs' = regs \/ InProd  BY <2>1, WorkerInv
  <2>4. Shown' = Shown  BY <2>2, <2>3 DEF Shown, InProd
  <2> QED  BY <2>2, <2>4, IsStutter
<1>11. CASE UNCHANGED mtVars
  <2>1. pc' = pc /\ rest' = rest /\ mem' = mem /\ before' = before /\ regs' = regs
    BY <1>11 DEF mtVars
  <2>2. Shown' = Shown  BY <2>1 DEF Shown, InProd
  <2> QED  BY <2>1, <2>2, IsStutter
<1> QED  BY <1>1, <1>2, <1>3, <1>4, <1>5, <1>6, <1>7, <1>8, <1>9, <1>10, <1>11
         DEF MTNext, Caller

\* Whatever the workers do and in which order, the program is executed command by
\* command: execPROD_MT is execPROD_ST.
THEOREM WorkersImplementSequence == MTSpec => ProdIsSequential
<1>1. MTInit => SEQ!SeqInit(InitialMemory)  BY DEF MTInit, SEQ!SeqInit
<1>2. MTInv /\ [MTNext]_mtVars => [SEQ!SeqNext]_(SEQ!seqVars)  BY StepRefines
<1> QED  BY <1>1, <1>2, WorkersInStep, PTL DEF MTSpec, ProdIsSequential
=============================================================================
