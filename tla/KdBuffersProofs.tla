-------------------------- MODULE KdBuffersProofs --------------------------
(***************************************************************************)
(* Proofs about KdBuffers, for every number of threads, objects, ids and   *)
(* resources, and clients that destroy their command buffers before they   *)
(* close the file.                                                         *)
(*                                                                         *)
(* The invariant Consistent keeps a ledger: Balance says that the count of *)
(* a buffer is the number of its uses (Uses), which are places in lists,   *)
(* handlers and jobs.  A step changes the lists of at most one command     *)
(* buffer and of one thread, so it changes the uses by their Share, or by  *)
(* the thread's Part when no command buffer changes (UsesChange, PartStep).*)
(* Homes, Phases, Records and Handlers say where buffers are, when the     *)
(* file is closed, and what command buffers and handlers hold.             *)
(***************************************************************************)
EXTENDS KdBuffers, FiniteSetTheorems, WellFoundedInduction, TLAPS

\* 1 when x is in S
Has(S, x) == IF x \in S THEN 1 ELSE 0

-----------------------------------------------------------------------------
(* Lists and places.                                                       *)

LEMMA ListType ==
    ASSUME NEW l \in Lists
    PROVE  /\ DOMAIN l \subseteq 1..MaxRes
           /\ \A i \in DOMAIN l : l[i] \in Object
  BY BoundsAssumption DEF Lists

LEMMA EmptyList == << >> \in Lists /\ DOMAIN << >> = {}
<1>1. << >> \in [1..0 -> Object]  OBVIOUS
<1>2. 0 \in 0..MaxRes  BY BoundsAssumption
<1> QED  BY <1>1, <1>2 DEF Lists

\* idr_alloc finds a free slot when there is one.
Less == {p \in Nat \X Nat : p[1] < p[2]}

LEMMA LowestFreeIsFree ==
    ASSUME FreeIds # {}
    PROVE  LowestFree \in FreeIds
<1>1. FreeIds \subseteq Nat  BY BoundsAssumption DEF FreeIds, Ids
<1>2. IsWellFoundedOn(Less, Nat)
  BY NatLessThanWellFounded, Zenon DEF OpToRel, Less
<1>3. PICK i \in FreeIds : \A j \in FreeIds : <<j, i>> \notin Less
  BY <1>1, <1>2, WFMin
<1>4. ASSUME NEW j \in FreeIds  PROVE i <= j
  <2>1. i \in Nat /\ j \in Nat  BY <1>1
  <2>2. j < i => <<j, i>> \in Less  BY <2>1 DEF Less
  <2> QED  BY <1>3, <2>1, <2>2
<1> QED  BY <1>4 DEF LowestFree

LEMMA CountType ==
    ASSUME NEW l \in Lists, NEW o
    PROVE  /\ IsFiniteSet({i \in DOMAIN l : l[i] = o})
           /\ Count(l, o) \in Nat
           /\ Count(l, o) > 0 <=> \E i \in DOMAIN l : l[i] = o
<1> DEFINE S == {i \in DOMAIN l : l[i] = o}
<1>1. S \in SUBSET (1..MaxRes)  BY ListType
<1>2. IsFiniteSet(1..MaxRes)  BY FS_Interval, BoundsAssumption
<1>3. IsFiniteSet(S)  BY <1>1, <1>2, FS_Subset
<1>4. Count(l, o) \in Nat /\ (Count(l, o) = 0 <=> S = {})
  BY <1>3, FS_CardinalityType, FS_EmptySet DEF Count
<1> QED  BY <1>3, <1>4

LEMMA CountEmpty == \A o : Count(<< >>, o) = 0
<1>1. \A o : {i \in DOMAIN << >> : << >>[i] = o} = {}  BY EmptyList
<1> QED  BY <1>1, FS_EmptySet DEF Count

LEMMA CountSingle ==
    ASSUME NEW x, NEW o
    PROVE  Count(<<x>>, o) = Has({x}, o)
<1>1. DOMAIN <<x>> = {1} /\ <<x>>[1] = x  OBVIOUS
<1>2. CASE x = o
  <2>1. {i \in DOMAIN <<x>> : <<x>>[i] = o} = {1}  BY <1>1, <1>2
  <2> QED  BY <2>1, <1>2, FS_Singleton DEF Count, Has
<1>3. CASE x # o
  <2>1. {i \in DOMAIN <<x>> : <<x>>[i] = o} = {}  BY <1>1, <1>3
  <2> QED  BY <2>1, <1>3, FS_EmptySet DEF Count, Has
<1> QED  BY <1>2, <1>3

LEMMA PlacesFinite ==
    ASSUME NEW D, IsFiniteSet(D), NEW L \in [D -> Lists], NEW o
    PROVE  IsFiniteSet(Places(L, o)) /\ Cardinality(Places(L, o)) \in Nat
<1>0. IsFiniteSet(1..MaxRes)  BY FS_Interval, BoundsAssumption
<1>1. IsFiniteSet(D \X (1..MaxRes))  BY <1>0, FS_Product
<1>2. Places(L, o) \in SUBSET (D \X (1..MaxRes))  BY DEF Places
<1> QED  BY <1>1, <1>2, FS_Subset, FS_CardinalityType

\* When one list changes, the places of a buffer change by what the old and the
\* new list hold.
LEMMA PlacesChange ==
    ASSUME NEW D, IsFiniteSet(D), NEW L \in [D -> Lists], NEW M \in [D -> Lists],
           NEW x \in D, \A y \in D \ {x} : M[y] = L[y], NEW o
    PROVE  Cardinality(Places(M, o)) + Count(L[x], o)
             = Cardinality(Places(L, o)) + Count(M[x], o)
<1> DEFINE Of(l) == {x} \X {i \in DOMAIN l : l[i] = o}
           Rest == {p \in Places(L, o) : p[1] # x}
<1>1. ASSUME NEW K \in [D -> Lists], \A y \in D \ {x} : K[y] = L[y]
      PROVE  Cardinality(Places(K, o)) = Cardinality(Rest) + Count(K[x], o)
  <2>1. Places(K, o) = Rest \cup Of(K[x])
    <3>1. DOMAIN K = D /\ DOMAIN L = D  OBVIOUS
    <3>2. ASSUME NEW p \in Places(K, o)  PROVE p \in Rest \cup Of(K[x])
      BY <1>1, <3>1 DEF Places
    <3>3. ASSUME NEW p \in Rest  PROVE p \in Places(K, o)
      BY <1>1, <3>1 DEF Places
    <3>4. ASSUME NEW p \in Of(K[x])  PROVE p \in Places(K, o)
      BY <3>1, ListType DEF Places
    <3> QED  BY <3>2, <3>3, <3>4
  <2>2. Rest \cap Of(K[x]) = {}  OBVIOUS
  <2>3. IsFiniteSet(Rest)
    <3>1. Rest \in SUBSET Places(L, o)  OBVIOUS
    <3> QED  BY <3>1, PlacesFinite, FS_Subset
  <2>4. IsFiniteSet(Of(K[x])) /\ Cardinality(Of(K[x])) = Count(K[x], o)
    <3>1. IsFiniteSet({x}) /\ Cardinality({x}) = 1  BY FS_Singleton
    <3>2. Count(K[x], o) \in Nat /\ IsFiniteSet({i \in DOMAIN K[x] : K[x][i] = o})
      BY CountType
    <3>3. Cardinality(Of(K[x])) = Cardinality({x}) * Count(K[x], o)
      BY <3>1, <3>2, FS_Product DEF Count
    <3> QED  BY <3>1, <3>2, <3>3, FS_Product
  <2>5. Cardinality(Rest) \in Nat /\ Count(K[x], o) \in Nat
    BY <2>3, FS_CardinalityType, CountType
  <2>6. Cardinality(Rest \cup Of(K[x]))
          = Cardinality(Rest) + Cardinality(Of(K[x])) - Cardinality(Rest \cap Of(K[x]))
    BY <2>3, <2>4, FS_Union
  <2>7. Cardinality(Rest \cap Of(K[x])) = 0  BY <2>2, FS_EmptySet
  <2> HIDE DEF Rest, Of
  <2> QED  BY <2>1, <2>4, <2>5, <2>6, <2>7
<1>2. Cardinality(Rest) \in Nat /\ Count(L[x], o) \in Nat /\ Count(M[x], o) \in Nat
  <2>1. Rest \in SUBSET Places(L, o)  OBVIOUS
  <2> QED  BY <2>1, PlacesFinite, FS_Subset, FS_CardinalityType, CountType
<1> HIDE DEF Rest
<1> QED  BY <1>1, <1>2

\* A list that holds a buffer is a place of it.
LEMMA PlacesHold ==
    ASSUME NEW D, IsFiniteSet(D), NEW L \in [D -> Lists], NEW o,
           NEW x \in D, NEW i \in DOMAIN L[x], L[x][i] = o
    PROVE  Cardinality(Places(L, o)) > 0
<1>1. <<x, i>> \in Places(L, o)  BY ListType DEF Places
<1> QED  BY <1>1, PlacesFinite, FS_EmptySet

LEMMA PlacesNone ==
    ASSUME NEW D, NEW L \in [D -> Lists], NEW o,
           \A x \in D : \A i \in DOMAIN L[x] : L[x][i] # o
    PROVE  Cardinality(Places(L, o)) = 0
<1>1. Places(L, o) = {}  BY DEF Places
<1> QED  BY <1>1, FS_EmptySet


-----------------------------------------------------------------------------
(* The types of the state, and what binding and unbinding do.              *)

Buffers == [live : BOOLEAN, flags : SUBSET Flags, bind_count : Nat,
            has_res : BOOLEAN, res : Lists, prog : Lists]
Args == [obj : Object \cup {None}, id : Ids, bufs : Lists]

Types ==
    /\ idr \in [Ids -> Object \cup {None}]
    /\ buf \in [Object -> Buffers]
    /\ running \in SUBSET Object
    /\ pc \in [Thread -> ThreadPC]
    /\ arg \in [Thread -> Args]
    /\ ctx_state \in {"open", "closing"}
    /\ next_id \in 0..NumIds
    /\ lost \in [Object -> Nat]

\* What neither binding, nor unbinding, nor mapping touches.
SameThing(r, s) ==
    /\ s.live = r.live /\ s.has_res = r.has_res /\ s.res = r.res /\ s.prog = r.prog
    /\ "cmdbuf" \in s.flags <=> "cmdbuf" \in r.flags

LEMMA CountedType ==
    ASSUME NEW r \in Buffers, NEW n \in Nat, NEW F \in SUBSET Flags
    PROVE  [r EXCEPT !.bind_count = n, !.flags = F] \in Buffers
BY DEF Buffers

LEMMA BindEffect ==
    ASSUME NEW f \in [Object -> Buffers], NEW list \in Lists
    PROVE  /\ Bind(f, list) \in [Object -> Buffers]
           /\ \A o \in Object :
                 LET s == Bind(f, list)[o]
                 IN  /\ SameThing(f[o], s)
                     /\ s.bind_count = f[o].bind_count + Count(list, o)
                     /\ ("locked" \in f[o].flags <=> f[o].bind_count > 0)
                          => ("locked" \in s.flags <=> s.bind_count > 0)
<1>1. \A o \in Object : Count(list, o) \in Nat  BY CountType
<1>2. SUFFICES ASSUME NEW o \in Object
               PROVE  LET s == Bind(f, list)[o]
                      IN  /\ s \in Buffers
                          /\ SameThing(f[o], s)
                          /\ s.bind_count = f[o].bind_count + Count(list, o)
                          /\ ("locked" \in f[o].flags <=> f[o].bind_count > 0)
                               => ("locked" \in s.flags <=> s.bind_count > 0)
  BY DEF Bind
<1>3. f[o] \in Buffers  OBVIOUS
<1> DEFINE n == Count(list, o)
           s == Bind(f, list)[o]
           taken == n > 0 /\ f[o].bind_count = 0
           sum == f[o].bind_count + n
           flags == IF taken THEN f[o].flags \cup {"locked"} ELSE f[o].flags
<1>4. s = [f[o] EXCEPT !.bind_count = sum, !.flags = flags]
  BY <1>3 DEF Bind, Lock, Buffers
<1>5. n \in Nat  BY <1>1
<1> HIDE DEF n
<1>6. /\ s.live = f[o].live /\ s.has_res = f[o].has_res
      /\ s.res = f[o].res /\ s.prog = f[o].prog
      /\ s.bind_count = f[o].bind_count + n
      /\ s.flags = flags
  BY <1>3, <1>4 DEF Buffers
<1>7. s \in Buffers
  <2>1. sum \in Nat  BY <1>3, <1>5 DEF Buffers
  <2>2. flags \in SUBSET Flags  BY <1>3 DEF Buffers, Flags
  <2> HIDE DEF sum, flags
  <2>3. [f[o] EXCEPT !.bind_count = sum, !.flags = flags] \in Buffers
    BY <1>3, <2>1, <2>2, CountedType
  <2> HIDE DEF s
  <2> QED  BY <1>4, <2>3
<1> HIDE DEF s
<1>8. SameThing(f[o], s)  BY <1>6 DEF SameThing
<1>9. ("locked" \in f[o].flags <=> f[o].bind_count > 0)
        => ("locked" \in s.flags <=> s.bind_count > 0)
  BY <1>3, <1>5, <1>6 DEF Buffers
<1> QED  BY <1>6, <1>7, <1>8, <1>9 DEF s, n

LEMMA UnbindEffect ==
    ASSUME NEW f \in [Object -> Buffers], NEW list,
           \A o \in Object : Count(list, o) \in Nat
    PROVE  /\ Unbind(f, list) \in [Object -> Buffers]
           /\ \A o \in Object :
                 LET s == Unbind(f, list)[o]
                 IN  /\ SameThing(f[o], s)
                     /\ f[o].bind_count >= Count(list, o)
                          => s.bind_count = f[o].bind_count - Count(list, o)
                     /\ s.bind_count <= f[o].bind_count
                     /\ ("locked" \in f[o].flags <=> f[o].bind_count > 0)
                          => ("locked" \in s.flags <=> s.bind_count > 0)
<1>2. SUFFICES ASSUME NEW o \in Object
               PROVE  LET s == Unbind(f, list)[o]
                      IN  /\ s \in Buffers
                          /\ SameThing(f[o], s)
                          /\ f[o].bind_count >= Count(list, o)
                               => s.bind_count = f[o].bind_count - Count(list, o)
                          /\ s.bind_count <= f[o].bind_count
                          /\ ("locked" \in f[o].flags <=> f[o].bind_count > 0)
                               => ("locked" \in s.flags <=> s.bind_count > 0)
  BY DEF Unbind
<1>3. f[o] \in Buffers  OBVIOUS
<1> DEFINE n == Count(list, o)
           s == Unbind(f, list)[o]
           left == IF f[o].bind_count > n THEN f[o].bind_count - n ELSE 0
           given == f[o].bind_count > 0 /\ left = 0
           flags == IF given THEN f[o].flags \ {"locked"} ELSE f[o].flags
<1>4. s = [f[o] EXCEPT !.bind_count = left, !.flags = flags]
  BY <1>3 DEF Unbind, Unlock, Buffers
<1>5. n \in Nat  OBVIOUS
<1> HIDE DEF n
<1>6. /\ s.live = f[o].live /\ s.has_res = f[o].has_res
      /\ s.res = f[o].res /\ s.prog = f[o].prog
      /\ s.bind_count = left
      /\ s.flags = flags
  BY <1>3, <1>4 DEF Buffers
<1>7. s \in Buffers
  <2>1. left \in Nat  BY <1>3, <1>5 DEF Buffers
  <2>2. flags \in SUBSET Flags  BY <1>3 DEF Buffers, Flags
  <2> HIDE DEF left, given, flags
  <2>3. [f[o] EXCEPT !.bind_count = left, !.flags = flags] \in Buffers
    BY <1>3, <2>1, <2>2, CountedType
  <2> HIDE DEF s
  <2> QED  BY <1>4, <2>3
<1> HIDE DEF s
<1>8. SameThing(f[o], s)  BY <1>6 DEF SameThing
<1>9. ("locked" \in f[o].flags <=> f[o].bind_count > 0)
        => ("locked" \in s.flags <=> s.bind_count > 0)
  BY <1>3, <1>5, <1>6 DEF Buffers
<1>10. /\ f[o].bind_count >= n => s.bind_count = f[o].bind_count - n
       /\ s.bind_count <= f[o].bind_count
  BY <1>3, <1>5, <1>6 DEF Buffers
<1> QED  BY <1>7, <1>8, <1>9, <1>10 DEF s, n

LEMMA TakeEffect ==
    ASSUME NEW f \in [Object -> Buffers], NEW o \in Object
    PROVE  /\ Take(f, o) \in [Object -> Buffers]
           /\ \A x \in Object : SameThing(f[x], Take(f, o)[x])
           /\ \A x \in Object \ {o} : Take(f, o)[x] = f[x]
           /\ Take(f, o)[o].bind_count = 1 /\ "locked" \in Take(f, o)[o].flags
BY DEF Take, Lock, Buffers, Flags, SameThing

LEMMA NewType ==
    /\ Free \in Buffers
    /\ New({}) \in Buffers /\ New({"cmdbuf"}) \in Buffers
BY EmptyList DEF Free, New, Buffers, Flags

LEMMA NoArgType == NoArg \in Args
BY EmptyList, BoundsAssumption DEF NoArg, Args, Ids

LEMMA NamedType ==
    ASSUME idr \in [Ids -> Object \cup {None}], NEW ids \in IdLists, Bindable(ids)
    PROVE  /\ Named(ids) \in Lists
           /\ \A i \in DOMAIN Named(ids) :
                 \E id \in Ids : /\ Found(id) /\ ~IsCmd(idr[id])
                                 /\ Named(ids)[i] = idr[id]
<1>1. PICK n \in 0..MaxRes : ids \in [1..n -> Ids]  BY DEF IdLists
<1>2. Named(ids) \in [1..n -> Object]
  BY <1>1 DEF Named, Bindable, Found
<1> QED  BY <1>1, <1>2 DEF Lists, Named, Bindable


-----------------------------------------------------------------------------
(* The uses of a buffer: its bindings, and those that were dropped.  b, p,  *)
(* a, r and l stand for buf, pc, arg, running and lost.                     *)

ResOf(b) == [c \in Object |-> b[c].res]
BufsOf(a) == [t \in Thread |-> a[t].bufs]
OwnersOf(p, a, o) == {t \in Thread : p[t] \in Owning /\ a[t].obj = o}

Uses(b, p, a, r, l, o) ==
    Cardinality(Places(ResOf(b), o)) + Cardinality(Places(BufsOf(a), o))
      + Cardinality(OwnersOf(p, a, o)) + Has(r, o) + l[o]

\* The part of it that is due to command buffer c and to thread t.
Share(b, p, a, r, l, c, t, o) ==
    Count(b[c].res, o) + Count(a[t].bufs, o)
      + Has(OwnersOf(p, a, o), t) + Has(r, o) + l[o]

LEMMA UsesTypes ==
    ASSUME NEW b \in [Object -> Buffers], NEW p, NEW a \in [Thread -> Args], NEW o
    PROVE  /\ ResOf(b) \in [Object -> Lists] /\ BufsOf(a) \in [Thread -> Lists]
           /\ Cardinality(Places(ResOf(b), o)) \in Nat
           /\ Cardinality(Places(BufsOf(a), o)) \in Nat
           /\ IsFiniteSet(OwnersOf(p, a, o))
           /\ Cardinality(OwnersOf(p, a, o)) \in Nat
<1>1. ResOf(b) \in [Object -> Lists] /\ BufsOf(a) \in [Thread -> Lists]
  BY DEF ResOf, BufsOf, Buffers, Args
<1>2. OwnersOf(p, a, o) \in SUBSET Thread  BY DEF OwnersOf
<1>3. IsFiniteSet(OwnersOf(p, a, o)) /\ Cardinality(OwnersOf(p, a, o)) \in Nat
  BY <1>2, FS_Subset, FS_CardinalityType, MembersAssumption
<1> QED  BY <1>1, <1>3, PlacesFinite, MembersAssumption

LEMMA ShareType ==
    ASSUME NEW b \in [Object -> Buffers], NEW p, NEW a \in [Thread -> Args], NEW r,
           NEW l \in [Object -> Nat], NEW c \in Object, NEW t \in Thread, NEW o \in Object
    PROVE  /\ Count(b[c].res, o) \in Nat /\ Count(a[t].bufs, o) \in Nat
           /\ Share(b, p, a, r, l, c, t, o) \in Nat /\ Uses(b, p, a, r, l, o) \in Nat
<1>1. b[c].res \in Lists /\ a[t].bufs \in Lists  BY DEF Buffers, Args
<1>2. Count(b[c].res, o) \in Nat /\ Count(a[t].bufs, o) \in Nat  BY <1>1, CountType
<1>3. Has(OwnersOf(p, a, o), t) \in Nat /\ Has(r, o) \in Nat
  BY DEF Has
<1>4. l[o] \in Nat  OBVIOUS
<1> QED  BY <1>2, <1>3, <1>4, UsesTypes DEF Share, Uses

\* When only c and t change, the uses change by their share.
LEMMA UsesChange ==
    ASSUME NEW b \in [Object -> Buffers], NEW p, NEW a \in [Thread -> Args], NEW r,
           NEW l \in [Object -> Nat],
           NEW bb \in [Object -> Buffers], NEW pp, NEW aa \in [Thread -> Args], NEW rr,
           NEW ll \in [Object -> Nat],
           NEW c \in Object, NEW t \in Thread, NEW o \in Object,
           \A d \in Object \ {c} : bb[d].res = b[d].res,
           \A u \in Thread \ {t} : pp[u] = p[u] /\ aa[u] = a[u]
    PROVE  Uses(bb, pp, aa, rr, ll, o) + Share(b, p, a, r, l, c, t, o)
             = Uses(b, p, a, r, l, o) + Share(bb, pp, aa, rr, ll, c, t, o)
<1> DEFINE O == OwnersOf(p, a, o)
           OO == OwnersOf(pp, aa, o)
           mine == Has(OwnersOf(p, a, o), t)
           yours == Has(OwnersOf(pp, aa, o), t)
<1>1. Cardinality(Places(ResOf(bb), o)) + Count(b[c].res, o)
        = Cardinality(Places(ResOf(b), o)) + Count(bb[c].res, o)
  <2>1. ResOf(b)[c] = b[c].res /\ ResOf(bb)[c] = bb[c].res  BY DEF ResOf
  <2>2. \A d \in Object \ {c} : ResOf(bb)[d] = ResOf(b)[d]  BY DEF ResOf
  <2>3. ResOf(b) \in [Object -> Lists] /\ ResOf(bb) \in [Object -> Lists]  BY UsesTypes
  <2> QED  BY <2>1, <2>2, <2>3, PlacesChange, MembersAssumption
<1>2. Cardinality(Places(BufsOf(aa), o)) + Count(a[t].bufs, o)
        = Cardinality(Places(BufsOf(a), o)) + Count(aa[t].bufs, o)
  <2>1. BufsOf(a)[t] = a[t].bufs /\ BufsOf(aa)[t] = aa[t].bufs  BY DEF BufsOf
  <2>2. \A u \in Thread \ {t} : BufsOf(aa)[u] = BufsOf(a)[u]  BY DEF BufsOf
  <2>3. BufsOf(a) \in [Thread -> Lists] /\ BufsOf(aa) \in [Thread -> Lists]  BY UsesTypes
  <2> QED  BY <2>1, <2>2, <2>3, PlacesChange, MembersAssumption
<1>3. Cardinality(OO) + mine = Cardinality(O) + yours
  <2>1. IsFiniteSet(O) /\ IsFiniteSet(OO) /\ IsFiniteSet(O \ {t})
    BY UsesTypes, FS_RemoveElement
  <2>2. OO \ {t} = O \ {t}  BY DEF OwnersOf
  <2>3. Cardinality(O) = Cardinality(O \ {t}) + mine
    <3>2. Cardinality(O) \in Nat  BY UsesTypes
    <3>3. Cardinality(O \ {t}) = IF t \in O THEN Cardinality(O) - 1 ELSE Cardinality(O)
      BY <2>1, FS_RemoveElement
    <3> QED  BY <3>2, <3>3 DEF Has
  <2>4. Cardinality(OO) = Cardinality(OO \ {t}) + yours
    <3>2. Cardinality(OO) \in Nat  BY UsesTypes
    <3>3. Cardinality(OO \ {t}) = IF t \in OO THEN Cardinality(OO) - 1 ELSE Cardinality(OO)
      BY <2>1, FS_RemoveElement
    <3> QED  BY <3>2, <3>3 DEF Has
  <2>5. /\ Cardinality(O \ {t}) \in Nat /\ Cardinality(OO \ {t}) \in Nat
        /\ mine \in Nat /\ yours \in Nat
    BY <2>1, <2>2, FS_CardinalityType DEF Has
  <2>6. Cardinality(O \ {t}) = Cardinality(OO \ {t})  BY <2>2
  <2> HIDE DEF O, OO, mine, yours
  <2> QED  BY <2>3, <2>4, <2>5, <2>6
<1>4. /\ Cardinality(Places(ResOf(b), o)) \in Nat /\ Cardinality(Places(ResOf(bb), o)) \in Nat
      /\ Cardinality(Places(BufsOf(a), o)) \in Nat /\ Cardinality(Places(BufsOf(aa), o)) \in Nat
      /\ Cardinality(O) \in Nat /\ Cardinality(OO) \in Nat /\ mine \in Nat /\ yours \in Nat
  BY UsesTypes DEF Has
<1>5. /\ Count(b[c].res, o) \in Nat /\ Count(bb[c].res, o) \in Nat
      /\ Count(a[t].bufs, o) \in Nat /\ Count(aa[t].bufs, o) \in Nat
      /\ Has(r, o) \in Nat /\ Has(rr, o) \in Nat /\ l[o] \in Nat /\ ll[o] \in Nat
  BY ShareType DEF Has
<1>6. /\ Uses(b, p, a, r, l, o)
           = Cardinality(Places(ResOf(b), o)) + Cardinality(Places(BufsOf(a), o))
               + Cardinality(O) + Has(r, o) + l[o]
      /\ Uses(bb, pp, aa, rr, ll, o)
           = Cardinality(Places(ResOf(bb), o)) + Cardinality(Places(BufsOf(aa), o))
               + Cardinality(OO) + Has(rr, o) + ll[o]
  BY DEF Uses
<1>7. /\ Share(b, p, a, r, l, c, t, o)
           = Count(b[c].res, o) + Count(a[t].bufs, o) + mine + Has(r, o) + l[o]
      /\ Share(bb, pp, aa, rr, ll, c, t, o)
           = Count(bb[c].res, o) + Count(aa[t].bufs, o) + yours + Has(rr, o) + ll[o]
  BY DEF Share
<1> HIDE DEF O, OO, mine, yours
<1>8. /\ Uses(b, p, a, r, l, o) \in Nat /\ Uses(bb, pp, aa, rr, ll, o) \in Nat
      /\ Share(b, p, a, r, l, c, t, o) \in Nat /\ Share(bb, pp, aa, rr, ll, c, t, o) \in Nat
  BY ShareType
<1>9. Uses(bb, pp, aa, rr, ll, o) - Uses(b, p, a, r, l, o)
        = (Count(bb[c].res, o) - Count(b[c].res, o)) + (Count(aa[t].bufs, o) - Count(a[t].bufs, o))
            + (yours - mine) + (Has(rr, o) - Has(r, o)) + (ll[o] - l[o])
  BY <1>1, <1>2, <1>3, <1>4, <1>5, <1>6
<1>10. Share(bb, pp, aa, rr, ll, c, t, o) - Share(b, p, a, r, l, c, t, o)
        = (Count(bb[c].res, o) - Count(b[c].res, o)) + (Count(aa[t].bufs, o) - Count(a[t].bufs, o))
            + (yours - mine) + (Has(rr, o) - Has(r, o)) + (ll[o] - l[o])
  BY <1>4, <1>5, <1>7
<1>11. Uses(bb, pp, aa, rr, ll, o) - Uses(b, p, a, r, l, o)
         = Share(bb, pp, aa, rr, ll, c, t, o) - Share(b, p, a, r, l, c, t, o)
  BY <1>9, <1>10
<1> DEFINE u == Uses(b, p, a, r, l, o)
           uu == Uses(bb, pp, aa, rr, ll, o)
           s == Share(b, p, a, r, l, c, t, o)
           ss == Share(bb, pp, aa, rr, ll, c, t, o)
<1>12. u \in Nat /\ uu \in Nat /\ s \in Nat /\ ss \in Nat /\ uu - u = ss - s
  BY <1>8, <1>11
<1> HIDE DEF u, uu, s, ss
<1>13. uu + s = u + ss  BY <1>12
<1> QED  BY <1>13 DEF u, uu, s, ss

LEMMA UsesAtLeast ==
    ASSUME NEW b \in [Object -> Buffers], NEW p, NEW a \in [Thread -> Args], NEW r,
           NEW l \in [Object -> Nat], NEW c \in Object, NEW t \in Thread, NEW o \in Object
    PROVE  Uses(b, p, a, r, l, o) >= Share(b, p, a, r, l, c, t, o)
<1>1. Cardinality(Places(ResOf(b), o)) >= Count(b[c].res, o)
  <2> DEFINE M == [ResOf(b) EXCEPT ![c] = << >>]
  <2>0. ResOf(b)[c] = b[c].res  BY DEF ResOf
  <2>1. /\ ResOf(b) \in [Object -> Lists] /\ M \in [Object -> Lists] /\ M[c] = << >>
        /\ \A d \in Object \ {c} : M[d] = ResOf(b)[d]
    BY UsesTypes, EmptyList
  <2> HIDE DEF M
  <2>2. Cardinality(Places(M, o)) + Count(ResOf(b)[c], o)
          = Cardinality(Places(ResOf(b), o)) + Count(M[c], o)
    <3> DEFINE L == ResOf(b)
    <3>1. /\ IsFiniteSet(Object) /\ L \in [Object -> Lists] /\ M \in [Object -> Lists]
          /\ \A d \in Object \ {c} : M[d] = L[d]
      BY <2>1, MembersAssumption
    <3> HIDE DEF L
    <3>2. Cardinality(Places(M, o)) + Count(L[c], o) = Cardinality(Places(L, o)) + Count(M[c], o)
      BY <3>1, PlacesChange
    <3> QED  BY <3>2 DEF L
  <2>3. Cardinality(Places(M, o)) \in Nat /\ Cardinality(Places(ResOf(b), o)) \in Nat
    BY <2>1, PlacesFinite, MembersAssumption
  <2>4. Count(<< >>, o) = 0  BY CountEmpty
  <2>5. Count(b[c].res, o) \in Nat  BY ShareType
  <2> QED  BY <2>0, <2>1, <2>2, <2>3, <2>4, <2>5
<1>2. Cardinality(Places(BufsOf(a), o)) >= Count(a[t].bufs, o)
  <2> DEFINE M == [BufsOf(a) EXCEPT ![t] = << >>]
  <2>1. /\ BufsOf(a) \in [Thread -> Lists] /\ M \in [Thread -> Lists]
        /\ BufsOf(a)[t] = a[t].bufs /\ M[t] = << >>
        /\ \A u \in Thread \ {t} : M[u] = BufsOf(a)[u]
    BY UsesTypes, EmptyList DEF BufsOf
  <2> HIDE DEF M
  <2>2. Cardinality(Places(M, o)) + Count(a[t].bufs, o)
          = Cardinality(Places(BufsOf(a), o)) + Count(<< >>, o)
    <3> DEFINE L == BufsOf(a)
    <3>1. /\ IsFiniteSet(Thread) /\ L \in [Thread -> Lists] /\ M \in [Thread -> Lists]
          /\ \A u \in Thread \ {t} : M[u] = L[u]
      BY <2>1, MembersAssumption
    <3>2. L[t] = a[t].bufs /\ M[t] = << >>  BY <2>1
    <3> HIDE DEF L
    <3>3. Cardinality(Places(M, o)) + Count(L[t], o) = Cardinality(Places(L, o)) + Count(M[t], o)
      BY <3>1, PlacesChange
    <3> QED  BY <3>2, <3>3 DEF L
  <2>3. Cardinality(Places(M, o)) \in Nat /\ Cardinality(Places(BufsOf(a), o)) \in Nat
    BY <2>1, PlacesFinite, MembersAssumption
  <2>4. Count(<< >>, o) = 0  BY CountEmpty
  <2>5. Count(a[t].bufs, o) \in Nat  BY ShareType
  <2> QED  BY <2>2, <2>3, <2>4, <2>5
<1>3. Cardinality(OwnersOf(p, a, o)) >= Has(OwnersOf(p, a, o), t)
  <2>1. IsFiniteSet(OwnersOf(p, a, o)) /\ Cardinality(OwnersOf(p, a, o)) \in Nat
    BY UsesTypes
  <2>2. t \in OwnersOf(p, a, o) => Cardinality(OwnersOf(p, a, o)) # 0
    BY <2>1, FS_EmptySet
  <2> QED  BY <2>1, <2>2 DEF Has
<1>4. /\ Cardinality(Places(ResOf(b), o)) \in Nat
      /\ Cardinality(Places(BufsOf(a), o)) \in Nat
      /\ Cardinality(OwnersOf(p, a, o)) \in Nat
  BY UsesTypes
<1>5. /\ Count(b[c].res, o) \in Nat /\ Count(a[t].bufs, o) \in Nat
      /\ Has(r, o) \in Nat /\ Has(OwnersOf(p, a, o), t) \in Nat
      /\ l[o] \in Nat
  BY ShareType DEF Has
<1> QED  BY <1>1, <1>2, <1>3, <1>4, <1>5 DEF Uses, Share

\* Two handlers that own a buffer are two uses of it.
LEMMA TwoOwners ==
    ASSUME NEW b \in [Object -> Buffers], NEW p, NEW a \in [Thread -> Args], NEW r,
           NEW l \in [Object -> Nat], NEW o \in Object,
           NEW t \in OwnersOf(p, a, o), NEW u \in OwnersOf(p, a, o), t # u
    PROVE  Uses(b, p, a, r, l, o) >= 2
<1>1. IsFiniteSet(OwnersOf(p, a, o))  BY UsesTypes
<1>2. IsFiniteSet({t}) /\ Cardinality({t}) = 1  BY FS_Singleton
<1>3. /\ Cardinality({t} \cup {u}) = 2
      /\ {t} \cup {u} \in SUBSET OwnersOf(p, a, o)
  <2>1. u \notin {t}  OBVIOUS
  <2>2. Cardinality({t} \cup {u}) = 1 + 1  BY <1>2, <2>1, FS_AddElement
  <2>3. {t} \cup {u} \in SUBSET OwnersOf(p, a, o)  OBVIOUS
  <2> QED  BY <2>2, <2>3
<1>4. Cardinality(OwnersOf(p, a, o)) >= 2
  BY <1>1, <1>3, FS_Subset, UsesTypes
<1>5. /\ Cardinality(Places(ResOf(b), o)) \in Nat
      /\ Cardinality(Places(BufsOf(a), o)) \in Nat
      /\ Cardinality(OwnersOf(p, a, o)) \in Nat
      /\ Has(r, o) \in Nat /\ l[o] \in Nat
  BY UsesTypes DEF Has
<1> QED  BY <1>4, <1>5 DEF Uses


-----------------------------------------------------------------------------
(* The inductive invariant.                                                *)

Raw(p, a, t, o) == p[t] = "destroy_raw" /\ a[t].obj = o

\* A live buffer is in a slot that is still to be visited, or about to be freed
\* by one thread, without bindings and out of reach.
Homes ==
    /\ \A i, j \in Ids : Found(i) /\ idr[i] = idr[j] => i = j
    /\ \A i \in Ids : Found(i) /\ i >= next_id => idr[i] \in Live
    /\ \A t \in Thread, o \in Object : Raw(pc, arg, t, o) =>
          /\ o \in Live /\ buf[o].bind_count = 0
          /\ \A i \in Ids : idr[i] # o
          /\ \A u \in Thread : Raw(pc, arg, u, o) => u = t
    /\ \A o \in Live : \/ \E i \in Ids : i >= next_id /\ idr[i] = o
                       \/ \E t \in Thread : Raw(pc, arg, t, o)

\* A context is closed when nothing is under way and no command buffer is left.
Phases ==
    /\ ctx_state = "open" => next_id = 0 /\ \A o \in Object \ Live : lost[o] = 0
    /\ ctx_state = "closing" => /\ running = {}
                                /\ \A t \in Thread : pc[t] = "idle"
                                /\ \A o \in Live : ~IsCmd(o)

Plain(b, list) ==
    \A i \in DOMAIN list :
       list[i] \in Object /\ b[list[i]].live /\ "cmdbuf" \notin b[list[i]].flags

\* Only live command buffers have resources, which are live buffers that cannot
\* have resources of their own; ...
Sound(b, o) ==
    /\ b[o].has_res => /\ b[o].live /\ "cmdbuf" \in b[o].flags
                       /\ b[o].prog = b[o].res
    /\ ~b[o].has_res => b[o].res = << >>
    /\ Plain(b, b[o].res)

\* ... one without resources is still with its creator; none has two users; a
\* job has a command buffer with resources.
Records ==
    /\ \A o \in Object : Sound(buf, o)
    /\ \A o \in Live :
          IsCmd(o) => /\ \/ buf[o].has_res
                         \/ \E t \in Thread : pc[t] = "cc_move" /\ arg[t].obj = o
                      /\ buf[o].bind_count <= 1
    /\ \A c \in running : c \in Live /\ IsCmd(c) /\ buf[c].has_res

\* What the local variables of a handler hold at each place.
Holding == {"cc_bound", "cc_move", "up_swap", "up_unbind"}
HandlerOk(b, p, a, t) ==
    /\ p[t] \in Owning \cup {"destroy_raw"} => a[t].obj \in Object /\ b[a[t].obj].live
    /\ p[t] \notin Owning \cup {"destroy_raw"} => a[t].obj = None
    /\ p[t] = "cc_move" => "cmdbuf" \in b[a[t].obj].flags /\ ~b[a[t].obj].has_res
    /\ p[t] \in Updating => "cmdbuf" \in b[a[t].obj].flags /\ b[a[t].obj].has_res
    /\ Plain(b, a[t].bufs)
    /\ p[t] \notin Holding => a[t].bufs = << >>

Handlers == \A t \in Thread : HandlerOk(buf, pc, arg, t)

Balance ==
    \A o \in Live : /\ buf[o].bind_count = Uses(buf, pc, arg, running, lost, o)
                    /\ IsLocked(o) <=> buf[o].bind_count > 0

Consistent == Types /\ Homes /\ Phases /\ Records /\ Handlers /\ Balance

-----------------------------------------------------------------------------
(* Types are preserved.                                                    *)

LEMMA UnbindOne ==
    ASSUME NEW f \in [Object -> Buffers], NEW x
    PROVE  /\ Unbind(f, <<x>>) \in [Object -> Buffers]
           /\ \A o \in Object :
                 LET s == Unbind(f, <<x>>)[o]
                 IN  /\ SameThing(f[o], s)
                     /\ f[o].bind_count >= Has({x}, o)
                          => s.bind_count = f[o].bind_count - Has({x}, o)
                     /\ s.bind_count <= f[o].bind_count
                     /\ ("locked" \in f[o].flags <=> f[o].bind_count > 0)
                          => ("locked" \in s.flags <=> s.bind_count > 0)
<1>1. \A o \in Object : Count(<<x>>, o) = Has({x}, o) /\ Count(<<x>>, o) \in Nat
  BY CountSingle DEF Has
<1> QED  BY <1>1, UnbindEffect

LEMMA UnbindList ==
    ASSUME NEW f \in [Object -> Buffers], NEW list \in Lists
    PROVE  /\ Unbind(f, list) \in [Object -> Buffers]
           /\ \A o \in Object :
                 LET s == Unbind(f, list)[o]
                 IN  /\ SameThing(f[o], s)
                     /\ f[o].bind_count >= Count(list, o)
                          => s.bind_count = f[o].bind_count - Count(list, o)
                     /\ s.bind_count <= f[o].bind_count
                     /\ ("locked" \in f[o].flags <=> f[o].bind_count > 0)
                          => ("locked" \in s.flags <=> s.bind_count > 0)
<1>1. \A o \in Object : Count(list, o) \in Nat  BY CountType
<1> QED  BY <1>1, UnbindEffect

LEMMA MmapEffect ==
    ASSUME Types, NEW t, NEW o, Mmap(t, o)
    PROVE  /\ buf' \in [Object -> Buffers]
           /\ \A x \in Object : /\ SameThing(buf[x], buf'[x])
                                /\ buf'[x].bind_count = buf[x].bind_count
                                /\ "locked" \in buf'[x].flags <=> "locked" \in buf[x].flags
<1>1. CASE IsMapped(o)
  <2>1. buf' = buf /\ buf \in [Object -> Buffers]  BY <1>1 DEF Types, Mmap
  <2> QED  BY <2>1 DEF SameThing
<1>2. CASE ~IsMapped(o)
  <2> DEFINE r == [buf[o] EXCEPT !.flags = @ \cup {"mapped"}]
  <2>1. buf \in [Object -> Buffers] /\ buf' = [buf EXCEPT ![o] = r]
    BY <1>2 DEF Types, Mmap
  <2>2. ASSUME o \in Object
        PROVE  /\ r \in Buffers /\ SameThing(buf[o], r) /\ r.bind_count = buf[o].bind_count
               /\ "locked" \in r.flags <=> "locked" \in buf[o].flags
    <3>1. buf[o] \in Buffers  BY <2>1, <2>2
    <3> QED  BY <3>1 DEF Buffers, Flags, SameThing
  <2> HIDE DEF r
  <2>3. buf' \in [Object -> Buffers]  BY <2>1, <2>2
  <2>4. ASSUME NEW x \in Object
        PROVE  /\ SameThing(buf[x], buf'[x])
               /\ buf'[x].bind_count = buf[x].bind_count
               /\ "locked" \in buf'[x].flags <=> "locked" \in buf[x].flags
    <3>1. CASE x = o  BY <2>1, <2>2, <3>1
    <3>2. CASE x # o
      <4>1. buf'[x] = buf[x]  BY <2>1, <3>2
      <4> QED  BY <4>1 DEF SameThing
    <3> QED  BY <3>1, <3>2
  <2> QED  BY <2>3, <2>4
<1> QED  BY <1>1, <1>2

\* An object that is allocated is new, in an empty slot.
LEMMA AllocEffect ==
    ASSUME Types, NEW t \in Thread, NEW o \in Object, NEW kind \in {{}, {"cmdbuf"}},
           Alloc(t, o, kind)
    PROVE  /\ idr' \in [Ids -> Object \cup {None}] /\ buf' \in [Object -> Buffers]
           /\ arg' \in [Thread -> Args]
           /\ o \notin Live /\ buf'[o] = New(kind) /\ \A x \in Object \ {o} : buf'[x] = buf[x]
           /\ \E i \in Ids : /\ idr[i] = None /\ idr'[i] = o
                             /\ \A j \in Ids \ {i} : idr'[j] = idr[j]
           /\ arg'[t].obj = o /\ arg'[t].bufs = arg[t].bufs
           /\ \A u \in Thread \ {t} : arg'[u] = arg[u]
<1>1. LowestFree \in Ids /\ idr[LowestFree] = None
  BY LowestFreeIsFree DEF Alloc, FreeIds
<1>2. New(kind) \in Buffers  BY NewType
<1>3. idr' \in [Ids -> Object \cup {None}] /\ buf' \in [Object -> Buffers]
  BY <1>1, <1>2 DEF Types, Alloc
<1>4. arg' \in [Thread -> Args]
  <2> DEFINE g == [arg[t] EXCEPT !.obj = o, !.id = LowestFree]
  <2>1. arg \in [Thread -> Args] /\ arg' = [arg EXCEPT ![t] = g]
    BY DEF Types, Alloc
  <2>2. arg[t] \in Args  BY <2>1
  <2>3. g \in Args  BY <1>1, <2>2 DEF Args
  <2> HIDE DEF g
  <2> QED  BY <2>1, <2>3
<1>5. o \notin Live /\ buf'[o] = New(kind) /\ \A x \in Object \ {o} : buf'[x] = buf[x]
  BY DEF Types, Alloc, Live
<1>6. \E i \in Ids : /\ idr[i] = None /\ idr'[i] = o
                     /\ \A j \in Ids \ {i} : idr'[j] = idr[j]
  <2>1. /\ idr'[LowestFree] = o
        /\ \A j \in Ids \ {LowestFree} : idr'[j] = idr[j]
    BY <1>1 DEF Types, Alloc
  <2> QED  BY <1>1, <2>1
<1>7. /\ arg'[t].obj = o /\ arg'[t].bufs = arg[t].bufs
      /\ \A u \in Thread \ {t} : arg'[u] = arg[u]
  BY DEF Types, Alloc, Args
<1> QED  BY <1>3, <1>4, <1>5, <1>6, <1>7

LEMMA FreeEffect ==
    ASSUME NEW f \in [Object -> Buffers], NEW o \in Object
    PROVE  /\ DestroyRaw(f, o) \in [Object -> Buffers]
           /\ DestroyRaw(f, o)[o] = Free
           /\ LET list == IF "cmdbuf" \in f[o].flags THEN f[o].res ELSE << >>
              IN  \A x \in Object \ {o} :
                     LET s == DestroyRaw(f, o)[x]
                     IN  /\ SameThing(f[x], s)
                         /\ f[x].bind_count >= Count(list, x)
                              => s.bind_count = f[x].bind_count - Count(list, x)
                         /\ s.bind_count <= f[x].bind_count
                         /\ ("locked" \in f[x].flags <=> f[x].bind_count > 0)
                              => ("locked" \in s.flags <=> s.bind_count > 0)
<1>1. Free \in Buffers  BY NewType
<1>2. f[o].res \in Lists  BY DEF Buffers
<1>3. CASE "cmdbuf" \in f[o].flags
  <2>1. DestroyRaw(f, o) = [Unbind(f, f[o].res) EXCEPT ![o] = Free]
    BY <1>3 DEF DestroyRaw
  <2>2. Unbind(f, f[o].res) \in [Object -> Buffers]  BY <1>2, UnbindList
  <2>3. /\ DestroyRaw(f, o) \in [Object -> Buffers]
        /\ DestroyRaw(f, o)[o] = Free
        /\ \A x \in Object \ {o} : DestroyRaw(f, o)[x] = Unbind(f, f[o].res)[x]
    BY <1>1, <2>1, <2>2
  <2> QED  BY <1>2, <1>3, <2>3, UnbindList
<1>4. CASE "cmdbuf" \notin f[o].flags
  <2>1. /\ DestroyRaw(f, o) \in [Object -> Buffers]
        /\ DestroyRaw(f, o)[o] = Free
        /\ \A x \in Object \ {o} : DestroyRaw(f, o)[x] = f[x]
    BY <1>1, <1>4 DEF DestroyRaw
  <2>2. \A x \in Object : f[x].bind_count \in Nat  BY DEF Buffers
  <2> QED  BY <1>4, <2>1, <2>2, CountEmpty DEF SameThing
<1> QED  BY <1>3, <1>4


LEMMA MoveEffect ==
    ASSUME Types, NEW t \in Thread, CmdMove(t), arg[t].obj \in Object
    PROVE  /\ buf' \in [Object -> Buffers]
           /\ \A x \in Object \ {arg[t].obj} : buf'[x] = buf[x]
           /\ buf'[arg[t].obj] = [buf[arg[t].obj] EXCEPT !.has_res = TRUE,
                                    !.res = arg[t].bufs, !.prog = arg[t].bufs]
<1> DEFINE o == arg[t].obj
           r == [buf[o] EXCEPT !.has_res = TRUE, !.res = arg[t].bufs, !.prog = arg[t].bufs]
<1>1. buf' = [buf EXCEPT ![o] = r]
  BY DEF CmdMove, Types
<1>2. arg[t].bufs \in Lists /\ buf[o] \in Buffers  BY DEF Types, Args
<1>3. r \in Buffers  BY <1>2 DEF Buffers
<1> QED  BY <1>1, <1>3 DEF Types

LEMMA SwapEffect ==
    ASSUME Types, NEW t \in Thread, UpdateSwap(t), arg[t].obj \in Object
    PROVE  /\ buf' \in [Object -> Buffers]
           /\ \A x \in Object \ {arg[t].obj} : buf'[x] = buf[x]
           /\ buf'[arg[t].obj] = [buf[arg[t].obj] EXCEPT !.res = arg[t].bufs,
                                                        !.prog = arg[t].bufs]
<1> DEFINE o == arg[t].obj
           r == [buf[o] EXCEPT !.res = arg[t].bufs, !.prog = arg[t].bufs]
<1>1. buf' = [buf EXCEPT ![o] = r]
  BY DEF UpdateSwap, Types
<1>2. arg[t].bufs \in Lists /\ buf[o] \in Buffers  BY DEF Types, Args
<1>3. r \in Buffers  BY <1>2 DEF Buffers
<1> QED  BY <1>1, <1>3 DEF Types

\* What a handler keeps in its local variables.
LEMMA HandlerTypes ==
    ASSUME Types, Handlers, NEW t \in Thread
    PROVE  /\ arg[t].bufs \in Lists /\ buf \in [Object -> Buffers] /\ arg[t] \in Args
           /\ pc[t] \in Owning \cup {"destroy_raw"} =>
                 arg[t].obj \in Object /\ buf[arg[t].obj].res \in Lists
BY DEF Types, Handlers, HandlerOk, Args, Buffers, Live

\* CmdMove and UpdateSwap store their list in the command buffer they own.
LEMMA MovesEffect ==
    ASSUME Types, Handlers, NEW t \in Thread, CmdMove(t) \/ UpdateSwap(t)
    PROVE  LET o == arg[t].obj
           IN  /\ o \in Live
               /\ \A x \in Object \ {o} : buf'[x] = buf[x]
               /\ \A x \in Object : /\ buf'[x].live = buf[x].live
                                    /\ buf'[x].bind_count = buf[x].bind_count
                                    /\ buf'[x].flags = buf[x].flags
               /\ buf'[o].res = arg[t].bufs /\ buf'[o].prog = arg[t].bufs
               /\ CmdMove(t) => buf'[o].has_res
               /\ UpdateSwap(t) => buf'[o].has_res = buf[o].has_res
<1> DEFINE o == arg[t].obj
<1>1. o \in Live
  BY DEF Handlers, HandlerOk, CmdMove, UpdateSwap, Step, Owning, Updating, Live
<1>2. o \in Object /\ buf[o] \in Buffers  BY <1>1 DEF Live, Types
<1>3. CASE CmdMove(t)
  <2>1. /\ \A x \in Object \ {o} : buf'[x] = buf[x]
        /\ buf'[o] = [buf[o] EXCEPT !.has_res = TRUE, !.res = arg[t].bufs, !.prog = arg[t].bufs]
    BY <1>2, <1>3, MoveEffect
  <2> HIDE DEF o
  <2>2. /\ buf'[o].live = buf[o].live /\ buf'[o].bind_count = buf[o].bind_count
        /\ buf'[o].flags = buf[o].flags /\ buf'[o].has_res
        /\ buf'[o].res = arg[t].bufs /\ buf'[o].prog = arg[t].bufs
    BY <1>2, <2>1 DEF Buffers
  <2>3. ~UpdateSwap(t)  BY <1>3 DEF CmdMove, UpdateSwap, Step
  <2> QED  BY <1>1, <2>1, <2>2, <2>3 DEF o
<1>4. CASE UpdateSwap(t)
  <2>1. /\ \A x \in Object \ {o} : buf'[x] = buf[x]
        /\ buf'[o] = [buf[o] EXCEPT !.res = arg[t].bufs, !.prog = arg[t].bufs]
    BY <1>2, <1>4, SwapEffect
  <2> HIDE DEF o
  <2>2. /\ buf'[o].live = buf[o].live /\ buf'[o].bind_count = buf[o].bind_count
        /\ buf'[o].flags = buf[o].flags /\ buf'[o].has_res = buf[o].has_res
        /\ buf'[o].res = arg[t].bufs /\ buf'[o].prog = arg[t].bufs
    BY <1>2, <2>1 DEF Buffers
  <2>3. ~CmdMove(t)  BY <1>4 DEF CmdMove, UpdateSwap, Step
  <2> QED  BY <1>1, <2>1, <2>2, <2>3 DEF o
<1> QED  BY <1>3, <1>4

LEMMA InitTypes == Init => Types
BY NewType, NoArgType, BoundsAssumption DEF Init, Types, ThreadPC, None

LEMMA NextTypes == Types /\ Handlers /\ [Next]_vars => Types'
<1>a. SUFFICES ASSUME Types, Handlers, [Next]_vars  PROVE Types'
  OBVIOUS
<1> USE DEF ctxVars
<1>1. ASSUME NEW t \in Thread, NEW id \in Ids, DestroyId(t, id),
             UNCHANGED <<buf, running, ctxVars>>
      PROVE  Types'
  <2>1. idr' \in [Ids -> Object \cup {None}]  BY <1>a, <1>1 DEF Types, DestroyId
  <2>2. pc' \in [Thread -> ThreadPC]
    BY <1>a, <1>1 DEF Types, DestroyId, Goes, Return, ThreadPC
  <2>3. arg' \in [Thread -> Args]
    <3>1. [NoArg EXCEPT !.obj = idr[id]] \in Args
      BY <1>a, <1>1, NoArgType DEF Types, Args
    <3> QED  BY <1>a, <1>1, <3>1, NoArgType DEF Types, DestroyId, Return
  <2> QED  BY <1>a, <1>1, <2>1, <2>2, <2>3 DEF Types
<1>2. ASSUME NEW t \in Thread, Return(t), buf' \in [Object -> Buffers],
             UNCHANGED <<idr, running, ctxVars>>
      PROVE  Types'
  BY <1>a, <1>2, NoArgType DEF Types, Return, Goes, ThreadPC
<1>3. ASSUME NEW t \in Thread, NEW q \in ThreadPC, Goes(t, q),
             buf' \in [Object -> Buffers], arg' \in [Thread -> Args],
             idr' \in [Ids -> Object \cup {None}], lost' \in [Object -> Nat],
             UNCHANGED <<running, ctx_state, next_id>>
      PROVE  Types'
  BY <1>a, <1>3 DEF Types, Goes
<1>4. ASSUME NEW t \in Thread, NEW o \in Object \cup {None}
      PROVE  [arg EXCEPT ![t].obj = o] \in [Thread -> Args]
  BY <1>a, <1>4 DEF Types, Args
<1>5. ASSUME NEW t \in Thread, NEW list \in Lists
      PROVE  [arg EXCEPT ![t].bufs = list] \in [Thread -> Args]
  BY <1>a, <1>5 DEF Types, Args
<1>6. ASSUME NEW t \in Thread, BufferDestroyOwn(t) \/ \E id \in Ids : BufferDestroy(t, id)
      PROVE  Types'
  BY <1>a, <1>6, <1>1 DEF BufferDestroyOwn, BufferDestroy, Types, Args
<1>7. ASSUME NEW t \in Thread, BufferFree(t)  PROVE Types'
  BY <1>a, <1>7, <1>2, HandlerTypes, FreeEffect DEF BufferFree
<1>8. ASSUME NEW t \in Thread, CreateExit(t) \/ CmdAbort(t) \/ UpdateExit(t)
      PROVE  Types'
  <2>1. Unbind(buf, <<arg[t].obj>>) \in [Object -> Buffers]
    BY <1>a, UnbindOne DEF Types
  <2>2. Unbind(buf, arg[t].bufs) \in [Object -> Buffers]
    BY <1>a, UnbindList, HandlerTypes
  <2> QED  BY <1>8, <2>1, <2>2, <1>2 DEF CreateExit, CmdAbort, UpdateExit
<1>9. ASSUME NEW t \in Thread, CreateUndo(t) \/ CmdExit(t)  PROVE Types'
  <2>1. Unbind(buf, <<arg[t].obj>>) \in [Object -> Buffers]
    BY <1>a, UnbindOne DEF Types
  <2>2. [arg EXCEPT ![t].obj = None] \in [Thread -> Args]  BY <1>4
  <2>3. "destroy" \in ThreadPC  BY DEF ThreadPC
  <2>4. idr \in [Ids -> Object \cup {None}] /\ lost \in [Object -> Nat]
    BY <1>a DEF Types
  <2> QED  BY <1>9, <2>1, <2>2, <2>3, <2>4, <1>2, <1>3 DEF CreateUndo, CmdExit
<1>10. ASSUME NEW t \in Thread, NEW o \in Object, BufferCreate(t, o) \/ CmdAlloc(t, o)
       PROVE  Types'
  <2>1. \E q \in ThreadPC : Goes(t, q)
    BY <1>10 DEF BufferCreate, CmdAlloc, Enter, Step, Creating, ThreadPC, CmdCreating
  <2>2. \E kind \in {{}, {"cmdbuf"}} : Alloc(t, o, kind)
    BY <1>10 DEF BufferCreate, CmdAlloc
  <2>3. UNCHANGED <<running, ctxVars>>  BY <1>10 DEF BufferCreate, CmdAlloc
  <2> QED  BY <1>a, <2>1, <2>2, <2>3, <1>3, AllocEffect DEF Types
<1>11. ASSUME NEW t \in Thread, CreateMap(t)  PROVE Types'
  <2>1. "create_exit" \in ThreadPC  BY DEF ThreadPC, Creating
  <2> QED  BY <1>a, <1>11, <1>3, <2>1, MmapEffect DEF CreateMap, Step, Types
<1>12. ASSUME NEW t \in Thread, NEW id \in Ids, BufferMap(t, id)  PROVE Types'
  BY <1>a, <1>12, MmapEffect DEF BufferMap, Types
<1>13. ASSUME NEW t \in Thread, NEW id \in Ids, BufferUnmap(t, id)  PROVE Types'
  BY <1>a, <1>13 DEF BufferUnmap, Types, Buffers
<1>14. ASSUME NEW t \in Thread, NEW ids \in IdLists, CmdBind(t, ids) \/ UpdateBind(t, ids)
       PROVE  Types'
  <2>1. Named(ids) \in Lists  BY <1>a, <1>14, NamedType DEF CmdBind, UpdateBind, Types
  <2>2. Bind(buf, Named(ids)) \in [Object -> Buffers]  BY <1>a, <2>1, BindEffect DEF Types
  <2>3. [arg EXCEPT ![t].bufs = Named(ids)] \in [Thread -> Args]  BY <2>1, <1>5
  <2>4. \E q \in ThreadPC : Goes(t, q)
    BY <1>14 DEF CmdBind, UpdateBind, Enter, Step, ThreadPC, CmdCreating, Updating
  <2> QED  BY <1>a, <1>14, <2>2, <2>3, <2>4, <1>3 DEF CmdBind, UpdateBind, Types
<1>15. ASSUME NEW t \in Thread, CmdMove(t)  PROVE Types'
  <2>1. buf' \in [Object -> Buffers]
    <3>1. arg[t].obj \in Object
      BY <1>a, <1>15, HandlerTypes DEF CmdMove, Step, Owning
    <3> QED  BY <1>a, <1>15, <3>1, MoveEffect
  <2>2. arg' \in [Thread -> Args]  BY <1>15, <1>5, EmptyList DEF CmdMove
  <2>3. "cc_exit" \in ThreadPC  BY DEF ThreadPC, CmdCreating
  <2> QED  BY <1>a, <1>15, <2>1, <2>2, <2>3, <1>3 DEF CmdMove, Step, Types
<1>16. ASSUME NEW t \in Thread, NEW id \in Ids, Runpgm(t, id)  PROVE Types'
  <2>1. idr[id] \in Object  BY <1>a, <1>16 DEF Runpgm, Found, Types
  <2> QED  BY <1>a, <1>16, <2>1, TakeEffect DEF Runpgm, Types
<1>17. ASSUME NEW o \in Object, JobDone(o)  PROVE Types'
  BY <1>a, <1>17, UnbindOne DEF JobDone, Types
<1>18. ASSUME NEW t \in Thread, NEW id \in Ids, UpdateTake(t, id)  PROVE Types'
  <2>1. idr[id] \in Object  BY <1>a, <1>18 DEF UpdateTake, Found, Types
  <2>2. "up_check" \in ThreadPC  BY DEF ThreadPC, Updating
  <2> QED
    BY <1>a, <1>18, <2>1, <2>2, <1>3, <1>4, TakeEffect DEF UpdateTake, Enter, Step, Types
<1>19. ASSUME NEW t \in Thread, UpdateRefuse(t)  PROVE Types'
  <2>1. "up_exit" \in ThreadPC  BY DEF ThreadPC, Updating
  <2> QED  BY <1>a, <1>19, <2>1, <1>3 DEF UpdateRefuse, Types
<1>20. ASSUME NEW t \in Thread, UpdateSwap(t)  PROVE Types'
  <2>1. arg[t].obj \in Object /\ buf[arg[t].obj].res \in Lists /\ arg[t].bufs \in Lists
    BY <1>a, <1>20, HandlerTypes DEF UpdateSwap, Owning, Updating
  <2>2. buf' \in [Object -> Buffers]
    BY <1>a, <1>20, <2>1, SwapEffect
  <2>3. arg' \in [Thread -> Args]  BY <1>20, <2>1, <1>5 DEF UpdateSwap
  <2>4. "up_unbind" \in ThreadPC  BY DEF ThreadPC, Updating
  <2> QED  BY <1>a, <1>20, <2>2, <2>3, <2>4, <1>3 DEF UpdateSwap, Types
<1>21. ASSUME NEW t \in Thread, UpdateSwapFails(t)  PROVE Types'
  <2>1. \A o \in Object : Count(arg[t].bufs, o) \in Nat
    BY <1>a, HandlerTypes, CountType
  <2>2. lost' \in [Object -> Nat]  BY <1>a, <1>21, <2>1 DEF UpdateSwapFails, Types
  <2>3. "up_exit" \in ThreadPC  BY DEF ThreadPC, Updating
  <2>4. arg' \in [Thread -> Args]  BY <1>21, <1>5, EmptyList DEF UpdateSwapFails
  <2> QED  BY <1>a, <1>21, <2>2, <2>3, <2>4, <1>3 DEF UpdateSwapFails, Types
<1>22. ASSUME NEW t \in Thread, UpdateUnbind(t)  PROVE Types'
  <2>1. buf' \in [Object -> Buffers]
    BY <1>a, <1>22, UnbindList, HandlerTypes DEF UpdateUnbind
  <2>2. "up_exit" \in ThreadPC  BY DEF ThreadPC, Updating
  <2>3. arg' \in [Thread -> Args]  BY <1>22, <1>5, EmptyList DEF UpdateUnbind
  <2> QED  BY <1>a, <1>22, <2>1, <2>2, <2>3, <1>3 DEF UpdateUnbind, Step, Types
<1>23. CASE Close
  BY <1>a, <1>23, BoundsAssumption DEF Close, Types
<1>24. CASE CloseFree
  <2>1. next_id' \in 0..NumIds  BY <1>24, BoundsAssumption DEF CloseFree, Ids
  <2>2. Found(next_id) => idr[next_id] \in Object
    BY <1>a, <1>24 DEF CloseFree, Types, Found
  <2>3. buf' \in [Object -> Buffers]
    BY <1>a, <1>24, <2>2, FreeEffect DEF CloseFree, Types
  <2> QED  BY <1>a, <1>24, <2>1, <2>3 DEF CloseFree, Types
<1>25. CASE CloseEnd
  BY <1>a, <1>25, BoundsAssumption DEF CloseEnd, Types
<1>26. CASE UNCHANGED vars
  BY <1>a, <1>26 DEF vars, Types
<1> QED
  BY <1>a, <1>6, <1>7, <1>8, <1>9, <1>10, <1>11, <1>12, <1>13, <1>14, <1>15, <1>16, <1>17,
     <1>18, <1>19, <1>20, <1>21, <1>22, <1>23, <1>24, <1>25, <1>26
     DEF Next, Handler, Client


-----------------------------------------------------------------------------
(* Every live buffer has one home.                                         *)

\* The steps that create or free an object, or give a command buffer its
\* resources.
Allocates == \E t \in Thread, o \in Object : BufferCreate(t, o) \/ CmdAlloc(t, o)
Frees == (\E t \in Thread : BufferFree(t)) \/ CloseFree
Moves == \E t \in Thread : CmdMove(t) \/ UpdateSwap(t)

LEMMA SameRefl == \A r : SameThing(r, r)
BY DEF SameThing

\* Every other step only counts and maps, and counts up only what the idr shows.
LEMMA SteadySteps ==
    ASSUME Types, Handlers, [Next]_vars, ~Allocates, ~Frees, ~Moves, NEW o \in Object
    PROVE  /\ SameThing(buf[o], buf'[o])
           /\ (\A i \in Ids : idr[i] # o) => buf'[o].bind_count <= buf[o].bind_count
<1>a. buf \in [Object -> Buffers] /\ buf[o].bind_count \in Nat
  BY DEF Types, Buffers
<1>1. CASE buf' = buf
  BY <1>a, <1>1, SameRefl
<1>2. ASSUME NEW x, buf' = Unbind(buf, <<x>>)
      PROVE  SameThing(buf[o], buf'[o]) /\ buf'[o].bind_count <= buf[o].bind_count
  BY <1>a, <1>2, UnbindOne
<1>3. ASSUME NEW list \in Lists, buf' = Unbind(buf, list)
      PROVE  SameThing(buf[o], buf'[o]) /\ buf'[o].bind_count <= buf[o].bind_count
  BY <1>a, <1>3, UnbindList
<1>4. ASSUME NEW t \in Thread, NEW ids \in IdLists, CmdBind(t, ids) \/ UpdateBind(t, ids)
      PROVE  /\ SameThing(buf[o], buf'[o])
             /\ (\A i \in Ids : idr[i] # o) => buf'[o].bind_count <= buf[o].bind_count
  <2>1. /\ Bindable(ids) /\ buf' = Bind(buf, Named(ids))
        /\ idr \in [Ids -> Object \cup {None}]
    BY <1>4 DEF CmdBind, UpdateBind, Types
  <2>2. Named(ids) \in Lists  BY <2>1, NamedType
  <2>3. (\A i \in Ids : idr[i] # o) => \A i \in DOMAIN Named(ids) : Named(ids)[i] # o
    BY <2>1, NamedType
  <2>4. (\A i \in Ids : idr[i] # o) => Count(Named(ids), o) = 0
    <3>1. /\ Count(Named(ids), o) \in Nat
          /\ Count(Named(ids), o) > 0 => \E i \in DOMAIN Named(ids) : Named(ids)[i] = o
      BY <2>2, CountType
    <3> HIDE DEF Named
    <3> QED  BY <2>3, <3>1
  <2> QED  BY <1>a, <2>1, <2>2, <2>4, BindEffect
<1>5. ASSUME NEW t, NEW x, Mmap(t, x)
      PROVE  SameThing(buf[o], buf'[o]) /\ buf'[o].bind_count <= buf[o].bind_count
  BY <1>a, <1>5, MmapEffect
<1>6. ASSUME NEW id \in Ids, Found(id), buf' = Take(buf, idr[id])
      PROVE  /\ SameThing(buf[o], buf'[o])
             /\ idr[id] # o => buf'[o].bind_count <= buf[o].bind_count
  <2>1. idr[id] \in Object  BY <1>6 DEF Types, Found
  <2> QED  BY <1>a, <1>6, <2>1, TakeEffect
<1>7. ASSUME NEW t \in Thread, NEW id \in Ids, BufferUnmap(t, id)
      PROVE  SameThing(buf[o], buf'[o]) /\ buf'[o].bind_count <= buf[o].bind_count
  BY <1>a, <1>7 DEF BufferUnmap, SameThing, Buffers
<1>8. ASSUME NEW t \in Thread, Handler(t)
      PROVE  /\ SameThing(buf[o], buf'[o])
             /\ (\A i \in Ids : idr[i] # o) => buf'[o].bind_count <= buf[o].bind_count
  <2>1. arg[t].bufs \in Lists  BY HandlerTypes
  <2>2. CASE \E ids \in IdLists : UpdateBind(t, ids)
    BY <1>4, <2>2
  <2> QED
    BY <1>1, <1>2, <1>3, <1>5, <1>8, <2>1, <2>2
       DEF Handler, Allocates, Frees, Moves, BufferDestroyOwn, CreateMap, CreateExit,
           CreateUndo, CmdAbort, CmdExit, UpdateRefuse, UpdateSwapFails, UpdateUnbind,
           UpdateExit
<1>9. ASSUME NEW t \in Thread, Client(t)
      PROVE  /\ SameThing(buf[o], buf'[o])
             /\ (\A i \in Ids : idr[i] # o) => buf'[o].bind_count <= buf[o].bind_count
  BY <1>1, <1>4, <1>5, <1>6, <1>7, <1>9
     DEF Client, Allocates, BufferDestroy, BufferMap, Runpgm, UpdateTake
<1>10. CASE (\E x \in Object : JobDone(x)) \/ Close \/ CloseEnd \/ UNCHANGED vars
  BY <1>1, <1>2, <1>10 DEF JobDone, Close, CloseEnd, vars
<1> QED
  BY <1>8, <1>9, <1>10 DEF Next, Frees

LEMMA LiveSteady ==
    ASSUME \A o \in Object : SameThing(buf[o], buf'[o])
    PROVE  Live' = Live /\ \A o \in Object : IsCmd(o)' <=> IsCmd(o)
BY DEF SameThing, Live, IsCmd

Destroys(t) == BufferDestroyOwn(t) \/ \E id \in Ids : BufferDestroy(t, id)

LEMMA OthersStill ==
    ASSUME Types, NEW t \in Thread, Handler(t) \/ Client(t), NEW u \in Thread, u # t
    PROVE  pc'[u] = pc[u] /\ arg'[u] = arg[u]
BY DEF Types, Handler, Client, Enter, Step, Goes, Return, Alloc, DestroyId, BufferDestroyOwn,
       BufferDestroy, BufferFree, BufferMap, BufferUnmap, BufferCreate, CreateMap,
       CreateExit, CreateUndo, CmdBind, CmdAbort, CmdAlloc, CmdMove, CmdExit, Runpgm,
       UpdateTake, UpdateRefuse, UpdateBind, UpdateSwap, UpdateSwapFails, UpdateUnbind,
       UpdateExit

\* Only destruction brings a buffer into the hands of a thread, or out of them.
LEMMA RawSame ==
    ASSUME Types, [Next]_vars, NEW t \in Thread, ~Destroys(t), ~BufferFree(t),
           NEW o \in Object
    PROVE  Raw(pc', arg', t, o) <=> Raw(pc, arg, t, o)
<1>a. pc \in [Thread -> ThreadPC] /\ arg \in [Thread -> Args]  BY DEF Types
<1>1. ASSUME NEW u \in Thread, u # t, Handler(u) \/ Client(u)
      PROVE  pc'[t] = pc[t] /\ arg'[t] = arg[t]
  BY <1>1, OthersStill
<1>2. ASSUME Handler(t) \/ Client(t)
      PROVE  \/ pc[t] # "destroy_raw" /\ pc'[t] # "destroy_raw"
             \/ UNCHANGED <<pc, arg>>
  BY <1>a, <1>2
     DEF Handler, Client, Enter, Step, Goes, Return, Destroys, BufferMap, BufferUnmap,
         BufferCreate, CreateMap, CreateExit, CreateUndo, CmdBind, CmdAbort, CmdAlloc,
         CmdMove, CmdExit, Runpgm, UpdateTake, UpdateRefuse, UpdateBind, UpdateSwap,
         UpdateSwapFails, UpdateUnbind, UpdateExit, Creating
<1>3. CASE (\E x \in Object : JobDone(x)) \/ Close \/ CloseFree \/ CloseEnd \/ UNCHANGED vars
  BY <1>3 DEF JobDone, Close, CloseFree, CloseEnd, vars, Raw
<1>4. ASSUME NEW u \in Thread, Handler(u) \/ Client(u)
      PROVE  Raw(pc', arg', t, o) <=> Raw(pc, arg, t, o)
  <2>1. CASE u = t  BY <1>2, <1>4, <2>1 DEF Raw
  <2>2. CASE u # t  BY <1>1, <1>4, <2>2 DEF Raw
  <2> QED  BY <2>1, <2>2
<1> QED
  BY <1>3, <1>4 DEF Next


\* While a handler is under way the file is open, and every id counts.
LEMMA OpenWhen ==
    ASSUME Types, Homes, Phases,
           ctx_state = "open" \/ \E t \in Thread : pc[t] # "idle"
    PROVE  /\ ctx_state = "open" /\ next_id = 0
           /\ \A i \in Ids : Found(i) => idr[i] \in Live
           /\ \A o \in Object \ Live : lost[o] = 0
<1>1. ctx_state = "open"  BY DEF Types, Phases
<1>2. \A i \in Ids : i >= 0  BY BoundsAssumption DEF Ids
<1> QED  BY <1>1, <1>2 DEF Phases, Homes

\* A step that leaves the idr, the set of live buffers, and what threads are
\* about to free.
LEMMA HomesKept ==
    ASSUME Types, Homes, idr' = idr, next_id' = next_id, Live' = Live,
           \A t \in Thread, o \in Object :
              /\ Raw(pc', arg', t, o) <=> Raw(pc, arg, t, o)
              /\ Raw(pc, arg, t, o) => buf'[o].bind_count = 0
    PROVE  Homes'
<1>1. \A i \in Ids : Found(i)' <=> Found(i)  BY DEF Found
<1>2. \A t \in Thread, o \in Object : Raw(pc', arg', t, o) <=> Raw(pc, arg, t, o)
  OBVIOUS
<1>3. (\A i, j \in Ids : Found(i) /\ idr[i] = idr[j] => i = j)'
  BY <1>1 DEF Homes
<1>4. (\A i \in Ids : Found(i) /\ i >= next_id => idr[i] \in Live)'
  BY <1>1 DEF Homes
<1>5. \A t \in Thread, o \in Object : Raw(pc', arg', t, o) =>
         /\ o \in Live' /\ buf'[o].bind_count = 0
         /\ \A i \in Ids : idr'[i] # o
         /\ \A u \in Thread : Raw(pc', arg', u, o) => u = t
  BY <1>2 DEF Homes
<1>6. \A o \in Live' : \/ \E i \in Ids : i >= next_id' /\ idr'[i] = o
                       \/ \E t \in Thread : Raw(pc', arg', t, o)
  <2>1. \A o \in Live : \/ \E i \in Ids : i >= next_id /\ idr[i] = o
                        \/ \E t \in Thread : Raw(pc', arg', t, o)
    BY <1>2 DEF Homes, Live
  <2> QED  BY <2>1
<1> QED  BY <1>3, <1>4, <1>5, <1>6 DEF Homes

LEMMA InitHomes == Init => Homes
BY NewType DEF Init, Homes, Found, Raw, Live, Free

LEMMA NextHomes == Consistent /\ [Next]_vars /\ Types' => Homes'
<1>a. SUFFICES ASSUME Consistent, [Next]_vars, Types'  PROVE Homes'
  OBVIOUS
<1>b. Types /\ Homes /\ Phases /\ Handlers /\ Records /\ Balance  BY <1>a DEF Consistent
<1>c. \A o \in Object : buf[o].bind_count \in Nat /\ buf'[o].bind_count \in Nat
  BY <1>a, <1>b DEF Types, Buffers
<1>d. Live \subseteq Object  BY DEF Live
<1>1. ASSUME NEW t \in Thread, NEW id \in Ids, DestroyId(t, id),
             UNCHANGED <<buf, running, ctxVars>>,
             \/ pc[t] = "destroy"
             \/ pc[t] = "idle" /\ ctx_state = "open"
      PROVE  Homes'
  <2>1. ctx_state = "open" /\ next_id = 0 /\ \A i \in Ids : Found(i) => idr[i] \in Live
    BY <1>b, <1>1, OpenWhen
  <2>2. Live' = Live /\ next_id' = next_id  BY <1>1 DEF Live, ctxVars
  <2>3. \A u \in Thread \ {t}, o \in Object : Raw(pc', arg', u, o) <=> Raw(pc, arg, u, o)
    BY <1>b, <1>1 DEF DestroyId, Goes, Return, Raw, Types
  <2>4. \A o \in Object : ~Raw(pc, arg, t, o)  BY <1>1 DEF Raw
  <2>5. CASE Found(id) /\ ~IsLocked(idr[id])
    <3>1. /\ idr[id] \in Live /\ buf[idr[id]].bind_count = 0
      BY <1>b, <1>c, <1>d, <2>1, <2>5 DEF Balance
    <3>2. /\ idr'[id] = None /\ \A i \in Ids \ {id} : idr'[i] = idr[i]
          /\ \A o \in Object : Raw(pc', arg', t, o) <=> o = idr[id]
      BY <1>b, <1>1, <2>5, NoArgType DEF DestroyId, Goes, Types, Raw, Args
    <3>3. \A i \in Ids : idr'[i] # idr[id]
      BY <1>b, <2>5, <3>2 DEF Homes, Found
    <3>4. \A i \in Ids : Found(i)' <=> Found(i) /\ i # id
      BY <3>2 DEF Found
    <3>5. \A u \in Thread : ~Raw(pc, arg, u, idr[id])
      BY <1>b, <1>d, <3>1 DEF Homes
    <3>6. \A i, j \in Ids : Found(i)' /\ idr'[i] = idr'[j] => i = j
      BY <1>b, <3>2, <3>4 DEF Homes, Found
    <3>7. \A i \in Ids : Found(i)' /\ i >= next_id' => idr'[i] \in Live'
      BY <2>1, <2>2, <3>2, <3>4
    <3>8. \A u \in Thread, o \in Object : Raw(pc', arg', u, o) =>
             /\ o \in Live' /\ buf'[o].bind_count = 0
             /\ \A i \in Ids : idr'[i] # o
             /\ \A v \in Thread : Raw(pc', arg', v, o) => v = u
      <4>1. SUFFICES ASSUME NEW u \in Thread, NEW o \in Object, Raw(pc', arg', u, o)
                     PROVE  /\ o \in Live' /\ buf'[o].bind_count = 0
                            /\ \A i \in Ids : idr'[i] # o
                            /\ \A v \in Thread : Raw(pc', arg', v, o) => v = u
        OBVIOUS
      <4>2. CASE u = t
        BY <1>1, <2>2, <2>3, <3>1, <3>2, <3>3, <3>5, <4>1, <4>2
      <4>3. CASE u # t
        <5>1. Raw(pc, arg, u, o) /\ o # idr[id]  BY <2>3, <3>5, <4>1, <4>3
        <5>2. \A i \in Ids : idr[i] # o  BY <1>b, <5>1 DEF Homes
        <5>3. o # None  BY MembersAssumption DEF None
        <5>4. o \in Live /\ buf[o].bind_count = 0 /\ \A v \in Thread : Raw(pc, arg, v, o) => v = u
          BY <1>b, <5>1 DEF Homes
        <5> QED  BY <1>1, <2>2, <2>3, <3>2, <5>1, <5>2, <5>3, <5>4
      <4> QED  BY <4>2, <4>3
    <3>9. \A o \in Live' : \/ \E i \in Ids : i >= next_id' /\ idr'[i] = o
                           \/ \E u \in Thread : Raw(pc', arg', u, o)
      <4>1. SUFFICES ASSUME NEW o \in Live, o # idr[id]
                     PROVE  \/ \E i \in Ids : i >= next_id /\ idr'[i] = o
                            \/ \E u \in Thread \ {t} : Raw(pc, arg, u, o)
        BY <1>d, <2>2, <2>3, <3>2
      <4> QED  BY <1>b, <1>d, <2>4, <3>2, <4>1 DEF Homes
    <3> QED  BY <3>6, <3>7, <3>8, <3>9 DEF Homes
  <2>6. CASE ~(Found(id) /\ ~IsLocked(idr[id]))
    <3>1. idr' = idr /\ \A o \in Object : ~Raw(pc', arg', t, o)
      BY <1>b, <1>1, <2>6 DEF DestroyId, Return, Goes, Raw, Types
    <3>2. \A u \in Thread, o \in Object :
             /\ Raw(pc', arg', u, o) <=> Raw(pc, arg, u, o)
             /\ Raw(pc, arg, u, o) => buf'[o].bind_count = 0
      BY <1>b, <1>1, <2>3, <2>4, <3>1 DEF Homes, Raw
    <3> QED  BY <1>b, <2>2, <3>1, <3>2, HomesKept
  <2> QED  BY <2>5, <2>6
<1>2. CASE \E t \in Thread : Destroys(t)
  <2>1. PICK t \in Thread : Destroys(t)  BY <1>2
  <2>2. arg[t].id \in Ids  BY <1>b DEF Types, Args
  <2>3. CASE BufferDestroyOwn(t)
    <3>1. PICK id \in Ids : id = arg[t].id  BY <2>2
    <3>2. /\ DestroyId(t, id) /\ pc[t] = "destroy"
          /\ UNCHANGED <<buf, running, ctxVars>>
      BY <2>3, <3>1 DEF BufferDestroyOwn, DestroyId
    <3> QED  BY <1>1, <3>2
  <2>4. ASSUME NEW id \in Ids, BufferDestroy(t, id)  PROVE Homes'
    <3>1. /\ DestroyId(t, id) /\ pc[t] = "idle" /\ ctx_state = "open"
          /\ UNCHANGED <<buf, running, ctxVars>>
      BY <2>4 DEF BufferDestroy
    <3> QED  BY <1>1, <3>1
  <2> QED  BY <2>1, <2>3, <2>4 DEF Destroys
<1>3. ASSUME NEW t \in Thread, BufferFree(t)  PROVE Homes'
  <2> DEFINE o == arg[t].obj
  <2>1. /\ o \in Live /\ Raw(pc, arg, t, o) /\ buf' = DestroyRaw(buf, o)
        /\ UNCHANGED <<idr, next_id>> /\ Return(t)
    BY <1>b, <1>3 DEF BufferFree, Handlers, HandlerOk, ctxVars, Raw, Live
  <2> HIDE DEF o
  <2>2. /\ buf'[o] = Free
        /\ \A x \in Object \ {o} : SameThing(buf[x], buf'[x]) /\ buf'[x].bind_count <= buf[x].bind_count
    BY <1>b, <1>d, <2>1, FreeEffect DEF Types
  <2>3. \A x \in Object : x \in Live' <=> x \in Live \ {o}
    BY <2>2 DEF Live, SameThing, Free
  <2>4. \A u \in Thread, x \in Object : Raw(pc', arg', u, x) <=> Raw(pc, arg, u, x) /\ u # t
    BY <1>b, <2>1 DEF Return, Goes, Raw, Types
  <2>5. \A i \in Ids : Found(i)' <=> Found(i)  BY <2>1 DEF Found
  <2>6. \A x \in Object : Raw(pc, arg, t, x) => x = o  BY <2>1 DEF Raw
  <2>7. \A u \in Thread, x \in Object : Raw(pc', arg', u, x) => buf'[x].bind_count = 0 /\ x # o
    BY <1>b, <1>c, <1>d, <2>1, <2>2, <2>4, <2>6 DEF Homes
  <2>8. Live' \subseteq Object  BY DEF Live
  <2>9. \A i \in Ids : idr'[i] # o  BY <1>b, <1>d, <2>1 DEF Homes
  <2> QED
    BY <1>b, <1>d, <2>1, <2>3, <2>4, <2>5, <2>6, <2>7, <2>8, <2>9 DEF Homes
<1>4. ASSUME NEW t \in Thread, NEW o \in Object, BufferCreate(t, o) \/ CmdAlloc(t, o)
      PROVE  Homes'
  <2>1. /\ ctx_state = "open" \/ pc[t] # "idle"
        /\ next_id' = next_id
        /\ \E kind \in {{}, {"cmdbuf"}} : Alloc(t, o, kind)
    BY <1>4 DEF BufferCreate, CmdAlloc, Enter, Step, ctxVars
  <2>2. next_id = 0 /\ \A i \in Ids : Found(i) => idr[i] \in Live
    BY <1>b, <2>1, OpenWhen
  <2>3. /\ o \notin Live /\ \A x \in Object \ {o} : buf'[x] = buf[x]
        /\ \E i \in Ids : /\ idr[i] = None /\ idr'[i] = o
                          /\ \A j \in Ids \ {i} : idr'[j] = idr[j]
        /\ buf'[o].live
    <3>1. PICK kind \in {{}, {"cmdbuf"}} : Alloc(t, o, kind)  BY <2>1
    <3>2. New(kind).live  BY DEF New
    <3> QED  BY <1>b, <3>1, <3>2, AllocEffect
  <2>4. PICK i \in Ids : /\ idr[i] = None /\ idr'[i] = o
                         /\ \A j \in Ids \ {i} : idr'[j] = idr[j]
    BY <2>3
  <2>5. \A x \in Object : x \in Live' <=> x \in Live \cup {o}
    BY <1>b, <2>3 DEF Live, Types, Buffers
  <2>6. \A u \in Thread : ~Destroys(u) /\ ~BufferFree(u)
    BY <1>b, <1>4 DEF BufferCreate, CmdAlloc, Enter, Step, Alloc, Destroys, BufferDestroyOwn,
       BufferDestroy, BufferFree, DestroyId, Goes, Types, Return, Creating
  <2>7. \A u \in Thread, x \in Object : Raw(pc', arg', u, x) <=> Raw(pc, arg, u, x)
    BY <1>a, <1>b, <2>6, RawSame DEF Raw
  <2>8. \A j \in Ids : Found(j)' <=> Found(j) \/ j = i
    BY <2>4, MembersAssumption DEF Found, None
  <2>9. Live' \subseteq Object /\ \A j \in Ids : idr[j] # o
    BY <2>2, <2>3, MembersAssumption DEF Live, Found, None
  <2>10. \A j \in Ids : j >= 0  BY BoundsAssumption DEF Ids
  <2>11. \A j, k \in Ids : Found(j)' /\ idr'[j] = idr'[k] => j = k
    BY <1>b, <2>4, <2>8, <2>9 DEF Homes
  <2>12. \A j \in Ids : Found(j)' /\ j >= next_id' => idr'[j] \in Live'
    BY <1>d, <2>2, <2>4, <2>5, <2>8, <2>9
  <2>13. \A u \in Thread, x \in Object : Raw(pc', arg', u, x) =>
            /\ x \in Live' /\ buf'[x].bind_count = 0
            /\ \A j \in Ids : idr'[j] # x
            /\ \A v \in Thread : Raw(pc', arg', v, x) => v = u
    BY <1>b, <2>3, <2>4, <2>5, <2>7 DEF Homes
  <2>14. \A x \in Live' : \/ \E j \in Ids : j >= next_id' /\ idr'[j] = x
                          \/ \E u \in Thread : Raw(pc', arg', u, x)
    <3>1. SUFFICES ASSUME NEW x \in Live
                   PROVE  \/ \E j \in Ids \ {i} : j >= next_id /\ idr[j] = x
                          \/ \E u \in Thread : Raw(pc, arg, u, x)
      BY <1>d, <2>1, <2>2, <2>4, <2>5, <2>7, <2>9, <2>10
    <3>2. x # None  BY <1>d, MembersAssumption DEF None
    <3> QED  BY <1>b, <2>4, <3>2 DEF Homes
  <2> QED  BY <2>11, <2>12, <2>13, <2>14 DEF Homes
<1>5. CASE Moves
  <2>1. PICK t \in Thread : CmdMove(t) \/ UpdateSwap(t)  BY <1>5 DEF Moves
  <2>3. \A o \in Object : buf'[o].live = buf[o].live /\ buf'[o].bind_count = buf[o].bind_count
    BY <1>b, <2>1, MovesEffect
  <2>4. \A u \in Thread, o \in Object : Raw(pc', arg', u, o) <=> Raw(pc, arg, u, o)
    BY <1>b, <2>1 DEF CmdMove, UpdateSwap, Step, Goes, Raw, Types
  <2>5. Live' = Live /\ idr' = idr /\ next_id' = next_id
    BY <2>1, <2>3 DEF Live, CmdMove, UpdateSwap, ctxVars
  <2>6. \A u \in Thread, o \in Object : Raw(pc, arg, u, o) => buf'[o].bind_count = 0
    BY <1>b, <2>3 DEF Homes
  <2> QED  BY <1>b, <2>4, <2>5, <2>6, HomesKept
<1>6. CASE CloseFree
  <2>1. /\ ctx_state = "closing" /\ next_id \in Ids /\ next_id' = next_id + 1
        /\ UNCHANGED <<idr, pc, arg>> /\ \A t \in Thread : pc[t] = "idle"
    BY <1>b, <1>6 DEF CloseFree, Phases
  <2>2. \A u \in Thread, o \in Object : ~Raw(pc, arg, u, o) /\ ~Raw(pc', arg', u, o)
    BY <2>1 DEF Raw
  <2>3. \A i \in Ids : Found(i)' <=> Found(i)  BY <2>1 DEF Found
  <2>4. next_id \in Int /\ \A i \in Ids : i \in Int  BY <2>1 DEF Ids
  <2>5. CASE Found(next_id)
    <3> DEFINE o == idr[next_id]
    <3>1. o \in Object /\ buf' = DestroyRaw(buf, o)
      BY <1>b, <1>6, <2>1, <2>5 DEF CloseFree, Types, Found
    <3>2. \A x \in Object : x \in Live' <=> x \in Live \ {o}
      <4>1. buf'[o] = Free /\ \A x \in Object \ {o} : SameThing(buf[x], buf'[x])
        BY <1>b, <3>1, FreeEffect DEF Types
      <4> HIDE DEF o
      <4> QED  BY <4>1 DEF Live, SameThing, Free
    <3>3. \A i \in Ids : i >= next_id + 1 => i >= next_id /\ idr[i] # o
      <4>1. \A i \in Ids : idr[next_id] = idr[i] => i = next_id
        BY <1>b, <2>1, <2>5 DEF Homes
      <4> QED  BY <2>1, <2>4, <4>1
    <3>4. \A i \in Ids : i >= next_id /\ idr[i] # o => i >= next_id + 1
      BY <2>1, <2>4
    <3>5. \A x \in Live' : \E i \in Ids : i >= next_id' /\ idr'[i] = x
      BY <1>b, <1>d, <2>1, <2>2, <3>2, <3>4 DEF Homes, Live
    <3>6. \A i \in Ids : Found(i)' /\ i >= next_id' => idr'[i] \in Live'
      BY <1>b, <1>d, <2>1, <2>3, <3>2, <3>3 DEF Homes
    <3> QED
      BY <1>b, <2>1, <2>2, <2>3, <3>5, <3>6 DEF Homes
  <2>6. CASE ~Found(next_id)
    <3>1. Live' = Live  BY <1>6, <2>6 DEF CloseFree, Live
    <3>2. \A i \in Ids : i >= next_id /\ Found(i) <=> i >= next_id + 1 /\ Found(i)
      BY <2>1, <2>4, <2>6
    <3>3. \A x \in Live : \E i \in Ids : i >= next_id + 1 /\ idr[i] = x
      <4>1. \A x \in Live : \E i \in Ids : i >= next_id /\ idr[i] = x
        BY <1>b, <1>d, <2>2 DEF Homes
      <4>2. \A x \in Live : x # None  BY <1>d, MembersAssumption DEF None
      <4> QED  BY <3>2, <4>1, <4>2 DEF Found
    <3> QED
      BY <1>b, <2>1, <2>2, <2>3, <3>1, <3>2, <3>3 DEF Homes
  <2> QED  BY <2>5, <2>6
<1>7. CASE CloseEnd
  <2>1. /\ next_id = NumIds /\ \A i \in Ids : idr'[i] = None
        /\ UNCHANGED <<buf, pc, arg>> /\ \A t \in Thread : pc[t] = "idle"
    BY <1>b, <1>7 DEF CloseEnd, Phases
  <2>2. Live = {}
    <3>1. \A i \in Ids : ~(i >= next_id)  BY <2>1, BoundsAssumption DEF Ids
    <3>2. \A u \in Thread, o \in Object : ~Raw(pc, arg, u, o)  BY <2>1 DEF Raw
    <3> QED  BY <1>b, <1>d, <3>1, <3>2 DEF Homes
  <2>3. Live' = {}  BY <2>1, <2>2 DEF Live
  <2> QED  BY <2>1, <2>3 DEF Homes, Found, Raw
<1>8. CASE /\ ~Allocates /\ ~Frees /\ ~Moves /\ ~CloseEnd
           /\ \A t \in Thread : ~Destroys(t)
  <2>1. \A t \in Thread, o \in Object : Raw(pc', arg', t, o) <=> Raw(pc, arg, t, o)
    BY <1>a, <1>b, <1>8, RawSame DEF Frees
  <2>2. \A o \in Object : SameThing(buf[o], buf'[o])
    BY <1>a, <1>b, <1>8, SteadySteps
  <2>3. \A t \in Thread, o \in Object : Raw(pc, arg, t, o) => buf'[o].bind_count = 0
    <3>1. SUFFICES ASSUME NEW t \in Thread, NEW o \in Object, Raw(pc, arg, t, o)
                   PROVE  buf'[o].bind_count = 0
      OBVIOUS
    <3>2. buf[o].bind_count = 0 /\ \A i \in Ids : idr[i] # o
      BY <1>b, <3>1 DEF Homes
    <3>3. buf'[o].bind_count <= buf[o].bind_count
      BY <1>a, <1>b, <1>8, <3>2, SteadySteps
    <3> QED  BY <1>c, <3>2, <3>3
  <2>4. idr' = idr /\ next_id' = next_id
    <3>1. ASSUME NEW t \in Thread, Handler(t) \/ Client(t)
          PROVE  idr' = idr /\ next_id' = next_id
      BY <1>8, <3>1
         DEF Allocates, Frees, Moves, Destroys, Handler, Client, ctxVars, BufferMap,
             BufferUnmap, CreateMap, CreateExit, CreateUndo, CmdBind, CmdAbort, CmdExit,
             Runpgm, UpdateTake, UpdateRefuse, UpdateBind, UpdateSwapFails, UpdateUnbind,
             UpdateExit
    <3>2. CASE (\E x \in Object : JobDone(x)) \/ UNCHANGED vars
      BY <3>2 DEF JobDone, vars, ctxVars
    <3>3. CASE Close
      BY <1>b, <3>3 DEF Close, Phases
    <3> QED  BY <1>a, <1>8, <3>1, <3>2, <3>3 DEF Next, Frees
  <2>5. Live' = Live  BY <2>2, LiveSteady
  <2> QED  BY <1>b, <2>1, <2>3, <2>4, <2>5, HomesKept
<1> QED
  BY <1>2, <1>3, <1>4, <1>5, <1>6, <1>7, <1>8 DEF Allocates, Frees


-----------------------------------------------------------------------------
(* The life of the context.                                                *)

\* Once the file is being released, only vxe_context_destroy takes steps.
LEMMA ClosingStill ==
    ASSUME Phases, ctx_state = "closing", [Next]_vars, ~CloseFree, ~CloseEnd
    PROVE  UNCHANGED vars
<1>1. running = {} /\ \A t \in Thread : pc[t] = "idle"  BY DEF Phases
<1>2. \A t \in Thread : ~Handler(t)
  BY <1>1
     DEF Handler, BufferDestroyOwn, BufferFree, CreateMap, CreateExit, CreateUndo, CmdAbort,
         CmdAlloc, CmdMove, CmdExit, UpdateRefuse, UpdateBind, UpdateSwap, UpdateSwapFails,
         UpdateUnbind, UpdateExit, Step, Creating
<1>3. \A t \in Thread : ~Client(t)
  BY DEF Client, BufferDestroy, BufferMap, BufferUnmap, BufferCreate, CmdBind, Runpgm,
         UpdateTake, Enter
<1>4. ~Close /\ \A o \in Object : ~JobDone(o)  BY <1>1 DEF Close, JobDone
<1> QED  BY <1>2, <1>3, <1>4 DEF Next

\* A buffer whose count is zero is not used at all.
LEMMA NoUse ==
    ASSUME Types, Balance, NEW o \in Live, buf[o].bind_count = 0
    PROVE  /\ \A c \in Object : \A i \in DOMAIN buf[c].res : buf[c].res[i] # o
           /\ \A t \in Thread : \A i \in DOMAIN arg[t].bufs : arg[t].bufs[i] # o
           /\ \A t \in Thread : ~(pc[t] \in Owning /\ arg[t].obj = o)
           /\ o \notin running /\ lost[o] = 0
<1>1. o \in Object /\ Uses(buf, pc, arg, running, lost, o) = 0  BY DEF Balance, Live
<1>2. /\ ResOf(buf) \in [Object -> Lists] /\ BufsOf(arg) \in [Thread -> Lists]
      /\ Cardinality(Places(ResOf(buf), o)) \in Nat
      /\ Cardinality(Places(BufsOf(arg), o)) \in Nat
      /\ IsFiniteSet(OwnersOf(pc, arg, o)) /\ Cardinality(OwnersOf(pc, arg, o)) \in Nat
  BY UsesTypes DEF Types
<1>3. lost[o] \in Nat /\ Has(running, o) \in Nat  BY <1>1 DEF Types, Has
<1>4. /\ Cardinality(Places(ResOf(buf), o)) = 0 /\ Cardinality(Places(BufsOf(arg), o)) = 0
      /\ Cardinality(OwnersOf(pc, arg, o)) = 0 /\ Has(running, o) = 0 /\ lost[o] = 0
  <2>1. Cardinality(Places(ResOf(buf), o)) + Cardinality(Places(BufsOf(arg), o))
          + Cardinality(OwnersOf(pc, arg, o)) + Has(running, o) + lost[o] = 0
    BY <1>1 DEF Uses
  <2> DEFINE a == Cardinality(Places(ResOf(buf), o))
             b == Cardinality(Places(BufsOf(arg), o))
             c == Cardinality(OwnersOf(pc, arg, o))
             d == Has(running, o)
             e == lost[o]
  <2>2. a \in Nat /\ b \in Nat /\ c \in Nat /\ d \in Nat /\ e \in Nat /\ a + b + c + d + e = 0
    BY <1>2, <1>3, <2>1
  <2> HIDE DEF a, b, c, d, e
  <2>3. a = 0 /\ b = 0 /\ c = 0 /\ d = 0 /\ e = 0  BY <2>2
  <2> QED  BY <2>3 DEF a, b, c, d, e
<1>5. ASSUME NEW c \in Object, NEW i \in DOMAIN buf[c].res, buf[c].res[i] = o  PROVE FALSE
  <2>1. ResOf(buf)[c] = buf[c].res  BY DEF ResOf
  <2>2. Cardinality(Places(ResOf(buf), o)) > 0
    BY <1>2, <1>5, <2>1, PlacesHold, MembersAssumption
  <2> QED  BY <1>4, <2>2
<1>6. ASSUME NEW t \in Thread, NEW i \in DOMAIN arg[t].bufs, arg[t].bufs[i] = o  PROVE FALSE
  <2>1. BufsOf(arg)[t] = arg[t].bufs  BY DEF BufsOf
  <2>2. Cardinality(Places(BufsOf(arg), o)) > 0
    BY <1>2, <1>6, <2>1, PlacesHold, MembersAssumption
  <2> QED  BY <1>4, <2>2
<1>7. OwnersOf(pc, arg, o) = {}  BY <1>2, <1>4, FS_EmptySet
<1>8. \A t \in Thread : ~(pc[t] \in Owning /\ arg[t].obj = o)  BY <1>7 DEF OwnersOf
<1> QED  BY <1>4, <1>5, <1>6, <1>8 DEF Has

LEMMA InitPhases == Init => Phases
BY DEF Init, Phases

LEMMA NextPhases == Consistent /\ CloseMode = "tidy" /\ [Next]_vars /\ Types' => Phases'
<1>a. SUFFICES ASSUME Consistent, CloseMode = "tidy", [Next]_vars, Types'  PROVE Phases'
  OBVIOUS
<1>b. Types /\ Homes /\ Phases /\ Handlers /\ Records /\ Balance  BY <1>a DEF Consistent
<1>d. Live \subseteq Object  BY DEF Live
<1>1. CASE Close
  <2>1. /\ ctx_state = "open" /\ ctx_state' = "closing" /\ UNCHANGED <<buf, running, pc>>
        /\ running = {} /\ \A t \in Thread : pc[t] = "idle"
        /\ \A i \in Ids : Found(i) => ~IsCmd(idr[i])
    BY <1>a, <1>1 DEF Close
  <2>2. ASSUME NEW o \in Live  PROVE ~IsCmd(o)
    <3>1. PICK i \in Ids : idr[i] = o  BY <1>b, <1>d, <2>1 DEF Homes, Raw
    <3>2. o # None  BY <1>d, MembersAssumption DEF None
    <3> QED  BY <2>1, <3>1, <3>2 DEF Found
  <2>3. Live' = Live /\ \A o \in Object : IsCmd(o)' <=> IsCmd(o)  BY <2>1 DEF Live, IsCmd
  <2> QED  BY <1>d, <2>1, <2>2, <2>3 DEF Phases
<1>2. CASE CloseFree
  <2>1. /\ ctx_state' = "closing" /\ UNCHANGED <<running, pc>>
        /\ running = {} /\ \A t \in Thread : pc[t] = "idle"
        /\ \A o \in Live : ~IsCmd(o)
    BY <1>b, <1>2 DEF CloseFree, Phases
  <2>2. ASSUME NEW o \in Live'  PROVE "cmdbuf" \notin buf'[o].flags
    <3>1. o \in Object /\ buf'[o].live  BY DEF Live
    <3>2. CASE ~Found(next_id)
      BY <1>2, <2>1, <2>2, <3>1, <3>2 DEF CloseFree, Live, IsCmd
    <3>3. CASE Found(next_id)
      <4>1. idr[next_id] \in Object /\ buf' = DestroyRaw(buf, idr[next_id])
        BY <1>b, <1>2, <3>3 DEF CloseFree, Types, Found
      <4>2. CASE o = idr[next_id]
        BY <1>b, <3>1, <4>1, <4>2, FreeEffect DEF Types, Free
      <4>3. CASE o # idr[next_id]
        <5>1. SameThing(buf[o], buf'[o])
          BY <1>b, <3>1, <4>1, <4>3, FreeEffect DEF Types
        <5> QED  BY <2>1, <3>1, <5>1 DEF SameThing, Live, IsCmd
      <4> QED  BY <4>2, <4>3
    <3> QED  BY <3>2, <3>3
  <2> QED  BY <2>1, <2>2 DEF Phases, IsCmd
<1>3. CASE CloseEnd
  <2>1. ctx_state' = "open" /\ next_id' = 0 /\ \A o \in Object : lost'[o] = 0
    BY <1>3 DEF CloseEnd
  <2> QED  BY <2>1 DEF Phases
<1>4. CASE ctx_state = "closing" /\ ~CloseFree /\ ~CloseEnd
  <2>1. UNCHANGED vars  BY <1>a, <1>b, <1>4, ClosingStill
  <2> QED  BY <1>b, <2>1 DEF vars, ctxVars, Phases, Live, IsCmd
<1>5. CASE ctx_state = "open" /\ ~Close
  <2>1. ~CloseFree /\ ~CloseEnd  BY <1>5 DEF CloseFree, CloseEnd
  <2>2. ctx_state' = "open" /\ next_id' = 0
    <3>1. next_id = 0  BY <1>b, <1>5 DEF Phases
    <3>2. ASSUME NEW t \in Thread, Handler(t) \/ Client(t)  PROVE UNCHANGED <<ctx_state, next_id>>
      BY <3>2
         DEF Handler, Client, ctxVars, BufferDestroyOwn, BufferDestroy, BufferFree, BufferMap,
             BufferUnmap, BufferCreate, CreateMap, CreateExit, CreateUndo, CmdBind, CmdAbort,
             CmdAlloc, CmdMove, CmdExit, Runpgm, UpdateTake, UpdateRefuse, UpdateBind,
             UpdateSwap, UpdateSwapFails, UpdateUnbind, UpdateExit
    <3> QED
      BY <1>a, <1>5, <2>1, <3>1, <3>2 DEF Next, JobDone, vars, ctxVars
  <2>3. \A o \in Object : (\E t \in Thread : UpdateSwapFails(t)) \/ lost'[o] = lost[o]
    <3>2. ASSUME NEW t \in Thread, Handler(t) \/ Client(t), ~UpdateSwapFails(t)
          PROVE  lost' = lost
      BY <3>2
         DEF Handler, Client, ctxVars, BufferDestroyOwn, BufferDestroy, BufferFree, BufferMap,
             BufferUnmap, BufferCreate, CreateMap, CreateExit, CreateUndo, CmdBind, CmdAbort,
             CmdAlloc, CmdMove, CmdExit, Runpgm, UpdateTake, UpdateRefuse, UpdateBind,
             UpdateSwap, UpdateUnbind, UpdateExit
    <3> QED
      BY <1>a, <1>5, <2>1, <3>2 DEF Next, JobDone, vars, ctxVars
  <2>4. ASSUME NEW o \in Object \ Live'  PROVE lost'[o] = 0
    <3>1. CASE \E t \in Thread : UpdateSwapFails(t)
      <4>1. PICK t \in Thread : UpdateSwapFails(t)  BY <3>1
      <4>2. Live' = Live  BY <4>1 DEF UpdateSwapFails, Live
      <4>3. lost[o] = 0  BY <1>b, <1>5, <2>4, <4>2 DEF Phases
      <4>4. Count(arg[t].bufs, o) = 0
        <5>1. \A i \in DOMAIN arg[t].bufs : arg[t].bufs[i] # o
          BY <1>b, <2>4, <4>2 DEF Handlers, HandlerOk, Plain, Live
        <5>2. /\ Count(arg[t].bufs, o) \in Nat
              /\ Count(arg[t].bufs, o) > 0 => \E i \in DOMAIN arg[t].bufs : arg[t].bufs[i] = o
          BY <1>b, HandlerTypes, CountType
        <5> QED  BY <5>1, <5>2
      <4> QED  BY <4>1, <4>3, <4>4 DEF UpdateSwapFails
    <3>2. CASE \A t \in Thread : ~UpdateSwapFails(t)
      <4>1. lost'[o] = lost[o]  BY <2>3, <3>2
      <4>2. o \in Live => lost[o] = 0
        <5>1. SUFFICES ASSUME o \in Live  PROVE lost[o] = 0
          OBVIOUS
        <5>2. ~SameThing(buf[o], buf'[o])  BY <2>4, <5>1 DEF SameThing, Live
        <5>3. CASE Allocates
          <6>1. PICK t \in Thread, x \in Object : BufferCreate(t, x) \/ CmdAlloc(t, x)
            BY <5>3 DEF Allocates
          <6>2. \E kind \in {{}, {"cmdbuf"}} : Alloc(t, x, kind)
            BY <6>1 DEF BufferCreate, CmdAlloc
          <6>3. x \notin Live /\ \A y \in Object \ {x} : buf'[y] = buf[y]
            BY <1>b, <6>2, AllocEffect
          <6> QED  BY <5>1, <5>2, <6>3, SameRefl
        <5>4. CASE Moves
          <6>1. PICK t \in Thread : CmdMove(t) \/ UpdateSwap(t)  BY <5>4 DEF Moves
          <6>3. buf'[o].live = buf[o].live  BY <1>b, <2>4, <6>1, MovesEffect
          <6> QED  BY <2>4, <5>1, <6>3 DEF Live
        <5>5. CASE Frees
          <6>1. PICK t \in Thread : BufferFree(t)  BY <2>1, <5>5 DEF Frees
          <6>2. arg[t].obj \in Live /\ buf[arg[t].obj].bind_count = 0
            BY <1>b, <6>1 DEF BufferFree, Handlers, HandlerOk, Homes, Raw, Live
          <6>3. CASE o = arg[t].obj
            BY <1>b, <6>2, <6>3, NoUse
          <6>4. CASE o # arg[t].obj
            BY <1>b, <1>d, <5>2, <6>1, <6>2, <6>4, FreeEffect DEF BufferFree, Types
          <6> QED  BY <6>3, <6>4
        <5> QED  BY <1>a, <1>b, <5>2, <5>3, <5>4, <5>5, SteadySteps
      <4> QED  BY <1>b, <1>5, <4>1, <4>2 DEF Phases
    <3> QED  BY <3>1, <3>2
  <2> QED  BY <2>2, <2>4 DEF Phases
<1> QED  BY <1>b, <1>1, <1>2, <1>3, <1>4, <1>5 DEF Types


-----------------------------------------------------------------------------
(* What command buffers hold.                                              *)

\* A step that is no allocation, no freeing and gives no resources never makes
\* a second use of a command buffer.
LEMMA CmdCounts ==
    ASSUME Types, Handlers, [Next]_vars, ~Allocates, ~Frees, ~Moves,
           NEW o \in Object, IsCmd(o), buf[o].bind_count <= 1
    PROVE  buf'[o].bind_count <= 1
<1>a. /\ buf \in [Object -> Buffers] /\ buf[o].bind_count \in Nat
      /\ idr \in [Ids -> Object \cup {None}]
  BY DEF Types, Buffers
<1>1. ASSUME buf' \in [Object -> Buffers], buf'[o].bind_count <= buf[o].bind_count
      PROVE  buf'[o].bind_count <= 1
  <2>1. buf'[o].bind_count \in Nat  BY <1>1 DEF Buffers
  <2> QED  BY <1>a, <1>1, <2>1
<1>2. CASE \E t \in Thread, ids \in IdLists : CmdBind(t, ids) \/ UpdateBind(t, ids)
  <2>1. PICK t \in Thread, ids \in IdLists : CmdBind(t, ids) \/ UpdateBind(t, ids)  BY <1>2
  <2>2. Bindable(ids) /\ buf' = Bind(buf, Named(ids))  BY <2>1 DEF CmdBind, UpdateBind
  <2>3. Named(ids) \in Lists  BY <1>a, <2>2, NamedType
  <2>4. \A i \in DOMAIN Named(ids) : Named(ids)[i] # o  BY <1>a, <2>2, NamedType
  <2>5. /\ Count(Named(ids), o) \in Nat
        /\ Count(Named(ids), o) > 0 => \E i \in DOMAIN Named(ids) : Named(ids)[i] = o
    BY <2>3, CountType
  <2>6. Count(Named(ids), o) = 0
    <3> HIDE DEF Named
    <3> QED  BY <2>4, <2>5
  <2> QED  BY <1>a, <2>2, <2>3, <2>6, BindEffect
<1>3. CASE \E id \in Ids : Found(id) /\ buf' = Take(buf, idr[id])
  <2>1. PICK id \in Ids : Found(id) /\ buf' = Take(buf, idr[id])  BY <1>3
  <2>2. idr[id] \in Object  BY <1>a, <2>1 DEF Found
  <2>3. CASE o = idr[id]
    <3>1. buf'[o].bind_count = 1  BY <1>a, <2>1, <2>2, <2>3, TakeEffect
    <3> QED  BY <3>1
  <2>4. CASE o # idr[id]
    <3>1. buf'[o] = buf[o]  BY <1>a, <2>1, <2>2, <2>4, TakeEffect
    <3> QED  BY <3>1
  <2> QED  BY <2>3, <2>4
<1>4. ASSUME NEW t \in Thread, Handler(t) \/ Client(t)  PROVE buf'[o].bind_count <= 1
  <2>1. arg[t].bufs \in Lists  BY HandlerTypes
  <2>2. CASE buf' = buf  BY <2>2
  <2>3. CASE \E x : buf' = Unbind(buf, <<x>>)
    <3>1. PICK x : buf' = Unbind(buf, <<x>>)  BY <2>3
    <3>2. buf' \in [Object -> Buffers] /\ buf'[o].bind_count <= buf[o].bind_count
      BY <1>a, <3>1, UnbindOne
    <3> QED  BY <1>1, <3>2
  <2>4. CASE buf' = Unbind(buf, arg[t].bufs)
    <3>1. buf' \in [Object -> Buffers] /\ buf'[o].bind_count <= buf[o].bind_count
      BY <1>a, <2>1, <2>4, UnbindList
    <3> QED  BY <1>1, <3>1
  <2>5. CASE \E x : Mmap(t, x)  BY <1>a, <2>5, MmapEffect
  <2>6. CASE \E id \in Ids : BufferUnmap(t, id)
    <3>1. buf'[o].bind_count = buf[o].bind_count
      BY <1>a, <2>6 DEF BufferUnmap, Buffers
    <3> QED  BY <3>1
  <2> QED
    BY <1>2, <1>3, <1>4, <2>2, <2>3, <2>4, <2>5, <2>6
       DEF Handler, Client, Allocates, Frees, Moves, BufferDestroyOwn, BufferDestroy,
           BufferMap, CreateMap, CreateExit, CreateUndo, CmdAbort, CmdExit, Runpgm,
           UpdateTake, UpdateRefuse, UpdateSwapFails, UpdateUnbind, UpdateExit
<1>5. CASE \E x \in Object : JobDone(x)
  <2>1. PICK x \in Object : JobDone(x)  BY <1>5
  <2>2. buf' = Unbind(buf, <<x>>)  BY <2>1 DEF JobDone
  <2>3. buf' \in [Object -> Buffers] /\ buf'[o].bind_count <= buf[o].bind_count
    BY <1>a, <2>2, UnbindOne
  <2> QED  BY <1>1, <2>3
<1>6. CASE Close \/ CloseEnd \/ UNCHANGED vars
  BY <1>6 DEF Close, CloseEnd, vars
<1> QED  BY <1>4, <1>5, <1>6 DEF Next, Frees

\* A job is started on a command buffer that has its resources.
LEMMA TakesReady ==
    ASSUME Consistent, NEW id \in Ids, Found(id), IsCmd(idr[id]), ~IsLocked(idr[id]),
           id >= next_id
    PROVE  idr[id] \in Live /\ buf[idr[id]].has_res /\ buf[idr[id]].bind_count = 0
<1>1. idr[id] \in Live /\ idr[id] \in Object
  BY DEF Consistent, Homes, Live
<1>2. buf[idr[id]].bind_count = 0
  BY <1>1 DEF Consistent, Balance, Types, Buffers
<1>3. \A t \in Thread : ~(pc[t] = "cc_move" /\ arg[t].obj = idr[id])
  BY <1>1, <1>2, NoUse DEF Consistent, Owning
<1> QED  BY <1>1, <1>2, <1>3 DEF Consistent, Records

\* No other step has a job started or a creator leave.
LEMMA JobsAndCreators ==
    ASSUME Types, [Next]_vars
    PROVE  /\ \A c \in running' : \/ c \in running
                                  \/ \E t \in Thread, id \in Ids : Runpgm(t, id) /\ c = idr[id]
           /\ \A t \in Thread : pc[t] = "cc_move" /\ ~CmdMove(t) =>
                                   pc'[t] = "cc_move" /\ arg'[t].obj = arg[t].obj
<1>1. ASSUME NEW t \in Thread, Handler(t) \/ Client(t)
      PROVE  \A c \in running' : \/ c \in running
                                 \/ \E id \in Ids : Runpgm(t, id) /\ c = idr[id]
  BY <1>1
     DEF Handler, Client, BufferDestroyOwn, BufferDestroy, BufferFree, BufferMap,
         BufferUnmap, BufferCreate, CreateMap, CreateExit, CreateUndo, CmdBind, CmdAbort,
         CmdAlloc, CmdMove, CmdExit, Runpgm, UpdateTake, UpdateRefuse, UpdateBind,
         UpdateSwap, UpdateSwapFails, UpdateUnbind, UpdateExit
<1>2. ASSUME NEW t \in Thread, NEW u \in Thread, Handler(t) \/ Client(t),
             pc[u] = "cc_move", ~CmdMove(u)
      PROVE  pc'[u] = "cc_move" /\ arg'[u].obj = arg[u].obj
  <2>1. pc \in [Thread -> ThreadPC] /\ arg \in [Thread -> Args]  BY DEF Types
  <2>2. CASE t = u
    BY <1>2, <2>1, <2>2
       DEF Handler, Client, Enter, Step, Creating, BufferDestroyOwn, BufferDestroy,
           BufferFree, BufferMap, BufferUnmap, BufferCreate, CreateMap, CreateExit,
           CreateUndo, CmdBind, CmdAbort, CmdAlloc, CmdExit, Runpgm, UpdateTake,
           UpdateRefuse, UpdateBind, UpdateSwap, UpdateSwapFails, UpdateUnbind, UpdateExit
  <2>3. CASE t # u
    BY <1>2, <2>3, OthersStill
  <2> QED  BY <2>2, <2>3
<1>3. CASE (\E x \in Object : JobDone(x)) \/ Close \/ CloseFree \/ CloseEnd \/ UNCHANGED vars
  BY <1>3 DEF JobDone, Close, CloseFree, CloseEnd, vars
<1> QED  BY <1>1, <1>2, <1>3 DEF Next


LEMMA InitRecords == Init => Records
BY DEF Init, Records, Sound, Plain, Free, Live

LEMMA NextRecords == Consistent /\ [Next]_vars /\ Types' => Records'
<1>a. SUFFICES ASSUME Consistent, [Next]_vars, Types'  PROVE Records'
  OBVIOUS
<1>b. Types /\ Homes /\ Phases /\ Handlers /\ Records /\ Balance  BY <1>a DEF Consistent
<1>c. buf \in [Object -> Buffers] /\ buf' \in [Object -> Buffers]
  BY <1>a, <1>b DEF Types
<1>d. SUFFICES
        /\ \A o \in Object : Sound(buf', o)
        /\ \A o \in Object : buf'[o].live /\ "cmdbuf" \in buf'[o].flags =>
              /\ \/ buf'[o].has_res
                 \/ \E t \in Thread : pc'[t] = "cc_move" /\ arg'[t].obj = o
              /\ buf'[o].bind_count <= 1
        /\ \A c \in running' : /\ c \in Object /\ buf'[c].live
                               /\ "cmdbuf" \in buf'[c].flags /\ buf'[c].has_res
  BY DEF Records, IsCmd, Live
<1>e. /\ \A o \in Object : Sound(buf, o)
      /\ \A o \in Object : buf[o].live /\ "cmdbuf" \in buf[o].flags =>
            /\ \/ buf[o].has_res
               \/ \E t \in Thread : pc[t] = "cc_move" /\ arg[t].obj = o
            /\ buf[o].bind_count <= 1
      /\ \A c \in running : /\ c \in Object /\ buf[c].live
                            /\ "cmdbuf" \in buf[c].flags /\ buf[c].has_res
  BY <1>b DEF Records, IsCmd, Live
<1>1. CASE ~Allocates /\ ~Frees /\ ~Moves
  <2>1. \A o \in Object : SameThing(buf[o], buf'[o])
    BY <1>a, <1>b, <1>1, SteadySteps
  <2>2. \A o \in Object : Sound(buf', o)
    BY <1>e, <2>1 DEF Sound, Plain, SameThing
  <2>3. \A o \in Object : buf'[o].live /\ "cmdbuf" \in buf'[o].flags =>
           /\ \/ buf'[o].has_res
              \/ \E t \in Thread : pc'[t] = "cc_move" /\ arg'[t].obj = o
           /\ buf'[o].bind_count <= 1
    <3>1. SUFFICES ASSUME NEW o \in Object, buf'[o].live /\ "cmdbuf" \in buf'[o].flags
                   PROVE  /\ \/ buf'[o].has_res
                             \/ \E t \in Thread : pc'[t] = "cc_move" /\ arg'[t].obj = o
                          /\ buf'[o].bind_count <= 1
      OBVIOUS
    <3>2. buf[o].live /\ "cmdbuf" \in buf[o].flags /\ buf'[o].has_res = buf[o].has_res
      BY <2>1, <3>1 DEF SameThing
    <3>3. \A t \in Thread : pc[t] = "cc_move" => pc'[t] = "cc_move" /\ arg'[t].obj = arg[t].obj
      BY <1>a, <1>b, <1>1, JobsAndCreators DEF Moves
    <3>4. buf'[o].bind_count <= 1
      BY <1>a, <1>b, <1>1, <1>e, <3>2, CmdCounts DEF IsCmd
    <3> QED  BY <1>e, <3>2, <3>3, <3>4
  <2>4. ASSUME NEW c \in running'
        PROVE  /\ c \in Object /\ buf[c].live /\ "cmdbuf" \in buf[c].flags /\ buf[c].has_res
    <3>1. CASE c \in running  BY <1>e, <3>1
    <3>2. CASE \E t \in Thread, id \in Ids : Runpgm(t, id) /\ c = idr[id]
      <4>1. PICK t \in Thread, id \in Ids : Runpgm(t, id) /\ c = idr[id]  BY <3>2
      <4>2. /\ ctx_state = "open" /\ Found(id) /\ IsCmd(idr[id]) /\ ~IsLocked(idr[id])
        BY <4>1 DEF Runpgm
      <4>3. id >= next_id  BY <1>b, <4>2, BoundsAssumption DEF Phases, Ids
      <4>4. c \in Live /\ buf[c].has_res /\ IsCmd(c)
        BY <1>a, <4>1, <4>2, <4>3, TakesReady
      <4> QED  BY <4>4 DEF Live, IsCmd
    <3> QED  BY <1>a, <1>b, <2>4, <3>1, <3>2, JobsAndCreators
  <2> QED
    BY <2>1, <2>2, <2>3, <2>4 DEF SameThing
<1>2. CASE Allocates
  <2>1. PICK t \in Thread, o \in Object : BufferCreate(t, o) \/ CmdAlloc(t, o)
    BY <1>2 DEF Allocates
  <2>2. PICK kind \in {{}, {"cmdbuf"}} :
           /\ Alloc(t, o, kind) /\ running' = running
           /\ kind # {} => pc[t] = "cc_bound" /\ pc'[t] = "cc_move"
    BY <1>b, <2>1 DEF BufferCreate, CmdAlloc, Step, Goes, Types
  <2>3. /\ ~buf[o].live /\ buf'[o] = New(kind)
        /\ \A x \in Object \ {o} : buf'[x] = buf[x]
        /\ arg'[t].obj = o
    <3>1. Types /\ Alloc(t, o, kind)  BY <1>b, <2>2
    <3>2. /\ o \notin Live /\ buf'[o] = New(kind)
          /\ \A x \in Object \ {o} : buf'[x] = buf[x]
          /\ arg'[t].obj = o
      BY <3>1, AllocEffect
    <3> QED  BY <3>2 DEF Live
  <2>4. /\ buf'[o].live /\ ~buf'[o].has_res /\ buf'[o].res = << >> /\ buf'[o].bind_count = 1
        /\ "cmdbuf" \in buf'[o].flags <=> kind # {}
    BY <2>2, <2>3 DEF New
  <2>5. \A x \in Object : Sound(buf', x)
    <3>1. SUFFICES ASSUME NEW x \in Object  PROVE Sound(buf', x)
      OBVIOUS
    <3>2. CASE x = o  BY <2>4, <3>2 DEF Sound, Plain
    <3>3. CASE x # o
      <4>1. Sound(buf, x) /\ buf'[x] = buf[x]  BY <1>e, <2>3, <3>3
      <4> QED  BY <2>3, <4>1 DEF Sound, Plain
    <3> QED  BY <3>2, <3>3
  <2>6. \A u \in Thread : pc[u] = "cc_move" => pc'[u] = "cc_move" /\ arg'[u].obj = arg[u].obj
    BY <1>a, <1>b, <2>1, JobsAndCreators DEF CmdMove, BufferCreate, CmdAlloc, Enter, Step,
       Goes, Types, Creating
  <2>7. \A c \in running : c # o  BY <1>e, <2>3
  <2>8. \A x \in Object : buf'[x].live /\ "cmdbuf" \in buf'[x].flags =>
           /\ \/ buf'[x].has_res
              \/ \E u \in Thread : pc'[u] = "cc_move" /\ arg'[u].obj = x
           /\ buf'[x].bind_count <= 1
    <3>1. SUFFICES ASSUME NEW x \in Object, buf'[x].live /\ "cmdbuf" \in buf'[x].flags
                   PROVE  /\ \/ buf'[x].has_res
                             \/ \E u \in Thread : pc'[u] = "cc_move" /\ arg'[u].obj = x
                          /\ buf'[x].bind_count <= 1
      OBVIOUS
    <3>2. CASE x = o  BY <2>2, <2>3, <2>4, <3>1, <3>2
    <3>3. CASE x # o  BY <1>e, <2>3, <2>6, <3>1, <3>3
    <3> QED  BY <3>2, <3>3
  <2> QED  BY <1>e, <2>2, <2>3, <2>5, <2>7, <2>8
<1>3. CASE \E t \in Thread : BufferFree(t)
  <2>0. PICK t \in Thread : BufferFree(t)  BY <1>3
  <2> DEFINE o == arg[t].obj
  <2>1. /\ o \in Live /\ buf' = DestroyRaw(buf, o) /\ running' = running
        /\ pc[t] = "destroy_raw" /\ buf[o].bind_count = 0
    BY <1>b, <2>0 DEF BufferFree, Handlers, HandlerOk, Homes, Raw, Live
  <2> HIDE DEF o
  <2>2. o \in Object /\ buf[o].live  BY <2>1 DEF Live
  <2>3. /\ buf'[o] = Free
        /\ \A x \in Object \ {o} : SameThing(buf[x], buf'[x]) /\ buf'[x].bind_count <= buf[x].bind_count
    <3> DEFINE x1 == DestroyRaw(buf, o)
               list == IF "cmdbuf" \in buf[o].flags THEN buf[o].res ELSE << >>
    <3>1. /\ x1[o] = Free
          /\ \A x \in Object \ {o} : SameThing(buf[x], x1[x])
                                     /\ x1[x].bind_count <= buf[x].bind_count
      BY <1>c, <2>2, FreeEffect
    <3> HIDE DEF x1
    <3> QED  BY <2>1, <3>1 DEF x1
  <2>4. /\ ~buf'[o].live /\ ~buf'[o].has_res /\ buf'[o].res = << >>
        /\ "cmdbuf" \notin buf'[o].flags
    BY <2>3 DEF Free
  <2>5. o \notin running /\ \A x \in Object : \A i \in DOMAIN buf[x].res : buf[x].res[i] # o
    BY <1>b, <2>1, NoUse
  <2>6. \A x \in Object : Sound(buf', x)
    <3>1. SUFFICES ASSUME NEW x \in Object  PROVE Sound(buf', x)
      OBVIOUS
    <3>2. CASE x = o  BY <2>4, <3>2 DEF Sound, Plain
    <3>3. CASE x # o
      <4>1. Sound(buf, x) /\ SameThing(buf[x], buf'[x])  BY <1>e, <2>3, <3>3
      <4>2. Plain(buf', buf[x].res)
        <5>1. \A i \in DOMAIN buf[x].res : buf[x].res[i] \in Object \ {o}
          BY <2>5, <4>1 DEF Sound, Plain
        <5> QED  BY <2>3, <4>1, <5>1 DEF Sound, Plain, SameThing
      <4> QED  BY <4>1, <4>2 DEF Sound, SameThing
    <3> QED  BY <3>2, <3>3
  <2>7. \A u \in Thread : pc[u] = "cc_move" => pc'[u] = "cc_move" /\ arg'[u].obj = arg[u].obj
    BY <1>b, <2>0, <2>1 DEF BufferFree, Return, Goes, Types
  <2>8. ASSUME NEW x \in Object, buf'[x].live, "cmdbuf" \in buf'[x].flags
        PROVE  /\ \/ buf'[x].has_res
                  \/ \E u \in Thread : pc'[u] = "cc_move" /\ arg'[u].obj = x
               /\ buf'[x].bind_count <= 1
    <3>1. x # o  BY <2>4, <2>8
    <3>2. SameThing(buf[x], buf'[x]) /\ buf'[x].bind_count <= buf[x].bind_count
      BY <2>3, <3>1
    <3>3. buf[x].live /\ "cmdbuf" \in buf[x].flags /\ buf'[x].has_res = buf[x].has_res
      BY <2>8, <3>2 DEF SameThing
    <3>4. buf'[x].bind_count <= 1
      <4>1. buf[x].bind_count <= 1  BY <1>e, <3>3
      <4>2. buf[x].bind_count \in Nat /\ buf'[x].bind_count \in Nat  BY <1>c DEF Buffers
      <4> QED  BY <3>2, <4>1, <4>2
    <3> QED  BY <1>e, <2>7, <3>3, <3>4
  <2>9. ASSUME NEW c \in running'
        PROVE  /\ c \in Object /\ buf'[c].live
               /\ "cmdbuf" \in buf'[c].flags /\ buf'[c].has_res
    BY <1>e, <2>1, <2>3, <2>5, <2>9 DEF SameThing
  <2> QED  BY <2>6, <2>8, <2>9
<1>4. CASE Moves
  <2>1. PICK t \in Thread : CmdMove(t) \/ UpdateSwap(t)  BY <1>4 DEF Moves
  <2> DEFINE o == arg[t].obj
  <2>2. /\ o \in Object /\ buf[o].live /\ \A x \in Object \ {o} : buf'[x] = buf[x]
        /\ \A x \in Object : /\ buf'[x].live = buf[x].live
                             /\ buf'[x].bind_count = buf[x].bind_count
                             /\ buf'[x].flags = buf[x].flags
        /\ buf'[o].res = arg[t].bufs /\ buf'[o].prog = arg[t].bufs /\ buf'[o].has_res
        /\ "cmdbuf" \in buf[o].flags /\ running' = running
    BY <1>b, <2>1, MovesEffect
       DEF Handlers, HandlerOk, CmdMove, UpdateSwap, Step, Updating, Live, IsCmd
  <2>3. Plain(buf, arg[t].bufs)  BY <1>b DEF Handlers, HandlerOk
  <2>4. \A x \in Object : Sound(buf', x)
    <3>1. SUFFICES ASSUME NEW x \in Object  PROVE Sound(buf', x)
      OBVIOUS
    <3>2. CASE x = o
      <4>1. /\ buf'[o].live /\ "cmdbuf" \in buf'[o].flags /\ buf'[o].has_res
            /\ buf'[o].res = arg[t].bufs /\ buf'[o].prog = arg[t].bufs
        BY <2>2
      <4>2. Plain(buf', arg[t].bufs)  BY <2>2, <2>3 DEF Plain
      <4> QED  BY <3>2, <4>1, <4>2 DEF Sound
    <3>3. CASE x # o
      <4>1. Sound(buf, x) /\ buf'[x] = buf[x]  BY <1>e, <2>2, <3>3
      <4>2. Plain(buf', buf[x].res)  BY <2>2, <4>1 DEF Sound, Plain
      <4> QED  BY <4>1, <4>2 DEF Sound
    <3> QED  BY <3>2, <3>3
  <2>5. \A u \in Thread \ {t} :
           pc[u] = "cc_move" => pc'[u] = "cc_move" /\ arg'[u].obj = arg[u].obj
    BY <1>b, <2>1 DEF CmdMove, UpdateSwap, Step, Goes, Types
  <2>6. \A x \in Object : buf'[x].live /\ "cmdbuf" \in buf'[x].flags =>
           /\ \/ buf'[x].has_res
              \/ \E u \in Thread : pc'[u] = "cc_move" /\ arg'[u].obj = x
           /\ buf'[x].bind_count <= 1
    <3>1. SUFFICES ASSUME NEW x \in Object, buf'[x].live /\ "cmdbuf" \in buf'[x].flags
                   PROVE  /\ \/ buf'[x].has_res
                             \/ \E u \in Thread : pc'[u] = "cc_move" /\ arg'[u].obj = x
                          /\ buf'[x].bind_count <= 1
      OBVIOUS
    <3>2. /\ buf'[x].bind_count <= 1
          /\ \/ buf[x].has_res
             \/ \E u \in Thread : pc[u] = "cc_move" /\ arg[u].obj = x
      BY <1>e, <2>2, <3>1
    <3>3. CASE x = o  BY <2>2, <3>2, <3>3
    <3>4. CASE x # o  BY <2>2, <2>5, <3>2, <3>4
    <3> QED  BY <3>3, <3>4
  <2>7. \A c \in running' : /\ c \in Object /\ buf'[c].live
                            /\ "cmdbuf" \in buf'[c].flags /\ buf'[c].has_res
    BY <1>e, <2>2
  <2> QED  BY <2>4, <2>6, <2>7
<1>5. CASE CloseFree
  <2>1. running' = {} /\ \A o \in Object : buf[o].live => "cmdbuf" \notin buf[o].flags
    BY <1>b, <1>5 DEF CloseFree, Phases, Live, IsCmd
  <2>2. \A x \in Object : \/ buf'[x] = Free
                          \/ SameThing(buf[x], buf'[x])
    <3>1. CASE Found(next_id)
      <4>1. idr[next_id] \in Object /\ buf' = DestroyRaw(buf, idr[next_id])
        BY <1>b, <1>5, <3>1 DEF CloseFree, Types, Found
      <4> QED  BY <1>c, <4>1, FreeEffect
    <3>2. CASE ~Found(next_id)
      BY <1>5, <3>2, SameRefl DEF CloseFree
    <3> QED  BY <3>1, <3>2
  <2>3. \A x \in Object : ~buf[x].has_res /\ buf[x].res = << >>
    BY <1>e, <2>1 DEF Sound
  <2>4. \A x \in Object : /\ ~buf'[x].has_res /\ buf'[x].res = << >>
                          /\ ~(buf'[x].live /\ "cmdbuf" \in buf'[x].flags)
    BY <2>1, <2>2, <2>3 DEF Free, SameThing
  <2> QED  BY <2>1, <2>4 DEF Sound, Plain
<1> QED
  BY <1>1, <1>2, <1>3, <1>4, <1>5 DEF Frees


-----------------------------------------------------------------------------
(* What handlers hold.                                                     *)

\* A handler that takes no step, while what it holds stays what it is.
LEMMA HandlerKept ==
    ASSUME NEW b, NEW bb, NEW p, NEW a, NEW pp, NEW aa, NEW t \in Thread,
           HandlerOk(b, p, a, t), pp[t] = p[t], aa[t] = a[t],
           p[t] \in Owning \cup {"destroy_raw"} =>
              /\ bb[a[t].obj].live
              /\ p[t] \in {"cc_move"} \cup Updating =>
                    /\ "cmdbuf" \in b[a[t].obj].flags => "cmdbuf" \in bb[a[t].obj].flags
                    /\ bb[a[t].obj].has_res = b[a[t].obj].has_res,
           Plain(bb, a[t].bufs)
    PROVE  HandlerOk(bb, pp, aa, t)
BY DEF HandlerOk, Owning, Updating

LEMMA PlainKept ==
    ASSUME NEW b, NEW bb, NEW list, Plain(b, list),
           \A o \in Object : SameThing(b[o], bb[o]) \/ \A i \in DOMAIN list : list[i] # o
    PROVE  Plain(bb, list)
BY DEF Plain, SameThing

\* What a command buffer's owners are, no other handler and no job can be.
LEMMA SoleOwner ==
    ASSUME Types, Balance, Records, NEW o \in Live, IsCmd(o),
           NEW t \in Thread, pc[t] \in Owning, arg[t].obj = o
    PROVE  /\ \A u \in Thread : pc[u] \in Owning /\ arg[u].obj = o => u = t
           /\ o \notin running
<1>1. /\ o \in Object /\ Uses(buf, pc, arg, running, lost, o) = buf[o].bind_count
      /\ buf[o].bind_count <= 1 /\ buf[o].bind_count \in Nat
  BY DEF Balance, Live, Records, Types, Buffers
<1>2. t \in OwnersOf(pc, arg, o)  BY DEF OwnersOf
<1>3. ASSUME NEW u \in Thread, pc[u] \in Owning, arg[u].obj = o, u # t  PROVE FALSE
  <2>1. u \in OwnersOf(pc, arg, o)  BY <1>3 DEF OwnersOf
  <2>2. Uses(buf, pc, arg, running, lost, o) >= 2
    BY <1>1, <1>2, <1>3, <2>1, TwoOwners DEF Types
  <2> QED  BY <1>1, <2>2
<1>4. ASSUME o \in running  PROVE FALSE
  <2>1. Uses(buf, pc, arg, running, lost, o) >= Share(buf, pc, arg, running, lost, o, t, o)
    BY <1>1, UsesAtLeast DEF Types
  <2>2. /\ Count(buf[o].res, o) \in Nat /\ Count(arg[t].bufs, o) \in Nat /\ lost[o] \in Nat
        /\ Has(OwnersOf(pc, arg, o), t) = 1 /\ Has(running, o) = 1
    BY <1>1, <1>2, <1>4, ShareType DEF Types, Has
  <2>3. Share(buf, pc, arg, running, lost, o, t, o)
          = Count(buf[o].res, o) + Count(arg[t].bufs, o) + 1 + 1 + lost[o]
    BY <2>2 DEF Share
  <2>4. Share(buf, pc, arg, running, lost, o, t, o) >= 2
    BY <2>2, <2>3
  <2>5. Share(buf, pc, arg, running, lost, o, t, o) \in Nat
    BY <1>1, ShareType DEF Types
  <2> QED  BY <1>1, <2>1, <2>4, <2>5
<1> QED  BY <1>3, <1>4


LEMMA InitHandlers == Init => Handlers
BY DEF Init, Handlers, HandlerOk, Owning, Creating, Updating, Holding, NoArg, Plain

\* The handlers of other threads, and all of them in the steps that are no
\* handler's.
LEMMA NextOthers ==
    ASSUME Consistent, [Next]_vars, Types', NEW u \in Thread,
           pc'[u] = pc[u], arg'[u] = arg[u],
           ~BufferFree(u)
    PROVE  HandlerOk(buf', pc', arg', u)
<1>b. Types /\ Homes /\ Phases /\ Handlers /\ Records /\ Balance  BY DEF Consistent
<1>c. buf \in [Object -> Buffers] /\ buf' \in [Object -> Buffers]
  BY <1>b DEF Types
<1>d. /\ HandlerOk(buf, pc, arg, u) /\ Plain(buf, arg[u].bufs)
      /\ pc[u] \in Owning \cup {"destroy_raw"} => arg[u].obj \in Object /\ buf[arg[u].obj].live
  BY <1>b DEF Handlers, HandlerOk
<1>1. ASSUME \A o \in Object : SameThing(buf[o], buf'[o])
      PROVE  HandlerOk(buf', pc', arg', u)
  <2>1. Plain(buf', arg[u].bufs)  BY <1>d, <1>1, PlainKept
  <2> QED  BY <1>d, <1>1, <2>1, HandlerKept DEF SameThing
<1>2. CASE ~Allocates /\ ~Frees /\ ~Moves
  BY <1>b, <1>1, <1>2, SteadySteps
<1>3. CASE Allocates
  <2>1. PICK t \in Thread, o \in Object : BufferCreate(t, o) \/ CmdAlloc(t, o)
    BY <1>3 DEF Allocates
  <2>2. \E kind \in {{}, {"cmdbuf"}} : Alloc(t, o, kind)
    BY <2>1 DEF BufferCreate, CmdAlloc
  <2>3. ~buf[o].live /\ \A x \in Object \ {o} : buf'[x] = buf[x]
    BY <1>b, <2>2, AllocEffect DEF Live
  <2>4. Plain(buf', arg[u].bufs)
    <3>1. \A i \in DOMAIN arg[u].bufs : arg[u].bufs[i] # o  BY <1>d, <2>3 DEF Plain
    <3>2. \A x \in Object : SameThing(buf[x], buf'[x]) \/ x = o  BY <2>3, SameRefl
    <3> QED  BY <1>d, <3>1, <3>2, PlainKept
  <2>5. pc[u] \in Owning \cup {"destroy_raw"} => buf'[arg[u].obj] = buf[arg[u].obj]
    BY <1>d, <2>3
  <2> QED  BY <1>d, <2>4, <2>5, HandlerKept
<1>4. CASE \E t \in Thread : BufferFree(t)
  <2>1. PICK t \in Thread : BufferFree(t)  BY <1>4
  <2> DEFINE o == arg[t].obj
  <2>2. /\ o \in Live /\ buf' = DestroyRaw(buf, o) /\ u # t
        /\ pc[t] = "destroy_raw" /\ buf[o].bind_count = 0 /\ Raw(pc, arg, t, o)
    BY <1>b, <2>1 DEF BufferFree, Handlers, HandlerOk, Homes, Raw, Live
  <2> HIDE DEF o
  <2>3. o \in Object  BY <2>2 DEF Live
  <2>4. \A x \in Object : SameThing(buf[x], buf'[x]) \/ x = o
    BY <1>c, <2>2, <2>3, FreeEffect
  <2>5. /\ \A i \in DOMAIN arg[u].bufs : arg[u].bufs[i] # o
        /\ pc[u] \in Owning => arg[u].obj # o
    BY <1>b, <2>2, NoUse
  <2>6. pc[u] = "destroy_raw" => arg[u].obj # o
    BY <1>b, <2>2, <2>3 DEF Homes, Raw
  <2>7. Plain(buf', arg[u].bufs)  BY <1>d, <2>4, <2>5, PlainKept
  <2>8. pc[u] \in Owning \cup {"destroy_raw"} => SameThing(buf[arg[u].obj], buf'[arg[u].obj])
    BY <1>d, <2>4, <2>5, <2>6
  <2> QED  BY <1>d, <2>7, <2>8, HandlerKept DEF SameThing
<1>5. CASE Moves
  <2>1. PICK t \in Thread : CmdMove(t) \/ UpdateSwap(t)  BY <1>5 DEF Moves
  <2> DEFINE o == arg[t].obj
  <2>2. /\ o \in Live /\ \A x \in Object \ {o} : buf'[x] = buf[x]
        /\ \A x \in Object : buf'[x].live = buf[x].live /\ buf'[x].flags = buf[x].flags
        /\ UpdateSwap(t) => buf'[o].has_res = buf[o].has_res
    BY <1>b, <2>1, MovesEffect
  <2>3. Plain(buf', arg[u].bufs)  BY <1>d, <2>2 DEF Plain
  <2>4. u # t
    <3>1. pc'[t] # pc[t]
      <4>1. pc \in [Thread -> ThreadPC]  BY <1>b DEF Types
      <4>2. CASE CmdMove(t)  BY <4>1, <4>2 DEF CmdMove, Step, Goes
      <4>3. CASE UpdateSwap(t)  BY <4>1, <4>3 DEF UpdateSwap, Goes
      <4> QED  BY <2>1, <4>2, <4>3
    <3> QED  BY <3>1
  <2>5. CmdMove(t) /\ pc[u] \in Owning => arg[u].obj # o
    <3>1. SUFFICES ASSUME CmdMove(t), pc[u] \in Owning, arg[u].obj = o  PROVE FALSE
      OBVIOUS
    <3>2. pc[t] = "cc_move" /\ IsCmd(o)
      BY <1>b, <3>1 DEF CmdMove, Step, Handlers, HandlerOk, IsCmd
    <3>3. pc[t] \in Owning  BY <3>2 DEF Owning
    <3> QED  BY <1>b, <2>2, <2>4, <3>1, <3>2, <3>3, SoleOwner
  <2>6. pc[u] \in Owning => buf'[arg[u].obj].has_res = buf[arg[u].obj].has_res
    BY <1>d, <2>1, <2>2, <2>5
  <2>7. pc[u] \in Owning \cup {"destroy_raw"} =>
           /\ buf'[arg[u].obj].live
           /\ buf'[arg[u].obj].flags = buf[arg[u].obj].flags
    BY <1>d, <2>2
  <2>8. {"cc_move"} \cup Updating \subseteq Owning  BY DEF Owning
  <2> QED  BY <1>d, <2>3, <2>6, <2>7, <2>8, HandlerKept
<1>6. CASE CloseFree
  <2>1. pc[u] = "idle"  BY <1>b, <1>6 DEF CloseFree, Phases
  <2>2. arg[u].bufs = << >>  BY <1>d, <2>1 DEF HandlerOk, Holding
  <2>3. Plain(buf', arg[u].bufs)  BY <2>2, EmptyList DEF Plain
  <2>4. pc[u] \notin Owning \cup {"destroy_raw"}
    BY <2>1 DEF Owning, Creating, Updating
  <2> QED  BY <1>d, <2>3, <2>4, HandlerKept
<1> QED  BY <1>2, <1>3, <1>4, <1>5, <1>6 DEF Frees

LEMMA NextHandlers == Consistent /\ [Next]_vars /\ Types' => Handlers'
<1>a. SUFFICES ASSUME Consistent, [Next]_vars, Types', NEW u \in Thread
               PROVE  HandlerOk(buf', pc', arg', u)
  BY DEF Handlers
<1>b. Types /\ Homes /\ Phases /\ Handlers /\ Records /\ Balance  BY <1>a DEF Consistent
<1>c. /\ buf \in [Object -> Buffers] /\ buf' \in [Object -> Buffers]
      /\ idr \in [Ids -> Object \cup {None}] /\ pc \in [Thread -> ThreadPC]
      /\ arg \in [Thread -> Args] /\ arg[u] \in Args
  BY <1>a, <1>b DEF Types
<1>d. HandlerOk(buf, pc, arg, u)  BY <1>b DEF Handlers
<1>1. CASE pc'[u] = pc[u] /\ arg'[u] = arg[u] /\ ~BufferFree(u)
  BY <1>a, <1>1, NextOthers
<1>2. CASE Return(u)
  BY <1>2, <1>c, EmptyList DEF Return, Goes, HandlerOk, Owning, Creating, Updating, Holding,
     NoArg, Plain
<1>3. CASE Destroys(u) /\ ~Return(u)
  <2>1. PICK id \in Ids : /\ DestroyId(u, id) /\ buf' = buf
                          /\ pc[u] # "idle" \/ ctx_state = "open"
    BY <1>3, <1>c DEF Destroys, BufferDestroyOwn, BufferDestroy, Args
  <2>2. /\ Found(id) /\ pc'[u] = "destroy_raw" /\ arg'[u] = [NoArg EXCEPT !.obj = idr[id]]
    BY <1>3, <1>c, <2>1 DEF DestroyId, Goes
  <2>3. idr[id] \in Live /\ idr[id] \in Object  BY <1>b, <2>1, <2>2, OpenWhen DEF Live
  <2>4. arg'[u].obj = idr[id] /\ arg'[u].bufs = << >>  BY <2>2 DEF NoArg
  <2> QED
    BY <2>1, <2>2, <2>3, <2>4, EmptyList
       DEF HandlerOk, Owning, Creating, Updating, Plain, Live
<1>4. CASE (CreateUndo(u) \/ CmdExit(u)) /\ ~Return(u)
  <2>1. pc'[u] = "destroy" /\ arg'[u].obj = None /\ arg'[u].bufs = arg[u].bufs
    BY <1>4, <1>c DEF CreateUndo, CmdExit, Goes, Args
  <2>2. arg[u].bufs = << >>
    BY <1>4, <1>d DEF CreateUndo, CmdExit, Creating, HandlerOk, Holding
  <2> QED
    BY <2>1, <2>2, EmptyList DEF HandlerOk, Owning, Creating, Updating, Plain
<1>5. ASSUME NEW o \in Object, BufferCreate(u, o) \/ CmdAlloc(u, o)
      PROVE  HandlerOk(buf', pc', arg', u)
  <2>1. PICK kind \in {{}, {"cmdbuf"}} :
           /\ Alloc(u, o, kind)
           /\ \/ kind = {} /\ pc'[u] \in Creating /\ pc[u] = "idle"
              \/ kind = {"cmdbuf"} /\ pc'[u] = "cc_move" /\ pc[u] = "cc_bound"
    BY <1>5, <1>c DEF BufferCreate, CmdAlloc, Enter, Step, Goes
  <2>2. /\ ~buf[o].live /\ buf'[o] = New(kind)
        /\ \A x \in Object \ {o} : buf'[x] = buf[x]
        /\ arg'[u].obj = o /\ arg'[u].bufs = arg[u].bufs
    BY <1>b, <2>1, AllocEffect DEF Live
  <2>3. /\ buf'[o].live /\ ~buf'[o].has_res
        /\ kind = {"cmdbuf"} => "cmdbuf" \in buf'[o].flags
    BY <2>2 DEF New
  <2>4. Plain(buf', arg[u].bufs)
    BY <1>d, <2>2 DEF HandlerOk, Plain
  <2>5. pc[u] = "idle" => arg[u].bufs = << >>  BY <1>d DEF HandlerOk, Holding
  <2> QED
    BY <2>1, <2>2, <2>3, <2>4, <2>5 DEF HandlerOk, Owning, Creating, Updating, Holding
<1>6. ASSUME NEW ids \in IdLists, CmdBind(u, ids) \/ UpdateBind(u, ids)
      PROVE  HandlerOk(buf', pc', arg', u)
  <2>1. /\ Bindable(ids) /\ buf' = Bind(buf, Named(ids))
        /\ arg'[u].obj = arg[u].obj /\ arg'[u].bufs = Named(ids)
        /\ ctx_state = "open" \/ pc[u] # "idle"
        /\ \/ pc[u] = "idle" /\ pc'[u] = "cc_bound"
           \/ pc[u] = "up_check" /\ pc'[u] = "up_swap"
    BY <1>6, <1>c DEF CmdBind, UpdateBind, Enter, Step, Goes, Args
  <2>2. Named(ids) \in Lists  BY <1>c, <2>1, NamedType
  <2>3. \A o \in Object : SameThing(buf[o], buf'[o])
    <3> HIDE DEF Named
    <3> QED  BY <1>c, <2>1, <2>2, BindEffect
  <2>4. Plain(buf, Named(ids))
    <3>1. \A id \in Ids : Found(id) => idr[id] \in Live  BY <1>b, <2>1, OpenWhen
    <3>2. \A i \in DOMAIN Named(ids) :
             \E id \in Ids : Found(id) /\ ~IsCmd(idr[id]) /\ Named(ids)[i] = idr[id]
      BY <1>c, <2>1, NamedType
    <3> HIDE DEF Named
    <3> QED  BY <3>1, <3>2 DEF Plain, Live, IsCmd
  <2>5. Plain(buf', Named(ids))
    <3> HIDE DEF Named
    <3> QED  BY <2>3, <2>4, PlainKept
  <2> HIDE DEF Named
  <2> QED
    BY <1>d, <2>1, <2>3, <2>5 DEF HandlerOk, Owning, Creating, Updating, Holding, SameThing
<1>7. CASE CmdMove(u)
  <2>1. /\ pc[u] = "cc_move" /\ pc'[u] = "cc_exit" /\ arg'[u].obj = arg[u].obj
        /\ arg'[u].bufs = << >>
    BY <1>7, <1>c DEF CmdMove, Step, Goes, Args
  <2>2. arg[u].obj \in Object /\ buf'[arg[u].obj].live
    BY <1>b, <1>7, MovesEffect DEF Live
  <2> QED
    BY <2>1, <2>2, EmptyList DEF HandlerOk, Owning, Creating, Updating, Plain, Holding
<1>8. CASE UpdateSwap(u)
  <2> DEFINE o == arg[u].obj
  <2>1. /\ pc[u] = "up_swap" /\ pc'[u] = "up_unbind" /\ arg'[u].obj = o
        /\ arg'[u].bufs = buf[o].res
    BY <1>8, <1>c DEF UpdateSwap, Goes, Args
  <2>2. /\ o \in Object /\ buf'[o].live /\ buf'[o].has_res = buf[o].has_res
        /\ \A x \in Object : buf'[x].live = buf[x].live /\ buf'[x].flags = buf[x].flags
    BY <1>b, <1>8, MovesEffect DEF Live
  <2>3. Plain(buf, buf[o].res)  BY <1>b, <2>2 DEF Records, Sound
  <2>4. Plain(buf', buf[o].res)  BY <2>2, <2>3 DEF Plain
  <2>5. "cmdbuf" \in buf[o].flags /\ buf[o].has_res
    BY <1>d, <2>1 DEF HandlerOk, Updating
  <2> HIDE DEF o
  <2> QED
    BY <2>1, <2>2, <2>4, <2>5 DEF HandlerOk, Owning, Creating, Updating, Holding
<1>9. ASSUME NEW id \in Ids, UpdateTake(u, id)
      PROVE  HandlerOk(buf', pc', arg', u)
  <2>1. /\ Found(id) /\ IsCmd(idr[id]) /\ ~IsLocked(idr[id]) /\ ctx_state = "open"
        /\ buf' = Take(buf, idr[id]) /\ pc[u] = "idle" /\ pc'[u] = "up_check"
        /\ arg'[u].obj = idr[id] /\ arg'[u].bufs = arg[u].bufs
    BY <1>9, <1>c DEF UpdateTake, Enter, Step, Goes, Args
  <2>2. id >= next_id  BY <1>b, <2>1, BoundsAssumption DEF Phases, Ids
  <2>3. idr[id] \in Object /\ buf[idr[id]].live /\ buf[idr[id]].has_res
    BY <1>a, <2>1, <2>2, TakesReady DEF Live
  <2>4. SameThing(buf[idr[id]], buf'[idr[id]])  BY <1>c, <2>1, <2>3, TakeEffect
  <2>5. arg[u].bufs = << >>  BY <1>d, <2>1 DEF HandlerOk, Holding
  <2> QED
    BY <2>1, <2>3, <2>4, <2>5, EmptyList
       DEF HandlerOk, Owning, Creating, Updating, Plain, Holding, SameThing, IsCmd
<1>10. CASE UpdateRefuse(u) \/ UpdateSwapFails(u) \/ UpdateUnbind(u)
  <2>1. /\ pc[u] \in Updating /\ pc'[u] = "up_exit" /\ arg'[u].obj = arg[u].obj
        /\ arg'[u].bufs = << >>
    <3>1. pc[u] = "up_check" => arg[u].bufs = << >>  BY <1>d DEF HandlerOk, Holding
    <3> QED
      BY <1>10, <1>c, <3>1 DEF UpdateRefuse, UpdateSwapFails, UpdateUnbind, Step, Goes, Args,
         Updating
  <2>2. \A o \in Object : SameThing(buf[o], buf'[o])
    <3>1. arg[u].bufs \in Lists  BY <1>c DEF Args
    <3> QED
      BY <1>10, <1>c, <3>1, SameRefl, UnbindList
         DEF UpdateRefuse, UpdateSwapFails, UpdateUnbind
  <2> QED
    BY <1>d, <2>1, <2>2, EmptyList
       DEF HandlerOk, Owning, Creating, Updating, Plain, Holding, SameThing
<1>11. CASE CreateMap(u)
  <2>1. /\ pc[u] = "create_map" /\ pc'[u] = "create_exit" /\ arg' = arg
    BY <1>11, <1>c DEF CreateMap, Step, Goes
  <2>2. \A o \in Object : SameThing(buf[o], buf'[o])
    BY <1>b, <1>11, MmapEffect DEF CreateMap
  <2> QED
    BY <1>d, <2>1, <2>2, EmptyList
       DEF HandlerOk, Owning, Creating, Updating, Plain, Holding, SameThing
<1>12. CASE Handler(u) \/ Client(u)
  <2>1. CASE BufferFree(u) \/ CreateExit(u) \/ CmdAbort(u) \/ UpdateExit(u)
    BY <2>1, <1>2 DEF BufferFree, CreateExit, CmdAbort, UpdateExit
  <2>2. CASE \E id \in Ids : BufferMap(u, id) \/ BufferUnmap(u, id) \/ Runpgm(u, id)
    <3>1. pc' = pc /\ arg' = arg  BY <2>2 DEF BufferMap, BufferUnmap, Runpgm
    <3>2. ~BufferFree(u)  BY <3>1, <1>c DEF BufferFree, Return, Goes
    <3> QED  BY <1>1, <3>1, <3>2
  <2> QED
    BY <1>12, <1>2, <1>3, <1>4, <1>5, <1>6, <1>7, <1>8, <1>9, <1>10, <1>11, <2>1, <2>2
       DEF Handler, Client, Destroys
<1>13. CASE ~Handler(u) /\ ~Client(u)
  <2>1. ~BufferFree(u)  BY <1>13 DEF Handler
  <2>2. pc'[u] = pc[u] /\ arg'[u] = arg[u]
    <3>1. CASE \E t \in Thread : Handler(t) \/ Client(t)
      BY <1>b, <1>13, <3>1, OthersStill
    <3>2. CASE (\E x \in Object : JobDone(x)) \/ Close \/ CloseFree \/ CloseEnd \/ UNCHANGED vars
      BY <3>2 DEF JobDone, Close, CloseFree, CloseEnd, vars
    <3> QED  BY <1>a, <3>1, <3>2 DEF Next
  <2> QED  BY <1>1, <2>1, <2>2
<1> QED  BY <1>12, <1>13


-----------------------------------------------------------------------------
(* The books balance.                                                      *)

\* The uses of a buffer by one thread and by what is not a thread's.
Part(p, a, r, l, t, o) ==
    Count(a[t].bufs, o) + Has(OwnersOf(p, a, o), t) + Has(r, o) + l[o]

LEMMA PartType ==
    ASSUME NEW p, NEW a \in [Thread -> Args], NEW r, NEW l \in [Object -> Nat],
           NEW t \in Thread, NEW o \in Object
    PROVE  /\ Count(a[t].bufs, o) \in Nat /\ Has(OwnersOf(p, a, o), t) \in Nat
           /\ Has(r, o) \in Nat /\ l[o] \in Nat
           /\ Part(p, a, r, l, t, o) \in Nat
           /\ Has(OwnersOf(p, a, o), t) = IF p[t] \in Owning /\ a[t].obj = o THEN 1 ELSE 0
<1>1. a[t].bufs \in Lists  BY DEF Args
<1>2. Count(a[t].bufs, o) \in Nat  BY <1>1, CountType
<1>3. /\ Has(OwnersOf(p, a, o), t) \in Nat /\ Has(r, o) \in Nat
      /\ Has(OwnersOf(p, a, o), t) = IF p[t] \in Owning /\ a[t].obj = o THEN 1 ELSE 0
  BY DEF Has, OwnersOf
<1>4. l[o] \in Nat  OBVIOUS
<1> QED  BY <1>2, <1>3, <1>4 DEF Part

\* A step of t that changes the resources of c only.
LEMMA UsesStep ==
    ASSUME Types, Types', NEW t \in Thread, NEW c \in Object, NEW o \in Object,
           \A d \in Object \ {c} : buf'[d].res = buf[d].res,
           \A u \in Thread \ {t} : pc'[u] = pc[u] /\ arg'[u] = arg[u]
    PROVE  Uses(buf', pc', arg', running', lost', o) + Share(buf, pc, arg, running, lost, c, t, o)
             = Uses(buf, pc, arg, running, lost, o) + Share(buf', pc', arg', running', lost', c, t, o)
<1>1. /\ buf \in [Object -> Buffers] /\ buf' \in [Object -> Buffers]
      /\ arg \in [Thread -> Args] /\ arg' \in [Thread -> Args]
      /\ lost \in [Object -> Nat] /\ lost' \in [Object -> Nat]
  BY DEF Types
<1> QED  BY <1>1, UsesChange

\* A step of one thread that changes no resource list changes the uses of a
\* buffer by the thread's part.
LEMMA PartStep ==
    ASSUME Types, Types', Balance, NEW t \in Thread, NEW o \in Live,
           \A u \in Thread \ {t} : pc'[u] = pc[u] /\ arg'[u] = arg[u],
           \A d \in Object : buf'[d].res = buf[d].res
    PROVE  /\ buf[o].bind_count \in Nat
           /\ Part(pc, arg, running, lost, t, o) \in Nat
           /\ Part(pc', arg', running', lost', t, o) \in Nat
           /\ buf[o].bind_count >= Part(pc, arg, running, lost, t, o)
           /\ Uses(buf', pc', arg', running', lost', o) \in Nat
           /\ Uses(buf', pc', arg', running', lost', o) + Part(pc, arg, running, lost, t, o)
                = buf[o].bind_count + Part(pc', arg', running', lost', t, o)
<1> DEFINE u == Uses(buf, pc, arg, running, lost, o)
           uu == Uses(buf', pc', arg', running', lost', o)
           s == Share(buf, pc, arg, running, lost, o, t, o)
           ss == Share(buf', pc', arg', running', lost', o, t, o)
           r == Count(buf[o].res, o)
           p == Part(pc, arg, running, lost, t, o)
           pp == Part(pc', arg', running', lost', t, o)
<1>1. /\ o \in Object /\ buf \in [Object -> Buffers] /\ buf' \in [Object -> Buffers]
      /\ arg \in [Thread -> Args] /\ arg' \in [Thread -> Args]
      /\ lost \in [Object -> Nat] /\ lost' \in [Object -> Nat]
  BY DEF Types, Live
<1>2. uu + s = u + ss
  <2>1. o \in Object /\ \A d \in Object \ {o} : buf'[d].res = buf[d].res  BY <1>1
  <2> QED  BY <2>1, UsesStep
<1>3. u >= s  BY <1>1, UsesAtLeast
<1>4. u \in Nat /\ uu \in Nat /\ s \in Nat /\ ss \in Nat /\ r \in Nat
  BY <1>1, ShareType
<1>5. p \in Nat /\ pp \in Nat  BY <1>1, PartType
<1>6. s = r + p
  <2>1. /\ Count(arg[t].bufs, o) \in Nat /\ Has(OwnersOf(pc, arg, o), t) \in Nat
        /\ Has(running, o) \in Nat /\ lost[o] \in Nat
    BY <1>1, PartType
  <2> QED  BY <1>4, <2>1 DEF Share, Part
<1>7. ss = r + pp
  <2>1. /\ Count(arg'[t].bufs, o) \in Nat /\ Has(OwnersOf(pc', arg', o), t) \in Nat
        /\ Has(running', o) \in Nat /\ lost'[o] \in Nat
    BY <1>1, PartType
  <2>2. buf'[o].res = buf[o].res  BY <1>1
  <2> QED  BY <1>4, <2>1, <2>2 DEF Share, Part
<1>8. u = buf[o].bind_count  BY DEF Balance
<1> HIDE DEF u, uu, s, ss, r, p, pp
<1>9. u >= p /\ uu + p = u + pp  BY <1>2, <1>3, <1>4, <1>5, <1>6, <1>7
<1> QED  BY <1>4, <1>5, <1>8, <1>9 DEF u, uu, p, pp


\* Every step of a handler that neither allocates, frees nor gives resources
\* changes the count of a buffer as it changes the thread's part.
LEMMA BalanceSteady ==
    ASSUME Consistent, Types', NEW t \in Thread, Handler(t) \/ Client(t),
           [Next]_vars, ~Allocates, ~Frees, ~Moves, NEW o \in Live
    PROVE  /\ buf'[o].bind_count = Uses(buf', pc', arg', running', lost', o)
           /\ "locked" \in buf'[o].flags <=> buf'[o].bind_count > 0
<1>b. Types /\ Homes /\ Phases /\ Handlers /\ Records /\ Balance  BY DEF Consistent
<1>c. /\ buf \in [Object -> Buffers] /\ buf' \in [Object -> Buffers]
      /\ idr \in [Ids -> Object \cup {None}] /\ pc \in [Thread -> ThreadPC]
      /\ arg \in [Thread -> Args] /\ arg' \in [Thread -> Args] /\ arg[t] \in Args
      /\ arg[t].bufs \in Lists /\ lost \in [Object -> Nat] /\ lost' \in [Object -> Nat]
      /\ o \in Object
  BY <1>b, HandlerTypes DEF Types, Live
<1>d. HandlerOk(buf, pc, arg, t)  BY <1>b DEF Handlers
<1> DEFINE p == Part(pc, arg, running, lost, t, o)
           pp == Part(pc', arg', running', lost', t, o)
           uu == Uses(buf', pc', arg', running', lost', o)
           n == buf[o].bind_count
           nn == buf'[o].bind_count
<1>e. n \in Nat /\ nn \in Nat /\ p \in Nat /\ pp \in Nat /\ uu \in Nat /\ n >= p /\ uu + p = n + pp
  <2>1. \A u \in Thread \ {t} : pc'[u] = pc[u] /\ arg'[u] = arg[u]
    BY <1>b, OthersStill
  <2>2. \A d \in Object : SameThing(buf[d], buf'[d])  BY <1>b, SteadySteps
  <2>3. \A d \in Object : buf'[d].res = buf[d].res  BY <2>2 DEF SameThing
  <2>4. nn \in Nat  BY <1>c DEF Buffers
  <2> QED  BY <1>b, <2>1, <2>3, <2>4, PartStep
<1>f. "locked" \in buf[o].flags <=> n > 0  BY <1>b DEF Balance, IsLocked
<1> DEFINE k == Count(arg[t].bufs, o)
           kk == Count(arg'[t].bufs, o)
           h == Has(OwnersOf(pc, arg, o), t)
           hh == Has(OwnersOf(pc', arg', o), t)
           j == Has(running, o)
           jj == Has(running', o)
<1>g. /\ k \in Nat /\ kk \in Nat /\ h \in Nat /\ hh \in Nat /\ j \in Nat /\ jj \in Nat
      /\ lost[o] \in Nat /\ lost'[o] \in Nat
      /\ p = k + h + j + lost[o] /\ pp = kk + hh + jj + lost'[o]
      /\ h = IF pc[t] \in Owning /\ arg[t].obj = o THEN 1 ELSE 0
      /\ hh = IF pc'[t] \in Owning /\ arg'[t].obj = o THEN 1 ELSE 0
  BY <1>c, PartType DEF Part
<1> HIDE DEF p, pp, uu, n, nn, k, kk, h, hh, j, jj
<1>h. SUFFICES nn + p = n + pp /\ ("locked" \in buf'[o].flags <=> nn > 0)
  BY <1>e DEF uu, nn
<1>i. Count(<< >>, o) = 0  BY CountEmpty
<1>1. ASSUME arg'[t].bufs = arg[t].bufs, UNCHANGED <<running, lost>>,
             \/ pc[t] \notin Owning /\ pc'[t] \notin Owning
             \/ pc[t] \in Owning /\ pc'[t] \in Owning /\ arg'[t].obj = arg[t].obj,
             nn = n, "locked" \in buf'[o].flags <=> "locked" \in buf[o].flags
      PROVE  nn + p = n + pp /\ ("locked" \in buf'[o].flags <=> nn > 0)
  <2>1. kk = k /\ jj = j /\ lost'[o] = lost[o] /\ hh = h
    BY <1>1, <1>g DEF k, kk, j, jj
  <2> QED  BY <1>f, <1>g, <1>1, <2>1
<1>2. CASE \/ Destroys(t) \/ CreateMap(t) \/ UpdateRefuse(t)
           \/ \E id \in Ids : BufferMap(t, id) \/ BufferUnmap(t, id)
  <2>1. arg'[t].bufs = arg[t].bufs
    <3>1. CASE Destroys(t)
      <4>1. arg[t].bufs = << >>
        BY <1>d, <3>1 DEF Destroys, BufferDestroyOwn, BufferDestroy, HandlerOk, Holding
      <4>2. arg'[t].bufs = << >>
        BY <1>c, <3>1 DEF Destroys, BufferDestroyOwn, BufferDestroy, DestroyId, Return, NoArg
      <4> QED  BY <4>1, <4>2
    <3> QED  BY <1>2, <3>1 DEF CreateMap, UpdateRefuse, BufferMap, BufferUnmap
  <2>2. UNCHANGED <<running, lost>>
    BY <1>2 DEF Destroys, BufferDestroyOwn, BufferDestroy, CreateMap, UpdateRefuse, BufferMap,
       BufferUnmap, ctxVars
  <2>3. \/ pc[t] \notin Owning /\ pc'[t] \notin Owning
        \/ pc[t] \in Owning /\ pc'[t] \in Owning /\ arg'[t].obj = arg[t].obj
    <3>1. CASE Destroys(t)
      <4>1. pc[t] \in {"idle", "destroy"} /\ pc'[t] \in {"destroy_raw", "idle"}
        BY <1>c, <3>1
           DEF Destroys, BufferDestroyOwn, BufferDestroy, DestroyId, Return, Goes
      <4> QED  BY <4>1 DEF Owning, Creating, Updating
    <3>2. CASE CreateMap(t) \/ UpdateRefuse(t)
      <4>1. /\ arg' = arg
            /\ \/ pc[t] = "create_map" /\ pc'[t] = "create_exit"
               \/ pc[t] = "up_check" /\ pc'[t] = "up_exit"
        BY <1>c, <3>2 DEF CreateMap, UpdateRefuse, Step, Goes
      <4> QED  BY <4>1 DEF Owning, Creating, Updating
    <3>3. CASE \E id \in Ids : BufferMap(t, id) \/ BufferUnmap(t, id)
      BY <3>3 DEF BufferMap, BufferUnmap
    <3> QED  BY <1>2, <3>1, <3>2, <3>3
  <2>4. nn = n /\ ("locked" \in buf'[o].flags <=> "locked" \in buf[o].flags)
    <3>1. CASE \E x : Mmap(t, x)  BY <1>b, <1>c, <3>1, MmapEffect DEF nn, n
    <3>2. CASE \E id \in Ids : BufferUnmap(t, id)
      BY <1>c, <3>2 DEF BufferUnmap, nn, n, Buffers, Flags
    <3>3. CASE buf' = buf  BY <3>3 DEF nn, n
    <3> QED
      BY <1>2, <3>1, <3>2, <3>3 DEF Destroys, BufferDestroyOwn, BufferDestroy, CreateMap,
         UpdateRefuse, BufferMap
  <2> QED  BY <1>1, <2>1, <2>2, <2>3, <2>4
<1>3. CASE CreateExit(t) \/ CreateUndo(t) \/ CmdExit(t) \/ UpdateExit(t)
  <2> DEFINE x == arg[t].obj
  <2>1. /\ buf' = Unbind(buf, <<x>>) /\ UNCHANGED <<running, lost>>
        /\ pc[t] \in Creating \cup {"cc_exit", "up_exit"}
        /\ pc'[t] \in {"idle", "destroy"}
        /\ arg'[t].bufs \in {<< >>, arg[t].bufs}
    BY <1>3, <1>c DEF CreateExit, CreateUndo, CmdExit, UpdateExit, Return, Goes, NoArg, Args,
       ctxVars, Creating
  <2>2. pc[t] \in Owning /\ pc'[t] \notin Owning /\ arg[t].bufs = << >> /\ arg'[t].bufs = << >>
    BY <1>d, <2>1 DEF Owning, Creating, Updating, HandlerOk, Holding
  <2>3. /\ SameThing(buf[o], buf'[o])
        /\ n >= Has({x}, o) => nn = n - Has({x}, o)
        /\ "locked" \in buf'[o].flags <=> nn > 0
    <3> HIDE DEF x
    <3> QED  BY <1>c, <1>f, <2>1, UnbindOne DEF n, nn
  <2>4. h = Has({x}, o) /\ hh = 0 /\ k = 0 /\ kk = 0 /\ jj = j /\ lost'[o] = lost[o]
    BY <1>g, <1>i, <2>1, <2>2 DEF Has, k, kk, j, jj
  <2> HIDE DEF x
  <2> QED  BY <1>e, <1>g, <2>3, <2>4
<1>4. CASE CmdAbort(t) \/ UpdateUnbind(t)
  <2>1. /\ buf' = Unbind(buf, arg[t].bufs) /\ UNCHANGED <<running, lost>>
        /\ \/ pc[t] = "cc_bound" /\ pc'[t] = "idle"
           \/ pc[t] = "up_unbind" /\ pc'[t] = "up_exit" /\ arg'[t].obj = arg[t].obj
        /\ arg'[t].bufs = << >>
    BY <1>4, <1>c DEF CmdAbort, UpdateUnbind, Step, Return, Goes, NoArg, Args, ctxVars
  <2>3. /\ n >= k => nn = n - k
        /\ "locked" \in buf'[o].flags <=> nn > 0
    BY <1>c, <1>f, <2>1, UnbindList DEF n, nn, k
  <2>4. hh = h /\ kk = 0 /\ jj = j /\ lost'[o] = lost[o]
    BY <1>g, <1>i, <2>1 DEF Owning, Creating, Updating, kk, j, jj
  <2> QED  BY <1>e, <1>g, <2>3, <2>4
<1>5. ASSUME NEW ids \in IdLists, CmdBind(t, ids) \/ UpdateBind(t, ids)
      PROVE  nn + p = n + pp /\ ("locked" \in buf'[o].flags <=> nn > 0)
  <2>1. /\ Bindable(ids) /\ buf' = Bind(buf, Named(ids)) /\ UNCHANGED <<running, lost>>
        /\ \/ pc[t] = "idle" /\ pc'[t] = "cc_bound"
           \/ pc[t] = "up_check" /\ pc'[t] = "up_swap" /\ arg'[t].obj = arg[t].obj
        /\ arg'[t].bufs = Named(ids)
    BY <1>5, <1>c DEF CmdBind, UpdateBind, Enter, Step, Goes, Args, ctxVars
  <2>2. Named(ids) \in Lists  BY <1>c, <2>1, NamedType
  <2>3. nn = n + kk /\ ("locked" \in buf'[o].flags <=> nn > 0)
    <3> HIDE DEF Named
    <3> QED  BY <1>c, <1>f, <2>1, <2>2, BindEffect DEF n, nn, kk
  <2>4. arg[t].bufs = << >>  BY <1>d, <2>1 DEF HandlerOk, Holding
  <2>5. hh = h /\ k = 0 /\ jj = j /\ lost'[o] = lost[o]
    BY <1>g, <1>i, <2>1, <2>4 DEF Owning, Creating, Updating, k, j, jj
  <2> QED  BY <1>e, <1>g, <2>3, <2>5
<1>6. ASSUME NEW id \in Ids, Runpgm(t, id) \/ UpdateTake(t, id)
      PROVE  nn + p = n + pp /\ ("locked" \in buf'[o].flags <=> nn > 0)
  <2>1. /\ Found(id) /\ IsCmd(idr[id]) /\ ~IsLocked(idr[id]) /\ ctx_state = "open"
        /\ buf' = Take(buf, idr[id]) /\ pc[t] = "idle" /\ lost' = lost
        /\ arg'[t].bufs = arg[t].bufs
        /\ \/ pc'[t] = "idle" /\ running' = running \cup {idr[id]}
           \/ pc'[t] = "up_check" /\ running' = running /\ arg'[t].obj = idr[id]
    BY <1>6, <1>c DEF Runpgm, UpdateTake, Enter, Step, Goes, Args, ctxVars
  <2>2. id >= next_id  BY <1>b, <2>1, BoundsAssumption DEF Phases, Ids
  <2>3. idr[id] \in Live /\ idr[id] \in Object /\ buf[idr[id]].bind_count = 0
    BY <2>1, <2>2, TakesReady DEF Live
  <2>4. k = kk /\ lost'[o] = lost[o] /\ h = 0
    BY <1>g, <2>1 DEF k, kk, Owning, Creating, Updating
  <2>5. CASE o = idr[id]
    <3>1. n = 0 /\ nn = 1 /\ "locked" \in buf'[o].flags
      BY <1>c, <2>1, <2>3, <2>5, TakeEffect DEF n, nn
    <3>2. o \notin running  BY <1>b, <2>3, <2>5, NoUse
    <3>3. hh + jj = 1 /\ j = 0
      BY <1>g, <2>1, <2>5, <3>2 DEF j, jj, Has, Owning, Creating, Updating
    <3> QED  BY <1>g, <2>4, <3>1, <3>3
  <2>6. CASE o # idr[id]
    <3>1. buf'[o] = buf[o]  BY <1>c, <2>1, <2>3, <2>6, TakeEffect
    <3>2. nn = n /\ hh = 0 /\ jj = j
      BY <1>g, <2>1, <2>6, <3>1 DEF n, nn, j, jj, Has, Owning, Creating, Updating
    <3> QED  BY <1>f, <1>g, <2>4, <3>1, <3>2
  <2> QED  BY <2>5, <2>6
<1>7. CASE UpdateSwapFails(t)
  <2>1. /\ buf' = buf /\ running' = running /\ arg'[t].bufs = << >>
        /\ lost'[o] = lost[o] + k /\ arg'[t].obj = arg[t].obj
        /\ pc[t] = "up_swap" /\ pc'[t] = "up_exit"
    BY <1>7, <1>c DEF UpdateSwapFails, Goes, Args, k
  <2>2. kk = 0 /\ jj = j /\ hh = h /\ nn = n
    BY <1>g, <1>i, <2>1 DEF kk, j, jj, n, nn, Owning, Updating
  <2> QED  BY <1>f, <1>g, <2>1, <2>2
<1> QED
  BY <1>2, <1>3, <1>4, <1>5, <1>6, <1>7
     DEF Handler, Client, Destroys, Allocates, Frees, Moves


\* A list that moves from the handler to the command buffer, or is exchanged.
LEMMA BalanceMoves ==
    ASSUME Consistent, Types', NEW t \in Thread, CmdMove(t) \/ UpdateSwap(t), NEW o \in Live
    PROVE  /\ buf'[o].bind_count = Uses(buf', pc', arg', running', lost', o)
           /\ "locked" \in buf'[o].flags <=> buf'[o].bind_count > 0
<1>b. Types /\ Homes /\ Phases /\ Handlers /\ Records /\ Balance  BY DEF Consistent
<1> DEFINE c == arg[t].obj
<1>c. /\ buf \in [Object -> Buffers] /\ buf' \in [Object -> Buffers]
      /\ pc \in [Thread -> ThreadPC]
      /\ arg \in [Thread -> Args] /\ arg' \in [Thread -> Args] /\ arg[t] \in Args
      /\ lost \in [Object -> Nat] /\ lost' \in [Object -> Nat]
      /\ o \in Object
  BY <1>b DEF Types, Live
<1>1. /\ c \in Object /\ \A x \in Object \ {c} : buf'[x] = buf[x]
      /\ \A x \in Object : buf'[x].bind_count = buf[x].bind_count /\ buf'[x].flags = buf[x].flags
      /\ buf'[c].res = arg[t].bufs
  BY <1>b, MovesEffect DEF Live
<1>2. /\ UNCHANGED <<running, lost>>
      /\ pc[t] \in Owning /\ pc'[t] \in Owning /\ arg'[t].obj = arg[t].obj
      /\ \/ pc[t] = "cc_move" /\ arg'[t].bufs = << >>
         \/ arg'[t].bufs = buf[c].res
      /\ \A u \in Thread \ {t} : pc'[u] = pc[u] /\ arg'[u] = arg[u]
  BY <1>c DEF CmdMove, UpdateSwap, Step, Goes, Args, Owning, Updating, ctxVars
<1>3. arg'[t].bufs = buf[c].res
  <2>1. pc[t] = "cc_move" => buf[c].res = << >>
    BY <1>b, <1>1 DEF Handlers, HandlerOk, Records, Sound
  <2> QED  BY <1>2, <2>1
<1> DEFINE u == Uses(buf, pc, arg, running, lost, o)
           uu == Uses(buf', pc', arg', running', lost', o)
           s == Share(buf, pc, arg, running, lost, c, t, o)
           ss == Share(buf', pc', arg', running', lost', c, t, o)
<1>4. uu + s = u + ss
  <2>1. \A d \in Object \ {c} : buf'[d].res = buf[d].res  BY <1>1
  <2>2. \A v \in Thread \ {t} : pc'[v] = pc[v] /\ arg'[v] = arg[v]  BY <1>2
  <2>3. c \in Object  BY <1>1
  <2> HIDE DEF c
  <2> QED  BY <1>c, <2>1, <2>2, <2>3, UsesChange
<1>5. s = ss
  <2>1. Has(OwnersOf(pc', arg', o), t) = Has(OwnersOf(pc, arg, o), t)
    BY <1>2 DEF Has, OwnersOf
  <2>2. Count(buf[c].res, o) \in Nat /\ Count(arg[t].bufs, o) \in Nat
    BY <1>c, <1>1, ShareType
  <2>3. Count(buf'[c].res, o) = Count(arg[t].bufs, o) /\ Count(arg'[t].bufs, o) = Count(buf[c].res, o)
    BY <1>1, <1>3
  <2>4. Has(running', o) = Has(running, o) /\ lost'[o] = lost[o]  BY <1>2
  <2>5. /\ s = Count(buf[c].res, o) + Count(arg[t].bufs, o)
                 + Has(OwnersOf(pc, arg, o), t) + Has(running, o) + lost[o]
        /\ ss = Count(buf'[c].res, o) + Count(arg'[t].bufs, o)
                 + Has(OwnersOf(pc', arg', o), t) + Has(running', o) + lost'[o]
    BY DEF Share
  <2>6. Has(OwnersOf(pc, arg, o), t) \in Nat /\ Has(running, o) \in Nat /\ lost[o] \in Nat
    BY <1>c DEF Has
  <2> HIDE DEF s, ss, c
  <2> QED  BY <2>1, <2>2, <2>3, <2>4, <2>5, <2>6
<1>6. u \in Nat /\ uu \in Nat /\ s \in Nat  BY <1>c, <1>1, ShareType
<1>7. buf[o].bind_count = u /\ (IsLocked(o) <=> buf[o].bind_count > 0)
  BY <1>b DEF Balance
<1> HIDE DEF u, uu, s, ss, c
<1>8. uu = u  BY <1>4, <1>5, <1>6
<1> QED  BY <1>c, <1>1, <1>7, <1>8 DEF uu, IsLocked

\* A job gives up its command buffer.
LEMMA BalanceJobDone ==
    ASSUME Consistent, Types', NEW x \in Object, JobDone(x), NEW o \in Live
    PROVE  /\ buf'[o].bind_count = Uses(buf', pc', arg', running', lost', o)
           /\ "locked" \in buf'[o].flags <=> buf'[o].bind_count > 0
<1>b. Types /\ Balance  BY DEF Consistent
<1>c. /\ buf \in [Object -> Buffers] /\ buf' \in [Object -> Buffers] /\ o \in Object
      /\ arg \in [Thread -> Args] /\ lost[o] \in Nat
  BY <1>b DEF Types, Live
<1>1. /\ buf' = Unbind(buf, <<x>>) /\ running' = running \ {x} /\ x \in running
      /\ UNCHANGED <<pc, arg, lost>>
  BY DEF JobDone, ctxVars
<1>2. \A d \in Object : SameThing(buf[d], buf'[d])  BY <1>c, <1>1, UnbindOne
<1>3. ResOf(buf') = ResOf(buf)  BY <1>2 DEF ResOf, SameThing
<1> DEFINE a == Cardinality(Places(ResOf(buf), o))
           b == Cardinality(Places(BufsOf(arg), o))
           c == Cardinality(OwnersOf(pc, arg, o))
<1>4. a \in Nat /\ b \in Nat /\ c \in Nat  BY <1>c, UsesTypes
<1>5. /\ Uses(buf, pc, arg, running, lost, o) = a + b + c + Has(running, o) + lost[o]
      /\ Uses(buf', pc', arg', running', lost', o) = a + b + c + Has(running', o) + lost[o]
  BY <1>1, <1>3 DEF Uses
<1>6. Has(running', o) + Has({x}, o) = Has(running, o)  BY <1>1 DEF Has
<1>7. Has(running', o) \in Nat /\ Has({x}, o) \in Nat /\ Has(running, o) \in Nat  BY DEF Has
<1>8. /\ buf[o].bind_count = Uses(buf, pc, arg, running, lost, o)
      /\ "locked" \in buf[o].flags <=> buf[o].bind_count > 0
  BY <1>b DEF Balance, IsLocked
<1> HIDE DEF a, b, c
<1>9. buf[o].bind_count >= Has({x}, o)  BY <1>c, <1>4, <1>5, <1>6, <1>7, <1>8
<1>10. /\ buf'[o].bind_count = buf[o].bind_count - Has({x}, o)
       /\ "locked" \in buf'[o].flags <=> buf'[o].bind_count > 0
  BY <1>c, <1>1, <1>8, <1>9, UnbindOne
<1> QED  BY <1>c, <1>4, <1>5, <1>6, <1>7, <1>8, <1>10

\* Nothing refers to an object that is not live.
LEMMA NoUseOfFree ==
    ASSUME Consistent, NEW o \in Object \ Live, ctx_state = "open"
    PROVE  Uses(buf, pc, arg, running, lost, o) = 0 /\ buf[o].res = << >>
<1>b. Types /\ Homes /\ Phases /\ Handlers /\ Records /\ Balance  BY DEF Consistent
<1>1. Cardinality(Places(ResOf(buf), o)) = 0
  <2>1. \A c \in Object : \A i \in DOMAIN ResOf(buf)[c] : ResOf(buf)[c][i] # o
    BY <1>b DEF ResOf, Records, Sound, Plain, Live
  <2>2. ResOf(buf) \in [Object -> Lists]  BY <1>b, UsesTypes DEF Types
  <2> QED  BY <2>1, <2>2, PlacesNone
<1>2. Cardinality(Places(BufsOf(arg), o)) = 0
  <2>1. \A t \in Thread : \A i \in DOMAIN BufsOf(arg)[t] : BufsOf(arg)[t][i] # o
    BY <1>b DEF BufsOf, Handlers, HandlerOk, Plain, Live
  <2>2. BufsOf(arg) \in [Thread -> Lists]  BY <1>b, UsesTypes DEF Types
  <2> QED  BY <2>1, <2>2, PlacesNone
<1>3. Cardinality(OwnersOf(pc, arg, o)) = 0
  <2>1. OwnersOf(pc, arg, o) = {}  BY <1>b DEF OwnersOf, Handlers, HandlerOk, Live
  <2> QED  BY <2>1, FS_EmptySet
<1>4. Has(running, o) = 0  BY <1>b DEF Has, Records
<1>5. lost[o] = 0  BY <1>b DEF Phases
<1>6. buf[o].res = << >>  BY <1>b DEF Records, Sound, Live
<1> QED  BY <1>1, <1>2, <1>3, <1>4, <1>5, <1>6 DEF Uses


\* A new buffer has its creator's binding, and binds nothing.
LEMMA BalanceAlloc ==
    ASSUME Consistent, [Next]_vars, Types', NEW t \in Thread, NEW x \in Object,
           BufferCreate(t, x) \/ CmdAlloc(t, x), NEW o \in Live'
    PROVE  /\ buf'[o].bind_count = Uses(buf', pc', arg', running', lost', o)
           /\ "locked" \in buf'[o].flags <=> buf'[o].bind_count > 0
<1>b. Types /\ Homes /\ Phases /\ Handlers /\ Records /\ Balance  BY DEF Consistent
<1>c. /\ buf \in [Object -> Buffers] /\ buf' \in [Object -> Buffers]
      /\ pc \in [Thread -> ThreadPC]
      /\ arg \in [Thread -> Args] /\ arg' \in [Thread -> Args] /\ arg[t] \in Args
      /\ lost \in [Object -> Nat] /\ lost' \in [Object -> Nat]
      /\ o \in Object
  BY <1>b DEF Types, Live
<1>1. PICK kind \in {{}, {"cmdbuf"}} :
         /\ Alloc(t, x, kind)
         /\ pc'[t] \in Owning /\ pc[t] \in {"idle", "cc_bound"}
         /\ ctx_state = "open" \/ pc[t] # "idle"
         /\ UNCHANGED <<running, lost>>
  BY <1>c DEF BufferCreate, CmdAlloc, Enter, Step, Goes, Owning, ctxVars
<1>2. /\ x \notin Live /\ buf'[x] = New(kind) /\ \A y \in Object \ {x} : buf'[y] = buf[y]
      /\ arg'[t].obj = x /\ arg'[t].bufs = arg[t].bufs
  BY <1>b, <1>1, AllocEffect
<1>3. ctx_state = "open"  BY <1>b, <1>1, OpenWhen
<1>4. \A u \in Thread \ {t} : pc'[u] = pc[u] /\ arg'[u] = arg[u]
  <2>1. Handler(t) \/ Client(t)  BY DEF Handler, Client
  <2> QED  BY <1>b, <2>1, OthersStill
<1>5. buf[x].res = << >> /\ buf'[x].res = << >>
  BY <1>2, <1>3, NoUseOfFree DEF New
<1>6. \A d \in Object : buf'[d].res = buf[d].res  BY <1>2, <1>5
<1>7. pc[t] \notin Owning  BY <1>1 DEF Owning, Creating, Updating
<1> DEFINE u == Uses(buf, pc, arg, running, lost, o)
           uu == Uses(buf', pc', arg', running', lost', o)
<1>8. CASE o = x
  <2> DEFINE s == Share(buf, pc, arg, running, lost, o, t, o)
             ss == Share(buf', pc', arg', running', lost', o, t, o)
  <2>1. u = 0  BY <1>2, <1>3, <1>8, NoUseOfFree
  <2>2. uu + s = u + ss
    <3>1. \A d \in Object \ {o} : buf'[d].res = buf[d].res  BY <1>6
    <3> QED  BY <1>c, <1>4, <3>1, UsesChange
  <2>3. u >= s /\ uu \in Nat /\ s \in Nat /\ ss \in Nat
    BY <1>c, UsesAtLeast, ShareType
  <2>4. ss = s + 1
    <3>1. Has(OwnersOf(pc', arg', o), t) = 1 /\ Has(OwnersOf(pc, arg, o), t) = 0
      BY <1>1, <1>2, <1>7, <1>8 DEF Has, OwnersOf
    <3>2. /\ Count(buf[o].res, o) \in Nat /\ Count(arg[t].bufs, o) \in Nat
          /\ Has(running, o) \in Nat /\ lost[o] \in Nat
      BY <1>c, ShareType DEF Has
    <3>3. /\ s = Count(buf[o].res, o) + Count(arg[t].bufs, o) + 0 + Has(running, o) + lost[o]
          /\ ss = Count(buf[o].res, o) + Count(arg[t].bufs, o) + 1 + Has(running, o) + lost[o]
      BY <1>c, <1>1, <1>2, <1>6, <3>1 DEF Share
    <3> HIDE DEF s, ss
    <3> QED  BY <3>2, <3>3
  <2>5. buf'[o].bind_count = 1 /\ "locked" \in buf'[o].flags  BY <1>2, <1>8 DEF New
  <2> HIDE DEF u, uu, s, ss
  <2>6. uu = 1  BY <2>1, <2>2, <2>3, <2>4
  <2> QED  BY <2>5, <2>6 DEF uu
<1>9. CASE o # x
  <2>1. o \in Live /\ buf'[o] = buf[o]  BY <1>c, <1>2, <1>9 DEF Live
  <2> DEFINE p == Part(pc, arg, running, lost, t, o)
             pp == Part(pc', arg', running', lost', t, o)
  <2>2. p \in Nat /\ pp \in Nat /\ uu \in Nat /\ uu + p = buf[o].bind_count + pp
        /\ buf[o].bind_count \in Nat
    BY <1>b, <1>4, <1>6, <2>1, PartStep
  <2>3. p = pp
    <3>1. Has(OwnersOf(pc', arg', o), t) = 0 /\ Has(OwnersOf(pc, arg, o), t) = 0
      BY <1>2, <1>7, <1>9 DEF Has, OwnersOf
    <3> QED  BY <1>1, <1>2, <3>1 DEF Part
  <2>4. IsLocked(o) <=> buf[o].bind_count > 0  BY <1>b, <2>1 DEF Balance
  <2> HIDE DEF uu, p, pp
  <2>5. uu = buf[o].bind_count  BY <2>2, <2>3
  <2> QED  BY <2>1, <2>4, <2>5 DEF uu, IsLocked
<1> QED  BY <1>8, <1>9

\* A command buffer that is freed unbinds what it held.
LEMMA BalanceFree ==
    ASSUME Consistent, [Next]_vars, Types', NEW t \in Thread, BufferFree(t), NEW o \in Live'
    PROVE  /\ buf'[o].bind_count = Uses(buf', pc', arg', running', lost', o)
           /\ "locked" \in buf'[o].flags <=> buf'[o].bind_count > 0
<1>b. Types /\ Homes /\ Phases /\ Handlers /\ Records /\ Balance  BY DEF Consistent
<1> DEFINE c == arg[t].obj
<1>c. /\ buf \in [Object -> Buffers] /\ buf' \in [Object -> Buffers]
      /\ pc \in [Thread -> ThreadPC]
      /\ arg \in [Thread -> Args] /\ arg' \in [Thread -> Args] /\ arg[t] \in Args
      /\ lost \in [Object -> Nat] /\ lost' \in [Object -> Nat]
      /\ o \in Object
  BY <1>b DEF Types, Live
<1>1. /\ c \in Object /\ buf' = DestroyRaw(buf, c)
      /\ pc[t] = "destroy_raw" /\ arg[t].bufs = << >>
      /\ pc'[t] = "idle" /\ arg'[t] = NoArg
      /\ UNCHANGED <<running, lost>>
  BY <1>b, <1>c DEF BufferFree, Return, Goes, Handlers, HandlerOk, Holding, Owning, ctxVars
<1>2. IF "cmdbuf" \in buf[c].flags THEN TRUE ELSE buf[c].res = << >>
  BY <1>b, <1>1 DEF Records, Sound
<1> HIDE DEF c
<1>3. /\ buf'[c] = Free
      /\ \A x \in Object \ {c} :
            /\ SameThing(buf[x], buf'[x])
            /\ buf[x].bind_count >= Count(buf[c].res, x)
                 => buf'[x].bind_count = buf[x].bind_count - Count(buf[c].res, x)
            /\ ("locked" \in buf[x].flags <=> buf[x].bind_count > 0)
                 => ("locked" \in buf'[x].flags <=> buf'[x].bind_count > 0)
  <2> DEFINE list == IF "cmdbuf" \in buf[c].flags THEN buf[c].res ELSE << >>
  <2>1. list = buf[c].res  BY <1>2
  <2>2. /\ buf'[c] = Free
        /\ \A x \in Object \ {c} :
              /\ SameThing(buf[x], buf'[x])
              /\ buf[x].bind_count >= Count(list, x)
                   => buf'[x].bind_count = buf[x].bind_count - Count(list, x)
              /\ ("locked" \in buf[x].flags <=> buf[x].bind_count > 0)
                   => ("locked" \in buf'[x].flags <=> buf'[x].bind_count > 0)
    <3> DEFINE x1 == DestroyRaw(buf, c)
    <3>0. buf \in [Object -> Buffers] /\ c \in Object  BY <1>c, <1>1
    <3>1. /\ x1[c] = Free
          /\ \A x \in Object \ {c} :
                /\ SameThing(buf[x], x1[x])
                /\ buf[x].bind_count >= Count(list, x)
                     => x1[x].bind_count = buf[x].bind_count - Count(list, x)
                /\ ("locked" \in buf[x].flags <=> buf[x].bind_count > 0)
                     => ("locked" \in x1[x].flags <=> x1[x].bind_count > 0)
      BY <3>0, FreeEffect
    <3>2. buf' = x1  BY <1>1
    <3> HIDE DEF x1, list
    <3> QED  BY <3>1, <3>2
  <2> HIDE DEF list
  <2> QED  BY <2>1, <2>2
<1>4. /\ o # c /\ o \in Live
      /\ \A d \in Object \ {c} : buf'[d].res = buf[d].res
      /\ buf'[c].res = << >>
  BY <1>c, <1>3 DEF Live, Free, SameThing
<1>5. \A u \in Thread \ {t} : pc'[u] = pc[u] /\ arg'[u] = arg[u]
  <2>1. Handler(t) \/ Client(t)  BY DEF Handler
  <2> QED  BY <1>b, <2>1, OthersStill
<1> DEFINE u == Uses(buf, pc, arg, running, lost, o)
           uu == Uses(buf', pc', arg', running', lost', o)
           s == Share(buf, pc, arg, running, lost, c, t, o)
           ss == Share(buf', pc', arg', running', lost', c, t, o)
           k == Count(buf[c].res, o)
           n == buf[o].bind_count
<1>6. uu + s = u + ss  BY <1>c, <1>1, <1>4, <1>5, UsesChange
<1>7. u >= s /\ u \in Nat /\ uu \in Nat /\ s \in Nat /\ ss \in Nat /\ k \in Nat
  BY <1>c, <1>1, UsesAtLeast, ShareType
<1>8. s = ss + k /\ ss >= 0
  <2>1. Has(OwnersOf(pc', arg', o), t) = 0 /\ Has(OwnersOf(pc, arg, o), t) = 0
    BY <1>1 DEF Has, OwnersOf, Owning, Creating, Updating
  <2>2. Count(<< >>, o) = 0  BY CountEmpty
  <2>3. Has(running, o) \in Nat /\ lost[o] \in Nat  BY <1>c DEF Has
  <2>4. arg'[t].bufs = << >>  BY <1>1 DEF NoArg
  <2>5. s = k + 0 + 0 + Has(running, o) + lost[o] /\ ss = 0 + 0 + 0 + Has(running, o) + lost[o]
    BY <1>1, <1>4, <2>1, <2>2, <2>4 DEF Share
  <2> HIDE DEF s, ss, k
  <2> QED  BY <1>7, <2>3, <2>5
<1>9. n = u /\ ("locked" \in buf[o].flags <=> n > 0)  BY <1>b, <1>4 DEF Balance, IsLocked
<1>10. n >= k => buf'[o].bind_count = n - k  BY <1>c, <1>3, <1>4
<1>11. "locked" \in buf'[o].flags <=> buf'[o].bind_count > 0  BY <1>c, <1>3, <1>4, <1>9
<1> HIDE DEF u, uu, s, ss, k, n
<1>12. buf'[o].bind_count = uu  BY <1>6, <1>7, <1>8, <1>9, <1>10
<1> QED  BY <1>11, <1>12 DEF uu

\* A context that is being closed binds nothing.
LEMMA BalanceClose ==
    ASSUME Consistent, Types', CloseFree, NEW o \in Live'
    PROVE  /\ buf'[o].bind_count = Uses(buf', pc', arg', running', lost', o)
           /\ "locked" \in buf'[o].flags <=> buf'[o].bind_count > 0
<1>b. Types /\ Homes /\ Phases /\ Handlers /\ Records /\ Balance  BY DEF Consistent
<1>c. /\ buf \in [Object -> Buffers] /\ buf' \in [Object -> Buffers] /\ o \in Object
  BY <1>b DEF Types, Live
<1>1. /\ UNCHANGED <<pc, arg, running, lost>>
      /\ \A x \in Object : buf[x].live => "cmdbuf" \notin buf[x].flags
  BY <1>b DEF CloseFree, Phases, Live, IsCmd
<1>2. \A x \in Object : buf[x].res = << >>  BY <1>b, <1>1 DEF Records, Sound
<1>3. /\ \A x \in Object : buf'[x].res = << >>
      /\ buf[o].live /\ buf'[o].bind_count = buf[o].bind_count
      /\ ("locked" \in buf[o].flags <=> buf[o].bind_count > 0)
                 => ("locked" \in buf'[o].flags <=> buf'[o].bind_count > 0)
  <2>1. CASE ~Found(next_id)  BY <1>2, <2>1 DEF CloseFree, Live
  <2>2. CASE Found(next_id)
    <3> DEFINE c == idr[next_id]
    <3>1. c \in Object /\ buf' = DestroyRaw(buf, c) /\ buf[c].live
      BY <1>b, <2>2 DEF CloseFree, Types, Found, Homes, Live, Ids
    <3>2. "cmdbuf" \notin buf[c].flags  BY <1>1, <3>1
    <3> HIDE DEF c
    <3>3. /\ buf'[c] = Free
          /\ \A x \in Object \ {c} :
                /\ SameThing(buf[x], buf'[x])
                /\ buf[x].bind_count >= Count(<< >>, x)
                     => buf'[x].bind_count = buf[x].bind_count - Count(<< >>, x)
                /\ ("locked" \in buf[x].flags <=> buf[x].bind_count > 0)
                     => ("locked" \in buf'[x].flags <=> buf'[x].bind_count > 0)
      BY <1>c, <3>1, <3>2, FreeEffect
    <3>4. o # c  BY <3>3 DEF Live, Free
    <3>5. buf[o].bind_count \in Nat /\ Count(<< >>, o) = 0  BY <1>c, CountEmpty DEF Buffers
    <3>6. buf'[o].bind_count = buf[o].bind_count  BY <1>c, <3>3, <3>4, <3>5
    <3>7. buf[o].live  BY <1>c, <3>3, <3>4 DEF SameThing, Live
    <3>8. \A x \in Object : buf'[x].res = << >>
      <4>1. \A x \in Object \ {c} : buf'[x].res = buf[x].res  BY <3>3 DEF SameThing
      <4> QED  BY <1>2, <3>3, <4>1 DEF Free
    <3> QED  BY <1>c, <3>3, <3>4, <3>6, <3>7, <3>8
  <2> QED  BY <2>1, <2>2
<1>4. ResOf(buf') = ResOf(buf)  BY <1>2, <1>3 DEF ResOf
<1>5. Uses(buf', pc', arg', running', lost', o) = Uses(buf, pc, arg, running, lost, o)
  BY <1>1, <1>4 DEF Uses
<1>6. o \in Live  BY <1>c, <1>3 DEF Live
<1> QED  BY <1>b, <1>3, <1>5, <1>6 DEF Balance, IsLocked

LEMMA EndIsEmpty == Consistent /\ CloseEnd => Live = {}
<1>1. SUFFICES ASSUME Consistent, CloseEnd, NEW o \in Live  PROVE FALSE
  OBVIOUS
<1>2. /\ next_id = NumIds /\ \A t \in Thread : pc[t] = "idle"
  BY <1>1 DEF Consistent, CloseEnd, Phases
<1>3. \A i \in Ids : ~(i >= next_id)  BY <1>2, BoundsAssumption DEF Ids
<1>4. \A u \in Thread : ~Raw(pc, arg, u, o)  BY <1>2 DEF Raw
<1> QED  BY <1>1, <1>3, <1>4 DEF Consistent, Homes

LEMMA InitBalance == Init => Balance
BY DEF Init, Balance, Live, Free

LEMMA NextBalance == Consistent /\ [Next]_vars /\ Types' => Balance'
<1>a. SUFFICES ASSUME Consistent, [Next]_vars, Types', NEW o \in Live'
               PROVE  /\ buf'[o].bind_count = Uses(buf', pc', arg', running', lost', o)
                      /\ "locked" \in buf'[o].flags <=> buf'[o].bind_count > 0
  BY DEF Balance, IsLocked
<1>b. Types /\ Handlers /\ Balance  BY <1>a DEF Consistent
<1>1. CASE Allocates
  BY <1>a, <1>1, BalanceAlloc DEF Allocates
<1>2. CASE \E t \in Thread : BufferFree(t)
  BY <1>a, <1>2, BalanceFree
<1>3. CASE CloseFree
  BY <1>a, <1>3, BalanceClose
<1>4. CASE Moves
  <2>1. PICK t \in Thread : CmdMove(t) \/ UpdateSwap(t)  BY <1>4 DEF Moves
  <2>2. \A x \in Object : buf'[x].live = buf[x].live  BY <1>b, <2>1, MovesEffect
  <2>3. o \in Live  BY <1>a, <2>2 DEF Live
  <2> QED  BY <1>a, <2>1, <2>3, BalanceMoves
<1>5. CASE ~Allocates /\ ~Frees /\ ~Moves
  <2>1. \A x \in Object : SameThing(buf[x], buf'[x])  BY <1>a, <1>b, <1>5, SteadySteps
  <2>2. o \in Live  BY <1>a, <2>1 DEF Live, SameThing
  <2>3. CASE \E t \in Thread : Handler(t) \/ Client(t)
    BY <1>a, <1>5, <2>2, <2>3, BalanceSteady
  <2>4. CASE \E x \in Object : JobDone(x)
    BY <1>a, <2>2, <2>4, BalanceJobDone
  <2>5. CASE Close \/ UNCHANGED vars
    <3>1. UNCHANGED <<buf, pc, arg, running, lost>>
      BY <2>5 DEF Close, vars, ctxVars
    <3> QED  BY <1>b, <2>2, <3>1 DEF Balance, IsLocked
  <2>6. CASE CloseEnd
    BY <1>a, <2>2, <2>6, EndIsEmpty
  <2> QED  BY <1>a, <1>5, <2>3, <2>4, <2>5, <2>6 DEF Next, Frees
<1> QED  BY <1>1, <1>2, <1>3, <1>4, <1>5 DEF Frees


-----------------------------------------------------------------------------
(* The theorems.                                                           *)

LEMMA InitConsistent == Init => Consistent
BY InitTypes, InitHomes, InitPhases, InitRecords, InitHandlers, InitBalance DEF Consistent

LEMMA NextConsistent == Consistent /\ CloseMode = "tidy" /\ [Next]_vars => Consistent'
<1>1. Consistent /\ [Next]_vars => Types'  BY NextTypes DEF Consistent
<1> QED
  BY <1>1, NextHomes, NextPhases, NextRecords, NextHandlers, NextBalance DEF Consistent

\* The inductive invariant: the idr, the buffers, the local variables of the
\* handlers and the binding counts agree, when clients destroy their command
\* buffers before they close the file.
THEOREM BuffersConsistent ==
    ASSUME CloseMode = "tidy"
    PROVE  Spec => []Consistent
BY InitConsistent, NextConsistent, PTL DEF Spec

LEMMA ConsistentBindCounts == Consistent => BindCounts
<1>1. SUFFICES ASSUME Consistent, NEW o \in Live
               PROVE  /\ buf[o].bind_count = Bindings(o) + lost[o]
                      /\ IsLocked(o) <=> buf[o].bind_count > 0
  BY DEF BindCounts
<1>2. InPrograms(o) = Places(ResOf(buf), o)
  <2>1. \A c \in Object \ Programs : buf[c].res = << >>
    BY <1>1 DEF Consistent, Records, Sound, Programs, Live
  <2>2. Programs \subseteq Object  BY DEF Programs, Live
  <2> DEFINE L == [c \in Programs |-> buf[c].res]
  <2>3. ASSUME NEW q \in Places(L, o)  PROVE q \in Places(ResOf(buf), o)
    BY <2>2, <2>3 DEF Places, ResOf
  <2>4. ASSUME NEW q \in Places(ResOf(buf), o)  PROVE q \in Places(L, o)
    <3>1. /\ q \in Object \X (1..MaxRes)
          /\ q[2] \in DOMAIN buf[q[1]].res /\ buf[q[1]].res[q[2]] = o
      BY <2>4 DEF Places, ResOf
    <3>2. q[1] \in Programs  BY <2>1, <3>1, EmptyList
    <3> QED  BY <3>1, <3>2 DEF Places
  <2> QED  BY <2>3, <2>4 DEF InPrograms
<1>3. InHandlers(o) = Places(BufsOf(arg), o)  BY DEF InHandlers, BufsOf
<1>4. Owners(o) = OwnersOf(pc, arg, o)  BY DEF Owners, OwnersOf
<1>5. Cardinality({o} \cap running) = Has(running, o)
  <2>1. CASE o \in running
    <3>1. {o} \cap running = {o}  BY <2>1
    <3> QED  BY <2>1, <3>1, FS_Singleton DEF Has
  <2>2. CASE o \notin running
    <3>1. {o} \cap running = {}  BY <2>2
    <3> QED  BY <2>2, <3>1, FS_EmptySet DEF Has
  <2> QED  BY <2>1, <2>2
<1> QED  BY <1>1, <1>2, <1>3, <1>4, <1>5 DEF Consistent, Balance, Bindings, Uses

LEMMA ConsistentPointers == Consistent => PointersValid
<1>1. SUFFICES ASSUME Consistent  PROVE PointersValid
  OBVIOUS
<1>b. Types /\ Homes /\ Phases /\ Handlers /\ Records /\ Balance  BY <1>1 DEF Consistent
<1>2. OneHome
  <2>1. SUFFICES ASSUME NEW o \in Live
                 PROVE  Cardinality({i \in Ids : idr[i] = o})
                          + Cardinality({t \in Thread : Raw(pc, arg, t, o)}) = 1
    BY DEF OneHome, Raw
  <2>2. o \in Object /\ o # None  BY MembersAssumption DEF Live, None
  <2>3. CASE \E i \in Ids : idr[i] = o
    <3>1. PICK i \in Ids : idr[i] = o  BY <2>3
    <3>2. {j \in Ids : idr[j] = o} = {i}  BY <1>b, <2>2, <3>1 DEF Homes, Found
    <3>3. {t \in Thread : Raw(pc, arg, t, o)} = {}  BY <1>b, <2>2, <3>1 DEF Homes
    <3>4. /\ Cardinality({j \in Ids : idr[j] = o}) = 1
          /\ Cardinality({t \in Thread : Raw(pc, arg, t, o)}) = 0
      BY <3>2, <3>3, FS_Singleton, FS_EmptySet
    <3> QED  BY <3>4
  <2>4. CASE \A i \in Ids : idr[i] # o
    <3>1. PICK t \in Thread : Raw(pc, arg, t, o)  BY <1>b, <2>4 DEF Homes
    <3>2. {u \in Thread : Raw(pc, arg, u, o)} = {t}  BY <1>b, <2>2, <3>1 DEF Homes
    <3>3. {i \in Ids : idr[i] = o} = {}  BY <2>4
    <3>4. /\ Cardinality({j \in Ids : idr[j] = o}) = 0
          /\ Cardinality({u \in Thread : Raw(pc, arg, u, o)}) = 1
      BY <3>2, <3>3, FS_Singleton, FS_EmptySet
    <3> QED  BY <3>4
  <2> QED  BY <2>3, <2>4
<1>3. \A c \in Programs : \A i \in DOMAIN buf[c].res : buf[c].res[i] \in Live
  BY <1>b DEF Programs, Live, Records, Sound, Plain
<1>4. \A t \in Thread : /\ arg[t].obj \in Live \cup {None}
                        /\ \A i \in DOMAIN arg[t].bufs : arg[t].bufs[i] \in Live
  BY <1>b DEF Handlers, HandlerOk, Plain, Live
<1>5. running \subseteq Live  BY <1>b DEF Records
<1>6. ASSUME NEW i \in Ids, Found(i), i >= next_id
      PROVE  /\ idr[i] \in Live
             /\ IsCmd(idr[i]) /\ ~IsLocked(idr[i]) => buf[idr[i]].has_res
  BY <1>1, <1>6, TakesReady DEF Consistent, Homes
<1> QED  BY <1>2, <1>3, <1>4, <1>5, <1>6 DEF PointersValid

LEMMA ConsistentJobs == Consistent => JobAddressesLocked
<1>1. SUFFICES ASSUME Consistent, NEW c \in running, NEW i \in DOMAIN buf[c].prog
               PROVE  LET o == buf[c].prog[i] IN o \in Live /\ IsLocked(o) /\ ~IsCmd(o)
  BY DEF JobAddressesLocked
<1> DEFINE o == buf[c].prog[i]
<1>2. c \in Object /\ buf[c].prog = buf[c].res /\ o \in Live /\ ~IsCmd(o)
  BY <1>1 DEF Consistent, Records, Sound, Plain, Live, IsCmd
<1>3. IsLocked(o)
  <2>1. o \in Object /\ ResOf(buf)[c] = buf[c].res  BY <1>2 DEF ResOf, Live
  <2>2. i \in DOMAIN ResOf(buf)[c] /\ ResOf(buf)[c][i] = o  BY <1>1, <1>2, <2>1
  <2> HIDE DEF o
  <2>3. /\ ResOf(buf) \in [Object -> Lists]
        /\ Cardinality(Places(ResOf(buf), o)) \in Nat
        /\ Cardinality(Places(BufsOf(arg), o)) \in Nat
        /\ Cardinality(OwnersOf(pc, arg, o)) \in Nat
        /\ Has(running, o) \in Nat /\ lost[o] \in Nat
    BY <1>1, <2>1, UsesTypes DEF Consistent, Types, Has
  <2>4. Cardinality(Places(ResOf(buf), o)) > 0
    BY <1>2, <2>2, <2>3, PlacesHold, MembersAssumption
  <2>5. Uses(buf, pc, arg, running, lost, o) > 0
    BY <2>3, <2>4 DEF Uses
  <2> QED  BY <1>1, <1>2, <2>5 DEF Consistent, Balance
<1> QED  BY <1>2, <1>3

\* In every behaviour of an open file whose clients destroy their command
\* buffers, bind_count is the number of the users of a buffer, and the LOCKED
\* flag says that there is one: bind, unbind, creation, update, destruction and
\* the error paths of the ioctls balance.
THEOREM BindingsBalance ==
    ASSUME CloseMode = "tidy"
    PROVE  Spec => []BindCounts
BY BuffersConsistent, ConsistentBindCounts, PTL

\* No program, handler, job or slot of the idr refers to a freed buffer; each
\* buffer has one home; what RUNPGM and update may take has its resource list.
THEOREM NoDanglingPointer ==
    ASSUME CloseMode = "tidy"
    PROVE  Spec => []PointersValid
BY BuffersConsistent, ConsistentPointers, PTL

\* The buffers that the program of a job addresses exist and are locked.
THEOREM JobBuffersLocked ==
    ASSUME CloseMode = "tidy"
    PROVE  Spec => []JobAddressesLocked
BY BuffersConsistent, ConsistentJobs, PTL

\* What a buffer with a use can lose: only the thread that frees a buffer, or
\* the release of the file, ends its life.
LEMMA LiveUntilFreed ==
    ASSUME Consistent, [Next]_vars, NEW o \in Live, ~CloseFree, ~buf'[o].live
    PROVE  buf[o].bind_count = 0
<1>b. Types /\ Homes /\ Handlers /\ o \in Object /\ buf[o].live
  BY DEF Consistent, Live
<1>1. CASE ~Allocates /\ ~Frees /\ ~Moves
  BY <1>b, <1>1, SteadySteps DEF SameThing
<1>2. CASE Allocates
  <2>1. PICK t \in Thread, x \in Object : BufferCreate(t, x) \/ CmdAlloc(t, x)
    BY <1>2 DEF Allocates
  <2>2. \E kind \in {{}, {"cmdbuf"}} : Alloc(t, x, kind)
    BY <2>1 DEF BufferCreate, CmdAlloc
  <2>3. x \notin Live /\ \A y \in Object \ {x} : buf'[y] = buf[y]
    BY <1>b, <2>2, AllocEffect
  <2> QED  BY <1>b, <2>3
<1>3. CASE Moves
  <2>1. PICK t \in Thread : CmdMove(t) \/ UpdateSwap(t)  BY <1>3 DEF Moves
  <2>2. buf'[o].live = buf[o].live  BY <1>b, <2>1, MovesEffect
  <2> QED  BY <1>b, <2>2
<1>4. CASE Frees
  <2>1. PICK t \in Thread : BufferFree(t)  BY <1>4 DEF Frees
  <2>2. /\ arg[t].obj \in Object /\ buf[arg[t].obj].bind_count = 0
        /\ buf' = DestroyRaw(buf, arg[t].obj)
    BY <1>b, <2>1 DEF BufferFree, Handlers, HandlerOk, Homes, Raw
  <2>3. o = arg[t].obj
    BY <1>b, <2>2, FreeEffect DEF Types, SameThing
  <2> QED  BY <2>2, <2>3
<1> QED  BY <1>1, <1>2, <1>3, <1>4

LEMMA JobKept ==
    ASSUME Consistent, [Next]_vars, NEW c \in running
    PROVE  buf'[c].live /\ buf'[c].prog = buf[c].prog
<1>b. Types /\ Homes /\ Phases /\ Handlers /\ Records /\ Balance  BY DEF Consistent
<1>c. c \in Live /\ c \in Object /\ IsCmd(c)  BY <1>b DEF Records, Live
<1>d. buf[c].bind_count # 0  BY <1>b, <1>c, NoUse
<1>1. CASE ~Allocates /\ ~Frees /\ ~Moves
  BY <1>b, <1>c, <1>1, SteadySteps DEF SameThing, Live
<1>2. CASE Allocates
  <2>1. PICK t \in Thread, x \in Object : BufferCreate(t, x) \/ CmdAlloc(t, x)
    BY <1>2 DEF Allocates
  <2>2. \E kind \in {{}, {"cmdbuf"}} : Alloc(t, x, kind)
    BY <2>1 DEF BufferCreate, CmdAlloc
  <2>3. x \notin Live /\ \A y \in Object \ {x} : buf'[y] = buf[y]
    BY <1>b, <2>2, AllocEffect
  <2> QED  BY <1>c, <2>3 DEF Live
<1>3. CASE Moves
  <2>1. PICK t \in Thread : CmdMove(t) \/ UpdateSwap(t)  BY <1>3 DEF Moves
  <2>2. /\ arg[t].obj \in Live /\ \A x \in Object \ {arg[t].obj} : buf'[x] = buf[x]
    BY <1>b, <2>1, MovesEffect
  <2>3. pc[t] \in Owning /\ IsCmd(arg[t].obj)
    BY <1>b, <2>1 DEF CmdMove, UpdateSwap, Step, Owning, Updating, Handlers, HandlerOk, IsCmd
  <2>4. arg[t].obj \notin running  BY <1>b, <2>2, <2>3, SoleOwner
  <2> QED  BY <1>c, <2>2, <2>4 DEF Live
<1>4. CASE \E t \in Thread : BufferFree(t)
  <2>1. PICK t \in Thread : BufferFree(t)  BY <1>4
  <2>2. /\ arg[t].obj \in Object /\ buf[arg[t].obj].bind_count = 0
        /\ buf' = DestroyRaw(buf, arg[t].obj)
    BY <1>b, <2>1 DEF BufferFree, Handlers, HandlerOk, Homes, Raw
  <2>3. SameThing(buf[c], buf'[c])
    BY <1>b, <1>c, <1>d, <2>2, FreeEffect DEF Types
  <2> QED  BY <1>c, <2>3 DEF SameThing, Live
<1>5. CASE CloseFree
  BY <1>b, <1>5 DEF CloseFree, Phases
<1> QED  BY <1>1, <1>2, <1>3, <1>4, <1>5 DEF Frees

\* A program does not change, and its command buffer is not freed, while it has
\* a job.
THEOREM ProgramOfJobFrozen ==
    ASSUME CloseMode = "tidy"
    PROVE  Spec => JobFrozen
<1>1. Consistent /\ [Next]_vars =>
         [\A c \in running : buf'[c].live /\ buf'[c].prog = buf[c].prog]_vars
  BY JobKept
<1> QED  BY <1>1, BuffersConsistent, PTL DEF JobFrozen, Spec

\* While the file is open, no buffer is destroyed that is locked: what vxe.h
\* says of the flag holds until the file is released.
THEOREM LockedKeptWhileOpen ==
    ASSUME CloseMode = "tidy"
    PROVE  Spec => [][ctx_state = "open" =>
                         \A o \in Live : IsLocked(o) => buf'[o].live]_vars
<1>1. Consistent /\ [Next]_vars =>
         [ctx_state = "open" => \A o \in Live : IsLocked(o) => buf'[o].live]_vars
  <2>1. SUFFICES ASSUME Consistent, [Next]_vars, ctx_state = "open",
                        NEW o \in Live, IsLocked(o), ~buf'[o].live
                 PROVE  FALSE
    OBVIOUS
  <2>2. ~CloseFree  BY <2>1 DEF CloseFree
  <2>3. buf[o].bind_count = 0  BY <2>1, <2>2, LiveUntilFreed
  <2> QED  BY <2>1, <2>3 DEF Consistent, Balance
<1> QED  BY <1>1, BuffersConsistent, PTL DEF Spec
=============================================================================
