---------------------------- MODULE LeastNumbers ----------------------------
(***************************************************************************)
(* Of some natural numbers one is the least.  The proofs that go through a *)
(* loop or a recursive function look at the first place where it would go  *)
(* wrong.                                                                  *)
(***************************************************************************)
EXTENDS Integers, WellFoundedInduction, TLAPS

Lt == {ss \in Nat \X Nat : ss[1] < ss[2]}

LEMMA LeastNumber ==
    ASSUME NEW T, T \subseteq Nat, T # {}
    PROVE  \E m \in T : \A k \in T : m <= k
<1>1. IsWellFoundedOn(Lt, Nat)
  BY NatLessThanWellFounded DEF OpToRel, Lt
<1>2. PICK m \in T : \A k \in T : ~(<<k, m>> \in Lt)
  BY <1>1, WFMin
<1>3. \A k \in T : ~(k < m)
  BY <1>2 DEF Lt
<1> QED  BY <1>2, <1>3
=============================================================================
