---------------------------- MODULE SetInduction ----------------------------
(***************************************************************************)
(* Induction over the naturals for a set instead of a predicate: what the  *)
(* recursive functions of the model compute is proved with it.             *)
(***************************************************************************)
EXTENDS Integers, WellFoundedInduction, TLAPS

LEMMA LessWellFounded == IsWellFoundedOn({x \in Nat \X Nat : x[1] < x[2]}, Nat)
BY NatLessThanWellFounded DEF OpToRel

(* A set that contains 0 and with n also n + 1 contains every natural      *)
(* number: otherwise the least one it lacks has a predecessor in it.       *)
LEMMA NaturalsInSet ==
  ASSUME NEW S, 0 \in S, \A n \in Nat : n \in S => n + 1 \in S
  PROVE  Nat \subseteq S
<1> DEFINE R == {x \in Nat \X Nat : x[1] < x[2]}
           T == Nat \ S
<1> SUFFICES ASSUME T # {} PROVE FALSE
  OBVIOUS
<1>1. PICK n \in T : \A k \in T : <<k, n>> \notin R
  <2>1. T \subseteq Nat
    OBVIOUS
  <2> HIDE DEF R, T
  <2>2. IsWellFoundedOn(R, Nat)
    BY LessWellFounded DEF R
  <2> QED BY <2>1, <2>2, WFMin
<1>2. n - 1 \in Nat
  OBVIOUS
<1>3. <<n - 1, n>> \in R
  BY <1>2
<1>4. n - 1 \notin T
  BY <1>1, <1>3
<1> QED BY <1>2, <1>4
=============================================================================
