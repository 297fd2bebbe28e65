----------------------------- MODULE Induction ------------------------------
(***************************************************************************)
(* Induction over the natural numbers, and recursion, for the loops that   *)
(* the modules write as recursive functions.  The properties proved by     *)
(* induction are sets of numbers and the steps of a recursion functions,   *)
(* so that the provers can instantiate these lemmas.                       *)
(***************************************************************************)
EXTENDS Integers, WellFoundedInduction, TLAPS

(* A set of natural numbers that is not empty has a least element. *)
LEMMA LeastElement ==
  ASSUME NEW T \in SUBSET Nat, T # {}
  PROVE  \E m \in T : \A k \in T : m <= k
<1>1. PICK R : /\ IsWellFoundedOn(R, Nat)
               /\ \A x, y \in Nat : x < y => <<x, y>> \in R
  <2>1. IsWellFoundedOn(OpToRel(<, Nat), Nat)
    BY NatLessThanWellFounded
  <2>2. \A x, y \in Nat : x < y => <<x, y>> \in OpToRel(<, Nat)
    BY DEF OpToRel
  <2>3. QED
    BY <2>1, <2>2, Zenon
<1>2. PICK x \in T : \A y \in T : ~(<<y, x>> \in R)
  <2>1. IsWellFoundedOn(R, Nat)
    BY <1>1
  <2>2. T \subseteq Nat
    OBVIOUS
  <2>3. QED
    BY <2>1, <2>2, WFMin
<1>3. ASSUME NEW y \in T PROVE x <= y
  <2>1. x \in Nat /\ y \in Nat /\ (y < x => <<y, x>> \in R)
    BY <1>1
  <2>2. QED
    BY <1>2, <2>1
<1>4. QED
  BY <1>3

(* What holds of 0, and of k + 1 if it holds of k, holds up to n. *)
LEMMA UpTo ==
  ASSUME NEW n \in Nat, NEW T, 0 \in T,
         \A k \in 0 .. n - 1 : k \in T => k + 1 \in T
  PROVE  \A k \in 0 .. n : k \in T
<1> DEFINE Failing == {k \in 0 .. n : k \notin T}
<1>1. SUFFICES ASSUME Failing # {} PROVE FALSE
  OBVIOUS
<1>2. Failing \in SUBSET Nat
  OBVIOUS
<1>3. PICK m \in Failing : \A k \in Failing : m <= k
  BY <1>1, <1>2, LeastElement
<1>4. m \in 0 .. n /\ m # 0 /\ m \notin T
  OBVIOUS
<1>5. m - 1 \in 0 .. n - 1 /\ m - 1 \notin Failing
  BY <1>3, <1>4
<1>6. m - 1 \in T
  BY <1>5
<1>7. (m - 1) + 1 \in T
  BY <1>5, <1>6
<1>8. QED
  BY <1>4, <1>7

(* The steps of a recursion up to n with values in S, given as a function, *)
(* and what it is for f to be defined by them.                             *)
Steps(n, S) == [(1 .. n) \X S -> S]

DefinedBy(f, first, Step, n, S) ==
  /\ f \in [0 .. n -> S] /\ f[0] = first
  /\ \A k \in 1 .. n : f[k] = Step[<<k, f[k - 1]>>]

(* A function on 0 .. n can be defined by its first value and by a step. *)
LEMMA RecursionUpTo ==
  ASSUME NEW S, NEW first \in S, NEW n \in Nat, NEW Step \in Steps(n, S)
  PROVE  \E f : DefinedBy(f, first, Step, n, S)
<1> DEFINE Defined(f, m) ==
             /\ f \in [0 .. m -> S] /\ f[0] = first
             /\ \A k \in 1 .. m : f[k] = Step[<<k, f[k - 1]>>]
           T == {m \in 0 .. n : \E f : Defined(f, m)}
<1> USE DEF Steps
<1>1. 0 \in T
  <2>1. Defined([k \in 0 .. 0 |-> first], 0)
    OBVIOUS
  <2> HIDE DEF Defined
  <2>2. QED
    BY <2>1
<1>2. ASSUME NEW l \in 0 .. n - 1, l \in T
      PROVE  l + 1 \in T
  <2>1. PICK f : Defined(f, l)
    BY <1>2
  <2>2. l \in 0 .. l /\ l + 1 \in 1 .. n
    OBVIOUS
  <2>3. f[l] \in S /\ Step[<<l + 1, f[l]>>] \in S
    BY <2>1, <2>2
  <2> DEFINE g == [k \in 0 .. l + 1 |->
                     IF k = l + 1 THEN Step[<<l + 1, f[l]>>] ELSE f[k]]
  <2>4. g \in [0 .. l + 1 -> S]
    BY <2>1, <2>3
  <2>5. g[0] = first
    BY <2>1
  <2>6. ASSUME NEW k \in 1 .. l + 1 PROVE g[k] = Step[<<k, g[k - 1]>>]
    <3>1. CASE k = l + 1
      <4>1. k - 1 = l /\ l \in 0 .. l + 1 /\ l # l + 1 /\ k \in 0 .. l + 1
        BY <3>1
      <4>2. g[k - 1] = f[l] /\ g[k] = Step[<<l + 1, f[l]>>]
        BY <3>1, <4>1
      <4>3. QED
        BY <3>1, <4>2
    <3>2. CASE k # l + 1
      <4>1. /\ k \in 1 .. l /\ k - 1 # l + 1
            /\ k \in 0 .. l + 1 /\ k - 1 \in 0 .. l + 1
        BY <3>2
      <4>2. g[k] = f[k] /\ g[k - 1] = f[k - 1]
        BY <3>2, <4>1
      <4>3. QED
        BY <2>1, <4>1, <4>2
    <3>3. QED
      BY <3>1, <3>2
  <2>7. Defined(g, l + 1)
    BY <2>4, <2>5, <2>6
  <2> HIDE DEF Defined, g
  <2>8. QED
    BY <2>2, <2>7
<1>3. n \in T
  <2>1. n \in 0 .. n
    OBVIOUS
  <2> HIDE DEF T
  <2>2. QED
    BY <1>1, <1>2, <2>1, UpTo
<1>4. QED
  BY <1>3 DEF DefinedBy
=============================================================================
