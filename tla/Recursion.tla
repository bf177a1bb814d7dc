------------------------------ MODULE Recursion ------------------------------
(***************************************************************************)
(* Induction over data.  SetInduction is induction over the naturals for   *)
(* sets, which needs no predicate as a parameter; Fixpoint says that a     *)
(* recursive function is what its definition says, if the definition uses  *)
(* it only at arguments of a smaller rank.                                 *)
(*                                                                         *)
(* A module that proves something of a recursive function instantiates     *)
(* this one with the body of the definition, its domain and the rank; p    *)
(* stands for whatever else the body depends on.                           *)
(***************************************************************************)
EXTENDS Integers, TLAPS, WellFoundedInduction

CONSTANTS
    Body(_, _, _),      \* Body(p, f, x) is the value at x, computed by means of f
    Dom(_),             \* the arguments
    Rank(_)             \* the rank of an argument

Less == {pair \in Nat \X Nat : pair[1] < pair[2]}

(* A set of naturals has a least element. *)
LEMMA LeastElement ==
    ASSUME NEW T, T \subseteq Nat, T # {}
    PROVE  \E x \in T : \A y \in T : x <= y
<1>1. IsWellFoundedOn(Less, Nat)  BY NatLessThanWellFounded DEF Less, OpToRel
<1>2. PICK x \in T : \A y \in T : ~(<<y, x>> \in Less)  BY <1>1, WFMin
<1>3. ASSUME NEW y \in T PROVE x <= y
  <2>1. <<y, x>> \in Nat \X Nat  OBVIOUS
  <2>2. ~(<<y, x>>[1] < <<y, x>>[2])  BY <1>2, <2>1 DEF Less
  <2> QED  BY <2>2
<1> QED  BY <1>2, <1>3

(* Induction over the naturals: a set with 0 and the successor of each of  *)
(* its naturals has them all.                                              *)
THEOREM SetInduction ==
    ASSUME NEW T, 0 \in T, \A n \in Nat : n \in T => n + 1 \in T
    PROVE  Nat \subseteq T
<1> SUFFICES ASSUME Nat \ T # {} PROVE FALSE  OBVIOUS
<1>1. PICK x \in Nat \ T : \A y \in Nat \ T : x <= y  BY LeastElement
<1>2. x # 0  OBVIOUS
<1>3. x - 1 \in Nat /\ x - 1 \notin Nat \ T  BY <1>1, <1>2
<1>4. (x - 1) + 1 \in T  BY <1>3
<1> QED  BY <1>1, <1>4

-----------------------------------------------------------------------------
(* The arguments up to a rank, and the functions that solve the equation   *)
(* for them.                                                               *)
Below(p, n)     == {x \in Dom(p) : Rank(x) < n}
Solves(p, n, g) == g = [x \in Below(p, n) |-> Body(p, g, x)]

Ranked(p)   == \A x \in Dom(p) : Rank(x) \in Nat
Downward(p) ==
    \A x \in Dom(p) : \A g, h :
        (\A y \in Dom(p) : Rank(y) < Rank(x) => g[y] = h[y]) => Body(p, g, x) = Body(p, h, x)

(* There is a solution up to every rank. *)
LEMMA SolutionsExist ==
    ASSUME NEW p, Ranked(p), Downward(p)
    PROVE  \A n \in Nat : \E g : Solves(p, n, g)
<1> DEFINE T == {n \in Nat : \E g : Solves(p, n, g)}
<1>1. 0 \in T
  <2>1. Below(p, 0) = {}  BY DEF Below, Ranked
  <2>2. Solves(p, 0, [x \in {} |-> 0])  BY <2>1 DEF Solves
  <2> QED  BY <2>2
<1>2. ASSUME NEW n \in Nat, n \in T PROVE n + 1 \in T
  <2>1. PICK g : Solves(p, n, g)  BY <1>2
  <2> DEFINE h == [x \in Below(p, n + 1) |-> Body(p, g, x)]
  <2>2. \A x \in Below(p, n) : g[x] = Body(p, g, x)  BY <2>1 DEF Solves
  <2>3. \A x \in Below(p, n) : x \in Below(p, n + 1)  BY DEF Below, Ranked
  <2>4. \A x \in Below(p, n) : h[x] = g[x]  BY <2>2, <2>3
  <2>5. ASSUME NEW x \in Below(p, n + 1) PROVE Body(p, h, x) = Body(p, g, x)
    <3>1. x \in Dom(p) /\ Rank(x) < n + 1  BY DEF Below
    <3>2. \A y \in Dom(p) : Rank(y) < Rank(x) => y \in Below(p, n)
      BY <3>1 DEF Below, Ranked
    <3> HIDE DEF h
    <3> QED  BY <3>1, <3>2, <2>4 DEF Downward
  <2>6. h = [x \in Below(p, n + 1) |-> Body(p, h, x)]  BY <2>5
  <2> HIDE DEF h
  <2> QED  BY <2>6 DEF Solves
<1>3. Nat \subseteq T
  <2> HIDE DEF T
  <2> QED  BY <1>1, <1>2, SetInduction
<1> QED  BY <1>3

(* Two solutions agree where both are defined. *)
LEMMA SolutionsAgree ==
    ASSUME NEW p, Ranked(p), Downward(p), NEW n \in Nat, NEW m \in Nat, NEW g, NEW h,
           Solves(p, n, g), Solves(p, m, h)
    PROVE  \A x \in Dom(p) : x \in Below(p, n) /\ x \in Below(p, m) => g[x] = h[x]
<1> DEFINE T == {k \in Nat : \A x \in Dom(p) :
                   Rank(x) < k /\ x \in Below(p, n) /\ x \in Below(p, m) => g[x] = h[x]}
<1>1. 0 \in T  BY DEF Ranked
<1>2. ASSUME NEW k \in Nat, k \in T PROVE k + 1 \in T
  <2> SUFFICES ASSUME NEW x \in Dom(p), Rank(x) < k + 1, x \in Below(p, n), x \in Below(p, m)
               PROVE  g[x] = h[x]
    OBVIOUS
  <2>1. \A y \in Dom(p) : Rank(y) < Rank(x) =>
          Rank(y) < k /\ y \in Below(p, n) /\ y \in Below(p, m)
    BY DEF Below, Ranked
  <2>2. \A y \in Dom(p) : Rank(y) < Rank(x) => g[y] = h[y]  BY <2>1, <1>2
  <2>3. Body(p, g, x) = Body(p, h, x)  BY <2>2 DEF Downward
  <2>4. g[x] = Body(p, g, x) /\ h[x] = Body(p, h, x)  BY DEF Solves
  <2> QED  BY <2>3, <2>4
<1>3. Nat \subseteq T
  <2> HIDE DEF T
  <2> QED  BY <1>1, <1>2, SetInduction
<1> SUFFICES ASSUME NEW x \in Dom(p), x \in Below(p, n), x \in Below(p, m)
             PROVE  g[x] = h[x]
  OBVIOUS
<1>4. Rank(x) + 1 \in T /\ Rank(x) < Rank(x) + 1  BY <1>3 DEF Ranked
<1> QED  BY <1>4

(* A recursive definition whose body looks only at smaller ranks defines a *)
(* function, and this function satisfies its equation.                     *)
THEOREM Fixpoint ==
    ASSUME NEW p, Ranked(p), Downward(p), NEW f,
           f = CHOOSE g : g = [x \in Dom(p) |-> Body(p, g, x)]
    PROVE  f = [x \in Dom(p) |-> Body(p, f, x)]
<1> DEFINE piece(n) == CHOOSE g : Solves(p, n, g)
           whole == [x \in Dom(p) |-> piece(Rank(x) + 1)[x]]
<1>1. \A n \in Nat : Solves(p, n, piece(n))  BY SolutionsExist
<1>2. ASSUME NEW x \in Dom(p) PROVE whole[x] = Body(p, whole, x)
  <2> DEFINE q == piece(Rank(x) + 1)
  <2>1. Rank(x) \in Nat /\ Rank(x) + 1 \in Nat  BY DEF Ranked
  <2>2. Solves(p, Rank(x) + 1, q)  BY <1>1, <2>1
  <2>3. x \in Below(p, Rank(x) + 1)  BY <2>1 DEF Below
  <2>4. q[x] = Body(p, q, x)
    <3> HIDE DEF q
    <3> QED  BY <2>2, <2>3 DEF Solves
  <2>5. ASSUME NEW y \in Dom(p), Rank(y) < Rank(x) PROVE whole[y] = q[y]
    <3>1. Rank(y) + 1 \in Nat /\ Solves(p, Rank(y) + 1, piece(Rank(y) + 1))
      BY <1>1 DEF Ranked
    <3>2. y \in Below(p, Rank(y) + 1) /\ y \in Below(p, Rank(x) + 1)
      BY <2>1, <2>5 DEF Below, Ranked
    <3>3. whole[y] = piece(Rank(y) + 1)[y]  OBVIOUS
    <3> HIDE DEF q, piece, whole
    <3> QED  BY <3>1, <3>2, <3>3, <2>1, <2>2, SolutionsAgree
  <2>6. Body(p, whole, x) = Body(p, q, x)
    <3> HIDE DEF q, whole
    <3> QED  BY <2>5 DEF Downward
  <2>7. whole[x] = q[x]  OBVIOUS
  <2> QED  BY <2>4, <2>6, <2>7
<1>3. whole = [x \in Dom(p) |-> Body(p, whole, x)]
  <2>1. whole = [x \in Dom(p) |-> whole[x]]  OBVIOUS
  <2> HIDE DEF whole
  <2> QED  BY <2>1, <1>2
<1> HIDE DEF whole
<1> QED  BY <1>3
=============================================================================
