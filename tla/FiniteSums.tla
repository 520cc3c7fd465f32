---------------------------- MODULE FiniteSums ----------------------------
(***************************************************************************)
(* What the sums of Functions.tla come to over a finite set of indices.    *)
(*                                                                         *)
(* The library folds a set by a recursive function over its subsets.       *)
(* That there is such a function, and that it matters not in which order   *)
(* the elements are taken, is shown here by the least counterexample.      *)
(***************************************************************************)
EXTENDS Functions, FiniteSets, Integers, FiniteSetTheorems, WellFoundedInduction, TLAPS

(* Among the sets of a family of subsets of a finite set, one includes no  *)
(* other one.                                                              *)
LEMMA LeastSet ==
  ASSUME NEW S, IsFiniteSet(S), NEW family \in SUBSET SUBSET S, family # {}
  PROVE  \E T \in family : \A U \in family : U \subseteq T => U = T
<1>1. \A T \in family : IsFiniteSet(T)
  BY FS_Subset
<1>2. family \subseteq FiniteSubsetsOf(S)
  BY <1>1 DEF FiniteSubsetsOf
<1>3. PICK T \in family : \A U \in family : ~(<<U, T>> \in StrictSubsetOrdering(S))
  BY <1>2, FS_StrictSubsetOrderingWellFounded, WFMin
<1>4. ASSUME NEW U \in family, U \subseteq T  PROVE U = T
  <2>1. U \in SUBSET S /\ T \in SUBSET S
    OBVIOUS
  <2> QED  BY <1>3, <1>4, <2>1 DEF StrictSubsetOrdering
<1> QED  BY <1>4

Taken(T) == CHOOSE x \in T : TRUE

(* g adds up the values of fun over every subset of T, as the library does. *)
Adds(g, fun, T) ==
    g = [U \in SUBSET T |-> IF U = {} THEN 0 ELSE fun[Taken(U)] + g[U \ {Taken(U)}]]

TheSum(fun, T) == (CHOOSE g : Adds(g, fun, T))[T]

LEMMA SumIsTheSum ==
  ASSUME NEW fun, NEW T
  PROVE  SumFunctionOnSet(fun, T) = TheSum(fun, T)
BY DEF SumFunctionOnSet, FoldFunctionOnSet, MapThenFoldSet, TheSum, Adds, Taken

LEMMA TakenIsIn == \A T : T # {} => Taken(T) \in T
BY DEF Taken

(* What a function that adds up returns is settled by fun.                 *)
LEMMA SumsAgree ==
  ASSUME NEW fun, NEW S, IsFiniteSet(S), NEW T \in SUBSET S, NEW V \in SUBSET S,
         NEW g, Adds(g, fun, T), NEW h, Adds(h, fun, V)
  PROVE  \A U \in SUBSET (T \cap V) : g[U] = h[U]
<1> DEFINE family == {U \in SUBSET (T \cap V) : g[U] # h[U]}
<1> SUFFICES ASSUME family # {}  PROVE FALSE
  OBVIOUS
<1>1. family \in SUBSET SUBSET S
  OBVIOUS
<1>2. PICK U \in family : \A W \in family : W \subseteq U => W = U
  <2> HIDE DEF family
  <2> QED  BY <1>1, LeastSet
<1>3. U \in SUBSET T /\ U \in SUBSET V
  OBVIOUS
<1>4. /\ g[U] = IF U = {} THEN 0 ELSE fun[Taken(U)] + g[U \ {Taken(U)}]
      /\ h[U] = IF U = {} THEN 0 ELSE fun[Taken(U)] + h[U \ {Taken(U)}]
  BY <1>3 DEF Adds
<1>5. U # {} => g[U \ {Taken(U)}] = h[U \ {Taken(U)}]
  <2> SUFFICES ASSUME U # {}  PROVE g[U \ {Taken(U)}] = h[U \ {Taken(U)}]
    OBVIOUS
  <2> DEFINE W == U \ {Taken(U)}
  <2>1. W \subseteq U /\ W # U
    BY TakenIsIn
  <2>2. W \in SUBSET (T \cap V)
    BY <1>3
  <2>3. W \notin family
    BY <1>2, <2>1
  <2> QED  BY <2>2, <2>3
<1>6. g[U] = h[U]
  BY <1>4, <1>5
<1> QED  BY <1>6

(* There is such a function for every finite set.                          *)
LEMMA SumsExist ==
  ASSUME NEW fun, NEW S, IsFiniteSet(S)
  PROVE  \A T \in SUBSET S : \E g : Adds(g, fun, T)
<1> DEFINE family == {T \in SUBSET S : ~\E g : Adds(g, fun, T)}
<1> SUFFICES ASSUME family # {}  PROVE FALSE
  OBVIOUS
<1>1. family \in SUBSET SUBSET S
  OBVIOUS
<1>2. PICK T \in family : \A W \in family : W \subseteq T => W = T
  <2> HIDE DEF family
  <2> QED  BY <1>1, LeastSet
<1>3. T \in SUBSET S /\ ~\E g : Adds(g, fun, T)
  OBVIOUS
<1> DEFINE less(U) == U \ {Taken(U)}
           sum(U)  == IF U = {} THEN 0 ELSE fun[Taken(U)] + TheSum(fun, less(U))
           all     == [U \in SUBSET T |-> sum(U)]
<1>4. ASSUME NEW U \in SUBSET T, U # T
      PROVE  Adds(CHOOSE g : Adds(g, fun, U), fun, U)
  <2>1. U \in SUBSET S /\ U \notin family
    BY <1>2, <1>3, <1>4
  <2>2. \E g : Adds(g, fun, U)
    BY <2>1
  <2> QED  BY <2>2
<1>5. ASSUME NEW U \in SUBSET T, U # T
      PROVE  TheSum(fun, U) = sum(U)
  <2> DEFINE g == CHOOSE x : Adds(x, fun, U)
             h == CHOOSE x : Adds(x, fun, less(U))
  <2>1. Adds(g, fun, U)
    BY <1>4, <1>5
  <2>2. g[U] = IF U = {} THEN 0 ELSE fun[Taken(U)] + g[less(U)]
    <3>1. U \in SUBSET U
      OBVIOUS
    <3> QED  BY <2>1, <3>1 DEF Adds
  <2>3. U # {} => g[less(U)] = h[less(U)]
    <3> SUFFICES ASSUME U # {}  PROVE g[less(U)] = h[less(U)]
      OBVIOUS
    <3>1. less(U) \in SUBSET U /\ less(U) # T
      BY TakenIsIn
    <3>2. less(U) \in SUBSET T
      BY <3>1
    <3>3. Adds(h, fun, less(U))
      BY <1>4, <3>1, <3>2
    <3>4. U \in SUBSET S /\ less(U) \in SUBSET S /\ less(U) \in SUBSET (U \cap less(U))
      BY <1>3, <3>1
    <3> HIDE DEF g, h, less
    <3> QED  BY <2>1, <3>3, <3>4, SumsAgree
  <2> QED  BY <2>2, <2>3 DEF TheSum
<1>6. ASSUME NEW U \in SUBSET T, U # {}
      PROVE  all[less(U)] = TheSum(fun, less(U))
  <2>1. less(U) \in SUBSET T /\ less(U) # T
    BY <1>6, TakenIsIn
  <2>2. all[less(U)] = sum(less(U))
    BY <2>1
  <2> HIDE DEF all, less, sum
  <2> QED  BY <2>1, <2>2, <1>5
<1>7. Adds(all, fun, T)
  <2>1. \A U \in SUBSET T : sum(U) = IF U = {} THEN 0 ELSE fun[Taken(U)] + all[less(U)]
    BY <1>6
  <2> QED  BY <2>1 DEF Adds
<1> QED  BY <1>3, <1>7

(* The sum over a set is made of an element's value and the sum over the   *)
(* rest of it.                                                             *)
LEMMA SumOfSet ==
  ASSUME NEW fun, NEW T, IsFiniteSet(T)
  PROVE  /\ SumFunctionOnSet(fun, {}) = 0
         /\ T # {} => SumFunctionOnSet(fun, T) = fun[Taken(T)] + SumFunctionOnSet(fun, T \ {Taken(T)})
<1> DEFINE g(U) == CHOOSE x : Adds(x, fun, U)
<1>1. \A U \in SUBSET T : Adds(g(U), fun, U)
  <2>1. \A U \in SUBSET T : \E x : Adds(x, fun, U)
    BY SumsExist
  <2> QED  BY <2>1
<1>2. \A U \in SUBSET T : SumFunctionOnSet(fun, U) = g(U)[U]
  BY SumIsTheSum DEF TheSum
<1>3. \A U \in SUBSET T : g(U)[U] = IF U = {} THEN 0 ELSE fun[Taken(U)] + g(U)[U \ {Taken(U)}]
  <2> SUFFICES ASSUME NEW U \in SUBSET T
               PROVE  g(U)[U] = IF U = {} THEN 0 ELSE fun[Taken(U)] + g(U)[U \ {Taken(U)}]
    OBVIOUS
  <2>1. Adds(g(U), fun, U) /\ U \in SUBSET U
    BY <1>1
  <2> HIDE DEF g
  <2> QED  BY <2>1 DEF Adds
<1>4. T # {} => g(T)[T \ {Taken(T)}] = g(T \ {Taken(T)})[T \ {Taken(T)}]
  <2> DEFINE U == T \ {Taken(T)}
  <2>1. T \in SUBSET T /\ U \in SUBSET T /\ U \in SUBSET (T \cap U)
    OBVIOUS
  <2>2. Adds(g(T), fun, T) /\ Adds(g(U), fun, U)
    BY <1>1, <2>1
  <2> HIDE DEF g, U
  <2>3. g(T)[U] = g(U)[U]
    BY <2>1, <2>2, SumsAgree
  <2> QED  BY <2>3 DEF U
<1> HIDE DEF g
<1>5. {} \in SUBSET T /\ T \in SUBSET T /\ T \ {Taken(T)} \in SUBSET T
  OBVIOUS
<1>6. SumFunctionOnSet(fun, {}) = 0
  BY <1>2, <1>3, <1>5
<1>7. T # {} => SumFunctionOnSet(fun, T) = fun[Taken(T)] + SumFunctionOnSet(fun, T \ {Taken(T)})
  BY <1>2, <1>3, <1>4, <1>5
<1> QED  BY <1>6, <1>7

---------------------------------------------------------------------------
(* Sums of numbers. *)

(* It is a number.                                                         *)
LEMMA SumIsNumber ==
  ASSUME NEW fun, NEW S, IsFiniteSet(S), \A x \in S : fun[x] \in Nat
  PROVE  \A T \in SUBSET S : SumFunctionOnSet(fun, T) \in Nat
<1> DEFINE sum(T) == SumFunctionOnSet(fun, T)
           family == {T \in SUBSET S : sum(T) \notin Nat}
<1> HIDE DEF sum
<1> SUFFICES ASSUME family # {}  PROVE FALSE
  BY DEF sum
<1>1. family \in SUBSET SUBSET S
  OBVIOUS
<1>2. PICK T \in family : \A U \in family : U \subseteq T => U = T
  <2> HIDE DEF family
  <2> QED  BY <1>1, LeastSet
<1>3. T \in SUBSET S /\ IsFiniteSet(T)
  BY FS_Subset
<1>4. /\ T = {} => sum(T) = 0
      /\ T # {} => sum(T) = fun[Taken(T)] + sum(T \ {Taken(T)})
  BY <1>3, SumOfSet DEF sum
<1>5. T # {} => fun[Taken(T)] \in Nat /\ sum(T \ {Taken(T)}) \in Nat
  <2> SUFFICES ASSUME T # {}  PROVE fun[Taken(T)] \in Nat /\ sum(T \ {Taken(T)}) \in Nat
    OBVIOUS
  <2>1. Taken(T) \in T
    BY TakenIsIn
  <2>2. T \ {Taken(T)} \in SUBSET S /\ T \ {Taken(T)} \notin family
    BY <1>2, <1>3, <2>1
  <2> QED  BY <1>3, <2>1, <2>2
<1> QED  BY <1>4, <1>5

(* Any element may be taken first.                                         *)
LEMMA SumTakes ==
  ASSUME NEW fun, NEW S, IsFiniteSet(S), \A x \in S : fun[x] \in Nat
  PROVE  \A T \in SUBSET S : \A x \in T :
            SumFunctionOnSet(fun, T) = fun[x] + SumFunctionOnSet(fun, T \ {x})
<1> DEFINE sum(T) == SumFunctionOnSet(fun, T)
           Takes(T) == \A x \in T : sum(T) = fun[x] + sum(T \ {x})
           family == {T \in SUBSET S : ~Takes(T)}
<1>0. \A T \in SUBSET S : sum(T) \in Nat
  BY SumIsNumber
<1> HIDE DEF sum
<1> SUFFICES ASSUME family # {}  PROVE FALSE
  BY DEF sum
<1>1. family \in SUBSET SUBSET S
  OBVIOUS
<1>2. PICK T \in family : \A U \in family : U \subseteq T => U = T
  <2> HIDE DEF family
  <2> QED  BY <1>1, LeastSet
<1>3. T \in SUBSET S /\ IsFiniteSet(T)
  BY FS_Subset
<1> DEFINE y == Taken(T)
<1>4. ASSUME NEW x \in T  PROVE sum(T) = fun[x] + sum(T \ {x})
  <2>1. y \in T
    BY TakenIsIn
  <2>2. sum(T) = fun[y] + sum(T \ {y})
    BY <1>3, SumOfSet DEF sum
  <2> HIDE DEF y
  <2>3. CASE x = y
    BY <2>2, <2>3
  <2>4. CASE x # y
    <3> DEFINE both == T \ {x, y}
    <3>1. /\ T \ {y} \in SUBSET S /\ x \in T \ {y} /\ (T \ {y}) \ {x} = both /\ T \ {y} # T
          /\ T \ {x} \in SUBSET S /\ y \in T \ {x} /\ (T \ {x}) \ {y} = both /\ T \ {x} # T
          /\ both \in SUBSET S
      BY <1>3, <2>1, <2>4
    <3> HIDE DEF both
    <3>2. Takes(T \ {y}) /\ Takes(T \ {x})
      BY <1>2, <3>1
    <3>3. sum(T \ {y}) = fun[x] + sum(both) /\ sum(T \ {x}) = fun[y] + sum(both)
      BY <3>1, <3>2
    <3>4. fun[x] \in Nat /\ fun[y] \in Nat /\ sum(both) \in Nat
      BY <1>0, <1>3, <2>1, <3>1
    <3> QED  BY <2>2, <3>3, <3>4
  <2> QED  BY <2>3, <2>4
<1> QED  BY <1>2, <1>4

(* Only the values over the set count.                                     *)
LEMMA SumSame ==
  ASSUME NEW fun, NEW other, NEW S, IsFiniteSet(S), \A x \in S : fun[x] = other[x]
  PROVE  SumFunctionOnSet(fun, S) = SumFunctionOnSet(other, S)
<1> DEFINE sum(T) == SumFunctionOnSet(fun, T)
           twin(T) == SumFunctionOnSet(other, T)
           family == {T \in SUBSET S : sum(T) # twin(T)}
<1> HIDE DEF sum, twin
<1> SUFFICES ASSUME family # {}  PROVE FALSE
  BY DEF sum, twin
<1>1. family \in SUBSET SUBSET S
  OBVIOUS
<1>2. PICK T \in family : \A U \in family : U \subseteq T => U = T
  <2> HIDE DEF family
  <2> QED  BY <1>1, LeastSet
<1>3. T \in SUBSET S /\ IsFiniteSet(T)
  BY FS_Subset
<1>4. /\ T = {} => sum(T) = 0 /\ twin(T) = 0
      /\ T # {} => /\ sum(T) = fun[Taken(T)] + sum(T \ {Taken(T)})
                   /\ twin(T) = other[Taken(T)] + twin(T \ {Taken(T)})
  BY <1>3, SumOfSet DEF sum, twin
<1>5. T # {} => fun[Taken(T)] = other[Taken(T)] /\ sum(T \ {Taken(T)}) = twin(T \ {Taken(T)})
  <2> SUFFICES ASSUME T # {}
               PROVE  fun[Taken(T)] = other[Taken(T)] /\ sum(T \ {Taken(T)}) = twin(T \ {Taken(T)})
    OBVIOUS
  <2>1. Taken(T) \in T
    BY TakenIsIn
  <2>2. T \ {Taken(T)} \in SUBSET S /\ T \ {Taken(T)} \notin family
    BY <1>2, <1>3, <2>1
  <2> QED  BY <1>3, <2>1, <2>2
<1> QED  BY <1>4, <1>5

(* What holds of the sum of a function, as the modules write it.           *)
LEMMA SumOfFunction ==
  ASSUME NEW S, IsFiniteSet(S), NEW fun \in [S -> Nat]
  PROVE  /\ SumFunction(fun) \in Nat
         /\ \A x \in S : SumFunction(fun) = fun[x] + SumFunction([z \in S \ {x} |-> fun[z]])
         /\ S = {} => SumFunction(fun) = 0
<1>1. SumFunction(fun) = SumFunctionOnSet(fun, S)
  BY DEF SumFunction
<1>2. ASSUME NEW x \in S
      PROVE  SumFunction([z \in S \ {x} |-> fun[z]]) = SumFunctionOnSet(fun, S \ {x})
  <2> DEFINE rest == [z \in S \ {x} |-> fun[z]]
  <2>1. DOMAIN rest = S \ {x} /\ \A z \in S \ {x} : rest[z] = fun[z]
    OBVIOUS
  <2>2. IsFiniteSet(S \ {x})
    BY FS_RemoveElement
  <2> HIDE DEF rest
  <2>3. SumFunctionOnSet(rest, S \ {x}) = SumFunctionOnSet(fun, S \ {x})
    BY <2>1, <2>2, SumSame
  <2> QED  BY <2>1, <2>3 DEF SumFunction, rest
<1>3. S \in SUBSET S /\ \A x \in S : fun[x] \in Nat
  OBVIOUS
<1>4. SumFunctionOnSet(fun, S) \in Nat
  BY <1>3, SumIsNumber
<1>5. \A x \in S : SumFunctionOnSet(fun, S) = fun[x] + SumFunctionOnSet(fun, S \ {x})
  BY <1>3, SumTakes
<1>6. S = {} => SumFunctionOnSet(fun, S) = 0
  BY SumOfSet
<1> QED  BY <1>1, <1>2, <1>4, <1>5, <1>6
=============================================================================
