----------------------------- MODULE Sums_proofs -----------------------------
(***************************************************************************)
(* Facts about SumFunctionOnSet, the sum of the values f[x] for the x of a *)
(* finite set, by which the models count what several sessions, addresses  *)
(* or fields hold together.  The library states the operator only: here is *)
(* that it is well defined, and what it becomes when the set loses an      *)
(* element or the function changes at one.                                 *)
(*                                                                         *)
(* Every induction is over the finite subsets of a set, in the form of a   *)
(* smallest counterexample.                                                *)
(***************************************************************************)
EXTENDS Integers, Functions, FiniteSetTheorems, TLAPS

(* Of the subsets of a finite set that have some property, one is minimal. *)
LEMMA SmallestSubset ==
    ASSUME NEW S, IsFiniteSet(S), NEW C, C \subseteq SUBSET S, C # {}
    PROVE  \E T \in C : \A U \in C : U \subseteq T => U = T
<1>1. IsWellFoundedOn(StrictSubsetOrdering(S), FiniteSubsetsOf(S))
  BY FS_StrictSubsetOrderingWellFounded
<1>2. IsWellFoundedOn(StrictSubsetOrdering(S), SUBSET S)
  BY <1>1, FS_FiniteSubsetsOfFinite
<1>3. PICK T \in C : \A U \in C : ~ (<<U, T>> \in StrictSubsetOrdering(S))
  BY <1>2, WFMin
<1> QED  BY <1>3 DEF StrictSubsetOrdering

(* The element by which the sum over T begins, and the rest.               *)
First(T) == CHOOSE x \in T : TRUE
Others(T) == T \ {First(T)}

(* g gives the sum of f over every subset of S.                            *)
Sums(f, S, g) ==
    g = [T \in SUBSET S |->
            IF T = {} THEN 0 ELSE f[First(T)] + g[Others(T)]]

(* The sum is the value at S of some such g, when there is one.            *)
LEMMA SumIsChosen ==
    ASSUME NEW f, NEW S
    PROVE  SumFunctionOnSet(f, S) = (CHOOSE g : Sums(f, S, g))[S]
BY DEF SumFunctionOnSet, FoldFunctionOnSet, MapThenFoldSet, Sums, First, Others

LEMMA SumsAt ==
    ASSUME NEW f, NEW S, NEW g, Sums(f, S, g), NEW T \in SUBSET S
    PROVE  g[T] = IF T = {} THEN 0 ELSE f[First(T)] + g[Others(T)]
BY DEF Sums

(* Two of them agree where both are defined.                               *)
LEMMA SumsAgree ==
    ASSUME NEW f, NEW S, IsFiniteSet(S), NEW g, Sums(f, S, g),
           NEW R, R \subseteq S, NEW h, Sums(f, R, h),
           NEW T \in SUBSET R
    PROVE  g[T] = h[T]
<1> DEFINE C == {U \in SUBSET T : g[U] # h[U]}
<1>1. SUFFICES ASSUME C # {} PROVE FALSE
  OBVIOUS
<1>2. IsFiniteSet(T)
  BY FS_Subset
<1>3. PICK U \in C : \A V \in C : V \subseteq U => V = U
  <2> C \subseteq SUBSET T
    OBVIOUS
  <2> HIDE DEF C
  <2> QED  BY <1>1, <1>2, SmallestSubset
<1>4. U \in SUBSET S /\ U \in SUBSET R
  OBVIOUS
<1>5. g[U] = IF U = {} THEN 0 ELSE f[First(U)] + g[Others(U)]
  BY <1>4, SumsAt
<1>6. h[U] = IF U = {} THEN 0 ELSE f[First(U)] + h[Others(U)]
  BY <1>4, SumsAt
<1>7. U # {}
  BY <1>5, <1>6
<1>8. First(U) \in U
  BY <1>7 DEF First
<1>9. Others(U) \in SUBSET T /\ Others(U) \subseteq U /\ Others(U) # U
  BY <1>8 DEF Others
<1>10. g[Others(U)] = h[Others(U)]
  BY <1>3, <1>9
<1> QED  BY <1>5, <1>6, <1>7, <1>10

(* There is one for every finite set.                                      *)
LEMMA SumsExist ==
    ASSUME NEW f, NEW S, IsFiniteSet(S)
    PROVE  \E g : Sums(f, S, g)
<1> DEFINE C == {T \in SUBSET S : ~ \E g : Sums(f, T, g)}
<1>1. SUFFICES ASSUME C # {} PROVE FALSE
  OBVIOUS
<1>2. PICK T \in C : \A U \in C : U \subseteq T => U = T
  <2> C \subseteq SUBSET S
    OBVIOUS
  <2> HIDE DEF C
  <2> QED  BY <1>1, SmallestSubset
<1> DEFINE G(U) == CHOOSE g : Sums(f, U, g)
           v(U) == G(U)[U]
           g == [U \in SUBSET T |->
                    IF U = {} THEN 0 ELSE f[First(U)] + v(Others(U))]
<1>3. ASSUME NEW U \in SUBSET T, U # T
      PROVE  Sums(f, U, G(U)) /\ IsFiniteSet(U)
  <2>1. U \in SUBSET S
    OBVIOUS
  <2>2. U \notin C
    BY <1>2, <1>3
  <2>3. \E k : Sums(f, U, k)
    BY <2>1, <2>2
  <2> QED  BY <2>1, <2>3, FS_Subset
<1>4. ASSUME NEW U \in SUBSET T, U # {}
      PROVE  Others(U) \in SUBSET T /\ Others(U) # T /\ Others(U) # U
  BY <1>4 DEF Others, First
<1>5. ASSUME NEW U \in SUBSET T, U # T
      PROVE  v(U) = g[U]
  <2>1. Sums(f, U, G(U)) /\ IsFiniteSet(U)
    BY <1>3, <1>5
  <2> HIDE DEF G
  <2>2. G(U)[U] = IF U = {} THEN 0 ELSE f[First(U)] + G(U)[Others(U)]
    BY <2>1, SumsAt
  <2>3. CASE U = {}
    BY <2>2, <2>3
  <2>4. CASE U # {}
    <3>1. Others(U) \in SUBSET T /\ Others(U) # T
      BY <1>4, <2>4
    <3>2. Sums(f, Others(U), G(Others(U)))
      BY <1>3, <3>1
    <3>3. Others(U) \subseteq U /\ Others(U) \in SUBSET Others(U)
      BY DEF Others
    <3>4. G(U)[Others(U)] = G(Others(U))[Others(U)]
      BY <2>1, <3>2, <3>3, SumsAgree
    <3> QED  BY <2>2, <2>4, <3>4
  <2> QED  BY <2>3, <2>4
<1>6. ASSUME NEW U \in SUBSET T
      PROVE  g[U] = IF U = {} THEN 0 ELSE f[First(U)] + g[Others(U)]
  <2>1. CASE U = {}
    BY <2>1
  <2>2. CASE U # {}
    <3>1. v(Others(U)) = g[Others(U)]
      BY <1>4, <1>5, <2>2
    <3> HIDE DEF v
    <3> QED  BY <2>2, <3>1
  <2> QED  BY <2>1, <2>2
<1>7. g = [U \in SUBSET T |->
              IF U = {} THEN 0 ELSE f[First(U)] + g[Others(U)]]
  <2>1. DOMAIN g = SUBSET T
    OBVIOUS
  <2>2. g = [U \in SUBSET T |-> g[U]]
    OBVIOUS
  <2> HIDE DEF g
  <2> QED  BY <1>6, <2>2
<1>8. Sums(f, T, g)
  BY <1>7 DEF Sums
<1> QED  BY <1>8

(* The sum over the empty set, and over a set without its first element.   *)
LEMMA SumStep ==
    ASSUME NEW f, NEW S, IsFiniteSet(S)
    PROVE  /\ S = {} => SumFunctionOnSet(f, S) = 0
           /\ S # {} => SumFunctionOnSet(f, S)
                          = f[First(S)] + SumFunctionOnSet(f, Others(S))
<1> DEFINE G(U) == CHOOSE g : Sums(f, U, g)
<1>1. Sums(f, S, G(S))
  BY SumsExist
<1>2. IsFiniteSet(Others(S)) /\ Others(S) \subseteq S
  BY FS_Subset DEF Others
<1>3. Sums(f, Others(S), G(Others(S)))
  BY <1>2, SumsExist
<1>4. SumFunctionOnSet(f, S) = G(S)[S]
  BY SumIsChosen
<1>5. SumFunctionOnSet(f, Others(S)) = G(Others(S))[Others(S)]
  BY SumIsChosen
<1> HIDE DEF G
<1>6. G(S)[S] = IF S = {} THEN 0 ELSE f[First(S)] + G(S)[Others(S)]
  BY <1>1, SumsAt
<1>7. G(S)[Others(S)] = G(Others(S))[Others(S)]
  BY <1>1, <1>2, <1>3, SumsAgree
<1> QED  BY <1>4, <1>5, <1>6, <1>7

LEMMA SumEmpty == ASSUME NEW f PROVE SumFunctionOnSet(f, {}) = 0
BY SumStep, FS_EmptySet

(* A sum of naturals is a natural.                                         *)
LEMMA SumIsNat ==
    ASSUME NEW S, IsFiniteSet(S), NEW f, \A x \in S : f[x] \in Nat
    PROVE  SumFunctionOnSet(f, S) \in Nat
<1> DEFINE C == {T \in SUBSET S : SumFunctionOnSet(f, T) \notin Nat}
<1>1. SUFFICES ASSUME C # {} PROVE FALSE
  OBVIOUS
<1>2. PICK T \in C : \A U \in C : U \subseteq T => U = T
  <2> C \subseteq SUBSET S
    OBVIOUS
  <2> HIDE DEF C
  <2> QED  BY <1>1, SmallestSubset
<1>3. IsFiniteSet(T)
  BY FS_Subset
<1>4. T # {}
  BY SumEmpty
<1>5. First(T) \in T
  BY <1>4 DEF First
<1>6. Others(T) \in SUBSET S /\ Others(T) \subseteq T /\ Others(T) # T
  BY <1>5 DEF Others
<1>7. SumFunctionOnSet(f, Others(T)) \in Nat
  BY <1>2, <1>6
<1>8. SumFunctionOnSet(f, T) = f[First(T)] + SumFunctionOnSet(f, Others(T))
  BY <1>3, <1>4, SumStep
<1> QED  BY <1>5, <1>7, <1>8

(* Any element may be taken out first.                                     *)
LEMMA SumRemove ==
    ASSUME NEW S, IsFiniteSet(S), NEW f, \A x \in S : f[x] \in Nat,
           NEW x \in S
    PROVE  SumFunctionOnSet(f, S) = f[x] + SumFunctionOnSet(f, S \ {x})
<1> DEFINE Any(T) == \A y \in T :
             SumFunctionOnSet(f, T) = f[y] + SumFunctionOnSet(f, T \ {y})
           C == {T \in SUBSET S : ~Any(T)}
<1>1. SUFFICES ASSUME C # {} PROVE FALSE
  <2>1. S \notin C
    BY <1>1
  <2> QED  BY <2>1
<1>2. PICK T \in C : \A U \in C : U \subseteq T => U = T
  <2> C \subseteq SUBSET S
    OBVIOUS
  <2> HIDE DEF C
  <2> QED  BY <1>1, SmallestSubset
<1>3. PICK y \in T : SumFunctionOnSet(f, T) # f[y] + SumFunctionOnSet(f, T \ {y})
  OBVIOUS
<1> DEFINE z == First(T)
<1>4. /\ IsFiniteSet(T) /\ IsFiniteSet(T \ {y}) /\ IsFiniteSet(T \ {z})
      /\ IsFiniteSet((T \ {z}) \ {y})
  BY FS_Subset
<1>5. z \in T
  BY DEF First
<1>6. SumFunctionOnSet(f, T) = f[z] + SumFunctionOnSet(f, T \ {z})
  BY <1>4, SumStep DEF Others
<1> HIDE DEF z
<1>7. y # z
  BY <1>3, <1>6
<1>8. T \ {z} \notin C /\ T \ {y} \notin C
  BY <1>2, <1>5
<1>9. Any(T \ {z}) /\ Any(T \ {y})
  BY <1>8
<1>10. SumFunctionOnSet(f, T \ {z})
         = f[y] + SumFunctionOnSet(f, (T \ {z}) \ {y})
  BY <1>7, <1>9
<1>11. SumFunctionOnSet(f, T \ {y})
         = f[z] + SumFunctionOnSet(f, (T \ {y}) \ {z})
  BY <1>5, <1>7, <1>9
<1>12. (T \ {y}) \ {z} = (T \ {z}) \ {y}
  OBVIOUS
<1>13. SumFunctionOnSet(f, (T \ {z}) \ {y}) \in Nat
  BY <1>4, SumIsNat
<1>14. f[y] \in Nat /\ f[z] \in Nat
  BY <1>5
<1>15. SumFunctionOnSet(f, T \ {y})
         = f[z] + SumFunctionOnSet(f, (T \ {z}) \ {y})
  BY <1>11, <1>12
<1>16. f[y] + (f[z] + SumFunctionOnSet(f, (T \ {z}) \ {y}))
         = f[z] + (f[y] + SumFunctionOnSet(f, (T \ {z}) \ {y}))
  BY <1>13, <1>14
<1> HIDE DEF C
<1> QED  BY <1>3, <1>6, <1>10, <1>15, <1>16

(* A sum depends on the values only.                                       *)
LEMMA SumSame ==
    ASSUME NEW S, IsFiniteSet(S), NEW f, NEW g, \A x \in S : f[x] = g[x]
    PROVE  SumFunctionOnSet(f, S) = SumFunctionOnSet(g, S)
<1> DEFINE C == {T \in SUBSET S :
                    SumFunctionOnSet(f, T) # SumFunctionOnSet(g, T)}
<1>1. SUFFICES ASSUME C # {} PROVE FALSE
  OBVIOUS
<1>2. PICK T \in C : \A U \in C : U \subseteq T => U = T
  <2> C \subseteq SUBSET S
    OBVIOUS
  <2> HIDE DEF C
  <2> QED  BY <1>1, SmallestSubset
<1>3. IsFiniteSet(T)
  BY FS_Subset
<1>4. T # {}
  BY SumEmpty
<1>5. First(T) \in T
  BY <1>4 DEF First
<1>6. Others(T) \in SUBSET S /\ Others(T) \subseteq T /\ Others(T) # T
  BY <1>5 DEF Others
<1>7. SumFunctionOnSet(f, Others(T)) = SumFunctionOnSet(g, Others(T))
  BY <1>2, <1>6
<1>8. /\ SumFunctionOnSet(f, T) = f[First(T)] + SumFunctionOnSet(f, Others(T))
      /\ SumFunctionOnSet(g, T) = g[First(T)] + SumFunctionOnSet(g, Others(T))
  BY <1>3, <1>4, SumStep
<1> QED  BY <1>2, <1>5, <1>7, <1>8

(* A sum is at least each of its values.                                   *)
LEMMA SumBounds ==
    ASSUME NEW S, IsFiniteSet(S), NEW f, \A x \in S : f[x] \in Nat,
           NEW x \in S
    PROVE  f[x] <= SumFunctionOnSet(f, S)
<1>1. SumFunctionOnSet(f, S) = f[x] + SumFunctionOnSet(f, S \ {x})
  BY SumRemove
<1>2. IsFiniteSet(S \ {x})
  BY FS_Subset
<1>3. SumFunctionOnSet(f, S \ {x}) \in Nat
  BY <1>2, SumIsNat
<1> QED  BY <1>1, <1>3

(* One element comes in.                                                   *)
LEMMA SumAdd ==
    ASSUME NEW S, IsFiniteSet(S), NEW x, x \notin S,
           NEW f, \A y \in S \cup {x} : f[y] \in Nat
    PROVE  SumFunctionOnSet(f, S \cup {x}) = f[x] + SumFunctionOnSet(f, S)
<1>1. IsFiniteSet(S \cup {x})
  BY FS_AddElement
<1>2. (S \cup {x}) \ {x} = S
  OBVIOUS
<1> QED  BY <1>1, <1>2, SumRemove

(* The value at one element changes.                                       *)
LEMMA SumChange ==
    ASSUME NEW S, IsFiniteSet(S), NEW x \in S,
           NEW f, \A y \in S : f[y] \in Nat,
           NEW g, \A y \in S : g[y] \in Nat,
           \A y \in S : y # x => f[y] = g[y]
    PROVE  SumFunctionOnSet(g, S) = (SumFunctionOnSet(f, S) - f[x]) + g[x]
<1>1. /\ SumFunctionOnSet(f, S) = f[x] + SumFunctionOnSet(f, S \ {x})
      /\ SumFunctionOnSet(g, S) = g[x] + SumFunctionOnSet(g, S \ {x})
  BY SumRemove
<1>2. IsFiniteSet(S \ {x})
  BY FS_Subset
<1>3. SumFunctionOnSet(f, S \ {x}) = SumFunctionOnSet(g, S \ {x})
  BY <1>2, SumSame
<1>4. SumFunctionOnSet(f, S \ {x}) \in Nat
  BY <1>2, SumIsNat
<1> QED  BY <1>1, <1>3, <1>4

(* Zeros add up to zero.                                                   *)
LEMMA SumZero ==
    ASSUME NEW S, IsFiniteSet(S), NEW f, \A x \in S : f[x] = 0
    PROVE  SumFunctionOnSet(f, S) = 0
<1> DEFINE C == {T \in SUBSET S : SumFunctionOnSet(f, T) # 0}
<1>1. SUFFICES ASSUME C # {} PROVE FALSE
  OBVIOUS
<1>2. PICK T \in C : \A U \in C : U \subseteq T => U = T
  <2> C \subseteq SUBSET S
    OBVIOUS
  <2> HIDE DEF C
  <2> QED  BY <1>1, SmallestSubset
<1>3. IsFiniteSet(T) /\ T # {}
  BY SumEmpty, FS_Subset
<1>4. First(T) \in T /\ First(T) \in S
  BY <1>3 DEF First
<1>5. Others(T) \in SUBSET S /\ Others(T) \subseteq T /\ Others(T) # T
  BY <1>4 DEF Others
<1>6. SumFunctionOnSet(f, Others(T)) = 0
  BY <1>2, <1>5
<1>7. SumFunctionOnSet(f, T) = f[First(T)] + SumFunctionOnSet(f, Others(T))
  BY <1>3, SumStep
<1> QED  BY <1>4, <1>6, <1>7

(* A sum is that over a part and that over the rest.                       *)
LEMMA SumSplit ==
    ASSUME NEW S, IsFiniteSet(S), NEW P, P \subseteq S,
           NEW f, \A x \in S : f[x] \in Nat
    PROVE  SumFunctionOnSet(f, S)
             = SumFunctionOnSet(f, P) + SumFunctionOnSet(f, S \ P)
<1> DEFINE R == S \ P
           C == {T \in SUBSET P : SumFunctionOnSet(f, T \cup R)
                    # SumFunctionOnSet(f, T) + SumFunctionOnSet(f, R)}
<1>1. SUFFICES ASSUME C # {} PROVE FALSE
  <2>1. P \notin C /\ P \cup R = S
    BY <1>1
  <2> QED  BY <2>1
<1>2. IsFiniteSet(P) /\ IsFiniteSet(R)
  BY FS_Subset
<1>3. SumFunctionOnSet(f, R) \in Nat
  BY <1>2, SumIsNat
<1>4. PICK T \in C : \A U \in C : U \subseteq T => U = T
  <2> C \subseteq SUBSET P
    OBVIOUS
  <2> HIDE DEF C
  <2> QED  BY <1>1, <1>2, SmallestSubset
<1>5. IsFiniteSet(T) /\ IsFiniteSet(T \cup R)
  BY FS_Subset
<1>6. T # {}
  <2>1. SUFFICES ASSUME T = {} PROVE FALSE
    OBVIOUS
  <2>2. T \cup R = R
    BY <2>1
  <2>3. SumFunctionOnSet(f, T) = 0
    BY <2>1, SumEmpty
  <2>4. SumFunctionOnSet(f, T \cup R)
          # SumFunctionOnSet(f, T) + SumFunctionOnSet(f, R)
    OBVIOUS
  <2> HIDE DEF R, C
  <2>5. SumFunctionOnSet(f, T \cup R) = SumFunctionOnSet(f, R)
    BY <2>2
  <2> QED  BY <1>3, <2>3, <2>4, <2>5
<1>7. PICK x : x \in T
  BY <1>6
<1>8. /\ x \in P /\ x \notin R /\ f[x] \in Nat
      /\ T \ {x} \in SUBSET P /\ T \ {x} \notin C
      /\ (T \cup R) \ {x} = (T \ {x}) \cup R
      /\ \A y \in T \cup R : f[y] \in Nat
  BY <1>4, <1>7
<1>9. SumFunctionOnSet(f, (T \ {x}) \cup R)
        = SumFunctionOnSet(f, T \ {x}) + SumFunctionOnSet(f, R)
  BY <1>8
<1>10. SumFunctionOnSet(f, T) = f[x] + SumFunctionOnSet(f, T \ {x})
  BY <1>5, <1>7, <1>8, SumRemove
<1>11. SumFunctionOnSet(f, T \cup R)
         = f[x] + SumFunctionOnSet(f, (T \cup R) \ {x})
  <2> x \in T \cup R
    BY <1>7
  <2> QED  BY <1>5, <1>8, SumRemove
<1>12. IsFiniteSet(T \ {x})
  BY <1>5, FS_Subset
<1>13. SumFunctionOnSet(f, T \ {x}) \in Nat
  BY <1>8, <1>12, SumIsNat
<1>14. SumFunctionOnSet(f, T \cup R)
         = SumFunctionOnSet(f, T) + SumFunctionOnSet(f, R)
  BY <1>3, <1>8, <1>9, <1>10, <1>11, <1>13
<1> QED  BY <1>14
=============================================================================
