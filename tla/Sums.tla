-------------------------------- MODULE Sums --------------------------------
(***************************************************************************)
(* What the proofs need to know of SumFunctionOnSet and SumFunction: sums  *)
(* over finite sets, taken apart, compared and rearranged.                 *)
(*                                                                         *)
(* Induction over a finite set is the choice of a smallest counterexample. *)
(***************************************************************************)
EXTENDS Functions, FiniteSetTheorems, TLAPS

\* A set of subsets of a finite set has a smallest element.
LEMMA SmallestSubset ==
    ASSUME NEW S, IsFiniteSet(S), NEW B, B \subseteq SUBSET S, B # {}
    PROVE  \E T \in B : \A U \in B : U \subseteq T => U = T
  <1>1. FiniteSubsetsOf(S) = SUBSET S
    BY FS_FiniteSubsetsOfFinite
  <1>2. IsWellFoundedOn(StrictSubsetOrdering(S), SUBSET S)
    BY <1>1, FS_StrictSubsetOrderingWellFounded
  <1>3. PICK T \in B : \A U \in B : <<U, T>> \notin StrictSubsetOrdering(S)
    BY <1>2, WFMin
  <1>4. ASSUME NEW U \in B, U \subseteq T, U # T PROVE FALSE
    <2>1. <<U, T>> \in (SUBSET S) \X (SUBSET S)
      OBVIOUS
    <2>2. <<U, T>> \in StrictSubsetOrdering(S)
      BY <1>4, <2>1 DEF StrictSubsetOrdering
    <2> QED
      BY <1>3, <2>2
  <1> QED
    BY <1>3, <1>4

(* The recursive function behind the sum. *)
First(s) == CHOOSE x \in s : TRUE
Rest(s) == s \ {First(s)}
IsSum(g, f, S) == g = [s \in SUBSET S |-> IF s = {} THEN 0 ELSE f[First(s)] + g[Rest(s)]]
Partial(f, S) == CHOOSE g : IsSum(g, f, S)

LEMMA SumIsPartial ==
    ASSUME NEW f, NEW S
    PROVE  SumFunctionOnSet(f, S) = Partial(f, S)[S]
  BY DEF SumFunctionOnSet, FoldFunctionOnSet, MapThenFoldSet, Partial, IsSum, First, Rest

LEMMA FirstOf ==
    ASSUME NEW s, s # {}
    PROVE  First(s) \in s /\ Rest(s) \subseteq s /\ Rest(s) # s
  BY DEF First, Rest

LEMMA SumsAgree ==
    ASSUME NEW f, NEW S, IsFiniteSet(S), NEW T, T \subseteq S,
           NEW g, IsSum(g, f, S), NEW h, IsSum(h, f, T)
    PROVE  \A s \in SUBSET T : g[s] = h[s]
  <1> DEFINE B == {s \in SUBSET T : g[s] # h[s]}
  <1>1. SUFFICES ASSUME B # {} PROVE FALSE
    OBVIOUS
  <1>2. IsFiniteSet(T)
    BY FS_Subset
  <1> B \subseteq SUBSET T
    OBVIOUS
  <1> HIDE DEF B
  <1>3. PICK s \in B : \A u \in B : u \subseteq s => u = s
    BY <1>1, <1>2, SmallestSubset
  <1> USE DEF B
  <1>4. /\ g[s] = IF s = {} THEN 0 ELSE f[First(s)] + g[Rest(s)]
        /\ h[s] = IF s = {} THEN 0 ELSE f[First(s)] + h[Rest(s)]
    BY DEF IsSum
  <1>5. s # {}
    BY <1>4
  <1>6. Rest(s) \in SUBSET T /\ Rest(s) \notin B
    BY <1>3, <1>5, FirstOf
  <1> QED
    BY <1>4, <1>6

LEMMA SumsExist ==
    ASSUME NEW f, NEW S, IsFiniteSet(S)
    PROVE  IsSum(Partial(f, S), f, S)
  <1> DEFINE B == {T \in SUBSET S : ~IsSum(Partial(f, T), f, T)}
  <1>1. SUFFICES ASSUME B # {} PROVE FALSE
    OBVIOUS
  <1> B \subseteq SUBSET S
    OBVIOUS
  <1> HIDE DEF B
  <1>2. PICK T \in B : \A u \in B : u \subseteq T => u = T
    BY <1>1, SmallestSubset
  <1> USE DEF B
  <1>3. \A u \in SUBSET T : u # T => IsSum(Partial(f, u), f, u)
    BY <1>2
  <1> DEFINE g == [s \in SUBSET T |-> IF s = {} THEN 0
                       ELSE f[First(s)] + Partial(f, Rest(s))[Rest(s)]]
  <1>4. ASSUME NEW s \in SUBSET T, s # {}
        PROVE  g[Rest(s)] = Partial(f, Rest(s))[Rest(s)]
    <2> DEFINE u == Rest(s)
    <2>1. u \in SUBSET T /\ u # T
      BY <1>4, FirstOf
    <2>2. IsSum(Partial(f, u), f, u)
      BY <1>3, <2>1
    <2>3. Partial(f, u)[u] = IF u = {} THEN 0 ELSE f[First(u)] + Partial(f, u)[Rest(u)]
      BY <2>2 DEF IsSum
    <2>4. CASE u = {}
      BY <2>1, <2>3, <2>4
    <2>5. CASE u # {}
      <3>1. Rest(u) \subseteq u /\ Rest(u) \in SUBSET T /\ Rest(u) # T
        BY <2>1, <2>5, FirstOf
      <3>2. IsSum(Partial(f, Rest(u)), f, Rest(u))
        BY <1>3, <3>1
      <3>3. IsFiniteSet(u)
        BY <2>1, FS_Subset
      <3>4. Partial(f, u)[Rest(u)] = Partial(f, Rest(u))[Rest(u)]
        BY <2>2, <3>1, <3>2, <3>3, SumsAgree
      <3>5. g[u] = f[First(u)] + Partial(f, Rest(u))[Rest(u)]
        BY <2>1, <2>5
      <3> QED
        BY <2>3, <2>5, <3>4, <3>5
    <2> QED
      BY <2>4, <2>5
  <1>5. g = [s \in SUBSET T |-> IF s = {} THEN 0 ELSE f[First(s)] + g[Rest(s)]]
    BY <1>4
  <1>6. IsSum(g, f, T)
    BY <1>5 DEF IsSum
  <1>7. IsSum(Partial(f, T), f, T)
    BY <1>6 DEF Partial
  <1> QED
    BY <1>2, <1>7

LEMMA SumStep ==
    ASSUME NEW f, NEW S, IsFiniteSet(S)
    PROVE  SumFunctionOnSet(f, S) =
              IF S = {} THEN 0 ELSE f[First(S)] + SumFunctionOnSet(f, Rest(S))
  <1>0. IsSum(Partial(f, S), f, S)
    BY SumsExist
  <1>1. SumFunctionOnSet(f, S) =
           IF S = {} THEN 0 ELSE f[First(S)] + Partial(f, S)[Rest(S)]
    BY <1>0, SumIsPartial DEF IsSum
  <1>2. CASE S # {}
    <2>1. Rest(S) \subseteq S /\ IsFiniteSet(Rest(S))
      BY <1>2, FirstOf, FS_Subset
    <2>2. Partial(f, S)[Rest(S)] = Partial(f, Rest(S))[Rest(S)]
      BY <2>1, SumsExist, SumsAgree
    <2> QED
      BY <1>1, <2>2, SumIsPartial
  <1> QED
    BY <1>1, <1>2

LEMMA SumEmpty == \A f : SumFunctionOnSet(f, {}) = 0
  BY SumStep, FS_EmptySet

LEMMA SumInt ==
    ASSUME NEW S, IsFiniteSet(S), NEW f, \A x \in S : f[x] \in Int
    PROVE  SumFunctionOnSet(f, S) \in Int
  <1> DEFINE B == {T \in SUBSET S : SumFunctionOnSet(f, T) \notin Int}
  <1>1. SUFFICES ASSUME B # {} PROVE FALSE
    OBVIOUS
  <1> B \subseteq SUBSET S
    OBVIOUS
  <1> HIDE DEF B
  <1>2. PICK T \in B : \A u \in B : u \subseteq T => u = T
    BY <1>1, SmallestSubset
  <1> USE DEF B
  <1>3. SumFunctionOnSet(f, T) =
           IF T = {} THEN 0 ELSE f[First(T)] + SumFunctionOnSet(f, Rest(T))
    BY SumStep, FS_Subset
  <1>4. T # {}
    BY <1>3
  <1>5. First(T) \in S /\ Rest(T) \in SUBSET S /\ Rest(T) \notin B
    BY <1>2, <1>4, FirstOf
  <1>6. f[First(T)] \in Int /\ SumFunctionOnSet(f, Rest(T)) \in Int
    BY <1>5
  <1> QED
    BY <1>3, <1>4, <1>6

\* Any element may be taken out first.
LEMMA SumRemove ==
    ASSUME NEW S, IsFiniteSet(S), NEW f, \A x \in S : f[x] \in Int, NEW x \in S
    PROVE  SumFunctionOnSet(f, S) = f[x] + SumFunctionOnSet(f, S \ {x})
  <1> DEFINE Removes(T, y) == SumFunctionOnSet(f, T) = f[y] + SumFunctionOnSet(f, T \ {y})
             B == {T \in SUBSET S : \E y \in T : ~Removes(T, y)}
  <1>1. SUFFICES ASSUME B # {} PROVE FALSE
    OBVIOUS
  <1> B \subseteq SUBSET S
    OBVIOUS
  <1> HIDE DEF B
  <1>2. PICK T \in B : \A u \in B : u \subseteq T => u = T
    BY <1>1, SmallestSubset
  <1> USE DEF B
  <1>3. PICK y \in T : ~Removes(T, y)
    OBVIOUS
  <1> DEFINE z == First(T)
  <1>4. z \in T /\ Rest(T) = T \ {z}
    BY <1>3, FirstOf DEF Rest
  <1>5. Removes(T, z)
    <2>1. IsFiniteSet(T)
      BY FS_Subset
    <2> QED
      BY <1>3, <1>4, <2>1, SumStep
  <1>6. y # z
    BY <1>3, <1>5
  <1> HIDE DEF z
  <1>7. Removes(T \ {z}, y) /\ Removes(T \ {y}, z)
    <2>1. T \ {z} \in SUBSET S /\ T \ {z} \notin B
      BY <1>2, <1>4
    <2>2. T \ {y} \in SUBSET S /\ T \ {y} \notin B
      BY <1>2, <1>3
    <2> QED
      BY <1>4, <1>6, <2>1, <2>2
  <1>8. (T \ {z}) \ {y} = (T \ {y}) \ {z}
    OBVIOUS
  <1>9. SumFunctionOnSet(f, (T \ {y}) \ {z}) \in Int
    <2>1. IsFiniteSet((T \ {y}) \ {z})
      BY FS_Subset
    <2> QED
      BY <2>1, SumInt
  <1>10. f[y] \in Int /\ f[z] \in Int
    BY <1>4
  <1> DEFINE n == SumFunctionOnSet(f, (T \ {y}) \ {z})
  <1>11. /\ SumFunctionOnSet(f, T) = f[z] + (f[y] + n)
         /\ SumFunctionOnSet(f, T) # f[y] + (f[z] + n)
    BY <1>3, <1>5, <1>7, <1>8
  <1> HIDE DEF n, B
  <1>12. n \in Int
    BY <1>9 DEF n
  <1> QED
    BY <1>10, <1>11, <1>12

LEMMA SumEqual ==
    ASSUME NEW S, IsFiniteSet(S), NEW f, NEW g, \A x \in S : f[x] = g[x]
    PROVE  SumFunctionOnSet(f, S) = SumFunctionOnSet(g, S)
  <1> DEFINE B == {T \in SUBSET S : SumFunctionOnSet(f, T) # SumFunctionOnSet(g, T)}
  <1>1. SUFFICES ASSUME B # {} PROVE FALSE
    OBVIOUS
  <1> B \subseteq SUBSET S
    OBVIOUS
  <1> HIDE DEF B
  <1>2. PICK T \in B : \A u \in B : u \subseteq T => u = T
    BY <1>1, SmallestSubset
  <1> USE DEF B
  <1>3. IsFiniteSet(T) /\ T \subseteq S
    BY FS_Subset
  <1>4. T # {}
    BY SumEmpty
  <1>5. First(T) \in S /\ Rest(T) \in SUBSET S /\ Rest(T) \notin B
    BY <1>2, <1>4, FirstOf
  <1>6. /\ SumFunctionOnSet(f, T) = f[First(T)] + SumFunctionOnSet(f, Rest(T))
        /\ SumFunctionOnSet(g, T) = g[First(T)] + SumFunctionOnSet(g, Rest(T))
    BY <1>3, <1>4, SumStep
  <1> QED
    BY <1>5, <1>6

LEMMA SumAdd ==
    ASSUME NEW S, IsFiniteSet(S), NEW f, \A x \in S : f[x] \in Int,
           NEW y, y \notin S, f[y] \in Int
    PROVE  SumFunctionOnSet(f, S \cup {y}) = SumFunctionOnSet(f, S) + f[y]
  <1>1. IsFiniteSet(S \cup {y})
    BY FS_AddElement
  <1>2. (S \cup {y}) \ {y} = S
    OBVIOUS
  <1>3. SumFunctionOnSet(f, S \cup {y}) = f[y] + SumFunctionOnSet(f, S)
    <2>1. \A x \in S \cup {y} : f[x] \in Int
      OBVIOUS
    <2>2. y \in S \cup {y}
      OBVIOUS
    <2> QED
      BY <1>1, <1>2, <2>1, <2>2, SumRemove
  <1>4. SumFunctionOnSet(f, S) \in Int
    BY SumInt
  <1> QED
    BY <1>3, <1>4

LEMMA SumMonotone ==
    ASSUME NEW S, IsFiniteSet(S), NEW f, NEW g,
           \A x \in S : f[x] \in Int /\ g[x] \in Int /\ f[x] <= g[x]
    PROVE  SumFunctionOnSet(f, S) <= SumFunctionOnSet(g, S)
  <1> DEFINE B == {T \in SUBSET S : ~(SumFunctionOnSet(f, T) <= SumFunctionOnSet(g, T))}
  <1>1. SUFFICES ASSUME B # {} PROVE FALSE
    OBVIOUS
  <1> B \subseteq SUBSET S
    OBVIOUS
  <1> HIDE DEF B
  <1>2. PICK T \in B : \A u \in B : u \subseteq T => u = T
    BY <1>1, SmallestSubset
  <1> USE DEF B
  <1>3. IsFiniteSet(T) /\ T \subseteq S
    BY FS_Subset
  <1>4. T # {}
    BY SumEmpty
  <1>5. First(T) \in S /\ Rest(T) \in SUBSET S /\ Rest(T) \notin B
    BY <1>2, <1>4, FirstOf
  <1>6. /\ SumFunctionOnSet(f, T) = f[First(T)] + SumFunctionOnSet(f, Rest(T))
        /\ SumFunctionOnSet(g, T) = g[First(T)] + SumFunctionOnSet(g, Rest(T))
    BY <1>3, <1>4, SumStep
  <1>7. SumFunctionOnSet(f, Rest(T)) \in Int /\ SumFunctionOnSet(g, Rest(T)) \in Int
    <2>1. IsFiniteSet(Rest(T))
      BY <1>5, FS_Subset
    <2> QED
      BY <1>5, <2>1, SumInt
  <1>8. SumFunctionOnSet(f, Rest(T)) <= SumFunctionOnSet(g, Rest(T))
    BY <1>5
  <1> QED
    BY <1>5, <1>6, <1>7, <1>8

LEMMA SumPlus ==
    ASSUME NEW S, IsFiniteSet(S), NEW f, NEW g, NEW h,
           \A x \in S : f[x] \in Int /\ g[x] \in Int /\ h[x] = f[x] + g[x]
    PROVE  SumFunctionOnSet(h, S) = SumFunctionOnSet(f, S) + SumFunctionOnSet(g, S)
  <1> DEFINE B == {T \in SUBSET S : SumFunctionOnSet(h, T) # SumFunctionOnSet(f, T) + SumFunctionOnSet(g, T)}
  <1>1. SUFFICES ASSUME B # {} PROVE FALSE
    OBVIOUS
  <1> B \subseteq SUBSET S
    OBVIOUS
  <1> HIDE DEF B
  <1>2. PICK T \in B : \A u \in B : u \subseteq T => u = T
    BY <1>1, SmallestSubset
  <1> USE DEF B
  <1>3. IsFiniteSet(T) /\ T \subseteq S
    BY FS_Subset
  <1>4. T # {}
    BY SumEmpty
  <1>5. First(T) \in S /\ Rest(T) \in SUBSET S /\ Rest(T) \notin B
    BY <1>2, <1>4, FirstOf
  <1>6. /\ SumFunctionOnSet(f, T) = f[First(T)] + SumFunctionOnSet(f, Rest(T))
        /\ SumFunctionOnSet(g, T) = g[First(T)] + SumFunctionOnSet(g, Rest(T))
        /\ SumFunctionOnSet(h, T) = h[First(T)] + SumFunctionOnSet(h, Rest(T))
    BY <1>3, <1>4, SumStep
  <1>7. SumFunctionOnSet(f, Rest(T)) \in Int /\ SumFunctionOnSet(g, Rest(T)) \in Int
    <2>1. IsFiniteSet(Rest(T))
      BY <1>5, FS_Subset
    <2> QED
      BY <1>5, <2>1, SumInt
  <1>8. SumFunctionOnSet(h, Rest(T)) =
           SumFunctionOnSet(f, Rest(T)) + SumFunctionOnSet(g, Rest(T))
    BY <1>5
  <1> QED
    BY <1>5, <1>6, <1>7, <1>8

LEMMA SumUnion ==
    ASSUME NEW S, IsFiniteSet(S), NEW R, IsFiniteSet(R), S \cap R = {},
           NEW f, \A x \in S \cup R : f[x] \in Int
    PROVE  SumFunctionOnSet(f, S \cup R) = SumFunctionOnSet(f, S) + SumFunctionOnSet(f, R)
  <1> DEFINE B == {T \in SUBSET S : SumFunctionOnSet(f, T \cup R) # SumFunctionOnSet(f, T) + SumFunctionOnSet(f, R)}
  <1>1. SUFFICES ASSUME B # {} PROVE FALSE
    OBVIOUS
  <1> B \subseteq SUBSET S
    OBVIOUS
  <1> HIDE DEF B
  <1>2. PICK T \in B : \A u \in B : u \subseteq T => u = T
    BY <1>1, SmallestSubset
  <1> USE DEF B
  <1>3. IsFiniteSet(T) /\ T \subseteq S
    BY FS_Subset
  <1>4. SumFunctionOnSet(f, R) \in Int
    BY SumInt
  <1>5. PICK x \in T : TRUE
    <2>1. T = {} => T \cup R = R
      OBVIOUS
    <2> QED
      BY <1>4, <2>1, SumEmpty
  <1> DEFINE U == T \ {x}
  <1>6. U \in SUBSET S /\ U \notin B /\ (T \cup R) \ {x} = U \cup R
    BY <1>2, <1>3, <1>5
  <1>7. IsFiniteSet(T \cup R) /\ IsFiniteSet(U)
    BY <1>3, <1>6, FS_Union, FS_Subset
  <1>8. SumFunctionOnSet(f, T \cup R) = f[x] + SumFunctionOnSet(f, U \cup R)
    <2>1. x \in T \cup R /\ \A y \in T \cup R : f[y] \in Int
      BY <1>3, <1>5
    <2>2. SumFunctionOnSet(f, T \cup R) = f[x] + SumFunctionOnSet(f, (T \cup R) \ {x})
      BY <1>7, <2>1, SumRemove
    <2> QED
      BY <1>6, <2>2
  <1>9. SumFunctionOnSet(f, T) = f[x] + SumFunctionOnSet(f, U)
    BY <1>3, <1>5, SumRemove
  <1>10. SumFunctionOnSet(f, U) \in Int
    BY <1>6, <1>7, SumInt
  <1>11. SumFunctionOnSet(f, U \cup R) = SumFunctionOnSet(f, U) + SumFunctionOnSet(f, R)
    BY <1>6
  <1>12. f[x] \in Int /\ SumFunctionOnSet(f, T \cup R) # SumFunctionOnSet(f, T) + SumFunctionOnSet(f, R)
    BY <1>3, <1>5
  <1> HIDE DEF B, U
  <1> QED
    BY <1>4, <1>8, <1>9, <1>10, <1>11, <1>12

\* Elements that count nothing may be left out.
LEMMA SumZeros ==
    ASSUME NEW S, IsFiniteSet(S), NEW f, \A x \in S : f[x] = 0
    PROVE  SumFunctionOnSet(f, S) = 0
  <1> DEFINE B == {T \in SUBSET S : SumFunctionOnSet(f, T) # 0}
  <1>1. SUFFICES ASSUME B # {} PROVE FALSE
    OBVIOUS
  <1> B \subseteq SUBSET S
    OBVIOUS
  <1> HIDE DEF B
  <1>2. PICK T \in B : \A u \in B : u \subseteq T => u = T
    BY <1>1, SmallestSubset
  <1> USE DEF B
  <1>3. IsFiniteSet(T) /\ T \subseteq S
    BY FS_Subset
  <1>4. T # {}
    BY SumEmpty
  <1>5. First(T) \in S /\ Rest(T) \in SUBSET S /\ Rest(T) \notin B
    BY <1>2, <1>4, FirstOf
  <1>6. SumFunctionOnSet(f, T) = f[First(T)] + SumFunctionOnSet(f, Rest(T))
    BY <1>3, <1>4, SumStep
  <1> QED
    BY <1>5, <1>6

LEMMA SumPart ==
    ASSUME NEW S, IsFiniteSet(S), NEW T, T \subseteq S, NEW f,
           \A x \in T : f[x] \in Int, \A x \in S \ T : f[x] = 0
    PROVE  SumFunctionOnSet(f, S) = SumFunctionOnSet(f, T)
  <1>1. IsFiniteSet(T) /\ IsFiniteSet(S \ T) /\ T \cup (S \ T) = S
    BY FS_Subset
  <1>2. SumFunctionOnSet(f, S \ T) = 0
    BY <1>1, SumZeros
  <1>3. \A x \in T \cup (S \ T) : f[x] \in Int
    OBVIOUS
  <1>4. SumFunctionOnSet(f, T \cup (S \ T)) = SumFunctionOnSet(f, T) + SumFunctionOnSet(f, S \ T)
    BY <1>1, <1>3, SumUnion
  <1>5. SumFunctionOnSet(f, T) \in Int
    BY <1>1, SumInt
  <1> QED
    BY <1>1, <1>2, <1>4, <1>5

LEMMA SumChange ==
    ASSUME NEW S, IsFiniteSet(S), NEW f, NEW g, NEW y \in S,
           \A x \in S : f[x] \in Int /\ g[x] \in Int,
           \A x \in S \ {y} : g[x] = f[x]
    PROVE  SumFunctionOnSet(g, S) = SumFunctionOnSet(f, S) - f[y] + g[y]
  <1>1. IsFiniteSet(S \ {y})
    BY FS_Subset
  <1>2. SumFunctionOnSet(f, S \ {y}) = SumFunctionOnSet(g, S \ {y})
    BY <1>1, SumEqual
  <1>3. /\ SumFunctionOnSet(f, S) = f[y] + SumFunctionOnSet(f, S \ {y})
        /\ SumFunctionOnSet(g, S) = g[y] + SumFunctionOnSet(g, S \ {y})
    BY SumRemove
  <1>4. SumFunctionOnSet(f, S \ {y}) \in Int
    BY <1>1, SumInt
  <1> QED
    BY <1>2, <1>3, <1>4

LEMMA ImageFinite ==
    ASSUME NEW S, IsFiniteSet(S), NEW b
    PROVE  IsFiniteSet({b[x] : x \in S})
  <1> DEFINE T == {b[x] : x \in S}
             c == [x \in S |-> b[x]]
  <1>1. c \in Surjection(S, T)
    BY DEF Surjection
  <1> HIDE DEF T, c
  <1>2. IsFiniteSet(T)
    BY <1>1, FS_Surjection
  <1> QED
    BY <1>2 DEF T

\* Elements may be renamed.
LEMMA SumImage ==
    ASSUME NEW S, IsFiniteSet(S), NEW b, NEW f, NEW g,
           \A x, y \in S : b[x] = b[y] => x = y,
           \A x \in S : f[x] \in Int /\ g[b[x]] = f[x]
    PROVE  SumFunctionOnSet(g, {b[x] : x \in S}) = SumFunctionOnSet(f, S)
  <1> DEFINE B == {T \in SUBSET S : SumFunctionOnSet(g, {b[x] : x \in T}) # SumFunctionOnSet(f, T)}
  <1>1. SUFFICES ASSUME B # {} PROVE FALSE
    OBVIOUS
  <1> B \subseteq SUBSET S
    OBVIOUS
  <1> HIDE DEF B
  <1>2. PICK T \in B : \A u \in B : u \subseteq T => u = T
    BY <1>1, SmallestSubset
  <1> USE DEF B
  <1>3. IsFiniteSet(T) /\ T \subseteq S
    BY FS_Subset
  <1> DEFINE Named(u) == {b[x] : x \in u}
  <1>4. PICK x \in T : TRUE
    <2>1. T = {} => Named(T) = {}
      OBVIOUS
    <2> QED
      BY <2>1, SumEmpty
  <1> DEFINE U == T \ {x}
  <1>5. U \in SUBSET S /\ U \notin B
    BY <1>2, <1>3, <1>4
  <1>6. Named(T) \ {b[x]} = Named(U) /\ b[x] \in Named(T)
    BY <1>3, <1>4
  <1>7. IsFiniteSet(Named(T))
    BY <1>3, ImageFinite
  <1>8. SumFunctionOnSet(g, Named(T)) = g[b[x]] + SumFunctionOnSet(g, Named(U))
    <2>1. \A y \in Named(T) : g[y] \in Int
      BY <1>3
    <2>2. SumFunctionOnSet(g, Named(T)) = g[b[x]] + SumFunctionOnSet(g, Named(T) \ {b[x]})
      <3> HIDE DEF Named
      <3> QED
        BY <1>6, <1>7, <2>1, SumRemove
    <2> QED
      BY <1>6, <2>2
  <1>9. SumFunctionOnSet(f, T) = f[x] + SumFunctionOnSet(f, U)
    BY <1>3, <1>4, SumRemove
  <1>10. SumFunctionOnSet(g, Named(U)) = SumFunctionOnSet(f, U)
    BY <1>5
  <1>11. g[b[x]] = f[x] /\ SumFunctionOnSet(g, Named(T)) # SumFunctionOnSet(f, T)
    BY <1>3, <1>4
  <1> HIDE DEF B, U, Named
  <1> QED
    BY <1>8, <1>9, <1>10, <1>11

\* The same for functions summed over their whole domain.
LEMMA SumFunctionInt ==
    ASSUME NEW S, IsFiniteSet(S), NEW f \in [S -> Int]
    PROVE  SumFunction(f) \in Int
  BY SumInt DEF SumFunction

LEMMA SumFunctionZero ==
    ASSUME NEW S, IsFiniteSet(S), NEW f \in [S -> Int], \A x \in S : f[x] = 0
    PROVE  SumFunction(f) = 0
  BY SumZeros DEF SumFunction

LEMMA SumFunctionNat ==
    ASSUME NEW S, IsFiniteSet(S), NEW f \in [S -> Int], \A x \in S : f[x] >= 0
    PROVE  SumFunction(f) \in Int /\ SumFunction(f) >= 0
  <1> DEFINE zero == [x \in S |-> 0]
  <1>1. SumFunctionOnSet(zero, S) = 0
    BY SumZeros
  <1>2. \A x \in S : zero[x] \in Int /\ f[x] \in Int /\ zero[x] <= f[x]
    OBVIOUS
  <1> HIDE DEF zero
  <1>3. SumFunctionOnSet(zero, S) <= SumFunctionOnSet(f, S)
    BY <1>2, SumMonotone
  <1>4. SumFunctionOnSet(f, S) \in Int
    BY SumInt
  <1>5. SumFunction(f) = SumFunctionOnSet(f, S)
    BY DEF SumFunction
  <1> QED
    BY <1>1, <1>3, <1>4, <1>5

LEMMA SumNat ==
    ASSUME NEW S, IsFiniteSet(S), NEW f, \A x \in S : f[x] \in Nat
    PROVE  SumFunctionOnSet(f, S) \in Nat
  <1> DEFINE g == [x \in S |-> f[x]]
  <1>1. g \in [S -> Int] /\ \A x \in S : g[x] >= 0 /\ g[x] = f[x]
    OBVIOUS
  <1>2. SumFunction(g) = SumFunctionOnSet(g, S)
    BY DEF SumFunction
  <1> HIDE DEF g
  <1>3. SumFunction(g) \in Int /\ SumFunction(g) >= 0
    BY ONLY <1>1, IsFiniteSet(S), SumFunctionNat
  <1>4. SumFunctionOnSet(g, S) = SumFunctionOnSet(f, S)
    BY ONLY <1>1, IsFiniteSet(S), SumEqual
  <1> QED BY <1>2, <1>3, <1>4

\* A part of what is not negative sums up to no more than the whole.
LEMMA SumSubset ==
    ASSUME NEW S, IsFiniteSet(S), NEW T, T \subseteq S, NEW f, \A x \in S : f[x] \in Nat
    PROVE  SumFunctionOnSet(f, T) <= SumFunctionOnSet(f, S)
  <1>1. IsFiniteSet(T) /\ IsFiniteSet(S \ T) /\ T \cap (S \ T) = {}
    BY FS_Subset
  <1>2. \A x \in T \cup (S \ T) : f[x] \in Int
    OBVIOUS
  <1>3. SumFunctionOnSet(f, T \cup (S \ T)) = SumFunctionOnSet(f, T) + SumFunctionOnSet(f, S \ T)
    BY ONLY <1>1, <1>2, SumUnion
  <1>4. SumFunctionOnSet(f, T) \in Nat /\ SumFunctionOnSet(f, S \ T) \in Nat
    BY <1>1, SumNat
  <1>5. SumFunctionOnSet(f, T \cup (S \ T)) = SumFunctionOnSet(f, S)
    <2>1. T \cup (S \ T) = S
      OBVIOUS
    <2> QED BY <2>1
  <1> QED BY <1>3, <1>4, <1>5

LEMMA SumFunctionJoined ==
    ASSUME NEW S, IsFiniteSet(S), NEW y, y \notin S,
           NEW f \in [S -> Int], NEW g \in [S \cup {y} -> Int], \A x \in S : g[x] = f[x]
    PROVE  SumFunction(g) = SumFunction(f) + g[y]
  <1>1. \A x \in S : g[x] \in Int
    OBVIOUS
  <1>2. SumFunctionOnSet(g, S \cup {y}) = SumFunctionOnSet(g, S) + g[y]
    BY <1>1, SumAdd
  <1>3. SumFunctionOnSet(g, S) = SumFunctionOnSet(f, S)
    BY SumEqual
  <1>4. SumFunction(g) = SumFunctionOnSet(g, S \cup {y}) /\ SumFunction(f) = SumFunctionOnSet(f, S)
    BY DEF SumFunction
  <1> QED
    BY <1>2, <1>3, <1>4

LEMMA SumFunctionWithout ==
    ASSUME NEW S, IsFiniteSet(S), NEW y \in S,
           NEW R, R = S \ {y},
           NEW f \in [S -> Int], NEW g \in [R -> Int], \A x \in R : g[x] = f[x]
    PROVE  SumFunction(g) = SumFunction(f) - f[y]
  <1>1. IsFiniteSet(R) /\ \A x \in S : f[x] \in Int
    BY FS_Subset
  <1>2. SumFunctionOnSet(f, S) = f[y] + SumFunctionOnSet(f, R)
    BY <1>1, SumRemove
  <1>3. SumFunctionOnSet(g, R) = SumFunctionOnSet(f, R)
    BY <1>1, SumEqual
  <1>4. SumFunction(g) = SumFunctionOnSet(g, R) /\ SumFunction(f) = SumFunctionOnSet(f, S)
    BY DEF SumFunction
  <1>5. SumFunctionOnSet(f, R) \in Int
    BY <1>1, SumInt
  <1>6. f[y] \in Int
    OBVIOUS
  <1> QED
    BY <1>2, <1>3, <1>4, <1>5, <1>6

LEMMA SumFunctionChanged ==
    ASSUME NEW S, IsFiniteSet(S), NEW y \in S,
           NEW f \in [S -> Int], NEW g \in [S -> Int], \A x \in S \ {y} : g[x] = f[x]
    PROVE  SumFunction(g) = SumFunction(f) - f[y] + g[y]
  <1>1. \A x \in S : f[x] \in Int /\ g[x] \in Int
    OBVIOUS
  <1>2. SumFunctionOnSet(g, S) = SumFunctionOnSet(f, S) - f[y] + g[y]
    BY <1>1, SumChange
  <1>3. SumFunction(g) = SumFunctionOnSet(g, S) /\ SumFunction(f) = SumFunctionOnSet(f, S)
    BY DEF SumFunction
  <1> QED
    BY <1>2, <1>3

\* Addends of at least -1 sum up to no less than minus their number.
LEMMA SumFunctionAtLeast ==
    ASSUME NEW S, IsFiniteSet(S), NEW f \in [S -> Int], \A x \in S : f[x] >= -1
    PROVE  SumFunction(f) + Cardinality(S) >= 0
  <1> DEFINE B == {T \in SUBSET S : ~(SumFunctionOnSet(f, T) + Cardinality(T) >= 0)}
  <1>1. SUFFICES ASSUME B # {} PROVE FALSE
    BY DEF SumFunction
  <1> B \subseteq SUBSET S
    OBVIOUS
  <1> HIDE DEF B
  <1>2. PICK T \in B : \A u \in B : u \subseteq T => u = T
    BY <1>1, SmallestSubset
  <1>3. T \subseteq S /\ IsFiniteSet(T) /\ ~(SumFunctionOnSet(f, T) + Cardinality(T) >= 0)
    BY FS_Subset DEF B
  <1>4. T # {}
    <2>1. Cardinality({}) = 0
      BY FS_EmptySet
    <2>2. SumFunctionOnSet(f, {}) + Cardinality({}) >= 0
      BY <2>1, SumEmpty
    <2> QED
      BY <1>3, <2>2
  <1>5. PICK x \in T : TRUE
    BY <1>4
  <1>6. T \ {x} \subseteq S /\ T \ {x} \subseteq T /\ T \ {x} # T
    BY <1>3
  <1>7. SumFunctionOnSet(f, T \ {x}) + Cardinality(T \ {x}) >= 0
    BY <1>2, <1>6 DEF B
  <1>8. IsFiniteSet(T \ {x}) /\ Cardinality(T \ {x}) = Cardinality(T) - 1
    BY <1>3, FS_RemoveElement
  <1>9. \A y \in T : f[y] \in Int /\ f[y] >= -1
    BY <1>3
  <1>10. SumFunctionOnSet(f, T) = f[x] + SumFunctionOnSet(f, T \ {x})
    BY ONLY <1>3, <1>5, <1>9, SumRemove
  <1>11. SumFunctionOnSet(f, T \ {x}) \in Int
    BY ONLY <1>6, <1>8, <1>9, SumInt
  <1>12. Cardinality(T) \in Nat
    BY <1>3, FS_CardinalityType
  <1> QED
    BY <1>3, <1>5, <1>7, <1>8, <1>9, <1>10, <1>11, <1>12
=============================================================================
