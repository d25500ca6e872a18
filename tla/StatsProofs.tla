----------------------------- MODULE StatsProofs -----------------------------
(***************************************************************************)
(* Proofs about StatsStore, for any lengths of hours and days, retentions  *)
(* and numbers of queries, clean-ups, purges and kills: rows find their    *)
(* names, names do not outlive their rows, a day is never split, and the   *)
(* tables keep the promise of QueryCounts.                                 *)
(***************************************************************************)
EXTENDS StatsStore, FiniteSetTheorems, WellFoundedInduction, TLAPS

-----------------------------------------------------------------------------
(***************************************************************************)
(* What the bags of the tables add up to.  Bags!BagCardinality and         *)
(* Bags!BagOfAll sum the values of a function by taking one element of its *)
(* domain after the other.  A finite domain makes that a number.           *)
(* First come the values that most properties of the tables need: nothing, *)
(* one row, and more than nothing.  Then the laws of adding up: the order  *)
(* of the elements does not matter, one more row counts as itself, and     *)
(* mapping the rows twice is mapping them once.                            *)
(***************************************************************************)

LEMMA LeastNumber ==
  ASSUME NEW S \in SUBSET Nat, S # {}
  PROVE  \E m \in S : \A n \in S : m <= n
<1>1. PICK m \in S : \A n \in S : <<n, m>> \notin OpToRel(<, Nat)
  BY NatLessThanWellFounded, WFMin
<1>2. \A n \in S : ~(n < m)
  BY <1>1 DEF OpToRel
<1> QED BY <1>2

\* Of any sets that are part of a finite one, some is smallest.
LEMMA SmallestSet ==
  ASSUME NEW X, IsFiniteSet(X), NEW Bad \in SUBSET (SUBSET X), Bad # {}
  PROVE  \E S \in Bad : \A T \in Bad : Cardinality(S) <= Cardinality(T)
<1> DEFINE sizes == {Cardinality(S) : S \in Bad}
<1>1. \A S \in Bad : Cardinality(S) \in Nat
  BY FS_Subset, FS_CardinalityType
<1>2. sizes \in SUBSET Nat /\ sizes # {}
  BY <1>1
<1>3. PICK m \in sizes : \A n \in sizes : m <= n
  <2> HIDE DEF sizes
  <2> QED BY <1>2, LeastNumber
<1> QED BY <1>3

\* The element that Bags takes of a set.
Taken(S) == CHOOSE e \in S : TRUE

\* What Bags sums up of f: Bags has it as a definition of its own.
Total(f) ==
  LET DSum[S \in SUBSET DOMAIN f] ==
        LET elt == CHOOSE e \in S : TRUE
        IN  IF S = {} THEN 0 ELSE f[elt] + DSum[S \ {elt}]
  IN  DSum[DOMAIN f]

\* D has the sums of f over the sets of at most n elements.
SumsUpTo(f, n, D) ==
  LET sets == {S \in SUBSET DOMAIN f : Cardinality(S) <= n} IN
  /\ D \in [sets -> Nat]
  /\ \A S \in sets : D[S] = IF S = {} THEN 0 ELSE f[Taken(S)] + D[S \ {Taken(S)}]

LEMMA Smaller ==
  ASSUME NEW S, IsFiniteSet(S), S # {}
  PROVE  /\ Taken(S) \in S
         /\ IsFiniteSet(S \ {Taken(S)})
         /\ Cardinality(S) \in Nat /\ Cardinality(S \ {Taken(S)}) \in Nat
         /\ Cardinality(S \ {Taken(S)}) + 1 = Cardinality(S)
<1>1. Taken(S) \in S
  BY DEF Taken
<1>2. IsFiniteSet(S \ {Taken(S)}) /\ Cardinality(S \ {Taken(S)}) = Cardinality(S) - 1
  BY <1>1, FS_RemoveElement
<1>3. Cardinality(S) \in Nat /\ Cardinality(S \ {Taken(S)}) \in Nat
  BY <1>2, FS_CardinalityType
<1> QED BY <1>1, <1>2, <1>3

\* There are such sums, of sets of any size.
LEMMA SumsExist ==
  ASSUME NEW f, IsFiniteSet(DOMAIN f), \A x \in DOMAIN f : f[x] \in Nat,
         NEW n \in Nat
  PROVE  \E D : SumsUpTo(f, n, D)
<1> DEFINE bad == {k \in Nat : ~\E D : SumsUpTo(f, k, D)}
<1>1. SUFFICES ASSUME bad # {} PROVE FALSE
  OBVIOUS
<1>2. PICK m \in bad : \A k \in bad : m <= k
  BY <1>1, LeastNumber
<1>3. \A S \in SUBSET DOMAIN f : IsFiniteSet(S) /\ Cardinality(S) \in Nat
  BY FS_Subset, FS_CardinalityType
<1>4. \A S \in SUBSET DOMAIN f : S # {} =>
        /\ Taken(S) \in DOMAIN f /\ S \ {Taken(S)} \in SUBSET DOMAIN f
        /\ Cardinality(S \ {Taken(S)}) + 1 = Cardinality(S)
  BY <1>3, Smaller
<1>5. CASE m = 0
  <2> DEFINE D == [S \in {S \in SUBSET DOMAIN f : Cardinality(S) <= 0} |-> 0]
  <2>1. \A S \in SUBSET DOMAIN f : Cardinality(S) <= 0 => S = {}
    BY <1>3, FS_EmptySet
  <2>2. SumsUpTo(f, 0, D)
    BY <2>1 DEF SumsUpTo
  <2> QED BY <1>5, <2>2
<1>6. CASE m # 0
  <2>1. m - 1 \in Nat /\ m - 1 \notin bad
    BY <1>2, <1>6
  <2>2. PICK D : SumsUpTo(f, m - 1, D)
    BY <2>1
  <2> DEFINE sets == {S \in SUBSET DOMAIN f : Cardinality(S) <= m}
             E == [S \in sets |-> IF S = {} THEN 0 ELSE f[Taken(S)] + D[S \ {Taken(S)}]]
  <2>3. \A S \in sets : S # {} => /\ S \ {Taken(S)} \in SUBSET DOMAIN f
                                  /\ Cardinality(S \ {Taken(S)}) <= m - 1
                                  /\ f[Taken(S)] \in Nat
    BY <1>2, <1>3, <1>4
  <2>4. \A S \in SUBSET DOMAIN f : Cardinality(S) <= m - 1 =>
          /\ D[S] \in Nat
          /\ D[S] = IF S = {} THEN 0 ELSE f[Taken(S)] + D[S \ {Taken(S)}]
    BY <2>2 DEF SumsUpTo
  <2>5. \A S \in SUBSET DOMAIN f : Cardinality(S) <= m - 1 => S \in sets /\ E[S] = D[S]
    BY <1>2, <1>3, <2>4
  <2>6. E \in [sets -> Nat]
    <3>1. \A S \in sets : S # {} => D[S \ {Taken(S)}] \in Nat
      BY <2>3, <2>4
    <3>2. \A S \in sets :
            (IF S = {} THEN 0 ELSE f[Taken(S)] + D[S \ {Taken(S)}]) \in Nat
      BY <2>3, <3>1
    <3> HIDE DEF sets
    <3> QED BY <3>2
  <2>7. \A S \in sets : S # {} => E[S \ {Taken(S)}] = D[S \ {Taken(S)}]
    BY <2>3, <2>5
  <2>8. \A S \in sets : E[S] = IF S = {} THEN 0 ELSE f[Taken(S)] + E[S \ {Taken(S)}]
    BY <2>7
  <2>9. SumsUpTo(f, m, E)
    BY <2>6, <2>8 DEF SumsUpTo
  <2> QED BY <1>2, <2>9
<1> QED BY <1>5, <1>6

\* Total is the last of them.
LEMMA TotalSums ==
  ASSUME NEW f, IsFiniteSet(DOMAIN f), \A x \in DOMAIN f : f[x] \in Nat
  PROVE  \E D \in [SUBSET DOMAIN f -> Nat] :
           /\ Total(f) = D[DOMAIN f]
           /\ \A S \in SUBSET DOMAIN f :
                D[S] = IF S = {} THEN 0 ELSE f[Taken(S)] + D[S \ {Taken(S)}]
<1> DEFINE size == Cardinality(DOMAIN f)
           IsSum(D) == D = [S \in SUBSET DOMAIN f |->
                              LET elt == CHOOSE e \in S : TRUE
                              IN  IF S = {} THEN 0 ELSE f[elt] + D[S \ {elt}]]
           sum == CHOOSE D : IsSum(D)
<1>1. size \in Nat
  BY FS_CardinalityType
<1>2. PICK D : SumsUpTo(f, size, D)
  BY <1>1, SumsExist
<1>3. \A S \in SUBSET DOMAIN f : Cardinality(S) <= size
  BY FS_Subset
<1>4. {S \in SUBSET DOMAIN f : Cardinality(S) <= size} = SUBSET DOMAIN f
  BY <1>3
<1>5. /\ D \in [SUBSET DOMAIN f -> Nat]
      /\ \A S \in SUBSET DOMAIN f :
           D[S] = IF S = {} THEN 0 ELSE f[Taken(S)] + D[S \ {Taken(S)}]
  BY <1>2, <1>4 DEF SumsUpTo
<1>6. IsSum(D)
  BY <1>5 DEF Taken
<1>7. IsSum(sum)
  <2> HIDE DEF IsSum
  <2> QED BY <1>6
<1>8. Total(f) = sum[DOMAIN f]
  BY DEF Total
<1>9. \A S \in SUBSET DOMAIN f :
        sum[S] = IF S = {} THEN 0 ELSE f[Taken(S)] + sum[S \ {Taken(S)}]
  <2> HIDE DEF sum
  <2> QED BY <1>7 DEF Taken
<1>10. sum = D
  <2> DEFINE bad == {S \in SUBSET DOMAIN f : sum[S] # D[S]}
  <2> HIDE DEF sum
  <2>1. CASE bad # {}
    <3>1. PICK S \in bad : \A T \in bad : Cardinality(S) <= Cardinality(T)
      BY <2>1, SmallestSet
    <3>2. S # {}
      BY <3>1, <1>5, <1>9
    <3>3. IsFiniteSet(S)
      BY FS_Subset
    <3>4. S \ {Taken(S)} \notin bad
      <4>1. ~(Cardinality(S) <= Cardinality(S \ {Taken(S)}))
        BY <3>2, <3>3, Smaller
      <4> QED BY <3>1, <4>1
    <3>5. sum[S \ {Taken(S)}] = D[S \ {Taken(S)}]
      BY <3>4
    <3> QED BY <3>1, <3>2, <3>5, <1>5, <1>9
  <2>2. CASE bad = {}
    BY <2>2, <1>5, <1>7
  <2> QED BY <2>1, <2>2
<1> HIDE DEF sum
<1> QED BY <1>5, <1>8, <1>10

\* The sum is a number, 0 if all is 0, one value if all the others are 0,
\* and not 0 if some value is not.
LEMMA TotalOf ==
  ASSUME NEW f, IsFiniteSet(DOMAIN f), \A x \in DOMAIN f : f[x] \in Nat
  PROVE  /\ Total(f) \in Nat
         /\ (\A x \in DOMAIN f : f[x] = 0) => Total(f) = 0
         /\ \A x \in DOMAIN f :
              (\A y \in DOMAIN f : y # x => f[y] = 0) => Total(f) = f[x]
         /\ \A x \in DOMAIN f : f[x] <= Total(f)
<1>1. PICK D \in [SUBSET DOMAIN f -> Nat] :
        /\ Total(f) = D[DOMAIN f]
        /\ \A S \in SUBSET DOMAIN f :
             D[S] = IF S = {} THEN 0 ELSE f[Taken(S)] + D[S \ {Taken(S)}]
  BY TotalSums
<1>2. Total(f) \in Nat
  BY <1>1
<1>3. \A S \in SUBSET DOMAIN f : S # {} =>
        /\ Taken(S) \in S /\ S \ {Taken(S)} \in SUBSET DOMAIN f
        /\ Cardinality(S) \in Nat /\ Cardinality(S \ {Taken(S)}) \in Nat
        /\ Cardinality(S \ {Taken(S)}) + 1 = Cardinality(S)
  BY FS_Subset, Smaller
<1>4. \A S \in SUBSET DOMAIN f : (\A x \in S : f[x] = 0) => D[S] = 0
  <2> DEFINE bad == {S \in SUBSET DOMAIN f : (\A x \in S : f[x] = 0) /\ D[S] # 0}
  <2>1. SUFFICES ASSUME bad # {} PROVE FALSE
    OBVIOUS
  <2>2. PICK S \in bad : \A T \in bad : Cardinality(S) <= Cardinality(T)
    <3>1. bad \in SUBSET (SUBSET DOMAIN f)
      OBVIOUS
    <3> HIDE DEF bad
    <3> QED BY <2>1, <3>1, SmallestSet
  <2>3. S # {}
    BY <1>1, <2>2
  <2>4. S \ {Taken(S)} \notin bad
    BY <1>3, <2>2, <2>3
  <2>5. D[S \ {Taken(S)}] = 0 /\ f[Taken(S)] = 0
    BY <1>3, <2>2, <2>3, <2>4
  <2> QED BY <1>1, <2>2, <2>3, <2>5
<1>5. \A x \in DOMAIN f, S \in SUBSET DOMAIN f :
        x \in S /\ (\A y \in S : y # x => f[y] = 0) => D[S] = f[x]
  <2> SUFFICES ASSUME NEW x \in DOMAIN f
               PROVE  \A S \in SUBSET DOMAIN f :
                        x \in S /\ (\A y \in S : y # x => f[y] = 0) => D[S] = f[x]
    OBVIOUS
  <2> DEFINE bad == {S \in SUBSET DOMAIN f : /\ x \in S
                                             /\ \A y \in S : y # x => f[y] = 0
                                             /\ D[S] # f[x]}
  <2>1. SUFFICES ASSUME bad # {} PROVE FALSE
    OBVIOUS
  <2>2. PICK S \in bad : \A T \in bad : Cardinality(S) <= Cardinality(T)
    <3>1. bad \in SUBSET (SUBSET DOMAIN f)
      OBVIOUS
    <3> HIDE DEF bad
    <3> QED BY <2>1, <3>1, SmallestSet
  <2>3. S # {} /\ D[S] = f[Taken(S)] + D[S \ {Taken(S)}]
    BY <1>1, <2>2
  <2>4. CASE Taken(S) = x
    <3>1. D[S \ {x}] = 0
      BY <1>4, <2>2
    <3> QED BY <2>2, <2>3, <2>4, <3>1
  <2>5. CASE Taken(S) # x
    <3>1. f[Taken(S)] = 0
      BY <1>3, <2>2, <2>3, <2>5
    <3>2. S \ {Taken(S)} \notin bad
      BY <1>3, <2>2, <2>3
    <3>3. D[S \ {Taken(S)}] = f[x]
      BY <1>3, <2>2, <2>3, <2>5, <3>2
    <3> QED BY <2>2, <2>3, <3>1, <3>3
  <2> QED BY <2>4, <2>5
<1>6. \A x \in DOMAIN f, S \in SUBSET DOMAIN f : x \in S => f[x] <= D[S]
  <2> SUFFICES ASSUME NEW x \in DOMAIN f
               PROVE  \A S \in SUBSET DOMAIN f : x \in S => f[x] <= D[S]
    OBVIOUS
  <2> DEFINE bad == {S \in SUBSET DOMAIN f : x \in S /\ ~(f[x] <= D[S])}
  <2>1. SUFFICES ASSUME bad # {} PROVE FALSE
    OBVIOUS
  <2>2. PICK S \in bad : \A T \in bad : Cardinality(S) <= Cardinality(T)
    <3>1. bad \in SUBSET (SUBSET DOMAIN f)
      OBVIOUS
    <3> HIDE DEF bad
    <3> QED BY <2>1, <3>1, SmallestSet
  <2>3. S # {} /\ D[S] = f[Taken(S)] + D[S \ {Taken(S)}]
    BY <1>1, <2>2
  <2>4. f[Taken(S)] \in Nat /\ D[S \ {Taken(S)}] \in Nat /\ f[x] \in Nat
    BY <1>3, <2>2, <2>3
  <2>5. CASE Taken(S) = x
    BY <2>2, <2>3, <2>4, <2>5
  <2>6. CASE Taken(S) # x
    <3>1. S \ {Taken(S)} \notin bad /\ x \in S \ {Taken(S)}
      BY <1>3, <2>2, <2>3, <2>6
    <3>2. f[x] <= D[S \ {Taken(S)}]
      BY <1>3, <2>3, <3>1
    <3> QED BY <2>2, <2>3, <2>4, <3>2
  <2> QED BY <2>5, <2>6
<1> QED BY <1>1, <1>2, <1>4, <1>5, <1>6

\* A set of bounded numbers has its largest.
LEMMA MaxOf ==
  ASSUME NEW n \in Nat, NEW S \in SUBSET (0..n), S # {}
  PROVE  Max(S) \in S /\ \A y \in S : y <= Max(S)
<1> DEFINE gaps == {n - x : x \in S}
<1>1. gaps \in SUBSET Nat /\ gaps # {}
  <2>1. \A x \in S : n - x \in Nat
    OBVIOUS
  <2>2. PICK x \in S : TRUE
    OBVIOUS
  <2>3. n - x \in gaps
    OBVIOUS
  <2> QED BY <2>1, <2>3
<1>2. PICK m \in gaps : \A k \in gaps : m <= k
  <2> HIDE DEF gaps
  <2> QED BY <1>1, LeastNumber
<1>3. PICK x \in S : m = n - x
  BY <1>2
<1>4. \A y \in S : x >= y
  BY <1>2, <1>3
<1>5. \E x1 \in S : \A y \in S : x1 >= y
  BY <1>4
<1>6. Max(S) \in S /\ \A y \in S : Max(S) >= y
  BY <1>5 DEF Max
<1> QED BY <1>6

-----------------------------------------------------------------------------
(* Bags that the statements make.                                          *)

\* A function to the positive numbers is a bag.
LEMMA BagIs ==
  ASSUME NEW B, B = [x \in DOMAIN B |-> B[x]],
         \A x \in DOMAIN B : B[x] \in Nat /\ B[x] > 0
  PROVE  IsABag(B)
<1>1. \A x \in DOMAIN B : B[x] \in {n \in Nat : n > 0}
  OBVIOUS
<1> QED
  BY <1>1 DEF IsABag

LEMMA BagHas ==
  ASSUME NEW B, IsABag(B)
  PROVE  /\ B = [x \in DOMAIN B |-> B[x]]
         /\ \A x \in DOMAIN B : B[x] \in Nat /\ B[x] > 0
BY DEF IsABag

LEMMA NoRows ==
  DOMAIN EmptyBag = {} /\ IsABag(EmptyBag) /\ IsFiniteSet(DOMAIN EmptyBag)
<1>1. DOMAIN EmptyBag = {} /\ EmptyBag = [x \in DOMAIN EmptyBag |-> EmptyBag[x]]
  BY DEF EmptyBag, SetToBag
<1> QED
  BY <1>1, BagIs, FS_EmptySet

\* DELETE: some rows of a table, as often as they were there.
LEMMA SomeRows ==
  ASSUME NEW B, IsABag(B), IsFiniteSet(DOMAIN B), NEW C,
         DOMAIN C \subseteq DOMAIN B, C = [x \in DOMAIN C |-> B[x]]
  PROVE  IsABag(C) /\ IsFiniteSet(DOMAIN C)
<1>1. \A x \in DOMAIN C : C[x] \in Nat /\ C[x] > 0
  BY BagHas
<1>2. C = [x \in DOMAIN C |-> C[x]]
  OBVIOUS
<1> QED
  BY <1>1, <1>2, BagIs, FS_Subset

\* Two tables together.
LEMMA AllRows ==
  ASSUME NEW B, IsABag(B), IsFiniteSet(DOMAIN B),
         NEW C, IsABag(C), IsFiniteSet(DOMAIN C)
  PROVE  /\ IsABag(B (+) C) /\ IsFiniteSet(DOMAIN (B (+) C))
         /\ DOMAIN (B (+) C) = DOMAIN B \cup DOMAIN C
         /\ \A x \in DOMAIN B : x \notin DOMAIN C => (B (+) C)[x] = B[x]
         /\ \A x \in DOMAIN C : x \notin DOMAIN B => (B (+) C)[x] = C[x]
         /\ \A x \in DOMAIN B \cap DOMAIN C : (B (+) C)[x] = B[x] + C[x]
<1> DEFINE D == B (+) C
<1>1. D = [x \in DOMAIN B \cup DOMAIN C |->
             (IF x \in DOMAIN B THEN B[x] ELSE 0) + (IF x \in DOMAIN C THEN C[x] ELSE 0)]
  BY DEF (+)
<1>2. /\ \A x \in DOMAIN B : B[x] \in Nat /\ B[x] > 0
      /\ \A x \in DOMAIN C : C[x] \in Nat /\ C[x] > 0
  BY BagHas
<1> HIDE DEF D
<1>3. DOMAIN D = DOMAIN B \cup DOMAIN C /\ D = [x \in DOMAIN D |-> D[x]]
  BY <1>1
<1>4. ASSUME NEW x \in DOMAIN B, x \notin DOMAIN C PROVE D[x] = B[x]
  <2>1. D[x] = B[x] + 0 /\ B[x] \in Nat
    BY <1>1, <1>2, <1>4
  <2> QED BY <2>1
<1>5. ASSUME NEW x \in DOMAIN C, x \notin DOMAIN B PROVE D[x] = C[x]
  <2>1. D[x] = 0 + C[x] /\ C[x] \in Nat
    BY <1>1, <1>2, <1>5
  <2> QED BY <2>1
<1>6. ASSUME NEW x \in DOMAIN B \cap DOMAIN C PROVE D[x] = B[x] + C[x]
  BY <1>1, <1>6
<1>7. ASSUME NEW x \in DOMAIN D PROVE D[x] \in Nat /\ D[x] > 0
  <2>1. CASE x \in DOMAIN B /\ x \notin DOMAIN C
    BY <1>2, <1>4, <2>1
  <2>2. CASE x \in DOMAIN C /\ x \notin DOMAIN B
    BY <1>2, <1>5, <2>2
  <2>3. CASE x \in DOMAIN C /\ x \in DOMAIN B
    <3>1. D[x] = B[x] + C[x] /\ B[x] \in Nat /\ B[x] > 0 /\ C[x] \in Nat
      BY <1>2, <1>6, <2>3
    <3> QED BY <3>1
  <2> QED
    BY <1>3, <1>7, <2>1, <2>2, <2>3
<1>8. IsFiniteSet(DOMAIN D)
  BY <1>3, FS_Union
<1>9. IsABag(D)
  BY <1>3, <1>7, BagIs
<1> QED
  BY <1>3, <1>4, <1>5, <1>6, <1>8, <1>9 DEF D

\* INSERT: one more row.
LEMMA OneMoreRow ==
  ASSUME NEW B, IsABag(B), IsFiniteSet(DOMAIN B), NEW r
  PROVE  /\ DOMAIN (B (+) SetToBag({r})) = DOMAIN B \cup {r}
         /\ IsABag(B (+) SetToBag({r})) /\ IsFiniteSet(DOMAIN (B (+) SetToBag({r})))
         /\ \A x \in DOMAIN B : x # r => (B (+) SetToBag({r}))[x] = B[x]
         /\ r \notin DOMAIN B => (B (+) SetToBag({r}))[r] = 1
         /\ r \in DOMAIN B => (B (+) SetToBag({r}))[r] = B[r] + 1
<1> DEFINE C == SetToBag({r})
<1>1. DOMAIN C = {r} /\ C = [x \in DOMAIN C |-> C[x]] /\ C[r] = 1
  BY DEF SetToBag
<1> HIDE DEF C
<1>2. IsABag(C) /\ IsFiniteSet(DOMAIN C)
  <2>1. \A x \in DOMAIN C : C[x] \in Nat /\ C[x] > 0
    BY <1>1
  <2>2. IsABag(C)
    BY <1>1, <2>1, BagIs
  <2>3. IsFiniteSet({r})
    BY FS_Singleton
  <2> QED
    BY <1>1, <2>2, <2>3
<1>3. /\ IsABag(B (+) C) /\ IsFiniteSet(DOMAIN (B (+) C))
      /\ DOMAIN (B (+) C) = DOMAIN B \cup DOMAIN C
      /\ \A x \in DOMAIN B : x \notin DOMAIN C => (B (+) C)[x] = B[x]
      /\ \A x \in DOMAIN C : x \notin DOMAIN B => (B (+) C)[x] = C[x]
      /\ \A x \in DOMAIN B \cap DOMAIN C : (B (+) C)[x] = B[x] + C[x]
  BY <1>2, AllRows, SMTT(60)
<1>4. /\ DOMAIN (B (+) C) = DOMAIN B \cup {r}
      /\ \A x \in DOMAIN B : x # r => (B (+) C)[x] = B[x]
      /\ r \notin DOMAIN B => (B (+) C)[r] = 1
      /\ r \in DOMAIN B => (B (+) C)[r] = B[r] + 1
  BY <1>1, <1>3
<1> QED
  BY <1>3, <1>4 DEF C

\* UPDATE: every row x becomes g[x].  This is Bags!BagOfAll of a function.
Mapped(g, B) == [e \in {g[d] : d \in DOMAIN B} |->
                   Total([d \in DOMAIN B |-> IF g[d] = e THEN B[d] ELSE 0])]

LEMMA MappedRows ==
  ASSUME NEW B, IsABag(B), IsFiniteSet(DOMAIN B), NEW g, DOMAIN g = DOMAIN B
  PROVE  /\ IsABag(Mapped(g, B)) /\ IsFiniteSet(DOMAIN Mapped(g, B))
         /\ DOMAIN Mapped(g, B) = {g[d] : d \in DOMAIN B}
         /\ \A d \in DOMAIN B :
              (\A o \in DOMAIN B : o # d => g[o] # g[d]) => Mapped(g, B)[g[d]] = B[d]
<1> DEFINE copies(e) == [d \in DOMAIN B |-> IF g[d] = e THEN B[d] ELSE 0]
           M == Mapped(g, B)
<1>1. M = [e \in {g[d] : d \in DOMAIN B} |-> Total(copies(e))]
  BY DEF Mapped
<1>2. \A d \in DOMAIN B : B[d] \in Nat /\ B[d] > 0
  BY BagHas
<1>3. \A e : IsFiniteSet(DOMAIN copies(e)) /\ \A d \in DOMAIN copies(e) : copies(e)[d] \in Nat
  BY <1>2
<1> HIDE DEF M
<1>4. DOMAIN M = {g[d] : d \in DOMAIN B} /\ M = [e \in DOMAIN M |-> M[e]]
  BY <1>1
<1>5. ASSUME NEW d \in DOMAIN B
      PROVE  /\ M[g[d]] \in Nat /\ M[g[d]] > 0
             /\ (\A o \in DOMAIN B : o # d => g[o] # g[d]) => M[g[d]] = B[d]
  <2> DEFINE f == copies(g[d])
  <2>1. M[g[d]] = Total(f)
    BY <1>1
  <2>2. /\ DOMAIN f = DOMAIN B /\ f[d] = B[d]
        /\ IsFiniteSet(DOMAIN f) /\ \A x \in DOMAIN f : f[x] \in Nat
    BY <1>3
  <2>3. (\A o \in DOMAIN B : o # d => g[o] # g[d]) => \A o \in DOMAIN f : o # d => f[o] = 0
    OBVIOUS
  <2> HIDE DEF f
  <2>4. Total(f) \in Nat /\ f[d] <= Total(f)
    BY <2>2, TotalOf
  <2>5. (\A o \in DOMAIN f : o # d => f[o] = 0) => Total(f) = f[d]
    BY <2>2, TotalOf
  <2> QED
    BY <1>2, <2>1, <2>2, <2>3, <2>4, <2>5
<1>6. IsABag(M)
  <2>1. \A e \in DOMAIN M : M[e] \in Nat /\ M[e] > 0
    BY <1>4, <1>5
  <2> QED
    BY <1>4, <2>1, BagIs
<1>7. IsFiniteSet(DOMAIN M)
  <2> DEFINE T == {g[d] : d \in DOMAIN B}
             h == [d \in DOMAIN B |-> g[d]]
  <2>1. h \in Surjection(DOMAIN B, T)
    BY DEF Surjection
  <2>2. IsFiniteSet(T)
    <3> HIDE DEF T, h
    <3> QED
      BY <2>1, FS_Surjection
  <2> QED
    BY <1>4, <2>2
<1> QED
  BY <1>4, <1>5, <1>6, <1>7 DEF M

\* D has the sums of f over all sets.
Sums(f, D) ==
  /\ D \in [SUBSET DOMAIN f -> Nat]
  /\ \A S \in SUBSET DOMAIN f :
       D[S] = IF S = {} THEN 0 ELSE f[Taken(S)] + D[S \ {Taken(S)}]

\* Any element can be taken first.
LEMMA AnyFirst ==
  ASSUME NEW f, IsFiniteSet(DOMAIN f), NEW D, Sums(f, D),
         \A x \in DOMAIN f : f[x] \in Nat, NEW T \in SUBSET DOMAIN f, NEW z \in T
  PROVE  D[T] = f[z] + D[T \ {z}]
<1> DEFINE bad == {S \in SUBSET DOMAIN f : \E x \in S : D[S] # f[x] + D[S \ {x}]}
<1> USE DEF Sums
<1>1. SUFFICES ASSUME bad # {} PROVE FALSE
  OBVIOUS
<1>2. PICK S \in bad : \A U \in bad : Cardinality(S) <= Cardinality(U)
  <2>1. bad \in SUBSET (SUBSET DOMAIN f)
    OBVIOUS
  <2> HIDE DEF bad
  <2> QED BY <1>1, <2>1, SmallestSet
<1>3. PICK x \in S : D[S] # f[x] + D[S \ {x}]
  BY <1>2
<1>4. IsFiniteSet(S) /\ S # {} /\ S \in SUBSET DOMAIN f
  BY <1>2, FS_Subset
<1> DEFINE t == Taken(S)
<1>5. t \in S /\ D[S] = f[t] + D[S \ {t}]
  BY <1>4, Smaller
<1>6. \A y \in S : S \ {y} \in SUBSET DOMAIN f /\ S \ {y} \notin bad
  <2> SUFFICES ASSUME NEW y \in S PROVE S \ {y} \in SUBSET DOMAIN f /\ S \ {y} \notin bad
    OBVIOUS
  <2>1. Cardinality(S \ {y}) = Cardinality(S) - 1 /\ Cardinality(S) \in Nat
    BY <1>4, FS_RemoveElement, FS_CardinalityType
  <2>2. ~(Cardinality(S) <= Cardinality(S \ {y}))
    BY <2>1
  <2> HIDE DEF bad
  <2> QED BY <1>2, <1>4, <2>2
<1>7. t # x
  BY <1>3, <1>5
<1>8. D[S \ {t}] = f[x] + D[(S \ {t}) \ {x}]
  BY <1>5, <1>6, <1>7
<1>9. D[S \ {x}] = f[t] + D[(S \ {x}) \ {t}]
  BY <1>5, <1>6, <1>7
<1> HIDE DEF t, bad
<1> DEFINE rest == (S \ {t}) \ {x}
<1>10. (S \ {x}) \ {t} = rest /\ rest \in SUBSET DOMAIN f
  BY <1>4
<1>11. D[rest] \in Nat /\ f[x] \in Nat /\ f[t] \in Nat
  BY <1>4, <1>5, <1>10
<1>12. D[S] = f[t] + (f[x] + D[rest]) /\ D[S \ {x}] = f[t] + D[rest]
  BY <1>5, <1>8, <1>9, <1>10
<1> HIDE DEF rest
<1> QED BY <1>3, <1>11, <1>12

\* f without its value at x.
Without(f, x) == [y \in DOMAIN f \ {x} |-> f[y]]

LEMMA TotalWithout ==
  ASSUME NEW f, IsFiniteSet(DOMAIN f), \A x \in DOMAIN f : f[x] \in Nat,
         NEW x \in DOMAIN f
  PROVE  Total(f) = f[x] + Total(Without(f, x)) /\ Total(Without(f, x)) \in Nat
<1> DEFINE g == Without(f, x)
<1>1. PICK D \in [SUBSET DOMAIN f -> Nat] :
        /\ Total(f) = D[DOMAIN f]
        /\ \A S \in SUBSET DOMAIN f :
             D[S] = IF S = {} THEN 0 ELSE f[Taken(S)] + D[S \ {Taken(S)}]
  BY TotalSums
<1>2. /\ DOMAIN g = DOMAIN f \ {x} /\ \A y \in DOMAIN g : g[y] = f[y] /\ g[y] \in Nat
      /\ IsFiniteSet(DOMAIN g)
  <2>1. DOMAIN g = DOMAIN f \ {x} /\ \A y \in DOMAIN g : g[y] = f[y]
    BY DEF Without
  <2> QED BY <2>1, FS_Subset
<1> HIDE DEF g
<1>3. PICK E \in [SUBSET DOMAIN g -> Nat] :
        /\ Total(g) = E[DOMAIN g]
        /\ \A S \in SUBSET DOMAIN g :
             E[S] = IF S = {} THEN 0 ELSE g[Taken(S)] + E[S \ {Taken(S)}]
  BY <1>2, TotalSums
<1>4. \A S \in SUBSET DOMAIN g : D[S] = E[S]
  <2> DEFINE bad == {S \in SUBSET DOMAIN g : D[S] # E[S]}
  <2>1. SUFFICES ASSUME bad # {} PROVE FALSE
    OBVIOUS
  <2>2. PICK S \in bad : \A T \in bad : Cardinality(S) <= Cardinality(T)
    <3>1. bad \in SUBSET (SUBSET DOMAIN g)
      OBVIOUS
    <3> HIDE DEF bad
    <3> QED BY <1>2, <2>1, <3>1, SmallestSet
  <2>3. S \in SUBSET DOMAIN f /\ S \in SUBSET DOMAIN g /\ D[S] # E[S]
    BY <1>2, <2>2
  <2>4. S # {}
    BY <1>1, <1>3, <2>3
  <2>5. /\ Taken(S) \in S /\ ~(Cardinality(S) <= Cardinality(S \ {Taken(S)}))
    <3>1. IsFiniteSet(S)
      BY <1>2, <2>3, FS_Subset
    <3>2. /\ Taken(S) \in S
          /\ Cardinality(S) \in Nat /\ Cardinality(S \ {Taken(S)}) \in Nat
          /\ Cardinality(S \ {Taken(S)}) + 1 = Cardinality(S)
      BY <2>4, <3>1, Smaller
    <3> QED BY <3>2
  <2>6. S \ {Taken(S)} \notin bad
    BY <2>2, <2>5
  <2>7. D[S \ {Taken(S)}] = E[S \ {Taken(S)}] /\ f[Taken(S)] = g[Taken(S)]
    BY <1>2, <2>3, <2>5, <2>6
  <2> QED BY <1>1, <1>3, <2>3, <2>4, <2>7
<1>5. D[DOMAIN f] = f[x] + D[DOMAIN f \ {x}]
  <2>1. Sums(f, D)
    BY <1>1 DEF Sums
  <2> QED BY <2>1, AnyFirst
<1>6. D[DOMAIN f \ {x}] = Total(g) /\ Total(g) \in Nat
  BY <1>2, <1>3, <1>4
<1> QED BY <1>1, <1>5, <1>6 DEF g

\* The values that are 0 do not count.
LEMMA TotalOfPart ==
  ASSUME NEW f, f = [x \in DOMAIN f |-> f[x]], IsFiniteSet(DOMAIN f), \A x \in DOMAIN f : f[x] \in Nat,
         NEW S \in SUBSET DOMAIN f, \A x \in DOMAIN f \ S : f[x] = 0
  PROVE  Total(f) = Total([x \in S |-> f[x]])
<1> DEFINE part(T) == [x \in T |-> f[x]]
           wrong == {T \in SUBSET DOMAIN f : S \subseteq T /\ Total(part(T)) # Total(part(S))}
<1>1. wrong = {}
  <2>1. SUFFICES ASSUME wrong # {} PROVE FALSE
    OBVIOUS
  <2>2. PICK T \in wrong : \A U \in wrong : Cardinality(T) <= Cardinality(U)
    <3>1. wrong \in SUBSET (SUBSET DOMAIN f)
      OBVIOUS
    <3> HIDE DEF wrong
    <3> QED BY <2>1, <3>1, SmallestSet
  <2>3. T \in SUBSET DOMAIN f /\ S \subseteq T /\ Total(part(T)) # Total(part(S))
    BY <2>2
  <2>4. PICK x \in T : x \notin S
    <3>1. T # S
      BY <2>3
    <3> QED BY <2>3, <3>1
  <2>5. IsFiniteSet(T)
    BY <2>3, FS_Subset
  <2>6. /\ DOMAIN part(T) = T /\ \A y \in DOMAIN part(T) : part(T)[y] \in Nat
        /\ part(T)[x] = 0 /\ Without(part(T), x) = part(T \ {x})
    BY <2>3, <2>4 DEF Without
  <2>7. T \ {x} \notin wrong
    <3>1. Cardinality(T \ {x}) = Cardinality(T) - 1 /\ Cardinality(T) \in Nat
      BY <2>5, FS_RemoveElement, FS_CardinalityType
    <3> HIDE DEF wrong
    <3> QED BY <2>2, <3>1
  <2>8. Total(part(T \ {x})) = Total(part(S))
    BY <2>3, <2>4, <2>7
  <2> HIDE DEF part
  <2>9. Total(part(T)) = 0 + Total(Without(part(T), x)) /\ Total(Without(part(T), x)) \in Nat
    BY <2>4, <2>5, <2>6, TotalWithout
  <2> QED BY <2>3, <2>6, <2>8, <2>9
<1>2. DOMAIN f \notin wrong
  BY <1>1
<1>3. Total(part(DOMAIN f)) = Total(part(S))
  BY <1>2
<1>4. part(DOMAIN f) = f
  OBVIOUS
<1> QED BY <1>3, <1>4

\* A part adds up to no more than the whole.
LEMMA TotalOfLess ==
  ASSUME NEW f, f = [x \in DOMAIN f |-> f[x]], IsFiniteSet(DOMAIN f), \A x \in DOMAIN f : f[x] \in Nat,
         NEW S \in SUBSET DOMAIN f
  PROVE  Total([x \in S |-> f[x]]) <= Total(f)
<1> DEFINE part(T) == [x \in T |-> f[x]]
           wrong == {T \in SUBSET DOMAIN f : S \subseteq T /\ ~(Total(part(S)) <= Total(part(T)))}
<1>0. Total(part(S)) \in Nat
  <2>1. /\ IsFiniteSet(S) /\ DOMAIN part(S) = S
        /\ \A x \in DOMAIN part(S) : part(S)[x] \in Nat
    BY FS_Subset
  <2> HIDE DEF part
  <2> QED BY <2>1, TotalOf
<1>1. wrong = {}
  <2>1. SUFFICES ASSUME wrong # {} PROVE FALSE
    OBVIOUS
  <2>2. PICK T \in wrong : \A U \in wrong : Cardinality(T) <= Cardinality(U)
    <3>1. wrong \in SUBSET (SUBSET DOMAIN f)
      OBVIOUS
    <3> HIDE DEF wrong
    <3> QED BY <2>1, <3>1, SmallestSet
  <2>3. T \in SUBSET DOMAIN f /\ S \subseteq T /\ ~(Total(part(S)) <= Total(part(T)))
    BY <2>2
  <2>4. PICK x \in T : x \notin S
    <3>1. T # S
      BY <1>0, <2>3
    <3> QED BY <2>3, <3>1
  <2>5. IsFiniteSet(T)
    BY <2>3, FS_Subset
  <2>6. /\ DOMAIN part(T) = T /\ \A y \in DOMAIN part(T) : part(T)[y] \in Nat
        /\ part(T)[x] \in Nat /\ Without(part(T), x) = part(T \ {x})
    BY <2>3, <2>4 DEF Without
  <2>7. T \ {x} \notin wrong
    <3>1. Cardinality(T \ {x}) = Cardinality(T) - 1 /\ Cardinality(T) \in Nat
      BY <2>5, FS_RemoveElement, FS_CardinalityType
    <3> HIDE DEF wrong
    <3> QED BY <2>2, <3>1
  <2>8. Total(part(S)) <= Total(part(T \ {x}))
    BY <2>3, <2>4, <2>7
  <2> HIDE DEF part
  <2>9. /\ Total(part(T)) = part(T)[x] + Total(Without(part(T), x))
        /\ Total(Without(part(T), x)) \in Nat
    BY <2>4, <2>5, <2>6, TotalWithout
  <2> QED BY <1>0, <2>3, <2>6, <2>8, <2>9
<1>2. DOMAIN f \notin wrong
  BY <1>1
<1>3. Total(part(S)) <= Total(part(DOMAIN f))
  BY <1>2
<1>4. part(DOMAIN f) = f
  OBVIOUS
<1> QED BY <1>3, <1>4

-----------------------------------------------------------------------------
(* Adding up tables.                                                       *)

\* B with n more of row r.
Plus(B, r, n) == [x \in DOMAIN B \cup {r} |->
                    (IF x \in DOMAIN B THEN B[x] ELSE 0) + (IF x = r THEN n ELSE 0)]

\* Adding to a value adds to the sum.
LEMMA TotalPlus ==
  ASSUME NEW f, f = [x \in DOMAIN f |-> f[x]], IsFiniteSet(DOMAIN f),
         \A x \in DOMAIN f : f[x] \in Nat, NEW r, NEW n \in Nat
  PROVE  Total(Plus(f, r, n)) = Total(f) + n
<1> DEFINE p == Plus(f, r, n)
<1>1. /\ DOMAIN p = DOMAIN f \cup {r}
      /\ \A x \in DOMAIN p : p[x] = (IF x \in DOMAIN f THEN f[x] ELSE 0)
                                      + (IF x = r THEN n ELSE 0)
  BY DEF Plus
<1> HIDE DEF p
<1>2. IsFiniteSet(DOMAIN p) /\ (\A x \in DOMAIN p : p[x] \in Nat) /\ r \in DOMAIN p
  <2>1. IsFiniteSet(DOMAIN p)
    BY <1>1, FS_AddElement
  <2> QED BY <1>1, <2>1
<1>3. Total(p) = p[r] + Total(Without(p, r)) /\ Total(Without(p, r)) \in Nat
  BY <1>2, TotalWithout
<1>4. \A x \in DOMAIN p \ {r} : x \in DOMAIN f /\ p[x] = f[x]
  <2> SUFFICES ASSUME NEW x \in DOMAIN p \ {r} PROVE x \in DOMAIN f /\ p[x] = f[x]
    OBVIOUS
  <2>1. x \in DOMAIN f /\ p[x] = f[x] + 0 /\ f[x] \in Nat
    BY <1>1
  <2> QED BY <2>1
<1>5. CASE r \in DOMAIN f
  <2>1. Total(f) = f[r] + Total(Without(f, r))
    BY <1>5, TotalWithout
  <2>2. Without(p, r) = Without(f, r)
    BY <1>1, <1>4 DEF Without
  <2>3. p[r] = f[r] + n /\ f[r] \in Nat
    BY <1>1, <1>5
  <2> HIDE DEF p
  <2> QED BY <1>3, <2>1, <2>2, <2>3 DEF p
<1>6. CASE r \notin DOMAIN f
  <2>1. Without(p, r) = f
    <3>1. DOMAIN p \ {r} = DOMAIN f
      BY <1>1, <1>6
    <3>2. Without(p, r) = [x \in DOMAIN f |-> f[x]]
      BY <1>4, <3>1 DEF Without
    <3> QED BY <3>2
  <2>2. p[r] = 0 + n
    BY <1>1, <1>2, <1>6
  <2> QED BY <1>3, <2>1, <2>2 DEF p
<1> QED BY <1>5, <1>6

\* UPDATE treats a row like the rows before it.
LEMMA MappedPlus ==
  ASSUME NEW g, NEW B, IsABag(B), IsFiniteSet(DOMAIN B), NEW r, NEW n \in Nat, n > 0
  PROVE  Mapped(g, Plus(B, r, n)) = Plus(Mapped(g, B), g[r], n)
<1> DEFINE P == Plus(B, r, n)
           copies(e) == [d \in DOMAIN B |-> IF g[d] = e THEN B[d] ELSE 0]
           more(e) == [d \in DOMAIN P |-> IF g[d] = e THEN P[d] ELSE 0]
           images == {g[d] : d \in DOMAIN B}
<1>1. /\ DOMAIN P = DOMAIN B \cup {r}
      /\ \A x \in DOMAIN P : P[x] = (IF x \in DOMAIN B THEN B[x] ELSE 0)
                                      + (IF x = r THEN n ELSE 0)
  BY DEF Plus
<1>2. \A x \in DOMAIN B : B[x] \in Nat /\ B[x] > 0
  BY BagHas
<1> HIDE DEF P
<1>3. {g[d] : d \in DOMAIN P} = images \cup {g[r]}
  BY <1>1
<1>4. Mapped(g, P) = [e \in images \cup {g[r]} |-> Total(more(e))]
  BY <1>3 DEF Mapped
<1>5. Mapped(g, B) = [e \in images |-> Total(copies(e))]
  BY DEF Mapped
<1>6. Plus(Mapped(g, B), g[r], n) =
        [e \in images \cup {g[r]} |->
           (IF e \in images THEN Total(copies(e)) ELSE 0) + (IF e = g[r] THEN n ELSE 0)]
  BY <1>5 DEF Plus
<1>7. ASSUME NEW e \in images \cup {g[r]}
      PROVE  Total(more(e)) =
               (IF e \in images THEN Total(copies(e)) ELSE 0) + (IF e = g[r] THEN n ELSE 0)
  <2> DEFINE f == copies(e)
             k == IF e = g[r] THEN n ELSE 0
  <2>1. /\ f = [d \in DOMAIN f |-> f[d]] /\ DOMAIN f = DOMAIN B
        /\ \A d \in DOMAIN f : f[d] = IF g[d] = e THEN B[d] ELSE 0
    OBVIOUS
  <2>2. k \in Nat
    OBVIOUS
  <2>3. more(e) = Plus(f, r, k)
    <3>1. Plus(f, r, k) = [d \in DOMAIN P |-> (IF d \in DOMAIN B THEN f[d] ELSE 0)
                                                + (IF d = r THEN k ELSE 0)]
      BY <1>1 DEF Plus
    <3>2. ASSUME NEW d \in DOMAIN P
          PROVE  (IF g[d] = e THEN P[d] ELSE 0) =
                   (IF d \in DOMAIN B THEN f[d] ELSE 0) + (IF d = r THEN k ELSE 0)
      <4> HIDE DEF f
      <4>1. CASE g[d] = e
        BY <1>1, <1>2, <2>1, <4>1
      <4>2. CASE g[d] # e
        <5>1. d = r => k = 0
          BY <4>2
        <5>2. d \in DOMAIN B => f[d] = 0
          BY <2>1, <4>2
        <5> QED BY <4>2, <5>1, <5>2
      <4> QED BY <4>1, <4>2
    <3> HIDE DEF f, k
    <3> QED BY <3>1, <3>2
  <2>4. IsFiniteSet(DOMAIN f) /\ \A d \in DOMAIN f : f[d] \in Nat
    BY <1>2, <2>1
  <2> HIDE DEF f
  <2>5. Total(more(e)) = Total(f) + k
    <3> HIDE DEF k, more
    <3> QED BY <2>1, <2>2, <2>3, <2>4, TotalPlus
  <2>6. CASE e \in images
    BY <2>5, <2>6 DEF f
  <2>7. CASE e \notin images
    <3>1. \A d \in DOMAIN f : f[d] = 0
      BY <2>1, <2>7
    <3>2. Total(f) = 0
      BY <2>4, <3>1, TotalOf
    <3> HIDE DEF more, images, copies
    <3> QED BY <2>5, <2>7, <3>2
  <2> QED BY <2>6, <2>7
<1> HIDE DEF images, copies, more
<1>8. Mapped(g, P) = Plus(Mapped(g, B), g[r], n)
  BY <1>4, <1>6, <1>7
<1> QED BY <1>8 DEF P

LEMMA SumPlus ==
  ASSUME NEW B, IsABag(B), NEW C, IsABag(C), NEW r, NEW n \in Nat
  PROVE  /\ Plus(B, r, n) (+) C = Plus(B (+) C, r, n)
         /\ B (+) Plus(C, r, n) = Plus(B (+) C, r, n)
<1> DEFINE b(x) == IF x \in DOMAIN B THEN B[x] ELSE 0
           c(x) == IF x \in DOMAIN C THEN C[x] ELSE 0
           m(x) == IF x = r THEN n ELSE 0
           all == DOMAIN B \cup DOMAIN C \cup {r}
<1>1. \A x : b(x) \in Nat /\ c(x) \in Nat /\ m(x) \in Nat
  BY BagHas
<1>2. Plus(B (+) C, r, n) = [x \in all |-> (b(x) + c(x)) + m(x)]
  <2>1. B (+) C = [x \in DOMAIN B \cup DOMAIN C |-> b(x) + c(x)]
    BY DEF (+)
  <2>2. ASSUME NEW x \in all
        PROVE  (IF x \in DOMAIN (B (+) C) THEN (B (+) C)[x] ELSE 0) = b(x) + c(x)
    BY <2>1
  <2>3. Plus(B (+) C, r, n) =
          [x \in all |-> (IF x \in DOMAIN (B (+) C) THEN (B (+) C)[x] ELSE 0) + m(x)]
    BY <2>1 DEF Plus
  <2> HIDE DEF b, c, m, all
  <2> QED BY <2>2, <2>3
<1>3. Plus(B, r, n) (+) C = [x \in all |-> (b(x) + m(x)) + c(x)]
  <2> DEFINE P == Plus(B, r, n)
  <2>1. P = [x \in DOMAIN B \cup {r} |-> b(x) + m(x)]
    BY DEF Plus
  <2>2. ASSUME NEW x \in all PROVE (IF x \in DOMAIN P THEN P[x] ELSE 0) = b(x) + m(x)
    BY <2>1
  <2>3. P (+) C = [x \in all |-> (IF x \in DOMAIN P THEN P[x] ELSE 0) + c(x)]
    <3>1. DOMAIN P \cup DOMAIN C = all
      BY <2>1
    <3> HIDE DEF P, all
    <3> QED BY <3>1 DEF (+)
  <2> HIDE DEF b, c, m, all, P
  <2>4. P (+) C = [x \in all |-> (b(x) + m(x)) + c(x)]
    BY <2>2, <2>3
  <2> QED BY <2>4 DEF P
<1>4. B (+) Plus(C, r, n) = [x \in all |-> b(x) + (c(x) + m(x))]
  <2> DEFINE P == Plus(C, r, n)
  <2>1. P = [x \in DOMAIN C \cup {r} |-> c(x) + m(x)]
    BY DEF Plus
  <2>2. ASSUME NEW x \in all PROVE (IF x \in DOMAIN P THEN P[x] ELSE 0) = c(x) + m(x)
    BY <2>1
  <2>3. B (+) P = [x \in all |-> b(x) + (IF x \in DOMAIN P THEN P[x] ELSE 0)]
    <3>1. DOMAIN B \cup DOMAIN P = all
      BY <2>1
    <3> HIDE DEF P, all
    <3> QED BY <3>1 DEF (+)
  <2> HIDE DEF b, c, m, all, P
  <2>4. B (+) P = [x \in all |-> b(x) + (c(x) + m(x))]
    BY <2>2, <2>3
  <2> QED BY <2>4 DEF P
<1> HIDE DEF b, c, m, all
<1>5. \A x : /\ (b(x) + m(x)) + c(x) = (b(x) + c(x)) + m(x)
             /\ b(x) + (c(x) + m(x)) = (b(x) + c(x)) + m(x)
  BY <1>1
<1> QED BY <1>2, <1>3, <1>4, <1>5

LEMMA OneMoreIsPlus ==
  ASSUME NEW B, NEW r PROVE B (+) SetToBag({r}) = Plus(B, r, 1)
<1>1. SetToBag({r}) = [x \in {r} |-> 1]
  BY DEF SetToBag
<1> QED BY <1>1 DEF (+), Plus

LEMMA PartPlus ==
  ASSUME NEW B, NEW T, NEW d \in T, \A x \in T : B[x] \in Nat
  PROVE  [x \in T |-> B[x]] = Plus([x \in T \ {d} |-> B[x]], d, B[d])
<1> DEFINE P == [x \in T \ {d} |-> B[x]]
<1>1. DOMAIN P \cup {d} = T
  OBVIOUS
<1>2. ASSUME NEW x \in T
      PROVE  B[x] = (IF x \in DOMAIN P THEN P[x] ELSE 0) + (IF x = d THEN B[d] ELSE 0)
  OBVIOUS
<1> HIDE DEF P
<1>3. [x \in T |-> B[x]] = Plus(P, d, B[d])
  BY <1>1, <1>2 DEF Plus
<1> QED BY <1>3 DEF P

LEMMA PartBag ==
  ASSUME NEW B, IsABag(B), IsFiniteSet(DOMAIN B), NEW T \in SUBSET DOMAIN B
  PROVE  IsABag([x \in T |-> B[x]]) /\ IsFiniteSet(DOMAIN [x \in T |-> B[x]])
<1> DEFINE C == [x \in T |-> B[x]]
<1>1. DOMAIN C \subseteq DOMAIN B /\ C = [x \in DOMAIN C |-> B[x]]
  OBVIOUS
<1> HIDE DEF C
<1>2. IsABag(C) /\ IsFiniteSet(DOMAIN C)
  BY <1>1, SomeRows
<1> QED BY <1>2 DEF C

LEMMA MappedSame ==
  ASSUME NEW B, NEW g, NEW h, \A x \in DOMAIN B : g[x] = h[x]
  PROVE  Mapped(g, B) = Mapped(h, B)
<1>1. {g[d] : d \in DOMAIN B} = {h[d] : d \in DOMAIN B}
  OBVIOUS
<1>2. \A e : [d \in DOMAIN B |-> IF g[d] = e THEN B[d] ELSE 0] =
             [d \in DOMAIN B |-> IF h[d] = e THEN B[d] ELSE 0]
  OBVIOUS
<1> QED BY <1>1, <1>2 DEF Mapped

LEMMA MappedBag ==
  ASSUME NEW B, IsABag(B), IsFiniteSet(DOMAIN B), NEW g
  PROVE  IsABag(Mapped(g, B)) /\ IsFiniteSet(DOMAIN Mapped(g, B))
<1> DEFINE f == [d \in DOMAIN B |-> g[d]]
<1>1. DOMAIN f = DOMAIN B /\ \A x \in DOMAIN B : f[x] = g[x]
  OBVIOUS
<1> HIDE DEF f
<1>2. Mapped(f, B) = Mapped(g, B)
  BY <1>1, MappedSame
<1>3. IsABag(Mapped(f, B)) /\ IsFiniteSet(DOMAIN Mapped(f, B))
  BY <1>1, MappedRows
<1> QED BY <1>2, <1>3

LEMMA MappedNothing ==
  ASSUME NEW B, DOMAIN B = {}, NEW g PROVE Mapped(g, B) = EmptyBag
BY DEF Mapped, EmptyBag, SetToBag

\* Some rows, those of W, are first replaced by others; if in the end both
\* come to the same, the replacement makes no difference.
LEMMA MappedAgain ==
  ASSUME NEW B, IsABag(B), IsFiniteSet(DOMAIN B), NEW W \in SUBSET DOMAIN B,
         NEW h, NEW k, \A x \in W : k[h[x]] = k[x]
  PROVE  Mapped(k, [x \in DOMAIN B \ W |-> B[x]] (+) Mapped(h, [x \in W |-> B[x]]))
           = Mapped(k, B)
<1> DEFINE part(T) == [x \in T |-> B[x]]
           both(T) == part(T \ W) (+) Mapped(h, part(T \cap W))
           wrong == {T \in SUBSET DOMAIN B : Mapped(k, both(T)) # Mapped(k, part(T))}
<1>1. \A x \in DOMAIN B : B[x] \in Nat /\ B[x] > 0
  BY BagHas
<1>2. \A T \in SUBSET DOMAIN B : IsABag(part(T)) /\ IsFiniteSet(DOMAIN part(T))
  BY PartBag
<1>3. \A T \in SUBSET DOMAIN B : \A d \in T : part(T) = Plus(part(T \ {d}), d, B[d])
  <2> SUFFICES ASSUME NEW T \in SUBSET DOMAIN B, NEW d \in T
               PROVE  part(T) = Plus(part(T \ {d}), d, B[d])
    OBVIOUS
  <2> QED BY <1>1, PartPlus
<1>4. \A T \in SUBSET DOMAIN B :
        /\ IsABag(part(T \ W)) /\ IsFiniteSet(DOMAIN part(T \ W))
        /\ IsABag(Mapped(h, part(T \cap W))) /\ IsFiniteSet(DOMAIN Mapped(h, part(T \cap W)))
        /\ IsABag(both(T)) /\ IsFiniteSet(DOMAIN both(T))
  <2> SUFFICES ASSUME NEW T \in SUBSET DOMAIN B
               PROVE /\ IsABag(part(T \ W)) /\ IsFiniteSet(DOMAIN part(T \ W))
                     /\ IsABag(Mapped(h, part(T \cap W)))
                     /\ IsFiniteSet(DOMAIN Mapped(h, part(T \cap W)))
                     /\ IsABag(both(T)) /\ IsFiniteSet(DOMAIN both(T))
    OBVIOUS
  <2>1. T \ W \in SUBSET DOMAIN B /\ T \cap W \in SUBSET DOMAIN B
    OBVIOUS
  <2> HIDE DEF part
  <2>2. IsABag(Mapped(h, part(T \cap W))) /\ IsFiniteSet(DOMAIN Mapped(h, part(T \cap W)))
    BY <1>2, <2>1, MappedBag
  <2> QED BY <1>2, <2>1, <2>2, AllRows
<1>5. wrong = {}
  <2>1. SUFFICES ASSUME wrong # {} PROVE FALSE
    OBVIOUS
  <2>2. PICK T \in wrong : \A U \in wrong : Cardinality(T) <= Cardinality(U)
    <3>1. wrong \in SUBSET (SUBSET DOMAIN B)
      OBVIOUS
    <3> HIDE DEF wrong
    <3> QED BY <2>1, <3>1, SmallestSet
  <2>3. T \in SUBSET DOMAIN B /\ Mapped(k, both(T)) # Mapped(k, part(T))
    BY <2>2
  <2>4. T # {}
    <3>1. ASSUME T = {} PROVE both(T) = part(T)
      <4>1. T \ W = {} /\ T \cap W = {}
        BY <3>1
      <4>2. DOMAIN Mapped(h, part({})) = {} /\ DOMAIN part({}) = {}
        BY DEF Mapped
      <4>3. part({}) (+) Mapped(h, part({})) = part({})
        <5>1. part({}) = [x \in {} |-> 0]
          OBVIOUS
        <5> QED BY <4>2, <5>1 DEF (+)
      <4> QED BY <3>1, <4>1, <4>3
    <3> HIDE DEF both, part
    <3> QED BY <2>3, <3>1
  <2>5. PICK d \in T : TRUE
    BY <2>4
  <2> DEFINE S == T \ {d}
             n == B[d]
  <2>6. S \in SUBSET DOMAIN B /\ S \notin wrong
    <3>1. IsFiniteSet(T)
      BY <2>3, FS_Subset
    <3>2. Cardinality(S) = Cardinality(T) - 1 /\ Cardinality(T) \in Nat
      BY <3>1, FS_RemoveElement, FS_CardinalityType
    <3> HIDE DEF wrong
    <3> QED BY <2>2, <2>3, <3>2
  <2>7. Mapped(k, both(S)) = Mapped(k, part(S))
    BY <2>6
  <2>8. n \in Nat /\ n > 0
    BY <1>1, <2>3
  <2>9. Mapped(k, part(T)) = Plus(Mapped(k, part(S)), k[d], n)
    <3>1. part(T) = Plus(part(S), d, n)
      BY <1>3, <2>3
    <3> HIDE DEF part, n, S
    <3> QED BY <1>2, <2>6, <2>8, <3>1, MappedPlus
  <2>10. /\ IsABag(part(S \ W)) /\ IsABag(Mapped(h, part(S \cap W)))
         /\ IsABag(both(S)) /\ IsFiniteSet(DOMAIN both(S))
    <3> HIDE DEF both, part, S
    <3> QED BY <1>4, <2>6
  <2>11. Mapped(k, both(T)) = Plus(Mapped(k, both(S)), k[d], n)
    <3>1. CASE d \notin W
      <4>1. T \cap W = S \cap W /\ T \ W \in SUBSET DOMAIN B /\ d \in T \ W
            /\ (T \ W) \ {d} = S \ W
        BY <2>3, <3>1
      <4>2. part(T \ W) = Plus(part(S \ W), d, n)
        BY <1>3, <4>1
      <4>3. both(T) = Plus(both(S), d, n)
        <5>1. both(T) = Plus(part(S \ W), d, n) (+) Mapped(h, part(S \cap W))
          <6> HIDE DEF part, n, S
          <6> QED BY <4>1, <4>2
        <5> HIDE DEF part, n, S
        <5>2. Plus(part(S \ W), d, n) (+) Mapped(h, part(S \cap W)) = Plus(both(S), d, n)
          BY <2>8, <2>10, SumPlus
        <5> QED BY <5>1, <5>2
      <4> HIDE DEF both, n, S
      <4> QED BY <2>8, <2>10, <4>3, MappedPlus
    <3>2. CASE d \in W
      <4>1. T \ W = S \ W /\ T \cap W \in SUBSET DOMAIN B /\ d \in T \cap W
            /\ (T \cap W) \ {d} = S \cap W /\ S \cap W \in SUBSET DOMAIN B
        BY <2>3, <3>2
      <4>2. part(T \cap W) = Plus(part(S \cap W), d, n)
        BY <1>3, <4>1
      <4>3. Mapped(h, part(T \cap W)) = Plus(Mapped(h, part(S \cap W)), h[d], n)
        <5> HIDE DEF part, n, S
        <5> QED BY <1>2, <2>8, <4>1, <4>2, MappedPlus
      <4>4. both(T) = Plus(both(S), h[d], n)
        <5>1. both(T) = part(S \ W) (+) Plus(Mapped(h, part(S \cap W)), h[d], n)
          <6> HIDE DEF part, n, S
          <6> QED BY <4>1, <4>3
        <5> HIDE DEF part, n, S
        <5>2. part(S \ W) (+) Plus(Mapped(h, part(S \cap W)), h[d], n) = Plus(both(S), h[d], n)
          BY <2>8, <2>10, SumPlus
        <5> QED BY <5>1, <5>2
      <4>5. k[h[d]] = k[d]
        BY <3>2
      <4> HIDE DEF both, n, S
      <4>6. Mapped(k, Plus(both(S), h[d], n)) = Plus(Mapped(k, both(S)), k[h[d]], n)
        BY <2>8, <2>10, MappedPlus
      <4> QED BY <4>4, <4>5, <4>6
    <3> QED BY <3>1, <3>2
  <2> HIDE DEF both, part, n, S
  <2> QED BY <2>3, <2>7, <2>9, <2>11
<1>6. Mapped(k, both(DOMAIN B)) = Mapped(k, part(DOMAIN B))
  BY <1>5
<1>7. DOMAIN B \cap W = W /\ part(DOMAIN B) = B
  BY BagHas
<1> QED BY <1>6, <1>7

\* DELETE by what the rows come to.
LEMMA MappedPart ==
  ASSUME NEW B, IsABag(B), IsFiniteSet(DOMAIN B), NEW g, NEW Z
  PROVE  Mapped(g, [x \in {y \in DOMAIN B : g[y] \in Z} |-> B[x]])
           = [e \in {x \in DOMAIN Mapped(g, B) : x \in Z} |-> Mapped(g, B)[e]]
<1> DEFINE S == {y \in DOMAIN B : g[y] \in Z}
           C == [x \in S |-> B[x]]
           copies(e) == [d \in DOMAIN B |-> IF g[d] = e THEN B[d] ELSE 0]
           kept(e) == [d \in S |-> IF g[d] = e THEN C[d] ELSE 0]
<1>1. DOMAIN Mapped(g, B) = {g[d] : d \in DOMAIN B}
      /\ \A e \in {g[d] : d \in DOMAIN B} : Mapped(g, B)[e] = Total(copies(e))
  BY DEF Mapped
<1>2. Mapped(g, C) = [e \in {g[d] : d \in S} |-> Total(kept(e))]
  BY DEF Mapped
<1>3. {g[d] : d \in S} = {x \in DOMAIN Mapped(g, B) : x \in Z}
  BY <1>1
<1>4. ASSUME NEW e \in {g[d] : d \in S} PROVE Total(kept(e)) = Total(copies(e))
  <2> DEFINE f == copies(e)
  <2>1. /\ f = [d \in DOMAIN f |-> f[d]] /\ DOMAIN f = DOMAIN B /\ S \in SUBSET DOMAIN f
        /\ \A d \in DOMAIN f \ S : f[d] = 0
    BY <1>4
  <2>2. \A d \in DOMAIN f : f[d] \in Nat
    BY BagHas
  <2>3. kept(e) = [d \in S |-> f[d]]
    OBVIOUS
  <2> HIDE DEF f, S
  <2>4. Total(f) = Total([d \in S |-> f[d]])
    BY <2>1, <2>2, TotalOfPart
  <2> QED BY <2>3, <2>4 DEF f
<1> HIDE DEF S, copies, kept
<1>5. Mapped(g, C) = [e \in {x \in DOMAIN Mapped(g, B) : x \in Z} |-> Mapped(g, B)[e]]
  <2>1. \A e \in {g[d] : d \in S} : Total(kept(e)) = Mapped(g, B)[e]
    BY <1>1, <1>3, <1>4
  <2> QED BY <1>2, <1>3, <2>1
<1> QED BY <1>5 DEF S

\* What is left of a row's image when some rows go: no more than there was,
LEMMA MappedLess ==
  ASSUME NEW B, IsABag(B), IsFiniteSet(DOMAIN B), NEW g, NEW S \in SUBSET DOMAIN B
  PROVE  \A e \in DOMAIN Mapped(g, [x \in S |-> B[x]]) :
           Mapped(g, [x \in S |-> B[x]])[e] <= Mapped(g, B)[e]
<1> DEFINE C == [x \in S |-> B[x]]
           copies(e) == [d \in DOMAIN B |-> IF g[d] = e THEN B[d] ELSE 0]
           kept(e) == [d \in S |-> IF g[d] = e THEN C[d] ELSE 0]
<1>1. Mapped(g, B) = [e \in {g[d] : d \in DOMAIN B} |-> Total(copies(e))]
  BY DEF Mapped
<1>2. Mapped(g, C) = [e \in {g[d] : d \in S} |-> Total(kept(e))]
  BY DEF Mapped
<1>3. ASSUME NEW e \in {g[d] : d \in S} PROVE Total(kept(e)) <= Total(copies(e))
  <2> DEFINE f == copies(e)
  <2>1. f = [d \in DOMAIN f |-> f[d]] /\ DOMAIN f = DOMAIN B /\ S \in SUBSET DOMAIN f
    OBVIOUS
  <2>2. \A d \in DOMAIN f : f[d] \in Nat
    BY BagHas
  <2>3. kept(e) = [d \in S |-> f[d]]
    OBVIOUS
  <2> HIDE DEF f
  <2>4. Total([d \in S |-> f[d]]) <= Total(f)
    BY <2>1, <2>2, TotalOfLess
  <2> QED BY <2>3, <2>4 DEF f
<1>4. \A e \in {g[d] : d \in S} : e \in {g[d] : d \in DOMAIN B}
  OBVIOUS
<1> HIDE DEF copies, kept, C
<1>5. \A e \in DOMAIN Mapped(g, C) : Mapped(g, C)[e] <= Mapped(g, B)[e]
  BY <1>1, <1>2, <1>3, <1>4
<1> QED BY <1>5 DEF C

\* and all of it, if none of its rows go.
LEMMA MappedWhole ==
  ASSUME NEW B, IsABag(B), IsFiniteSet(DOMAIN B), NEW g, NEW S \in SUBSET DOMAIN B,
         NEW e \in DOMAIN Mapped(g, B), \A y \in DOMAIN B : g[y] = e => y \in S
  PROVE  /\ e \in DOMAIN Mapped(g, [x \in S |-> B[x]])
         /\ Mapped(g, [x \in S |-> B[x]])[e] = Mapped(g, B)[e]
<1> DEFINE C == [x \in S |-> B[x]]
           copies(a) == [d \in DOMAIN B |-> IF g[d] = a THEN B[d] ELSE 0]
           kept(a) == [d \in S |-> IF g[d] = a THEN C[d] ELSE 0]
           f == copies(e)
<1>1. Mapped(g, B) = [a \in {g[d] : d \in DOMAIN B} |-> Total(copies(a))]
  BY DEF Mapped
<1>2. Mapped(g, C) = [a \in {g[d] : d \in S} |-> Total(kept(a))]
  BY DEF Mapped
<1>3. e \in {g[d] : d \in DOMAIN B} /\ e \in {g[d] : d \in S}
  BY <1>1
<1>4. /\ f = [d \in DOMAIN f |-> f[d]] /\ DOMAIN f = DOMAIN B /\ S \in SUBSET DOMAIN f
      /\ \A d \in DOMAIN f \ S : f[d] = 0
  OBVIOUS
<1>5. \A d \in DOMAIN f : f[d] \in Nat
  BY BagHas
<1>6. kept(e) = [d \in S |-> f[d]]
  OBVIOUS
<1>7. Total(f) = Total([d \in S |-> f[d]])
  <2> HIDE DEF f
  <2> QED BY <1>4, <1>5, TotalOfPart
<1>8. Total(kept(e)) = Total(copies(e))
  BY <1>6, <1>7
<1> HIDE DEF copies, kept, C, f
<1>9. e \in DOMAIN Mapped(g, C) /\ Mapped(g, C)[e] = Mapped(g, B)[e]
  BY <1>1, <1>2, <1>3, <1>8
<1> QED BY <1>9 DEF C

---------------------------------------------------------------------------
(* Rows find their names.                                                  *)

\* How far a purge has got: what it has emptied stays empty.
PurgeOrder ==
  /\ purge \in 0..3
  /\ purge \in {1, 2, 3} => DOMAIN events = {}
  /\ purge \in {1, 2} => DOMAIN rollups = {}

Resolves == \A x \in DOMAIN events \cup DOMAIN rollups : Known(x)

ResolveInv ==
  /\ DOMAIN dict = Tables
  /\ PurgeOrder
  /\ Resolves

LEMMA SumDomain ==
  ASSUME NEW B, NEW C
  PROVE DOMAIN (B (+) C) = DOMAIN B \cup DOMAIN C
BY DEF (+)

LEMMA OneMore ==
  ASSUME NEW B, NEW x
  PROVE DOMAIN (B (+) SetToBag({x})) = DOMAIN B \cup {x}
<1>1. DOMAIN SetToBag({x}) = {x}
  BY DEF SetToBag
<1> QED BY <1>1, SumDomain

\* Folding keeps the references: a folded row has the ref of an old one.
LEMMA FoldedRefs ==
  ASSUME NEW x \in DOMAIN Folded
  PROVE \E y \in DOMAIN rollups : x.ref = y.ref
<1>1. DOMAIN Only(rollups, LAMBDA z : ~ToFold(z)) \subseteq DOMAIN rollups
  BY DEF Only
<1>2. DOMAIN Only(rollups, ToFold) \subseteq DOMAIN rollups
  BY DEF Only
<1>3. DOMAIN BagOfAll(AsDay, Only(rollups, ToFold))
        = {AsDay(z) : z \in DOMAIN Only(rollups, ToFold)}
  BY DEF BagOfAll, BagToSet
<1>4. CASE x \in DOMAIN Only(rollups, LAMBDA z : ~ToFold(z))
  BY <1>1, <1>4
<1>5. CASE x \in {AsDay(z) : z \in DOMAIN Only(rollups, ToFold)}
  <2>1. PICK z \in DOMAIN Only(rollups, ToFold) : x = AsDay(z)
    BY <1>5
  <2>2. x.ref = z.ref
    BY <2>1 DEF AsDay
  <2> QED BY <1>2, <2>2
<1> DEFINE Rest == Only(rollups, LAMBDA z : ~ToFold(z))
           Days == BagOfAll(AsDay, Only(rollups, ToFold))
<1>6. Folded = Rest (+) Days
  BY DEF Folded
<1>7. DOMAIN (Rest (+) Days) = DOMAIN Rest \cup DOMAIN Days
  <2> HIDE DEF Rest, Days
  <2> QED BY SumDomain
<1>8. x \in DOMAIN Rest \/ x \in DOMAIN Days
  <2> HIDE DEF Rest, Days
  <2> QED BY <1>6, <1>7
<1> QED BY <1>3, <1>4, <1>5, <1>8

---------------------------------------------------------------------------
(* The steps                                                               *)

\* Entries are added, never replaced, and the new row finds its own.
LEMMA AddEventResolves ==
  ASSUME ResolveInv, NEW ts, NEW q, AddEvent(ts, q)
  PROVE Resolves'
<1> DEFINE ref == [t \in Tables |-> Lookup(t, q[t])]
           event == [ts |-> ts, ref |-> ref]
           row == [bucket |-> HourOf(ts), span |-> "h", ref |-> ref]
<1>1. DOMAIN events' \subseteq DOMAIN events \cup {event}
  <2>1. events' \in {events, events (+) SetToBag({event})}
    BY DEF AddEvent
  <2> HIDE DEF event
  <2> QED BY <2>1, OneMore
<1>2. DOMAIN rollups' = DOMAIN rollups \cup {row}
  <2>1. rollups' = rollups (+) SetToBag({row})
    BY DEF AddEvent
  <2> HIDE DEF row
  <2> QED BY <2>1, OneMore
<1>3. \A t \in Tables : DOMAIN dict'[t] = DOMAIN dict[t] \cup {ref[t]}
  BY DEF AddEvent, WithEntry
<1>4. event.ref = ref /\ row.ref = ref
  OBVIOUS
<1>5. SUFFICES ASSUME NEW x \in DOMAIN events' \cup DOMAIN rollups', NEW t \in Tables
               PROVE x.ref[t] \in DOMAIN dict'[t]
  BY DEF Resolves, Known
<1>6. CASE x \in DOMAIN events \cup DOMAIN rollups
  BY <1>3, <1>6 DEF ResolveInv, Resolves, Known
<1>7. CASE x \in {event, row}
  <2> HIDE DEF event, row, ref
  <2> QED BY <1>3, <1>4, <1>7
<1> HIDE DEF event, row, ref
<1> QED BY <1>1, <1>2, <1>5, <1>6, <1>7

\* What is swept is not referred to, and folding refers to nothing new.
LEMMA PruneResolves ==
  ASSUME ResolveInv, Prune
  PROVE /\ DOMAIN dict' = Tables
        /\ DOMAIN events' \subseteq DOMAIN events
        /\ DOMAIN rollups = {} => DOMAIN rollups' = {}
        /\ Resolves'
<1>1. DOMAIN events' \subseteq DOMAIN events
  BY DEF Prune, Only
<1>2. DOMAIN rollups' \subseteq DOMAIN Folded
  BY DEF Prune, Only
<1>3. \A x \in DOMAIN events' \cup DOMAIN rollups' :
        \E y \in DOMAIN events \cup DOMAIN rollups : x.ref = y.ref
  BY <1>1, <1>2, FoldedRefs
<1>4. \A x \in DOMAIN events' \cup DOMAIN rollups', t \in Tables :
        x.ref[t] \in DOMAIN dict[t]
  BY <1>3 DEF ResolveInv, Resolves, Known
<1>5. dict' = dict \/ dict' = Swept(events', rollups')
  BY DEF Prune
<1>6. DOMAIN dict' = Tables
  BY <1>5 DEF ResolveInv, Swept
<1>7. Resolves'
  <2>1. CASE dict' = dict
    BY <1>4, <2>1 DEF Resolves, Known
  <2>2. CASE dict' = Swept(events', rollups')
    <3>1. \A t \in Tables : DOMAIN dict'[t]
            = DOMAIN dict[t] \cap {x.ref[t] : x \in DOMAIN events' \cup DOMAIN rollups'}
      BY <2>2 DEF Swept, UsedIds
    <3> QED BY <1>4, <3>1 DEF Resolves, Known
  <2> QED BY <1>5, <2>1, <2>2
<1> QED BY <1>1, <1>2, <1>6, <1>7, FoldedRefs

LEMMA EmptyBagDomain == DOMAIN EmptyBag = {}
BY DEF EmptyBag, SetToBag

LEMMA ResolveInit == Init => ResolveInv
BY EmptyBagDomain DEF Init, ResolveInv, PurgeOrder, Resolves

LEMMA ResolveStep ==
  ASSUME ResolveInv, [Next]_vars, ~mixed'
  PROVE ResolveInv'
<1> USE DEF ResolveInv
<1>1. CASE AddBatch
  <2>1. PICK l \in Lateness, q \in Query : AddEvent(now - l, q)
    BY <1>1 DEF AddBatch
  <2>2. Resolves'
    BY <2>1, AddEventResolves
  <2>3. DOMAIN dict' = Tables
    BY <2>1 DEF AddEvent
  <2>4. PurgeOrder'
    <3>1. purge = 0 /\ purge' = purge
      BY <1>1 DEF AddBatch
    <3> QED BY <3>1 DEF PurgeOrder
  <2> QED BY <2>2, <2>3, <2>4
<1>2. CASE Prune
  <2>1. PurgeOrder'
    BY <1>2, PruneResolves DEF Prune, PurgeOrder
  <2> QED BY <1>2, <2>1, PruneResolves
<1>3. CASE PurgeEvents
  <2>1. DOMAIN events' = {} /\ rollups' = rollups /\ dict' = dict /\ purge' = 3
    BY <1>3, EmptyBagDomain DEF PurgeEvents, Statement
  <2> QED BY <2>1 DEF PurgeOrder, Resolves, Known
<1>4. CASE PurgeRollups
  <2>1. /\ purge = 3 /\ purge' = 2
        /\ DOMAIN rollups' = {} /\ events' = events /\ dict' = dict
    BY <1>4, EmptyBagDomain DEF PurgeRollups, Statement
  <2> QED BY <2>1 DEF PurgeOrder, Resolves, Known
<1>5. CASE PurgeNames
  <2>1. /\ purge = 2 /\ purge' = 1
        /\ events' = events /\ rollups' = rollups /\ DOMAIN dict' = DOMAIN dict
    BY <1>5 DEF PurgeNames, Statement
  <2> QED BY <2>1 DEF PurgeOrder, Resolves
<1>6. CASE PurgeClients
  <2>1. /\ purge = 1 /\ purge' = 0
        /\ events' = events /\ rollups' = rollups /\ DOMAIN dict' = DOMAIN dict
    BY <1>6 DEF PurgeClients, Statement
  <2> QED BY <2>1 DEF PurgeOrder, Resolves
<1>7. CASE PurgeCrash
  BY <1>7 DEF PurgeCrash, tables, PurgeOrder, Resolves, Known
<1>8. CASE Tick
  BY <1>8 DEF Tick, tables, PurgeOrder, Resolves, Known
<1>9. CASE SetRetention
  BY <1>9 DEF SetRetention, tables, PurgeOrder, Resolves, Known
<1>10. CASE UNCHANGED vars
  BY <1>10 DEF vars, tables, PurgeOrder, Resolves, Known
<1> QED
  BY <1>1, <1>2, <1>3, <1>4, <1>5, <1>6, <1>7, <1>8, <1>9, <1>10 DEF Next

\* An ingest that was mixed with a purge stays on record.
LEMMA MixedStays == [Next]_vars /\ mixed => mixed'
BY DEF Next, AddBatch, Prune, PurgeEvents, PurgeRollups, PurgeNames, PurgeClients,
       Statement, PurgeCrash, Tick, SetRetention, vars

\* Until an ingester commits between two statements of a purge, every stored
\* event and count resolves in every state of StatsStore: of any number of
\* queries, purges, kills and clean-ups, under any retentions.
THEOREM RowsResolve == Spec => []ReferencesResolve
<1>1. Init => (~mixed => ResolveInv)
  BY ResolveInit
<1>2. (~mixed => ResolveInv) /\ [Next]_vars => (~mixed => ResolveInv)'
  BY ResolveStep, MixedStays
<1>3. (~mixed => ResolveInv) => ReferencesResolve
  BY DEF ResolveInv, Resolves, ReferencesResolve
<1> QED BY <1>1, <1>2, <1>3, PTL DEF Spec

---------------------------------------------------------------------------
(* Hours and days                                                          *)

LEMMA Floor ==
  ASSUME NEW n \in Nat, NEW d \in Nat \ {0}
  PROVE  /\ n - (n % d) \in Nat /\ n - (n % d) <= n /\ n < n - (n % d) + d
         /\ \E k \in Nat : n - (n % d) = d * k
<1>1. n % d \in 0..(d - 1)
  OBVIOUS
<1>2. n = d * (n \div d) + (n % d) /\ n \div d \in Nat
  OBVIOUS
<1>3. d * (n \div d) \in Nat
  BY <1>2
<1> DEFINE k == n \div d
           m == n % d
           s == d * k
<1>4. m \in 0..(d - 1) /\ k \in Nat /\ s \in Nat /\ n = s + m
  BY <1>1, <1>2, <1>3
<1>5. n - m = s /\ n - m \in Nat /\ n - m <= n /\ n < n - m + d
  <2> HIDE DEF m, s
  <2> QED BY <1>4
<1> QED
  BY <1>4, <1>5

\* A multiple of d from which n is less than d away is the one below n.
LEMMA FloorIs ==
  ASSUME NEW n \in Nat, NEW d \in Nat \ {0}, NEW k \in Nat, d * k <= n, n < d * k + d
  PROVE  n - (n % d) = d * k
<1>1. PICK r \in 0..(d - 1) : n = d * k + r
  <2>1. d * k \in Nat
    OBVIOUS
  <2> DEFINE s == d * k
  <2>2. n - s \in 0..(d - 1) /\ n = s + (n - s)
    <3>1. s \in Nat /\ s <= n /\ n < s + d
      BY <2>1
    <3> HIDE DEF s
    <3> QED BY <3>1
  <2> QED
    BY <2>2
<1>2. n % d = r
  BY <1>1
<1>3. d * k \in Nat
  OBVIOUS
<1> QED
  BY <1>1, <1>2, <1>3

LEMMA MultiplesOrder ==
  ASSUME NEW d \in Nat \ {0}, NEW j \in Nat, NEW k \in Nat
  PROVE  /\ j <= k => d * j <= d * k
         /\ j < k => d * j + d <= d * k
         /\ d * j \in Nat /\ d * k \in Nat
<1>1. d * j \in Nat /\ d * k \in Nat
  OBVIOUS
<1>2. j <= k => d * j <= d * k
  OBVIOUS
<1>3. j < k => d * (j + 1) <= d * k
  OBVIOUS
<1>4. d * (j + 1) = d * j + d
  OBVIOUS
<1> QED
  BY <1>1, <1>2, <1>3, <1>4

LEMMA DayFacts ==
  ASSUME NEW n \in Nat
  PROVE  /\ DayOf(n) \in Nat /\ DayOf(n) <= n /\ n < DayOf(n) + Day
         /\ HourOf(n) \in Nat /\ HourOf(n) <= n
         /\ DayOf(DayOf(n)) = DayOf(n)
         /\ DayOf(HourOf(n)) = DayOf(n)
<1>a. /\ Hour \in Nat \ {0} /\ Day \in Nat \ {0} /\ Day % Hour = 0
  BY StatsAssumption
<1>1. /\ DayOf(n) \in Nat /\ DayOf(n) <= n /\ n < DayOf(n) + Day
      /\ \E k \in Nat : DayOf(n) = Day * k
  BY <1>a, Floor DEF DayOf
<1>2. /\ HourOf(n) \in Nat /\ HourOf(n) <= n /\ n < HourOf(n) + Hour
      /\ \E k \in Nat : HourOf(n) = Hour * k
  BY <1>a, Floor DEF HourOf
<1>3. PICK k \in Nat : DayOf(n) = Day * k
  BY <1>1
<1>4. PICK c \in Nat : Day = Hour * c
  <2>1. \E c \in Nat : Day - (Day % Hour) = Hour * c
    BY <1>a, Floor
  <2> QED
    BY <1>a, <2>1
<1>5. PICK h \in Nat : HourOf(n) = Hour * h
  BY <1>2
<1>6. DayOf(n) <= HourOf(n)
  <2>1. c * k \in Nat
    OBVIOUS
  <2>2. PICK j \in Nat : j = c * k
    BY <2>1
  <2>3. DayOf(n) = Hour * j
    <3>1. Day * k = Hour * (c * k)
      BY <1>4, <1>a
    <3> QED BY <1>3, <2>2, <3>1
  <2>4. h < j => Hour * h + Hour <= Hour * j
    BY <1>a, MultiplesOrder
  <2>5. j <= h => Hour * j <= Hour * h
    BY <1>a, MultiplesOrder
  <2>6. h < j \/ j <= h
    OBVIOUS
  <2> QED
    BY <1>1, <1>2, <1>5, <1>a, <2>3, <2>4, <2>5, <2>6
<1>7. DayOf(DayOf(n)) = DayOf(n)
  <2>1. /\ DayOf(n) \in Nat /\ Day * k <= DayOf(n) /\ DayOf(n) < Day * k + Day
    BY <1>1, <1>3, <1>a
  <2>2. DayOf(n) - (DayOf(n) % Day) = Day * k
    BY <1>a, <2>1, FloorIs, SMTT(60)
  <2>3. DayOf(DayOf(n)) = DayOf(n) - (DayOf(n) % Day)
    BY DEF DayOf
  <2> QED
    BY <1>3, <2>2, <2>3
<1>8. DayOf(HourOf(n)) = DayOf(n)
  <2>1. /\ HourOf(n) \in Nat /\ Day * k <= HourOf(n) /\ HourOf(n) < Day * k + Day
    BY <1>1, <1>2, <1>3, <1>6, <1>a
  <2>2. HourOf(n) - (HourOf(n) % Day) = Day * k
    BY <1>a, <2>1, FloorIs, SMTT(60)
  <2>3. DayOf(HourOf(n)) = HourOf(n) - (HourOf(n) % Day)
    BY DEF DayOf
  <2> QED
    BY <1>3, <2>2, <2>3
<1> QED
  BY <1>1, <1>2, <1>7, <1>8

\* The days are in the order of their times.
LEMMA DayOrder ==
  ASSUME NEW m \in Nat, NEW n \in Nat, DayOf(m) <= n
  PROVE  DayOf(m) <= DayOf(n)
<1>a. Day \in Nat \ {0}
  BY StatsAssumption
<1>1. PICK j \in Nat : DayOf(m) = Day * j
  BY <1>a, Floor DEF DayOf
<1>2. PICK k \in Nat : DayOf(n) = Day * k
  BY <1>a, Floor DEF DayOf
<1>3. DayOf(n) \in Nat /\ n < DayOf(n) + Day
  BY DayFacts
<1>4. /\ j <= k => Day * j <= Day * k
      /\ k < j => Day * k + Day <= Day * j
      /\ Day * j \in Nat /\ Day * k \in Nat
  BY <1>a, MultiplesOrder
<1>5. j <= k \/ k < j
  OBVIOUS
<1> QED
  BY <1>1, <1>2, <1>3, <1>4, <1>5, <1>a

---------------------------------------------------------------------------
(* Types.  An id of a dictionary is at most the number of queries that     *)
(* were ingested, for the largest id in use grows by one at most.          *)

Stored ==
  /\ TypeOK
  /\ IsFiniteSet(DOMAIN events) /\ IsFiniteSet(DOMAIN rollups)
  /\ \A t \in Tables : DOMAIN dict[t] \subseteq 1..ingested

LEMMA LookupFacts ==
  ASSUME Stored, NEW t \in Tables, NEW v
  PROVE  /\ Lookup(t, v) \in 1..(ingested + 1)
         /\ Lookup(t, v) \in DOMAIN dict[t] => dict[t][Lookup(t, v)] = v
<1>1. DOMAIN dict[t] \in SUBSET (0..ingested) /\ ingested \in Nat
      /\ DOMAIN dict[t] \subseteq 1..ingested
  BY DEF Stored, TypeOK
<1>2. CASE \E i \in DOMAIN dict[t] : dict[t][i] = v
  BY <1>1, <1>2 DEF Lookup
<1>3. CASE ~\E i \in DOMAIN dict[t] : dict[t][i] = v
  <2>1. Lookup(t, v) = NewId(t)
    BY <1>3 DEF Lookup
  <2>2. CASE DOMAIN dict[t] = {}
    BY <1>1, <2>1, <2>2 DEF NewId
  <2>3. CASE DOMAIN dict[t] # {}
    <3> DEFINE S == DOMAIN dict[t]
    <3>1. Max(S) \in S /\ \A y \in S : y <= Max(S)
      <4> HIDE DEF S
      <4>1. S \in SUBSET (0..ingested) /\ S # {} /\ ingested \in Nat
        BY <1>1, <2>3 DEF S
      <4> QED BY <4>1, MaxOf
    <3>2. NewId(t) = Max(S) + 1
      BY <2>3 DEF NewId
    <3> HIDE DEF S
    <3>3. NewId(t) \in 1..(ingested + 1) /\ NewId(t) \notin S
      <4>1. S \subseteq 1..ingested /\ ingested \in Nat
        BY <1>1 DEF S
      <4>2. PICK m \in S : m = Max(S) /\ \A y \in S : y <= m
        BY <3>1
      <4>3. NewId(t) = m + 1 /\ m \in Nat
        BY <3>2, <4>1, <4>2
      <4> HIDE DEF NewId
      <4>4. NewId(t) \notin S
        BY <4>1, <4>2, <4>3
      <4> QED BY <4>1, <4>2, <4>3, <4>4
    <3> QED
      BY <2>1, <3>3 DEF S
  <2> QED
    BY <2>2, <2>3
<1> QED
  BY <1>2, <1>3

\* The rows that AddEvent adds.
RefOf(q) == [t \in Tables |-> Lookup(t, q[t])]
EventOf(ts, q) == [ts |-> ts, ref |-> RefOf(q)]
RollupOf(ts, q) == [bucket |-> HourOf(ts), span |-> "h", ref |-> RefOf(q)]

LEMMA AddedTypes ==
  ASSUME Stored, NEW ts \in 0..now, NEW q \in Query, ingested < MaxQueries
  PROVE  EventOf(ts, q) \in Event /\ RollupOf(ts, q) \in Rollup
<1>1. /\ now \in 0..MaxTime /\ MaxTime \in Nat /\ MaxQueries \in Nat
      /\ ingested \in 0..MaxQueries
  BY StatsAssumption DEF Stored, TypeOK
<1>2. ts \in Nat /\ ts \in 0..MaxTime /\ HourOf(ts) \in 0..MaxTime
  <2>1. ts \in Nat /\ ts <= MaxTime
    BY <1>1
  <2> QED
    BY <1>1, <2>1, DayFacts
<1>3. \A t \in Tables : Lookup(t, q[t]) \in Ids
  <2>1. \A t \in Tables : Lookup(t, q[t]) \in 1..(ingested + 1)
    BY LookupFacts
  <2> QED
    BY <1>1, <2>1 DEF Ids
<1>4. RefOf(q) \in Ref
  BY <1>3 DEF RefOf, Ref, Tables
<1> QED
  BY <1>2, <1>4 DEF EventOf, RollupOf, Event, Rollup

\* The parts of Folded.
Kept == Only(rollups, LAMBDA x : ~ToFold(x))
Old == Only(rollups, ToFold)
Days == BagOfAll(AsDay, Old)

LEMMA DaysAre == Days = Mapped([d \in DOMAIN Old |-> AsDay(d)], Old)
<1> DEFINE g == [d \in DOMAIN Old |-> AsDay(d)]
           copies(e) == [d \in DOMAIN Old |-> IF AsDay(d) = e THEN Old[d] ELSE 0]
           same(e) == [d \in DOMAIN Old |-> IF g[d] = e THEN Old[d] ELSE 0]
           T == {AsDay(d) : d \in DOMAIN Old}
<1>1. Days = [e \in T |-> Total(copies(e))]
  BY DEF Days, BagOfAll, BagToSet, Total
<1>2. \A e : copies(e) = same(e)
  OBVIOUS
<1>3. {g[d] : d \in DOMAIN Old} = T
  OBVIOUS
<1>4. Mapped(g, Old) = [e \in {g[d] : d \in DOMAIN Old} |-> Total(same(e))]
  BY DEF Mapped
<1> HIDE DEF copies, same, g, T
<1>5. \A e : Total(copies(e)) = Total(same(e))
  BY <1>2
<1>6. Days = Mapped(g, Old)
  BY <1>1, <1>3, <1>4, <1>5
<1> QED BY <1>6 DEF g

LEMMA FoldedRows ==
  ASSUME Stored
  PROVE  /\ IsABag(Folded) /\ IsFiniteSet(DOMAIN Folded)
         /\ DOMAIN Folded = {x \in DOMAIN rollups : ~ToFold(x)}
                             \cup {AsDay(x) : x \in {y \in DOMAIN rollups : ToFold(y)}}
<1>t. IsABag(rollups) /\ IsFiniteSet(DOMAIN rollups)
  BY DEF Stored, TypeOK
<1>1. /\ DOMAIN Kept = {x \in DOMAIN rollups : ~ToFold(x)}
      /\ Kept = [x \in DOMAIN Kept |-> rollups[x]]
      /\ DOMAIN Old = {x \in DOMAIN rollups : ToFold(x)}
      /\ Old = [x \in DOMAIN Old |-> rollups[x]]
  BY DEF Kept, Old, Only
<1>2. IsABag(Kept) /\ IsFiniteSet(DOMAIN Kept) /\ IsABag(Old) /\ IsFiniteSet(DOMAIN Old)
  <2>1. DOMAIN Kept \subseteq DOMAIN rollups /\ DOMAIN Old \subseteq DOMAIN rollups
    BY <1>1
  <2>2. IsABag(Kept) /\ IsFiniteSet(DOMAIN Kept)
    BY <1>t, <1>1, <2>1, SomeRows
  <2>3. IsABag(Old) /\ IsFiniteSet(DOMAIN Old)
    BY <1>t, <1>1, <2>1, SomeRows
  <2> QED BY <2>2, <2>3
<1> DEFINE g == [d \in DOMAIN Old |-> AsDay(d)]
<1>3. Days = Mapped(g, Old)
  BY DaysAre
<1>4. DOMAIN g = DOMAIN Old /\ {g[d] : d \in DOMAIN Old} = {AsDay(d) : d \in DOMAIN Old}
  OBVIOUS
<1> HIDE DEF g
<1>5. /\ IsABag(Days) /\ IsFiniteSet(DOMAIN Days)
      /\ DOMAIN Days = {AsDay(d) : d \in DOMAIN Old}
  BY <1>2, <1>3, <1>4, MappedRows
<1>6. Folded = Kept (+) Days
  BY DEF Folded, Kept, Days, Old
<1>7. /\ IsABag(Kept (+) Days) /\ IsFiniteSet(DOMAIN (Kept (+) Days))
      /\ DOMAIN (Kept (+) Days) = DOMAIN Kept \cup DOMAIN Days
  BY <1>2, <1>5, AllRows
<1>8. {AsDay(d) : d \in DOMAIN Old} = {AsDay(x) : x \in {y \in DOMAIN rollups : ToFold(y)}}
  BY <1>1
<1> QED
  BY <1>1, <1>5, <1>6, <1>7, <1>8

\* A folded row is of the day of the one it was.
LEMMA AsDayFacts ==
  ASSUME NEW x \in Rollup
  PROVE  /\ AsDay(x) \in Rollup
         /\ AsDay(x).bucket = DayOf(x.bucket) /\ AsDay(x).span = "d" /\ AsDay(x).ref = x.ref
         /\ DayOf(AsDay(x).bucket) = DayOf(x.bucket)
         /\ AsDay(x).bucket <= x.bucket
<1>1. x.bucket \in Nat /\ x.bucket <= MaxTime /\ MaxTime \in Nat
  BY StatsAssumption DEF Rollup
<1>2. /\ DayOf(x.bucket) \in 0..MaxTime /\ DayOf(x.bucket) <= x.bucket
      /\ DayOf(DayOf(x.bucket)) = DayOf(x.bucket)
  BY <1>1, DayFacts
<1>3. AsDay(x).bucket = DayOf(x.bucket) /\ AsDay(x).span = "d" /\ AsDay(x).ref = x.ref
  BY DEF AsDay
<1>4. AsDay(x) \in Rollup
  BY <1>2 DEF AsDay, Rollup
<1> QED
  BY <1>2, <1>3, <1>4

\* The history and the clock move within their bounds.
RestTyped ==
  /\ now \in 0..MaxTime /\ keep \in Retentions /\ purge \in 0..3
  /\ ingested \in 0..MaxQueries /\ late \subseteq 0..MaxTime
  /\ litter \in BOOLEAN /\ mixed \in BOOLEAN /\ crashes \in 0..MaxCrashes

DictTyped ==
  /\ DOMAIN dict = Tables
  /\ \A t \in Tables : /\ DOMAIN dict[t] \subseteq Ids
                       /\ \A i \in DOMAIN dict[t] : dict[t][i] \in Value[t]
  /\ \A t \in Tables : DOMAIN dict[t] \subseteq 1..ingested

RowsTyped ==
  /\ IsABag(events) /\ DOMAIN events \subseteq Event /\ IsFiniteSet(DOMAIN events)
  /\ IsABag(rollups) /\ DOMAIN rollups \subseteq Rollup /\ IsFiniteSet(DOMAIN rollups)

LEMMA StoredParts == Stored <=> RestTyped /\ DictTyped /\ RowsTyped
BY DEF Stored, RestTyped, DictTyped, RowsTyped, TypeOK

LEMMA AddBatchTypes ==
  ASSUME Stored, AddBatch PROVE Stored'
<1>1. PICK l \in Lateness, q \in Query :
        /\ l <= now /\ AddEvent(now - l, q)
        /\ late' = late \cup (DaysWith("d") \cap {DayOf(now - l)})
  BY DEF AddBatch
<1> DEFINE ts == now - l
<1>2. /\ ingested' = ingested + 1 /\ ingested < MaxQueries
      /\ UNCHANGED <<now, keep, purge, litter, crashes>>
  BY DEF AddBatch
<1>3. /\ now \in Nat /\ now <= MaxTime /\ MaxTime \in Nat /\ MaxQueries \in Nat
      /\ ingested \in Nat /\ ingested <= MaxQueries
  BY StatsAssumption DEF Stored, TypeOK
<1>4. ts \in 0..now
  <2>1. l \in Nat
    BY StatsAssumption
  <2> QED BY <1>1, <1>3, <2>1
<1>5. EventOf(ts, q) \in Event /\ RollupOf(ts, q) \in Rollup
  <2> HIDE DEF ts
  <2> QED BY <1>2, <1>4, AddedTypes
<1>6. DayOf(ts) \in 0..MaxTime
  <2> HIDE DEF ts
  <2>1. ts \in Nat /\ ts <= MaxTime
    BY <1>3, <1>4
  <2> QED BY <1>3, <2>1, DayFacts
<1>7. RestTyped'
  <2>1. mixed' \in BOOLEAN
    BY DEF AddBatch
  <2> QED BY <1>1, <1>2, <1>3, <1>6, <2>1, StoredParts DEF RestTyped
<1>8. DictTyped'
  <2>1. /\ DOMAIN dict' = Tables
        /\ \A t \in Tables : dict'[t] = WithEntry(t, q[t])
    BY <1>1 DEF AddEvent
  <2>2. \A t \in Tables : Lookup(t, q[t]) \in 1..(ingested + 1)
    BY LookupFacts
  <2>3. \A t \in Tables : Lookup(t, q[t]) \in Ids
    BY <1>2, <1>3, <2>2 DEF Ids
  <2>4. \A t \in Tables : q[t] \in Value[t]
    BY DEF Query, Value, Tables
  <2>5. ASSUME NEW t \in Tables
        PROVE  /\ DOMAIN dict'[t] = DOMAIN dict[t] \cup {Lookup(t, q[t])}
               /\ \A i \in DOMAIN dict'[t] :
                    dict'[t][i] = IF i = Lookup(t, q[t]) THEN q[t] ELSE dict[t][i]
    <3>1. dict'[t] = WithEntry(t, q[t])
      BY <2>1
    <3> DEFINE k == Lookup(t, q[t])
    <3>2. dict'[t] = [i \in DOMAIN dict[t] \cup {k} |-> IF i = k THEN q[t] ELSE dict[t][i]]
      BY <3>1 DEF WithEntry
    <3> HIDE DEF k
    <3>3. DOMAIN dict'[t] = DOMAIN dict[t] \cup {k}
      BY <3>2
    <3>4. \A i \in DOMAIN dict'[t] : dict'[t][i] = IF i = k THEN q[t] ELSE dict[t][i]
      BY <3>2, <3>3
    <3> QED
      BY <3>3, <3>4 DEF k
  <2>6. DictTyped /\ 1..ingested \subseteq 1..(ingested + 1)
    BY <1>3, StoredParts
  <2> QED
    BY <1>2, <2>1, <2>2, <2>3, <2>4, <2>5, <2>6 DEF DictTyped
<1>9. RowsTyped'
  <2>1. RowsTyped
    BY StoredParts
  <2>2. rollups' = rollups (+) SetToBag({RollupOf(ts, q)})
    BY <1>1 DEF AddEvent, RollupOf, RefOf
  <2>3. events' = events \/ events' = events (+) SetToBag({EventOf(ts, q)})
    BY <1>1 DEF AddEvent, EventOf, RefOf
  <2> DEFINE e == EventOf(ts, q)
             r == RollupOf(ts, q)
  <2>4. /\ IsABag(events (+) SetToBag({e})) /\ IsFiniteSet(DOMAIN (events (+) SetToBag({e})))
        /\ DOMAIN (events (+) SetToBag({e})) = DOMAIN events \cup {e}
    <3> HIDE DEF e
    <3> QED BY <2>1, OneMoreRow DEF RowsTyped
  <2>5. /\ IsABag(rollups (+) SetToBag({r})) /\ IsFiniteSet(DOMAIN (rollups (+) SetToBag({r})))
        /\ DOMAIN (rollups (+) SetToBag({r})) = DOMAIN rollups \cup {r}
    <3> HIDE DEF r
    <3> QED BY <2>1, OneMoreRow DEF RowsTyped
  <2>6. IsABag(events') /\ DOMAIN events' \subseteq Event /\ IsFiniteSet(DOMAIN events')
    <3>1. CASE events' = events
      BY <2>1, <3>1 DEF RowsTyped
    <3>2. CASE events' = events (+) SetToBag({e})
      BY <1>5, <2>1, <2>4, <3>2 DEF RowsTyped
    <3> QED BY <2>3, <3>1, <3>2
  <2>7. IsABag(rollups') /\ DOMAIN rollups' \subseteq Rollup /\ IsFiniteSet(DOMAIN rollups')
    BY <1>5, <2>1, <2>2, <2>5 DEF RowsTyped
  <2> QED
    BY <2>6, <2>7 DEF RowsTyped
<1> QED
  <2>1. (Stored <=> RestTyped /\ DictTyped /\ RowsTyped)'
    BY DEF Stored, RestTyped, DictTyped, RowsTyped, TypeOK
  <2> QED
    BY <1>7, <1>8, <1>9, <2>1

LEMMA PruneTypes ==
  ASSUME Stored, Prune PROVE Stored'
<1>t. RestTyped /\ DictTyped /\ RowsTyped
  BY StoredParts
<1>1. RestTyped'
  BY <1>t DEF Prune, RestTyped
<1>2. DictTyped'
  <2>1. dict' = dict \/ dict' = Swept(events', rollups')
    BY DEF Prune
  <2>2. ingested' = ingested
    BY DEF Prune
  <2>3. CASE dict' = Swept(events', rollups')
    BY <1>t, <2>2, <2>3 DEF DictTyped, Swept
  <2> QED
    BY <1>t, <2>1, <2>2, <2>3 DEF DictTyped
<1>3. IsABag(events') /\ DOMAIN events' \subseteq Event /\ IsFiniteSet(DOMAIN events')
  <2>1. DOMAIN events' \subseteq DOMAIN events /\ events' = [x \in DOMAIN events' |-> events[x]]
    BY DEF Prune, Only
  <2> QED
    BY <1>t, <2>1, SomeRows DEF RowsTyped
<1>4. IsABag(rollups') /\ DOMAIN rollups' \subseteq Rollup /\ IsFiniteSet(DOMAIN rollups')
  <2>1. DOMAIN rollups' \subseteq DOMAIN Folded /\ rollups' = [x \in DOMAIN rollups' |-> Folded[x]]
    BY DEF Prune, Only
  <2>2. /\ IsABag(Folded) /\ IsFiniteSet(DOMAIN Folded)
        /\ DOMAIN Folded = {x \in DOMAIN rollups : ~ToFold(x)}
                             \cup {AsDay(x) : x \in {y \in DOMAIN rollups : ToFold(y)}}
    BY FoldedRows
  <2>3. DOMAIN Folded \subseteq Rollup
    BY <1>t, <2>2, AsDayFacts DEF RowsTyped
  <2>4. IsABag(rollups') /\ IsFiniteSet(DOMAIN rollups')
    <3> HIDE DEF Folded
    <3> QED BY <2>1, <2>2, SomeRows
  <2> QED
    BY <2>1, <2>3, <2>4
<1> QED
  <2>1. (Stored <=> RestTyped /\ DictTyped /\ RowsTyped)'
    BY DEF Stored, RestTyped, DictTyped, RowsTyped, TypeOK
  <2>2. RowsTyped'
    BY <1>3, <1>4 DEF RowsTyped
  <2> QED
    BY <1>1, <1>2, <2>1, <2>2

LEMMA StoredInit == Init => Stored
<1> SUFFICES ASSUME Init PROVE Stored
  OBVIOUS
<1>1. RowsTyped
  BY NoRows DEF Init, RowsTyped
<1>2. DictTyped
  BY DEF Init, DictTyped
<1>3. RestTyped
  <2>1. litter \in BOOLEAN /\ mixed \in BOOLEAN
    BY DEF Init
  <2>2. /\ now \in 0..MaxTime /\ keep \in Retentions /\ purge \in 0..3
        /\ ingested \in 0..MaxQueries /\ late \subseteq 0..MaxTime
        /\ crashes \in 0..MaxCrashes
    BY StatsAssumption DEF Init
  <2> QED
    BY <2>1, <2>2 DEF RestTyped
<1> QED
  BY <1>1, <1>2, <1>3, StoredParts

LEMMA StoredNext == Stored /\ [Next]_vars => Stored'
<1> SUFFICES ASSUME Stored, [Next]_vars PROVE Stored'
  OBVIOUS
<1>t. RestTyped /\ DictTyped /\ RowsTyped
  BY StoredParts
<1>p. (Stored <=> RestTyped /\ DictTyped /\ RowsTyped)'
  BY DEF Stored, RestTyped, DictTyped, RowsTyped, TypeOK
<1>1. CASE AddBatch
  BY <1>1, AddBatchTypes
<1>2. CASE Prune
  BY <1>2, PruneTypes
<1>3. CASE PurgeEvents \/ PurgeRollups \/ PurgeNames \/ PurgeClients
  <2>1. RestTyped'
    <3>1. purge' \in 0..3 /\ UNCHANGED <<now, keep, ingested, late, mixed, crashes>>
      BY <1>3 DEF PurgeEvents, PurgeRollups, PurgeNames, PurgeClients, Statement
    <3>2. litter' = litter \/ litter' = FALSE
      BY <1>3 DEF PurgeEvents, PurgeRollups, PurgeNames, PurgeClients
    <3>3. litter' \in BOOLEAN
      BY <1>t, <3>2 DEF RestTyped
    <3> QED
      BY <1>t, <3>1, <3>3 DEF RestTyped
  <2>2. DictTyped'
    <3>1. ingested' = ingested /\ DOMAIN dict' = Tables
          /\ \A t \in Tables : dict'[t] = dict[t] \/ dict'[t] = << >>
      BY <1>3, <1>t
      DEF PurgeEvents, PurgeRollups, PurgeNames, PurgeClients, Statement, DictTyped
    <3>2. DOMAIN << >> = {}
      OBVIOUS
    <3> QED
      BY <1>t, <3>1, <3>2 DEF DictTyped
  <2>3. RowsTyped'
    <3>1. events' \in {events, EmptyBag} /\ rollups' \in {rollups, EmptyBag}
      BY <1>3 DEF PurgeEvents, PurgeRollups, PurgeNames, PurgeClients
    <3>2. IsABag(events') /\ DOMAIN events' \subseteq Event /\ IsFiniteSet(DOMAIN events')
      BY <1>t, <3>1, NoRows DEF RowsTyped
    <3>3. IsABag(rollups') /\ DOMAIN rollups' \subseteq Rollup /\ IsFiniteSet(DOMAIN rollups')
      BY <1>t, <3>1, NoRows DEF RowsTyped
    <3> QED
      BY <3>2, <3>3 DEF RowsTyped
  <2> QED
    BY <2>1, <2>2, <2>3, <1>p
<1>4. CASE PurgeCrash \/ Tick \/ SetRetention
  <2>1. RestTyped'
    <3>1. litter' = litter \/ litter' = TRUE
      BY <1>4 DEF PurgeCrash, Tick, SetRetention
    <3>2. litter' \in BOOLEAN
      BY <1>t, <3>1 DEF RestTyped
    <3>3. /\ now' \in 0..MaxTime /\ keep' \in Retentions /\ purge' \in 0..3
          /\ UNCHANGED <<ingested, late, mixed>> /\ crashes' \in 0..MaxCrashes
      BY <1>4, <1>t, StatsAssumption DEF PurgeCrash, Tick, SetRetention, RestTyped
    <3> QED
      BY <1>t, <3>2, <3>3 DEF RestTyped
  <2>2. UNCHANGED <<dict, events, rollups, ingested>>
    BY <1>4 DEF PurgeCrash, Tick, SetRetention, tables
  <2>3. DictTyped' /\ RowsTyped'
    BY <1>t, <2>2 DEF DictTyped, RowsTyped
  <2> QED
    BY <2>1, <2>3, <1>p
<1>5. CASE UNCHANGED vars
  BY <1>5 DEF vars, tables, Stored, TypeOK
<1> QED
  BY <1>1, <1>2, <1>3, <1>4, <1>5 DEF Next

LEMMA StoredHolds == Spec => []Stored
BY StoredInit, StoredNext, PTL DEF Spec

\* The tables stay tables: counts are positive, rows are of their columns'
\* types, and ids stay within the number of queries, however often they are
\* given again.
THEOREM StatsTypes == Spec => []TypeOK
<1>1. Stored => TypeOK
  BY DEF Stored
<1> QED
  BY <1>1, StoredHolds, PTL

---------------------------------------------------------------------------
(* Whole days.  A fold takes all hours before the beginning of a day, so   *)
(* that no hour stays beside the day it belongs to.                        *)

WholeDays ==
  \A x, y \in DOMAIN rollups :
    x.span = "h" /\ y.span = "d" /\ DayOf(x.bucket) = DayOf(y.bucket)
      => DayOf(x.bucket) \in late

LEMMA DaysAreWhole == WholeDays <=> DaysWhole
<1>1. /\ DaysWith("h") = {DayOf(x.bucket) : x \in {y \in DOMAIN rollups : y.span = "h"}}
      /\ DaysWith("d") = {DayOf(x.bucket) : x \in {y \in DOMAIN rollups : y.span = "d"}}
  BY DEF DaysWith
<1>2. ASSUME WholeDays PROVE DaysWhole
  <2>1. SUFFICES ASSUME NEW n, n \in DaysWith("h"), n \in DaysWith("d") PROVE n \in late
    BY DEF DaysWhole
  <2>2. PICK x \in DOMAIN rollups : x.span = "h" /\ n = DayOf(x.bucket)
    BY <1>1, <2>1
  <2>3. PICK y \in DOMAIN rollups : y.span = "d" /\ n = DayOf(y.bucket)
    BY <1>1, <2>1
  <2> QED
    BY <1>2, <2>2, <2>3 DEF WholeDays
<1>3. ASSUME DaysWhole PROVE WholeDays
  BY <1>1, <1>3 DEF DaysWhole, WholeDays
<1> QED
  BY <1>2, <1>3

\* What AddBatch does to the rows.
LEMMA AddedRows ==
  ASSUME Stored, AddBatch
  PROVE  \E ts \in 0..now, q \in Query :
           /\ DOMAIN rollups' = DOMAIN rollups \cup {RollupOf(ts, q)}
           /\ DOMAIN events' \subseteq DOMAIN events \cup {EventOf(ts, q)}
           /\ DOMAIN events \subseteq DOMAIN events'
           /\ late' = late \cup (DaysWith("d") \cap {DayOf(ts)})
           /\ \A t \in Tables : DOMAIN dict'[t] = DOMAIN dict[t] \cup {RefOf(q)[t]}
<1>1. PICK l \in Lateness, q \in Query :
        /\ l <= now /\ AddEvent(now - l, q)
        /\ late' = late \cup (DaysWith("d") \cap {DayOf(now - l)})
  BY DEF AddBatch
<1>2. now - l \in 0..now
  <2>1. l \in Nat /\ now \in Nat
    BY StatsAssumption DEF Stored, TypeOK
  <2> QED BY <1>1, <2>1
<1>3. PICK ts \in 0..now : ts = now - l
  BY <1>2
<1>4. rollups' = rollups (+) SetToBag({RollupOf(ts, q)})
  BY <1>1, <1>3 DEF AddEvent, RollupOf, RefOf
<1>5. events' = events \/ events' = events (+) SetToBag({EventOf(ts, q)})
  BY <1>1, <1>3 DEF AddEvent, EventOf, RefOf
<1>6. \A t \in Tables : DOMAIN dict'[t] = DOMAIN dict[t] \cup {RefOf(q)[t]}
  BY <1>1 DEF AddEvent, WithEntry, RefOf
<1>7. DOMAIN rollups' = DOMAIN rollups \cup {RollupOf(ts, q)}
  BY <1>4, OneMore
<1>8. /\ DOMAIN events' \subseteq DOMAIN events \cup {EventOf(ts, q)}
      /\ DOMAIN events \subseteq DOMAIN events'
  <2> DEFINE e == EventOf(ts, q)
  <2>1. DOMAIN (events (+) SetToBag({e})) = DOMAIN events \cup {e}
    <3> HIDE DEF e
    <3> QED BY OneMore
  <2> QED
    BY <1>5, <2>1
<1> QED
  BY <1>1, <1>3, <1>6, <1>7, <1>8

LEMMA WholeStep ==
  ASSUME Stored, WholeDays, [Next]_vars PROVE WholeDays'
<1>t. DOMAIN rollups \subseteq Rollup /\ now \in Nat
  BY StatsAssumption DEF Stored, TypeOK
<1>n. \A x \in DOMAIN rollups : x.bucket \in Nat
  BY <1>t, StatsAssumption DEF Rollup
<1>1. CASE AddBatch
  <2>1. PICK ts \in 0..now, q \in Query :
          /\ DOMAIN rollups' = DOMAIN rollups \cup {RollupOf(ts, q)}
          /\ late' = late \cup (DaysWith("d") \cap {DayOf(ts)})
    BY <1>1, AddedRows
  <2> DEFINE r == RollupOf(ts, q)
  <2>2. r.span = "h" /\ DayOf(r.bucket) = DayOf(ts)
    <3>1. ts \in Nat
      BY <1>t
    <3> QED
      BY <3>1, DayFacts DEF RollupOf
  <2> HIDE DEF r
  <2>3. SUFFICES ASSUME NEW x \in DOMAIN rollups', NEW y \in DOMAIN rollups',
                        x.span = "h", y.span = "d", DayOf(x.bucket) = DayOf(y.bucket)
                 PROVE  DayOf(x.bucket) \in late'
    BY DEF WholeDays
  <2>4. y \in DOMAIN rollups /\ DayOf(y.bucket) \in DaysWith("d")
    <3>1. y # r
      BY <2>2, <2>3
    <3>2. y \in DOMAIN rollups
      BY <2>1, <2>3, <3>1 DEF r
    <3> QED
      BY <2>3, <3>2 DEF DaysWith
  <2>5. CASE x \in DOMAIN rollups
    BY <2>1, <2>3, <2>4, <2>5 DEF WholeDays
  <2>6. CASE x = r
    BY <2>1, <2>2, <2>3, <2>4, <2>6
  <2> QED
    BY <2>1, <2>3, <2>5, <2>6 DEF r
<1>2. CASE Prune
  <2>1. late' = late /\ DOMAIN rollups' \subseteq DOMAIN Folded
    BY <1>2 DEF Prune, Only
  <2>2. DOMAIN Folded = {x \in DOMAIN rollups : ~ToFold(x)}
                           \cup {AsDay(x) : x \in {y \in DOMAIN rollups : ToFold(y)}}
    BY FoldedRows
  <2>3. SUFFICES ASSUME NEW x \in DOMAIN Folded, NEW y \in DOMAIN Folded,
                        x.span = "h", y.span = "d", DayOf(x.bucket) = DayOf(y.bucket)
                 PROVE  DayOf(x.bucket) \in late
    BY <2>1 DEF WholeDays
  <2>4. \A z \in DOMAIN rollups : AsDay(z).span = "d"
    BY DEF AsDay
  <2>5. x \in DOMAIN rollups /\ ~ToFold(x)
    BY <2>2, <2>3, <2>4
  <2>6. CASE y \in DOMAIN rollups
    BY <2>3, <2>5, <2>6 DEF WholeDays
  <2>7. ASSUME NEW z \in DOMAIN rollups, ToFold(z), y = AsDay(z) PROVE FALSE
    <3>1. DayOf(y.bucket) = DayOf(z.bucket) /\ z.bucket \in Nat
      BY <1>t, <1>n, <2>7, AsDayFacts
    <3>2. z.bucket < FoldBefore /\ FoldBefore <= x.bucket
      <4>1. FoldBefore \in Nat /\ x.bucket \in Nat
        <5>1. Ago(keep.hourly) \in Nat
          BY <1>t, StatsAssumption DEF Ago, Stored, TypeOK
        <5> QED
          BY <1>n, <2>5, <5>1, DayFacts DEF FoldBefore
      <4> QED
        BY <2>3, <2>5, <2>7, <4>1 DEF ToFold
    <3>3. FoldBefore <= DayOf(x.bucket)
      <4>1. Ago(keep.hourly) \in Nat
        BY <1>t, StatsAssumption DEF Ago, Stored, TypeOK
      <4>2. x.bucket \in Nat
        BY <1>n, <2>5
      <4> QED
        BY <3>2, <4>1, <4>2, DayOrder DEF FoldBefore
    <3>4. DayOf(z.bucket) \in Nat /\ DayOf(z.bucket) <= z.bucket
      BY <3>1, DayFacts
    <3>5. FoldBefore \in Nat
      <4>1. Ago(keep.hourly) \in Nat
        BY <1>t, StatsAssumption DEF Ago, Stored, TypeOK
      <4> QED BY <4>1, DayFacts DEF FoldBefore
    <3> QED
      BY <2>3, <3>1, <3>2, <3>3, <3>4, <3>5
  <2> QED
    BY <2>2, <2>3, <2>6, <2>7
<1>3. CASE PurgeRollups
  BY <1>3, NoRows DEF PurgeRollups, WholeDays
<1>4. CASE UNCHANGED <<rollups, late>>
  BY <1>4 DEF WholeDays
<1>5. CASE PurgeEvents \/ PurgeNames \/ PurgeClients \/ PurgeCrash \/ Tick
           \/ SetRetention \/ UNCHANGED vars
  BY <1>4, <1>5
  DEF PurgeEvents, PurgeNames, PurgeClients, PurgeCrash, Tick, SetRetention,
      Statement, vars, tables
<1> QED
  BY <1>1, <1>2, <1>3, <1>5 DEF Next

\* A day is counted by the hour or as a whole, never both, unless a query came
\* in after its day had been folded: for all lengths of hours and days, all
\* retentions and any clock.
THEOREM DaysStayWhole == Spec => []DaysWhole
<1>1. Init => WholeDays
  BY NoRows DEF Init, WholeDays
<1>2. Stored /\ WholeDays /\ [Next]_vars => WholeDays'
  BY WholeStep
<1>3. WholeDays => DaysWhole
  BY DaysAreWhole
<1> QED
  BY <1>1, <1>2, <1>3, StoredHolds, PTL DEF Spec

---------------------------------------------------------------------------
(* Orphans.  The counts outlive the events: a listed query is counted, on  *)
(* its day, in a row of the same client and name (EventsCounted), so that  *)
(* dropping old events leaves no entry unused.                             *)

LongDays == \A r \in Retentions : r.events + Day <= r.daily

EventsCounted ==
  \A x \in DOMAIN events : \E y \in DOMAIN rollups :
    y.ref = x.ref /\ DayOf(y.bucket) = DayOf(x.ts)

NamesGone == purge = 1 => DOMAIN dict["names"] = {}

EntriesUsed ==
  purge = 0 /\ ~litter => \A t \in Tables : DOMAIN dict[t] \subseteq UsedIds(t, events, rollups)

OrphanInv == PurgeOrder /\ EventsCounted /\ NamesGone /\ EntriesUsed

\* A row has a row of the same day and reference after the fold.
LEMMA FoldKeeps ==
  ASSUME Stored, NEW y \in DOMAIN rollups
  PROVE  \E z \in DOMAIN Folded : z.ref = y.ref /\ DayOf(z.bucket) = DayOf(y.bucket)
<1>1. DOMAIN Folded = {x \in DOMAIN rollups : ~ToFold(x)}
                         \cup {AsDay(x) : x \in {w \in DOMAIN rollups : ToFold(w)}}
  BY FoldedRows
<1>2. CASE ~ToFold(y)
  BY <1>1, <1>2
<1>3. CASE ToFold(y)
  <2>1. AsDay(y) \in DOMAIN Folded
    BY <1>1, <1>3
  <2>2. y \in Rollup
    BY DEF Stored, TypeOK
  <2> QED
    BY <2>1, <2>2, AsDayFacts
<1> QED
  BY <1>2, <1>3

LEMMA OrphanPrune ==
  ASSUME Stored, OrphanInv, LongDays, Prune PROVE EventsCounted' /\ EntriesUsed'
<1>t. /\ now \in Nat /\ keep \in Retentions /\ DOMAIN events \subseteq Event
      /\ DOMAIN rollups \subseteq Rollup /\ Day \in Nat
  BY StatsAssumption DEF Stored, TypeOK
<1>1. /\ DOMAIN events' = {x \in DOMAIN events : x.ts >= EventsAfter}
      /\ DOMAIN rollups' = {x \in DOMAIN Folded : ~TooOld(x)}
      /\ purge' = purge
  BY DEF Prune, Only
<1>2. DOMAIN Folded \subseteq Rollup
  <2>1. DOMAIN Folded = {x \in DOMAIN rollups : ~ToFold(x)}
                           \cup {AsDay(x) : x \in {y \in DOMAIN rollups : ToFold(y)}}
    BY FoldedRows
  <2> QED
    BY <1>t, <2>1, AsDayFacts
<1>3. ASSUME NEW x \in DOMAIN events'
      PROVE  \E z \in DOMAIN rollups' : z.ref = x.ref /\ DayOf(z.bucket) = DayOf(x.ts)
  <2>1. x \in DOMAIN events /\ x.ts >= EventsAfter /\ x.ts \in Nat
    BY <1>t, <1>1, StatsAssumption DEF Event
  <2>2. PICK y \in DOMAIN rollups : y.ref = x.ref /\ DayOf(y.bucket) = DayOf(x.ts)
    BY <2>1 DEF OrphanInv, EventsCounted
  <2>3. PICK z \in DOMAIN Folded : z.ref = y.ref /\ DayOf(z.bucket) = DayOf(y.bucket)
    BY FoldKeeps
  <2>4. z.bucket \in Nat
    BY <1>2, StatsAssumption DEF Rollup
  <2>5. DayOf(z.bucket) <= z.bucket /\ x.ts < DayOf(x.ts) + Day /\ DayOf(x.ts) \in Nat
    BY <2>1, <2>4, DayFacts
  <2>6. ~TooOld(z)
    <3>1. keep.events \in Nat /\ keep.daily \in Nat /\ keep.events + Day <= keep.daily
      BY <1>t, StatsAssumption DEF LongDays
    <3>2. CASE keep.daily <= now
      <4>1. EventsAfter = now - keep.events /\ Ago(keep.daily) = now - keep.daily
        BY <1>t, <3>1, <3>2 DEF EventsAfter, Ago
      <4>2. DayOf(x.ts) <= z.bucket
        BY <2>2, <2>3, <2>5
      <4>3. ~(z.bucket < now - keep.daily)
        BY <1>t, <2>1, <2>4, <2>5, <3>1, <4>1, <4>2
      <4> QED
        BY <4>1, <4>3 DEF TooOld
    <3>3. CASE ~(keep.daily <= now)
      BY <2>4, <3>3 DEF TooOld, Ago
    <3> QED
      BY <3>2, <3>3
  <2> QED
    BY <1>1, <2>2, <2>3, <2>6
<1>4. EventsCounted'
  BY <1>3 DEF EventsCounted
<1>5. EntriesUsed'
  <2>1. SUFFICES ASSUME purge = 0, ~litter', NEW t \in Tables, NEW i \in DOMAIN dict'[t]
                 PROVE  \E x \in DOMAIN events' \cup DOMAIN rollups' : i = x.ref[t]
    BY <1>1 DEF EntriesUsed, UsedIds
  <2>2. CASE dict' = Swept(events', rollups')
    BY <2>1, <2>2 DEF Swept, UsedIds
  <2>3. CASE UNCHANGED <<dict, litter>> /\ DOMAIN rollups' = DOMAIN Folded
    <3>1. PICK x \in DOMAIN events \cup DOMAIN rollups : i = x.ref[t]
      BY <2>1, <2>3 DEF OrphanInv, EntriesUsed, UsedIds
    <3>2. PICK y \in DOMAIN rollups : y.ref = x.ref
      BY <3>1 DEF OrphanInv, EventsCounted
    <3>3. PICK z \in DOMAIN Folded : z.ref = y.ref
      BY FoldKeeps
    <3> QED
      BY <2>3, <3>1, <3>2, <3>3
  <2>4. dict' = Swept(events', rollups')
          \/ (UNCHANGED <<dict, litter>> /\ ~\E x \in DOMAIN Folded : TooOld(x))
    BY DEF Prune
  <2> QED
    BY <1>1, <2>2, <2>3, <2>4
<1> QED
  BY <1>4, <1>5

LEMMA OrphanStep ==
  ASSUME LongDays, Stored, OrphanInv, [Next]_vars, ~mixed' PROVE OrphanInv'
<1>t. /\ purge \in 0..3 /\ DOMAIN dict = Tables /\ now \in Nat
      /\ PurgeOrder /\ EventsCounted /\ NamesGone /\ EntriesUsed
  BY StatsAssumption DEF Stored, TypeOK, OrphanInv
<1>1. CASE AddBatch
  <2>1. PICK ts \in 0..now, q \in Query :
          /\ DOMAIN rollups' = DOMAIN rollups \cup {RollupOf(ts, q)}
          /\ DOMAIN events' \subseteq DOMAIN events \cup {EventOf(ts, q)}
          /\ DOMAIN events \subseteq DOMAIN events'
          /\ \A t \in Tables : DOMAIN dict'[t] = DOMAIN dict[t] \cup {RefOf(q)[t]}
    BY <1>1, AddedRows
  <2> DEFINE r == RollupOf(ts, q)
             e == EventOf(ts, q)
  <2>2. r.ref = RefOf(q) /\ e.ref = RefOf(q) /\ DayOf(r.bucket) = DayOf(e.ts)
    <3>1. ts \in Nat
      BY <1>t
    <3>2. DayOf(HourOf(ts)) = DayOf(ts)
      BY <3>1, DayFacts
    <3> QED
      BY <3>2 DEF RollupOf, EventOf
  <2>3. purge = 0 /\ purge' = 0 /\ litter' = litter
    BY <1>1 DEF AddBatch
  <2>4. /\ DOMAIN rollups' = DOMAIN rollups \cup {r}
        /\ DOMAIN events' \subseteq DOMAIN events \cup {e}
    BY <2>1
  <2> HIDE DEF r, e
  <2>5. EventsCounted'
    BY <1>t, <2>2, <2>4 DEF EventsCounted
  <2>6. EntriesUsed'
    <3>1. SUFFICES ASSUME ~litter, NEW t \in Tables, NEW i \in DOMAIN dict'[t]
                   PROVE  \E x \in DOMAIN events' \cup DOMAIN rollups' : i = x.ref[t]
      BY <2>3 DEF EntriesUsed, UsedIds
    <3>2. CASE i \in DOMAIN dict[t]
      <4>1. PICK x \in DOMAIN events \cup DOMAIN rollups : i = x.ref[t]
        BY <1>t, <2>3, <3>1, <3>2 DEF EntriesUsed, UsedIds
      <4> QED
        BY <2>1, <2>4, <4>1
    <3>3. CASE i = RefOf(q)[t]
      BY <2>2, <2>4, <3>3
    <3> QED
      BY <2>1, <3>1, <3>2, <3>3
  <2> QED
    BY <2>3, <2>5, <2>6 DEF OrphanInv, PurgeOrder, NamesGone
<1>2. CASE Prune
  <2>1. EventsCounted' /\ EntriesUsed'
    BY <1>2, OrphanPrune
  <2>2. /\ purge' = purge /\ DOMAIN events' \subseteq DOMAIN events
        /\ DOMAIN rollups = {} => DOMAIN rollups' = {}
        /\ dict' = dict \/ dict' = Swept(events', rollups')
    <3>1. DOMAIN rollups' \subseteq DOMAIN Folded
      BY <1>2 DEF Prune, Only
    <3> QED
      BY <1>2, <3>1, FoldedRefs DEF Prune, Only
  <2>3. NamesGone'
    <3>1. DOMAIN dict["names"] = {} => DOMAIN dict'["names"] = {}
      BY <2>2 DEF Swept, Tables
    <3> QED
      BY <1>t, <2>2, <3>1 DEF NamesGone
  <2>4. PurgeOrder'
    BY <1>t, <2>2 DEF PurgeOrder
  <2> QED
    BY <2>1, <2>3, <2>4 DEF OrphanInv
<1>3. CASE PurgeEvents
  <2>1. DOMAIN events' = {} /\ rollups' = rollups /\ dict' = dict /\ purge' = 3
    BY <1>3, NoRows DEF PurgeEvents, Statement
  <2> QED
    BY <2>1 DEF OrphanInv, PurgeOrder, EventsCounted, NamesGone, EntriesUsed
<1>4. CASE PurgeRollups
  <2>1. DOMAIN events = {} /\ DOMAIN rollups' = {} /\ events' = events /\ purge' = 2
    BY <1>4, <1>t, NoRows DEF PurgeRollups, Statement, PurgeOrder
  <2> QED
    BY <2>1 DEF OrphanInv, PurgeOrder, EventsCounted, NamesGone, EntriesUsed
<1>5. CASE PurgeNames
  <2>1. DOMAIN events = {} /\ DOMAIN rollups = {} /\ UNCHANGED <<events, rollups>>
    BY <1>5, <1>t DEF PurgeNames, PurgeOrder
  <2>2. purge' = 1 /\ DOMAIN dict'["names"] = {}
    BY <1>5, <1>t DEF PurgeNames, Statement, Tables
  <2> QED
    BY <2>1, <2>2 DEF OrphanInv, PurgeOrder, EventsCounted, NamesGone, EntriesUsed
<1>6. CASE PurgeClients
  <2>1. /\ DOMAIN events = {} /\ DOMAIN rollups = {} /\ UNCHANGED <<events, rollups>>
        /\ DOMAIN dict["names"] = {} /\ purge' = 0
    BY <1>6, <1>t DEF PurgeClients, PurgeOrder, NamesGone, Statement
  <2>2. DOMAIN dict'["names"] = {} /\ DOMAIN dict'["clients"] = {}
    BY <1>6, <1>t, <2>1 DEF PurgeClients, Tables
  <2> QED
    BY <2>1, <2>2 DEF OrphanInv, PurgeOrder, EventsCounted, NamesGone, EntriesUsed, Tables
<1>7. CASE PurgeCrash
  BY <1>7 DEF PurgeCrash, tables, OrphanInv, PurgeOrder, EventsCounted, NamesGone, EntriesUsed
<1>8. CASE UNCHANGED <<purge, dict, events, rollups, litter>>
  BY <1>8 DEF OrphanInv, PurgeOrder, EventsCounted, NamesGone, EntriesUsed, UsedIds
<1>9. CASE Tick \/ SetRetention \/ UNCHANGED vars
  BY <1>8, <1>9 DEF Tick, SetRetention, vars, tables
<1> QED
  BY <1>1, <1>2, <1>3, <1>4, <1>5, <1>6, <1>7, <1>9 DEF Next

\* The dictionaries name nothing that is in no stored query or count, unless a
\* purge is under way, was killed or was mixed with an ingest, or queries are
\* kept longer than the counts of their day.
THEOREM OrphansGo == Spec => []NoOrphans
<1>1. CASE LongDays
  <2>1. Init => (~mixed => OrphanInv)
    BY NoRows DEF Init, OrphanInv, PurgeOrder, EventsCounted, NamesGone, EntriesUsed
  <2>2. Stored /\ (~mixed => OrphanInv) /\ [Next]_vars => (~mixed => OrphanInv)'
    BY <1>1, OrphanStep, MixedStays
  <2>3. (~mixed => OrphanInv) => NoOrphans
    BY DEF OrphanInv, EntriesUsed, NoOrphans
  <2> QED
    BY <2>1, <2>2, <2>3, StoredHolds, PTL DEF Spec
<1>2. CASE ~LongDays
  <2>1. TRUE => NoOrphans
    BY <1>2 DEF LongDays, NoOrphans
  <2> QED
    BY <2>1, PTL
<1> QED
  BY <1>1, <1>2

---------------------------------------------------------------------------
(* The tables implement QueryCounts.  A row comes to a query through the   *)
(* entries of its time (AsListed, AsCounted), and what a statement does to *)
(* the rows it does to the queries: one more row is one more query, a fold *)
(* changes no row's day, and all rows of a day are too old or none is.     *)

QueryBy(d, x) == [t \in Tables |-> d[t][x.ref[t]]]
AsListed(d) == [x \in Event |-> [ts |-> x.ts, query |-> QueryBy(d, x)]]
AsCounted(d) == [x \in Rollup |-> [day |-> DayOf(x.bucket), query |-> QueryBy(d, x)]]

\* The rows of a day are at its beginning.
DayStarts == \A x \in DOMAIN rollups : x.span = "d" => DayOf(x.bucket) = x.bucket

LEMMA ViewIs == Stored /\ Resolves =>
                  /\ Listed = Mapped(AsListed(dict), events)
                  /\ Counted = Mapped(AsCounted(dict), rollups)
<1> SUFFICES ASSUME Stored, Resolves
             PROVE  /\ Listed = Mapped(AsListed(dict), events)
                    /\ Counted = Mapped(AsCounted(dict), rollups)
  OBVIOUS
<1>1. /\ IsABag(events) /\ DOMAIN events \subseteq Event
      /\ IsABag(rollups) /\ DOMAIN rollups \subseteq Rollup
  BY DEF Stored, TypeOK
<1>2. Only(events, Known) = events /\ Only(rollups, Known) = rollups
  <2>1. {x \in DOMAIN events : Known(x)} = DOMAIN events
        /\ {x \in DOMAIN rollups : Known(x)} = DOMAIN rollups
    BY DEF Resolves
  <2>2. events = [x \in DOMAIN events |-> events[x]]
        /\ rollups = [x \in DOMAIN rollups |-> rollups[x]]
    BY <1>1, BagHas
  <2> QED BY <2>1, <2>2 DEF Only
<1>3. Listed = Mapped(AsListed(dict), events)
  <2> DEFINE g == AsListed(dict)
             image(d) == [ts |-> d.ts, query |-> QueryOf(d)]
             copies(e) == [d \in DOMAIN events |-> IF image(d) = e THEN events[d] ELSE 0]
             same(e) == [d \in DOMAIN events |-> IF g[d] = e THEN events[d] ELSE 0]
             T == {image(d) : d \in DOMAIN events}
  <2>1. Listed = BagOfAll(image, events)
    BY <1>2 DEF Listed
  <2>2. BagOfAll(image, events) = [e \in T |-> Total(copies(e))]
    BY DEF BagOfAll, BagToSet, Total
  <2>3. \A d \in DOMAIN events : g[d] = image(d)
    BY <1>1 DEF AsListed, QueryBy, QueryOf
  <2> HIDE DEF g, image
  <2>4. \A e : copies(e) = same(e)
    BY <2>3
  <2>5. {g[d] : d \in DOMAIN events} = T
    BY <2>3
  <2>6. Mapped(g, events) = [e \in {g[d] : d \in DOMAIN events} |-> Total(same(e))]
    BY DEF Mapped
  <2> HIDE DEF copies, same, T
  <2>7. \A e : Total(copies(e)) = Total(same(e))
    BY <2>4
  <2>8. Listed = Mapped(g, events)
    BY <2>1, <2>2, <2>5, <2>6, <2>7
  <2> QED BY <2>8 DEF g
<1>4. Counted = Mapped(AsCounted(dict), rollups)
  <2> DEFINE g == AsCounted(dict)
             image(d) == [day |-> DayOf(d.bucket), query |-> QueryOf(d)]
             copies(e) == [d \in DOMAIN rollups |-> IF image(d) = e THEN rollups[d] ELSE 0]
             same(e) == [d \in DOMAIN rollups |-> IF g[d] = e THEN rollups[d] ELSE 0]
             T == {image(d) : d \in DOMAIN rollups}
  <2>1. Counted = BagOfAll(image, rollups)
    BY <1>2 DEF Counted
  <2>2. BagOfAll(image, rollups) = [e \in T |-> Total(copies(e))]
    BY DEF BagOfAll, BagToSet, Total
  <2>3. \A d \in DOMAIN rollups : g[d] = image(d)
    BY <1>1 DEF AsCounted, QueryBy, QueryOf
  <2> HIDE DEF g, image
  <2>4. \A e : copies(e) = same(e)
    BY <2>3
  <2>5. {g[d] : d \in DOMAIN rollups} = T
    BY <2>3
  <2>6. Mapped(g, rollups) = [e \in {g[d] : d \in DOMAIN rollups} |-> Total(same(e))]
    BY DEF Mapped
  <2> HIDE DEF copies, same, T
  <2>7. \A e : Total(copies(e)) = Total(same(e))
    BY <2>4
  <2>8. Counted = Mapped(g, rollups)
    BY <2>1, <2>2, <2>5, <2>6, <2>7
  <2> QED BY <2>8 DEF g
<1> QED BY <1>3, <1>4

LEMMA ViewIsNext == Stored' /\ Resolves' =>
                      /\ Listed' = Mapped(AsListed(dict'), events')
                      /\ Counted' = Mapped(AsCounted(dict'), rollups')
<1>1. (Stored /\ Resolves =>
         /\ Listed = Mapped(AsListed(dict), events)
         /\ Counted = Mapped(AsCounted(dict), rollups))'
  BY ViewIs, PTL
<1> QED BY <1>1

LEMMA PromiseInit == Init => Promise!Init
<1> SUFFICES ASSUME Init PROVE Promise!Init
  OBVIOUS
<1>1. Stored /\ Resolves
  BY StoredInit, ResolveInit DEF ResolveInv
<1>2. Listed = EmptyBag /\ Counted = EmptyBag
  BY <1>1, ViewIs, MappedNothing, NoRows DEF Init
<1> QED BY <1>2 DEF Init, Promise!Init, EmptyBag, Promise!EmptyBag, SetToBag, Promise!SetToBag

LEMMA PromiseAdd ==
  ASSUME Stored, Stored', Resolves, Resolves', AddBatch
  PROVE  Promise!Record
<1>t. /\ now \in Nat /\ keep.events \in Nat /\ ingested < MaxQueries
      /\ DOMAIN dict = Tables
  BY StatsAssumption DEF Stored, TypeOK, AddBatch
<1>b. /\ IsABag(events) /\ IsFiniteSet(DOMAIN events) /\ DOMAIN events \subseteq Event
      /\ IsABag(rollups) /\ IsFiniteSet(DOMAIN rollups) /\ DOMAIN rollups \subseteq Rollup
  BY DEF Stored, TypeOK
<1>1. PICK l \in Lateness, q \in Query : l <= now /\ AddEvent(now - l, q)
  BY DEF AddBatch
<1>2. PICK ts \in 0..now : ts = now - l
  <2>1. l \in Nat
    BY StatsAssumption
  <2> QED BY <1>1, <1>t, <2>1
<1>3. /\ \A t \in Tables : dict'[t] = WithEntry(t, q[t])
      /\ events' = IF ts >= EventsAfter THEN events (+) SetToBag({EventOf(ts, q)}) ELSE events
      /\ rollups' = rollups (+) SetToBag({RollupOf(ts, q)})
      /\ UNCHANGED <<now, keep>>
  BY <1>1, <1>2 DEF AddBatch, AddEvent, EventOf, RollupOf, RefOf
<1>4. /\ Listed = Mapped(AsListed(dict), events)
      /\ Counted = Mapped(AsCounted(dict), rollups)
  BY ViewIs
<1>5. /\ Listed' = Mapped(AsListed(dict'), events')
      /\ Counted' = Mapped(AsCounted(dict'), rollups')
  BY ViewIsNext
<1>6. \A t \in Tables : /\ \A i \in DOMAIN dict[t] : dict'[t][i] = dict[t][i]
                        /\ dict'[t][Lookup(t, q[t])] = q[t]
  <2> SUFFICES ASSUME NEW t \in Tables
               PROVE  /\ \A i \in DOMAIN dict[t] : dict'[t][i] = dict[t][i]
                      /\ dict'[t][Lookup(t, q[t])] = q[t]
    OBVIOUS
  <2> DEFINE k == Lookup(t, q[t])
  <2>1. dict'[t] = [i \in DOMAIN dict[t] \cup {k} |-> IF i = k THEN q[t] ELSE dict[t][i]]
    BY <1>3 DEF WithEntry
  <2>2. k \in DOMAIN dict[t] => dict[t][k] = q[t]
    BY LookupFacts
  <2> HIDE DEF k
  <2>3. /\ \A i \in DOMAIN dict[t] : dict'[t][i] = dict[t][i]
        /\ dict'[t][k] = q[t]
    BY <2>1, <2>2
  <2> QED BY <2>3 DEF k
<1>7. \A x \in DOMAIN events \cup DOMAIN rollups : QueryBy(dict', x) = QueryBy(dict, x)
  <2> SUFFICES ASSUME NEW x \in DOMAIN events \cup DOMAIN rollups
               PROVE  QueryBy(dict', x) = QueryBy(dict, x)
    OBVIOUS
  <2>1. \A t \in Tables : x.ref[t] \in DOMAIN dict[t]
    BY DEF Resolves, Known
  <2> QED BY <1>6, <2>1 DEF QueryBy
<1>8. EventOf(ts, q) \in Event /\ RollupOf(ts, q) \in Rollup
  BY <1>t, AddedTypes
<1>9. /\ QueryBy(dict', EventOf(ts, q)) = q /\ QueryBy(dict', RollupOf(ts, q)) = q
  <2>1. EventOf(ts, q).ref = RefOf(q) /\ RollupOf(ts, q).ref = RefOf(q)
    BY DEF EventOf, RollupOf
  <2>2. \A t \in Tables : dict'[t][RefOf(q)[t]] = q[t]
    BY <1>6 DEF RefOf
  <2>3. q = [t \in Tables |-> q[t]]
    BY DEF Query, Tables
  <2>4. [t \in Tables |-> dict'[t][RefOf(q)[t]]] = [t \in Tables |-> q[t]]
    BY <2>2
  <2> QED BY <2>1, <2>3, <2>4 DEF QueryBy
<1>10. AsCounted(dict')[RollupOf(ts, q)] = [day |-> DayOf(ts), query |-> q]
  <2>1. DayOf(HourOf(ts)) = DayOf(ts)
    BY <1>t, DayFacts
  <2>2. RollupOf(ts, q).bucket = HourOf(ts)
    BY DEF RollupOf
  <2> QED BY <1>8, <1>9, <2>1, <2>2 DEF AsCounted
<1>11. AsListed(dict')[EventOf(ts, q)] = [ts |-> ts, query |-> q]
  <2>1. EventOf(ts, q).ts = ts
    BY DEF EventOf
  <2> QED BY <1>8, <1>9, <2>1 DEF AsListed
<1>12. Mapped(AsListed(dict'), events) = Listed
  <2>1. \A x \in DOMAIN events : AsListed(dict')[x] = AsListed(dict)[x]
    BY <1>7, <1>b DEF AsListed
  <2> QED BY <1>4, <2>1, MappedSame
<1>13. Mapped(AsCounted(dict'), rollups) = Counted
  <2>1. \A x \in DOMAIN rollups : AsCounted(dict')[x] = AsCounted(dict)[x]
    BY <1>7, <1>b DEF AsCounted
  <2> QED BY <1>4, <2>1, MappedSame
<1>14. Counted' = Counted (+) SetToBag({[day |-> DayOf(ts), query |-> q]})
  <2>1. rollups' = Plus(rollups, RollupOf(ts, q), 1)
    BY <1>3, OneMoreIsPlus
  <2>2. Mapped(AsCounted(dict'), rollups')
          = Plus(Mapped(AsCounted(dict'), rollups), AsCounted(dict')[RollupOf(ts, q)], 1)
    BY <1>b, <2>1, MappedPlus
  <2> QED BY <1>5, <1>10, <1>13, <2>2, OneMoreIsPlus
<1>15. Listed' = IF ts + keep.events >= now
                   THEN Listed (+) SetToBag({[ts |-> ts, query |-> q]}) ELSE Listed
  <2>1. ts >= EventsAfter <=> ts + keep.events >= now
    BY <1>t DEF EventsAfter, Ago
  <2>2. CASE ts >= EventsAfter
    <3>1. events' = Plus(events, EventOf(ts, q), 1)
      BY <1>3, <2>2, OneMoreIsPlus
    <3>2. Mapped(AsListed(dict'), events')
            = Plus(Mapped(AsListed(dict'), events), AsListed(dict')[EventOf(ts, q)], 1)
      BY <1>b, <3>1, MappedPlus
    <3>3. Listed' = Listed (+) SetToBag({[ts |-> ts, query |-> q]})
      BY <1>5, <1>11, <1>12, <3>2, OneMoreIsPlus
    <3> QED BY <2>1, <2>2, <3>3
  <2>3. CASE ~(ts >= EventsAfter)
    BY <1>3, <1>5, <1>12, <2>1, <2>3
  <2> QED BY <2>2, <2>3
<1>16. ts \in 0..now /\ q \in Query /\ DayOf(ts) = Promise!DayOf(ts)
  BY DEF DayOf, Promise!DayOf
<1> QED BY <1>3, <1>14, <1>15, <1>16 DEF Promise!Record, (+), SetToBag, Promise!(+), Promise!SetToBag

\* Rows that keep their entries keep their queries.
LEMMA SameEntries ==
  ASSUME NEW d, NEW e, NEW x, \A t \in Tables : e[t][x.ref[t]] = d[t][x.ref[t]]
  PROVE  /\ x \in Event => AsListed(e)[x] = AsListed(d)[x]
         /\ x \in Rollup => AsCounted(e)[x] = AsCounted(d)[x]
<1>1. QueryBy(e, x) = QueryBy(d, x)
  BY DEF QueryBy
<1> QED BY <1>1 DEF AsListed, AsCounted

\* A row after the fold is one that was not folded, or the day of one.
LEMMA FoldedDays ==
  ASSUME Stored, DayStarts, NEW y \in DOMAIN Folded
  PROVE  /\ y \in Rollup /\ y.bucket \in Nat /\ DayOf(y.bucket) \in Nat
         /\ y.span = "d" => DayOf(y.bucket) = y.bucket
         /\ y.span = "h" => FoldBefore <= DayOf(y.bucket)
<1>t. now \in Nat /\ keep.hourly \in Nat /\ DOMAIN rollups \subseteq Rollup
  BY StatsAssumption DEF Stored, TypeOK
<1>1. \A x \in Rollup : x.bucket \in Nat /\ DayOf(x.bucket) \in Nat
  <2>1. \A x \in Rollup : x.bucket \in Nat
    BY StatsAssumption DEF Rollup
  <2> QED BY <2>1, DayFacts
<1>2. DOMAIN Folded = {x \in DOMAIN rollups : ~ToFold(x)}
                        \cup {AsDay(x) : x \in {w \in DOMAIN rollups : ToFold(w)}}
  BY FoldedRows
<1>3. Ago(keep.hourly) \in Nat
  BY <1>t DEF Ago
<1>4. CASE y \in DOMAIN rollups /\ ~ToFold(y)
  <2>1. y \in Rollup
    BY <1>t, <1>4
  <2>2. ASSUME y.span = "h" PROVE FoldBefore <= DayOf(y.bucket)
    <3>1. ~(y.bucket < FoldBefore)
      BY <1>4, <2>2 DEF ToFold
    <3>2. FoldBefore \in Nat /\ FoldBefore = DayOf(Ago(keep.hourly))
      BY <1>3, DayFacts DEF FoldBefore
    <3>3. DayOf(Ago(keep.hourly)) <= y.bucket
      BY <1>1, <2>1, <3>1, <3>2
    <3>4. DayOf(Ago(keep.hourly)) <= DayOf(y.bucket)
      BY <1>1, <1>3, <2>1, <3>3, DayOrder
    <3> QED BY <3>2, <3>4
  <2> QED BY <1>1, <1>4, <2>1, <2>2 DEF DayStarts
<1>5. CASE y \in {AsDay(x) : x \in {w \in DOMAIN rollups : ToFold(w)}}
  <2>1. PICK x \in DOMAIN rollups : y = AsDay(x)
    BY <1>5
  <2>2. /\ y \in Rollup /\ y.bucket = DayOf(x.bucket) /\ y.span = "d"
        /\ DayOf(y.bucket) = DayOf(x.bucket)
    BY <1>t, <2>1, AsDayFacts
  <2> QED BY <1>1, <2>2
<1> QED BY <1>2, <1>4, <1>5

\* A multiple of a day that is below another one is a day below it.
LEMMA DayBelow ==
  ASSUME NEW m \in Nat, NEW n \in Nat, m % Day = 0, n % Day = 0, m < n
  PROVE  m + Day <= n
<1>t. Day \in Nat \ {0}
  BY StatsAssumption
<1>1. \A i \in Nat : i % Day = 0 => \E k \in Nat : i = Day * k
  <2>1. \A i \in Nat : \E k \in Nat : i - (i % Day) = Day * k
    BY <1>t, Floor
  <2> QED BY <2>1
<1>2. PICK j \in Nat, k \in Nat : m = Day * j /\ n = Day * k
  BY <1>1
<1>3. /\ k <= j => Day * k <= Day * j
      /\ j < k => Day * j + Day <= Day * k
  BY <1>t, MultiplesOrder
<1>4. k <= j \/ j < k
  OBVIOUS
<1> QED BY <1>2, <1>3, <1>4

\* The fold stops less than a day before the hours that are kept.
LEMMA FoldPlace ==
  ASSUME Stored
  PROVE  FoldBefore \in Nat /\ Ago(keep.hourly) < FoldBefore + Day
<1>1. Ago(keep.hourly) \in Nat
  BY StatsAssumption DEF Stored, TypeOK, Ago
<1> QED BY <1>1, DayFacts DEF FoldBefore

\* A row that is too old is of a day that began before the retention, and a row
\* of a day that ended before it is too old.
LEMMA TooOldDays ==
  ASSUME Stored, DayStarts, NEW y \in DOMAIN Folded
  PROVE  /\ TooOld(y) => DayOf(y.bucket) + keep.daily < now
         /\ DayOf(y.bucket) + Day + keep.daily <= now => TooOld(y)
<1>t. /\ now \in Nat /\ keep.hourly \in Nat /\ keep.daily \in Nat /\ Day \in Nat \ {0}
      /\ keep.hourly <= keep.daily
  BY StatsAssumption DEF Stored, TypeOK
<1>1. /\ y \in Rollup /\ y.bucket \in Nat /\ DayOf(y.bucket) \in Nat
      /\ y.span = "d" => DayOf(y.bucket) = y.bucket
      /\ y.span = "h" => FoldBefore <= DayOf(y.bucket)
  BY FoldedDays
<1>2. y.span \in {"h", "d"}
  BY <1>1 DEF Rollup
<1>3. FoldBefore \in Nat /\ Ago(keep.hourly) < FoldBefore + Day
  BY FoldPlace
<1>4. \A n \in Nat : n < Ago(keep.daily) <=> n + keep.daily < now
  BY <1>t DEF Ago
<1>5. keep.hourly <= now => Ago(keep.hourly) = now - keep.hourly
  BY DEF Ago
<1>6. ~(y.span = "h" /\ DayOf(y.bucket) + Day + keep.daily <= now)
  <2> HIDE DEF FoldBefore
  <2> QED BY <1>t, <1>1, <1>3, <1>5
<1> QED BY <1>t, <1>1, <1>2, <1>4, <1>6 DEF TooOld

\* If hours are folded before their day is too old, a day goes as a whole.
LEMMA WholeDayTooOld ==
  ASSUME Stored, DayStarts, keep.hourly < keep.daily, NEW y \in DOMAIN Folded
  PROVE  TooOld(y) <=> DayOf(y.bucket) < Ago(keep.daily)
<1>t. /\ now \in Nat /\ keep.hourly \in Nat /\ keep.daily \in Nat /\ Day \in Nat \ {0}
      /\ keep.hourly % Day = 0 /\ keep.daily % Day = 0
  BY StatsAssumption DEF Stored, TypeOK
<1>1. /\ y \in Rollup /\ DayOf(y.bucket) \in Nat
      /\ y.span = "d" => DayOf(y.bucket) = y.bucket
      /\ y.span = "h" => FoldBefore <= DayOf(y.bucket)
  BY FoldedDays
<1>2. y.span \in {"h", "d"}
  BY <1>1 DEF Rollup
<1>3. Ago(keep.daily) \in Nat /\ Ago(keep.daily) <= FoldBefore
  <2>1. Ago(keep.daily) \in Nat /\ Ago(keep.hourly) \in Nat
    BY <1>t DEF Ago
  <2>2. FoldBefore \in Nat /\ Ago(keep.hourly) < FoldBefore + Day
    BY FoldPlace
  <2>3. keep.hourly + Day <= keep.daily
    BY <1>t, DayBelow
  <2>4. Ago(keep.daily) = 0 \/ Ago(keep.daily) + Day <= Ago(keep.hourly)
    BY <1>t, <2>3 DEF Ago
  <2> HIDE DEF FoldBefore
  <2> QED BY <1>t, <2>1, <2>2, <2>4
<1>4. FoldBefore \in Nat
  BY FoldPlace
<1> HIDE DEF FoldBefore
<1> QED BY <1>1, <1>2, <1>3, <1>4 DEF TooOld

LEMMA StartsStep == Stored /\ DayStarts /\ [Next]_vars => DayStarts'
<1> SUFFICES ASSUME Stored, DayStarts, [Next]_vars PROVE DayStarts'
  OBVIOUS
<1>1. CASE AddBatch
  <2>1. PICK ts \in 0..now, q \in Query :
          DOMAIN rollups' = DOMAIN rollups \cup {RollupOf(ts, q)}
    BY <1>1, AddedRows
  <2>2. RollupOf(ts, q).span = "h"
    BY DEF RollupOf
  <2> QED BY <2>1, <2>2 DEF DayStarts
<1>2. CASE Prune
  <2>1. DOMAIN rollups' \subseteq DOMAIN Folded
    BY <1>2 DEF Prune, Only
  <2> HIDE DEF Folded
  <2> QED BY <2>1, FoldedDays DEF DayStarts
<1>3. CASE rollups' = EmptyBag
  BY <1>3, NoRows DEF DayStarts
<1>4. CASE rollups' = rollups
  BY <1>4 DEF DayStarts
<1> QED BY <1>1, <1>2, <1>3, <1>4 DEF Next, PurgeEvents, PurgeRollups, PurgeNames,
           PurgeClients, PurgeCrash, Tick, SetRetention, vars, tables

\* What is folded, as Mapped.
LEMMA FoldedIs ==
  ASSUME Stored, NEW k, \A x \in Rollup : k[AsDay(x)] = k[x]
  PROVE  Mapped(k, Folded) = Mapped(k, rollups)
<1> DEFINE W == {x \in DOMAIN rollups : ToFold(x)}
           h == [x \in W |-> AsDay(x)]
<1>1. IsABag(rollups) /\ IsFiniteSet(DOMAIN rollups) /\ DOMAIN rollups \subseteq Rollup
  BY DEF Stored, TypeOK
<1>2. Old = [x \in W |-> rollups[x]] /\ Kept = [x \in DOMAIN rollups \ W |-> rollups[x]]
  <2>1. {x \in DOMAIN rollups : ~ToFold(x)} = DOMAIN rollups \ W
    OBVIOUS
  <2> QED BY <2>1 DEF Old, Kept, Only
<1>3. Days = Mapped(h, Old)
  <2>1. DOMAIN Old = W
    BY <1>2
  <2>2. Days = Mapped([d \in DOMAIN Old |-> AsDay(d)], Old)
    BY DaysAre
  <2> QED BY <2>1, <2>2
<1>4. W \in SUBSET DOMAIN rollups /\ \A x \in W : k[h[x]] = k[x]
  BY <1>1
<1> HIDE DEF W, h
<1>5. Mapped(k, [x \in DOMAIN rollups \ W |-> rollups[x]] (+) Mapped(h, [x \in W |-> rollups[x]]))
        = Mapped(k, rollups)
  BY <1>1, <1>4, MappedAgain
<1>6. Folded = Kept (+) Days
  BY DEF Folded, Kept, Days, Old
<1> QED BY <1>2, <1>3, <1>5, <1>6

\* The same DELETE on the folded rows.
LEMMA FoldedPart ==
  ASSUME Stored, NEW g, NEW Z
  PROVE  Mapped(g, [x \in {y \in DOMAIN Folded : g[y] \in Z} |-> Folded[x]])
           = [e \in {x \in DOMAIN Mapped(g, Folded) : x \in Z} |-> Mapped(g, Folded)[e]]
<1> DEFINE B == Folded
<1>1. IsABag(B) /\ IsFiniteSet(DOMAIN B)
  BY FoldedRows
<1> HIDE DEF B
<1>2. Mapped(g, [x \in {y \in DOMAIN B : g[y] \in Z} |-> B[x]])
        = [e \in {x \in DOMAIN Mapped(g, B) : x \in Z} |-> Mapped(g, B)[e]]
  BY <1>1, MappedPart, SMTT(60)
<1> QED BY <1>2 DEF B

LEMMA PromisePrune ==
  ASSUME Stored, Stored', Resolves, Resolves', DayStarts, Prune
  PROVE  Promise!Expire
<1> DEFINE G == AsListed(dict)
           K == AsCounted(dict)
<1>t. now \in Nat /\ keep.events \in Nat /\ keep.daily \in Nat /\ Day \in Nat \ {0}
  BY StatsAssumption DEF Stored, TypeOK
<1>b. /\ IsABag(events) /\ IsFiniteSet(DOMAIN events) /\ DOMAIN events \subseteq Event
      /\ IsABag(rollups) /\ IsFiniteSet(DOMAIN rollups) /\ DOMAIN rollups \subseteq Rollup
      /\ DOMAIN events' \subseteq Event /\ DOMAIN rollups' \subseteq Rollup
  BY DEF Stored, TypeOK
<1>f. IsABag(Folded) /\ IsFiniteSet(DOMAIN Folded)
  BY FoldedRows
<1>1. /\ events' = [x \in {y \in DOMAIN events : y.ts >= EventsAfter} |-> events[x]]
      /\ rollups' = [x \in {y \in DOMAIN Folded : ~TooOld(y)} |-> Folded[x]]
      /\ dict' = dict \/ dict' = Swept(events', rollups')
      /\ UNCHANGED <<now, keep>>
  BY DEF Prune, Only
<1>2. Listed = Mapped(G, events) /\ Counted = Mapped(K, rollups)
  BY ViewIs
<1>3. Listed' = Mapped(G, events') /\ Counted' = Mapped(K, rollups')
  <2>1. \A x \in DOMAIN events' \cup DOMAIN rollups', t \in Tables :
          dict'[t][x.ref[t]] = dict[t][x.ref[t]]
    <3>1. CASE dict' = dict
      BY <3>1
    <3>2. CASE dict' = Swept(events', rollups')
      <4>1. \A t \in Tables : \A i \in DOMAIN dict'[t] : dict'[t][i] = dict[t][i]
        BY <3>2 DEF Swept
      <4>2. \A x \in DOMAIN events' \cup DOMAIN rollups', t \in Tables :
              x.ref[t] \in DOMAIN dict'[t]
        BY DEF Resolves, Known
      <4> QED BY <4>1, <4>2
    <3> QED BY <1>1, <3>1, <3>2
  <2>2. /\ \A x \in DOMAIN events' : AsListed(dict')[x] = G[x]
        /\ \A x \in DOMAIN rollups' : AsCounted(dict')[x] = K[x]
    <3>1. ASSUME NEW x \in DOMAIN events' \cup DOMAIN rollups'
          PROVE  /\ x \in Event => AsListed(dict')[x] = G[x]
                 /\ x \in Rollup => AsCounted(dict')[x] = K[x]
      <4>1. \A t \in Tables : dict'[t][x.ref[t]] = dict[t][x.ref[t]]
        BY <2>1
      <4> QED BY <4>1, SameEntries
    <3> HIDE DEF G, K
    <3> QED BY <1>b, <3>1
  <2>3. /\ Mapped(AsListed(dict'), events') = Mapped(G, events')
        /\ Mapped(AsCounted(dict'), rollups') = Mapped(K, rollups')
    <3> HIDE DEF G, K
    <3> QED BY <2>2, MappedSame
  <2> QED BY <2>3, ViewIsNext
<1>4. Mapped(K, Folded) = Counted
  <2>1. \A x \in Rollup : K[AsDay(x)] = K[x]
    BY AsDayFacts DEF AsCounted, QueryBy
  <2> HIDE DEF K
  <2> QED BY <1>2, <2>1, FoldedIs
<1>5. Listed' = [e \in {x \in DOMAIN Listed : x.ts + keep.events >= now} |-> Listed[e]]
  <2> DEFINE Z == {e \in DOMAIN Listed : e.ts + keep.events >= now}
  <2>1. \A y \in DOMAIN events : G[y] \in DOMAIN Listed /\ G[y].ts = y.ts /\ y.ts \in Nat
    <3>1. \A y \in DOMAIN events : G[y] \in DOMAIN Listed
      BY <1>2 DEF Mapped
    <3>2. \A y \in DOMAIN events : G[y].ts = y.ts /\ y.ts \in Nat
      BY <1>b, StatsAssumption DEF AsListed, Event
    <3> QED BY <3>1, <3>2
  <2>2. {y \in DOMAIN events : y.ts >= EventsAfter} = {y \in DOMAIN events : G[y] \in Z}
    <3>1. \A n \in Nat : n >= EventsAfter <=> n + keep.events >= now
      BY <1>t DEF EventsAfter, Ago
    <3> HIDE DEF G
    <3> QED BY <2>1, <3>1
  <2>3. Mapped(G, [x \in {y \in DOMAIN events : G[y] \in Z} |-> events[x]])
          = [e \in {x \in DOMAIN Listed : x \in Z} |-> Listed[e]]
    <3> HIDE DEF Z, G
    <3> QED BY <1>2, <1>b, MappedPart
  <2>4. {x \in DOMAIN Listed : x \in Z} = {x \in DOMAIN Listed : x.ts + keep.events >= now}
    OBVIOUS
  <2> HIDE DEF Z, G
  <2> QED BY <1>1, <1>3, <2>2, <2>3, <2>4
<1> DEFINE S == {y \in DOMAIN Folded : ~TooOld(y)}
<1>6. \A y \in DOMAIN Folded :
        K[y] \in DOMAIN Counted /\ K[y].day = DayOf(y.bucket) /\ DayOf(y.bucket) \in Nat
  <2>1. \A y \in DOMAIN Folded : K[y] \in DOMAIN Counted
    BY <1>4 DEF Mapped
  <2>2. \A y \in DOMAIN Folded : K[y].day = DayOf(y.bucket)
    <3>1. \A y \in DOMAIN Folded : y \in Rollup
      BY FoldedDays
    <3> QED BY <3>1 DEF AsCounted
  <2> QED BY <2>1, <2>2, FoldedDays
<1>7. /\ S \in SUBSET DOMAIN Folded /\ rollups' = [x \in S |-> Folded[x]]
      /\ Counted' = Mapped(K, [x \in S |-> Folded[x]])
  BY <1>1, <1>3
<1>8. DOMAIN Counted = {K[y] : y \in DOMAIN Folded} /\ DOMAIN Counted' = {K[y] : y \in S}
  <2>1. DOMAIN Counted = {K[y] : y \in DOMAIN Folded}
    BY <1>4 DEF Mapped
  <2>2. DOMAIN Counted' = {K[y] : y \in S}
    <3> HIDE DEF K, S
    <3> QED BY <1>7 DEF Mapped
  <2> QED BY <2>1, <2>2
<1>9. /\ DOMAIN Counted' \subseteq DOMAIN Counted
      /\ \A e \in DOMAIN Counted' : Counted'[e] <= Counted[e]
  <2> HIDE DEF K, S
  <2>1. \A e \in DOMAIN Mapped(K, [x \in S |-> Folded[x]]) :
          Mapped(K, [x \in S |-> Folded[x]])[e] <= Mapped(K, Folded)[e]
    BY <1>f, <1>7, MappedLess
  <2> QED BY <1>4, <1>7, <1>8, <2>1
<1>10. ASSUME NEW x \in DOMAIN Counted, x.day + keep.daily >= now
       PROVE  x \in DOMAIN Counted' /\ Counted'[x] = Counted[x]
  <2>1. ASSUME NEW y \in DOMAIN Folded, K[y] = x PROVE y \in S
    <3>1. ~(DayOf(y.bucket) + keep.daily < now)
      <4> HIDE DEF K
      <4> QED BY <1>t, <1>6, <1>10, <2>1
    <3>2. ~TooOld(y)
      BY <3>1, TooOldDays
    <3> QED BY <3>2
  <2> HIDE DEF K, S
  <2>2. x \in DOMAIN Mapped(K, Folded)
    BY <1>4
  <2>3. /\ x \in DOMAIN Mapped(K, [y \in S |-> Folded[y]])
        /\ Mapped(K, [y \in S |-> Folded[y]])[x] = Mapped(K, Folded)[x]
    BY <1>f, <1>7, <2>1, <2>2, MappedWhole
  <2> QED BY <1>4, <1>7, <2>3
<1>11. ASSUME NEW x \in DOMAIN Counted' PROVE x.day + Day + keep.daily > now
  <2>1. PICK y \in S : x = K[y]
    BY <1>8
  <2>2. x.day = DayOf(y.bucket) /\ DayOf(y.bucket) \in Nat
    <3> HIDE DEF K
    <3> QED BY <1>6, <2>1
  <2>3. ~(DayOf(y.bucket) + Day + keep.daily <= now)
    BY TooOldDays
  <2> QED BY <1>t, <2>2, <2>3
<1>12. ASSUME keep.hourly < keep.daily
       PROVE  \E gone \in SUBSET {x.day : x \in DOMAIN Counted} :
                Counted' = [e \in {x \in DOMAIN Counted : x.day \notin gone} |-> Counted[e]]
  <2> DEFINE gone == {d \in {x.day : x \in DOMAIN Counted} : d < Ago(keep.daily)}
             Z == {e \in DOMAIN Counted : e.day \notin gone}
  <2>1. S = {y \in DOMAIN Folded : K[y] \in Z}
    <3>1. \A y \in DOMAIN Folded : TooOld(y) <=> DayOf(y.bucket) < Ago(keep.daily)
      BY <1>12, WholeDayTooOld
    <3> HIDE DEF K
    <3> QED BY <1>6, <3>1
  <2>2. Mapped(K, [x \in {y \in DOMAIN Folded : K[y] \in Z} |-> Folded[x]])
          = [e \in {x \in DOMAIN Counted : x \in Z} |-> Counted[e]]
    <3> HIDE DEF Z, K, S, gone
    <3>1. Mapped(K, [x \in {y \in DOMAIN Folded : K[y] \in Z} |-> Folded[x]])
            = [e \in {x \in DOMAIN Mapped(K, Folded) : x \in Z} |-> Mapped(K, Folded)[e]]
      BY FoldedPart
    <3> QED BY <1>4, <3>1
  <2>3. {x \in DOMAIN Counted : x \in Z} = {x \in DOMAIN Counted : x.day \notin gone}
    OBVIOUS
  <2>4. gone \in SUBSET {x.day : x \in DOMAIN Counted}
    OBVIOUS
  <2> HIDE DEF Z, K, S, gone
  <2>5. Counted' = [e \in {x \in DOMAIN Counted : x.day \notin gone} |-> Counted[e]]
    BY <1>7, <2>1, <2>2, <2>3
  <2> QED BY <2>4, <2>5
<1> HIDE DEF G, K, S
<1>13. Listed' = Promise!Only(Listed, LAMBDA x : x.ts + keep.events >= now)
  BY <1>5 DEF Promise!Only
<1>14. keep.hourly < keep.daily =>
         \E gone \in SUBSET {x.day : x \in DOMAIN Counted} :
           Counted' = Promise!Only(Counted, LAMBDA x : x.day \notin gone)
  BY <1>12 DEF Promise!Only
<1> QED BY <1>1, <1>9, <1>10, <1>11, <1>13, <1>14 DEF Promise!Expire, Promise!\sqsubseteq

LEMMA PromiseStep ==
  Stored /\ Stored' /\ ResolveInv /\ ResolveInv' /\ DayStarts /\ [Next]_vars
    => [Promise!Next]_(Promise!vars)
<1> SUFFICES ASSUME Stored, Stored', ResolveInv, ResolveInv', DayStarts, [Next]_vars
             PROVE  Promise!Next \/ UNCHANGED <<now, keep, Listed, Counted>>
  BY DEF Promise!vars
<1>1. /\ Listed = Mapped(AsListed(dict), events) /\ Counted = Mapped(AsCounted(dict), rollups)
      /\ Listed' = Mapped(AsListed(dict'), events')
      /\ Counted' = Mapped(AsCounted(dict'), rollups')
      /\ PurgeOrder
  BY ViewIs, ViewIsNext DEF ResolveInv
<1>2. /\ DOMAIN events = {} => Listed = EmptyBag
      /\ DOMAIN events' = {} => Listed' = EmptyBag
      /\ DOMAIN rollups = {} => Counted = EmptyBag
      /\ DOMAIN rollups' = {} => Counted' = EmptyBag
  BY <1>1, MappedNothing
<1>3. CASE AddBatch
  BY <1>3, PromiseAdd DEF ResolveInv, Promise!Next
<1>4. CASE Prune
  BY <1>4, PromisePrune DEF ResolveInv, Promise!Next
<1>5. CASE PurgeEvents
  <2>1. /\ DOMAIN events' = {} /\ rollups' = rollups /\ dict' = dict /\ now' = now /\ keep' = keep
    BY <1>5, NoRows DEF PurgeEvents, Statement
  <2>2. Listed' = EmptyBag /\ Counted' = Counted
    BY <1>1, <1>2, <2>1
  <2> QED BY <2>1, <2>2 DEF Promise!Next, Promise!Forget, EmptyBag, SetToBag, Promise!EmptyBag,
                          Promise!SetToBag
<1>6. CASE PurgeRollups
  <2>1. /\ DOMAIN events' = {} /\ DOMAIN rollups' = {} /\ now' = now /\ keep' = keep
    BY <1>1, <1>6, NoRows DEF PurgeRollups, PurgeOrder, Statement
  <2>2. Listed' = EmptyBag /\ Counted' = EmptyBag
    BY <1>2, <2>1
  <2> QED BY <2>1, <2>2 DEF Promise!Next, Promise!Forget, EmptyBag, SetToBag, Promise!EmptyBag,
                          Promise!SetToBag
<1>7. CASE PurgeNames \/ PurgeClients
  <2>1. /\ DOMAIN events = {} /\ DOMAIN rollups = {} /\ UNCHANGED <<events, rollups, now, keep>>
    BY <1>1, <1>7 DEF PurgeNames, PurgeClients, PurgeOrder, Statement
  <2> QED BY <1>2, <2>1
<1>8. CASE UNCHANGED tables
  <2>1. Listed' = Listed /\ Counted' = Counted
    BY <1>1, <1>8 DEF tables
  <2>2. CASE Tick
    BY <2>1, <2>2, StatsAssumption DEF Tick, Stored, TypeOK, Promise!Next, Promise!Pass
  <2>3. CASE SetRetention
    BY <2>1, <2>3 DEF SetRetention, Promise!Next, Promise!Keep
  <2>4. CASE PurgeCrash \/ UNCHANGED vars
    BY <2>1, <2>4 DEF PurgeCrash, vars
  <2> QED BY <1>3, <1>4, <1>5, <1>6, <1>7, <2>2, <2>3, <2>4 DEF Next
<1>9. CASE Tick \/ SetRetention \/ PurgeCrash \/ UNCHANGED vars
  BY <1>8, <1>9 DEF Tick, SetRetention, PurgeCrash, vars
<1> QED BY <1>3, <1>4, <1>5, <1>6, <1>7, <1>9 DEF Next

(***************************************************************************)
(* The tables keep the promise of QueryCounts: each query counts once on   *)
(* its day while the day is kept, and each recent one can be listed,       *)
(* whatever is folded, swept from the dictionaries or given a used id      *)
(* again, under any retention, until an ingester commits between two       *)
(* statements of a purge.                                                  *)
(***************************************************************************)
THEOREM StatsKeepPromise == Spec => KeepsPromise
<1>1. Init => DayStarts /\ (~mixed => ResolveInv)
  BY NoRows, ResolveInit DEF Init, DayStarts
<1>2. (~mixed => ResolveInv) /\ [Next]_vars => (~mixed => ResolveInv)'
  BY ResolveStep, MixedStays
<1>3. Stored /\ DayStarts /\ [Next]_vars => DayStarts'
  BY StartsStep
<1>4. Stored /\ Stored' /\ (~mixed => ResolveInv) /\ (~mixed => ResolveInv)' /\ DayStarts
        /\ [Next]_vars => [Promise!Next \/ mixed']_(Promise!vars)
  BY PromiseStep, MixedStays
<1> QED BY <1>1, <1>2, <1>3, <1>4, StoredInit, StoredNext, PromiseInit, PTL
         DEF Spec, KeepsPromise
=============================================================================
