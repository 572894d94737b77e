----------------------- MODULE ResponseAnalysisProofs -----------------------
(* Proofs about ResponseAnalysis, for any snapshots, evidence and clocks: an *)
(* option that is selected stands, the chain of eliminations loses no better *)
(* option, and the supply arithmetic agrees with its reference definitions.  *)
(*                                                                           *)
(* The last rests on the sections on sums (a fold over a finite set, in any  *)
(* order), sorting (ranks by a key), the allocation loop (a ledger of what   *)
(* each turn received, demanded and got) and the exposure calculator.        *)
EXTENDS ResponseAnalysis, FiniteSetTheorems, TLAPS

-----------------------------------------------------------------------------
(* Lemmas about the operators *)

\* Of finitely many integers one is the least.
LEMMA MinIsLeast ==
    ASSUME NEW S \in SUBSET Int, IsFiniteSet(S), S # {}
    PROVE  Min(S) \in S /\ \A y \in S : Min(S) <= y
<1> DEFINE below(x) == {y \in S : y < x}
           segments == {below(x) : x \in S}
<1>1. segments # {} /\ segments \subseteq FiniteSubsetsOf(S)
  <2>1. \A x \in S : below(x) \in SUBSET S /\ IsFiniteSet(below(x))
    BY FS_Subset
  <2> QED BY <2>1 DEF FiniteSubsetsOf
<1>2. PICK least \in segments : \A y \in segments : <<y, least>> \notin StrictSubsetOrdering(S)
  BY <1>1, FS_StrictSubsetOrderingWellFounded, WFMin
<1>3. PICK x \in S : least = below(x)
  OBVIOUS
<1>4. \A y \in S : x <= y
  <2> SUFFICES ASSUME NEW y \in S, y < x PROVE FALSE
    OBVIOUS
  <2>0. x \in Int /\ y \in Int /\ \A z \in S : z \in Int
    OBVIOUS
  <2>1. \A z \in below(y) : z \in below(x)
    BY <2>0
  <2>2. y \in below(x) /\ y \notin below(y)
    BY <2>0
  <2>3. below(x) \subseteq S /\ below(y) \subseteq S
    OBVIOUS
  <2>4. below(y) \in segments
    OBVIOUS
  <2> HIDE DEF below, segments
  <2>5. <<below(y), least>> \in StrictSubsetOrdering(S)
    BY <1>3, <2>1, <2>2, <2>3 DEF StrictSubsetOrdering
  <2> QED BY <1>2, <2>4, <2>5
<1> QED BY <1>3, <1>4 DEF Min

LEMMA OneOption ==
    ASSUME NEW S, IsFiniteSet(S), Cardinality(S) = 1
    PROVE  \E x : S = {x}
  BY FS_Singleton

LEMMA OptionsAreFinite ==
    /\ IsFiniteSet(OptionIds)
    /\ \A o \in OptionIds : IdOrder[o] \in 1 .. 6
    /\ \A o, p \in OptionIds : IdOrder[o] = IdOrder[p] => o = p
<1>1. \A o \in OptionIds : IdOrder[o] \in 1 .. 6
  BY DEF OptionIds, IdOrder
<1>2. \A o, p \in OptionIds : IdOrder[o] = IdOrder[p] => o = p
  BY DEF OptionIds, IdOrder
<1>3. IdOrder \in Injection(OptionIds, 1 .. 6)
  BY <1>1, <1>2 DEF Injection, IsInjective, IdOrder
<1>4. IsFiniteSet(1 .. 6)
  <2>1. \A a, b \in Int : IsFiniteSet(a .. b)
    BY FS_Interval
  <2>2. 1 \in Int /\ 6 \in Int
    OBVIOUS
  <2> QED BY <2>1, <2>2, Zenon
<1> QED BY <1>1, <1>2, <1>3, <1>4, FS_Injection

OutcomeNames == {"uncovered_part_demand", "otif_loss_percentage", "revenue_at_risk",
                 "margin_at_risk", "response_cost"}

LEMMA ComparatorFacts ==
    /\ DOMAIN Comparators = 1 .. 8 /\ Len(Comparators) = 8
    /\ \A i \in 1 .. 8 : /\ Comparators[i].threshold \in Nat
                         /\ Comparators[i].name
                              \in OutcomeNames \union {"burden", "risk", "option_id"}
    /\ Comparators[8] = [name |-> "option_id", threshold |-> 0]
  BY DEF Comparators, OutcomeNames
\* Induction on a natural number up to a bound, as a fact about the set of
\* the numbers a statement holds for.
LEMMA CountingUp ==
    ASSUME NEW n \in Nat, NEW G, 0 \in G, \A k \in 1 .. n : k - 1 \in G => k \in G
    PROVE  0 .. n \subseteq G
<1> DEFINE B == (0 .. n) \ G
<1> SUFFICES ASSUME B # {} PROVE FALSE
  OBVIOUS
<1>1. IsFiniteSet(B) /\ B \in SUBSET Int
  <2>1. IsFiniteSet(0 .. n)
    BY FS_Interval
  <2> QED BY <2>1, FS_Subset
<1>2. Min(B) \in B /\ \A y \in B : Min(B) <= y
  BY <1>1, MinIsLeast
<1> HIDE DEF B
<1> DEFINE k == Min(B)
<1>3. k \in 1 .. n /\ k \notin G
  BY <1>2 DEF B
<1>4. k - 1 \in 0 .. n /\ k - 1 \notin B
  BY <1>2, <1>3
<1> QED BY <1>3, <1>4 DEF B

\* Induction on the subsets of a finite set, in the same form.
LEMMA GrowingSubsets ==
    ASSUME NEW S, IsFiniteSet(S), NEW G,
           \A T \in SUBSET S : (\A x \in T : T \ {x} \in G) => T \in G
    PROVE  SUBSET S \subseteq G
<1> DEFINE B == (SUBSET S) \ G
<1> SUFFICES ASSUME B # {} PROVE FALSE
  OBVIOUS
<1>1. B \subseteq FiniteSubsetsOf(S)
  BY FS_Subset DEF FiniteSubsetsOf
<1>2. PICK T \in B : \A U \in B : <<U, T>> \notin StrictSubsetOrdering(S)
  BY <1>1, FS_StrictSubsetOrderingWellFounded, WFMin
<1>3. \A x \in T : T \ {x} \in G
  <2> SUFFICES ASSUME NEW x \in T, T \ {x} \notin G PROVE FALSE
    OBVIOUS
  <2>1. T \ {x} \in B /\ T \ {x} # T /\ T \ {x} \subseteq T
    OBVIOUS
  <2>2. <<T \ {x}, T>> \in StrictSubsetOrdering(S)
    BY <1>1, <2>1, FS_Subset DEF StrictSubsetOrdering, FiniteSubsetsOf
  <2> QED BY <1>2, <2>1, <2>2
<1> QED BY <1>3

-----------------------------------------------------------------------------
(* Sums over a finite set *)

\* SumOf with the function on a larger set: what it sums, and over what.
Total(f, S) == MapThenSumSet(LAMBDA x : f[x], S)

Taken(S) == CHOOSE x \in S : TRUE

\* The equation that defines a sum: of a non-empty set, one element is taken.
SumsUp(it, f, S) ==
    it = [T \in SUBSET S |->
            IF T = {} THEN 0 ELSE f[Taken(T)] + it[T \ {Taken(T)}]]

LEMMA TotalIsSolution ==
    ASSUME NEW f, NEW S
    PROVE  Total(f, S) = (CHOOSE it : SumsUp(it, f, S))[S]
  BY DEF Total, MapThenSumSet, MapThenFoldSet, SumsUp, Taken

LEMMA TakenIsMember == ASSUME NEW S, S # {} PROVE Taken(S) \in S
  BY DEF Taken

\* The equation has a solution: one that is right for the sets of fewer than k
\* elements is made right for those of k.
RightBelow(it, f, S, k) ==
    /\ DOMAIN it = SUBSET S /\ it = [T \in DOMAIN it |-> it[T]]
    /\ \A T \in SUBSET S : Cardinality(T) < k =>
          it[T] = IF T = {} THEN 0 ELSE f[Taken(T)] + it[T \ {Taken(T)}]

LEMMA SumExists ==
    ASSUME NEW f, NEW S, IsFiniteSet(S)
    PROVE  \E it : SumsUp(it, f, S)
<1> DEFINE n == Cardinality(S)
           G == {k \in 0 .. n + 1 : \E it : RightBelow(it, f, S, k)}
<1>0. n \in Nat
  BY FS_CardinalityType
<1>1. \A T \in SUBSET S : IsFiniteSet(T) /\ Cardinality(T) \in 0 .. n
  BY FS_Subset, FS_CardinalityType, <1>0
<1>2. \A T \in SUBSET S : T # {} =>
         /\ Taken(T) \in T /\ T \ {Taken(T)} \in SUBSET S
         /\ Cardinality(T \ {Taken(T)}) < Cardinality(T)
  BY <1>1, TakenIsMember, FS_RemoveElement
<1> HIDE DEF n
<1>3. 0 \in G
  <2>1. RightBelow([T \in SUBSET S |-> 0], f, S, 0)
    BY <1>0, <1>1 DEF RightBelow
  <2>2. \E it : RightBelow(it, f, S, 0)
    BY <2>1
  <2> QED BY <1>0, <2>2
<1>4. ASSUME NEW k \in 1 .. n + 1, k - 1 \in G PROVE k \in G
  <2>1. PICK it : RightBelow(it, f, S, k - 1)
    BY <1>4
  <2> DEFINE step(g, T) == IF T = {} THEN 0 ELSE f[Taken(T)] + g[T \ {Taken(T)}]
             new == [T \in SUBSET S |-> IF Cardinality(T) < k - 1 THEN it[T] ELSE step(it, T)]
  <2>2. ASSUME NEW T \in SUBSET S, Cardinality(T) < k PROVE new[T] = step(new, T)
    <3>1. new[T] = step(it, T)
      BY <2>1, <2>2 DEF RightBelow
    <3>2. CASE T = {}
      BY <3>1, <3>2
    <3>3. CASE T # {}
      <4> DEFINE U == T \ {Taken(T)}
      <4>1. U \in SUBSET S /\ Cardinality(U) < k - 1
        BY <1>0, <1>1, <1>2, <2>2, <3>3
      <4>2. new[U] = it[U]
        BY <4>1
      <4> QED BY <3>1, <3>3, <4>2
    <3> QED BY <3>2, <3>3
  <2>3. DOMAIN new = SUBSET S /\ new = [T \in DOMAIN new |-> new[T]]
    OBVIOUS
  <2> HIDE DEF new
  <2>4. RightBelow(new, f, S, k)
    BY <2>2, <2>3 DEF RightBelow
  <2>5. \E g : RightBelow(g, f, S, k)
    BY <2>4
  <2>6. k \in 0 .. n + 1
    BY <1>0
  <2> QED BY <2>5, <2>6
<1> HIDE DEF G
<1>5. n + 1 \in G
  <2>1. n + 1 \in Nat /\ n + 1 \in 0 .. n + 1
    BY <1>0
  <2> QED BY <1>3, <1>4, <2>1, CountingUp
<1>6. PICK it : RightBelow(it, f, S, n + 1)
  BY <1>5 DEF G
<1>7. \A T \in SUBSET S : Cardinality(T) < n + 1
  BY <1>0, <1>1
<1>8. SumsUp(it, f, S)
  <2> DEFINE step(T) == IF T = {} THEN 0 ELSE f[Taken(T)] + it[T \ {Taken(T)}]
  <2>1. \A T \in SUBSET S : it[T] = step(T)
    BY <1>6, <1>7 DEF RightBelow
  <2>2. it = [T \in SUBSET S |-> it[T]]
    BY <1>6 DEF RightBelow
  <2>3. it = [T \in SUBSET S |-> step(T)]
    <3> HIDE DEF step
    <3> QED BY <2>1, <2>2
  <2> QED BY <2>3 DEF SumsUp
<1> QED BY <1>8

\* And the solutions agree wherever the summed values do.
LEMMA SumsAgree ==
    ASSUME NEW f, NEW g, NEW S, NEW T, NEW U, IsFiniteSet(U), U \subseteq S, U \subseteq T,
           \A x \in U : f[x] = g[x],
           NEW it, SumsUp(it, f, S), NEW jt, SumsUp(jt, g, T)
    PROVE  it[U] = jt[U]
<1> DEFINE G == {V \in SUBSET U : it[V] = jt[V]}
<1>1. ASSUME NEW V \in SUBSET U, \A x \in V : V \ {x} \in G PROVE V \in G
  <2>1. it[V] = IF V = {} THEN 0 ELSE f[Taken(V)] + it[V \ {Taken(V)}]
    BY DEF SumsUp
  <2>2. jt[V] = IF V = {} THEN 0 ELSE g[Taken(V)] + jt[V \ {Taken(V)}]
    BY DEF SumsUp
  <2>3. CASE V = {}
    BY <2>1, <2>2, <2>3
  <2>4. CASE V # {}
    <3>1. Taken(V) \in V
      BY <2>4, TakenIsMember
    <3> QED BY <2>1, <2>2, <2>4, <3>1, <1>1
  <2> QED BY <2>3, <2>4
<1> HIDE DEF G
<1>2. SUBSET U \subseteq G
  BY <1>1, GrowingSubsets
<1> QED BY <1>2 DEF G

LEMMA TotalAgrees ==
    ASSUME NEW f, NEW g, NEW S, IsFiniteSet(S), \A x \in S : f[x] = g[x]
    PROVE  Total(f, S) = Total(g, S)
<1> DEFINE it == CHOOSE i : SumsUp(i, f, S)
           jt == CHOOSE i : SumsUp(i, g, S)
<1>1. SumsUp(it, f, S) /\ SumsUp(jt, g, S)
  BY SumExists
<1>2. Total(f, S) = it[S] /\ Total(g, S) = jt[S]
  BY TotalIsSolution
<1> HIDE DEF it, jt
<1>3. S \subseteq S
  OBVIOUS
<1>4. it[S] = jt[S]
  BY <1>1, <1>3, SumsAgree, Z3
<1> QED BY <1>2, <1>4

\* One step of a sum, for the element the definition takes.
LEMMA TotalStep ==
    ASSUME NEW f, NEW S, IsFiniteSet(S)
    PROVE  Total(f, S) = IF S = {} THEN 0 ELSE f[Taken(S)] + Total(f, S \ {Taken(S)})
<1> DEFINE U == S \ {Taken(S)}
           it == CHOOSE i : SumsUp(i, f, S)
           jt == CHOOSE i : SumsUp(i, f, U)
<1>1. IsFiniteSet(U)
  BY FS_Subset
<1>2. SumsUp(it, f, S) /\ SumsUp(jt, f, U)
  BY SumExists, <1>1
<1>3. Total(f, S) = it[S] /\ Total(f, U) = jt[U]
  BY TotalIsSolution
<1> HIDE DEF it, jt
<1>4. it[U] = jt[U]
  BY <1>1, <1>2, SumsAgree
<1>5. it[S] = IF S = {} THEN 0 ELSE f[Taken(S)] + it[U]
  BY <1>2 DEF SumsUp
<1> QED BY <1>3, <1>4, <1>5

LEMMA TotalOfNone == ASSUME NEW f PROVE Total(f, {}) = 0
  BY TotalStep, FS_EmptySet

\* What is summed, and what any element adds.
LEMMA TotalIsNumber ==
    ASSUME NEW f, NEW S, IsFiniteSet(S), \A x \in S : f[x] \in Int
    PROVE  Total(f, S) \in Int
<1> DEFINE G == {T \in SUBSET S : Total(f, T) \in Int}
<1>1. ASSUME NEW T \in SUBSET S, \A x \in T : T \ {x} \in G PROVE T \in G
  <2>1. IsFiniteSet(T)
    BY FS_Subset
  <2>2. CASE T = {}
    BY <2>2, TotalOfNone
  <2>3. CASE T # {}
    <3>1. Taken(T) \in T
      BY <2>3, TakenIsMember
    <3>2. Total(f, T) = f[Taken(T)] + Total(f, T \ {Taken(T)})
      BY <2>1, <2>3, TotalStep
    <3>3. f[Taken(T)] \in Int /\ Total(f, T \ {Taken(T)}) \in Int
      BY <1>1, <3>1
    <3> QED BY <3>2, <3>3
  <2> QED BY <2>2, <2>3
<1> HIDE DEF G
<1>2. SUBSET S \subseteq G
  BY <1>1, GrowingSubsets
<1> QED BY <1>2 DEF G

LEMMA TotalWithout ==
    ASSUME NEW f, NEW S, IsFiniteSet(S), \A x \in S : f[x] \in Int, NEW x \in S
    PROVE  Total(f, S) = f[x] + Total(f, S \ {x})
<1> DEFINE G == {T \in SUBSET S : \A y \in T : Total(f, T) = f[y] + Total(f, T \ {y})}
<1>1. ASSUME NEW T \in SUBSET S, \A y \in T : T \ {y} \in G, NEW y \in T
      PROVE  Total(f, T) = f[y] + Total(f, T \ {y})
  <2> DEFINE z == Taken(T)
  <2>1. IsFiniteSet(T) /\ z \in T
    BY FS_Subset, TakenIsMember
  <2>2. Total(f, T) = f[z] + Total(f, T \ {z})
    BY <2>1, TotalStep
  <2> HIDE DEF z
  <2>3. CASE y = z
    BY <2>2, <2>3
  <2>4. CASE y # z
    <3> DEFINE U == T \ {z}  V == T \ {y}  W == T \ {y, z}
    <3>1. y \in U /\ U \ {y} = W /\ z \in V /\ V \ {z} = W
      BY <2>1, <2>4
    <3>2. Total(f, U) = f[y] + Total(f, W)
      BY <1>1, <2>1, <3>1
    <3>3. Total(f, V) = f[z] + Total(f, W)
      BY <1>1, <2>1, <3>1
    <3>4. f[y] \in Int /\ f[z] \in Int /\ Total(f, W) \in Int
      <4>1. IsFiniteSet(W)
        BY <2>1, FS_Subset
      <4> QED BY <2>1, <4>1, TotalIsNumber
    <3> HIDE DEF U, V, W
    <3>5. Total(f, T) = f[z] + Total(f, U)
      BY <2>2 DEF U
    <3>6. Total(f, T) = f[y] + Total(f, V)
      BY <3>2, <3>3, <3>4, <3>5
    <3> QED BY <3>6 DEF V
  <2> QED BY <2>3, <2>4
<1>2. \A T \in SUBSET S : (\A y \in T : T \ {y} \in G) => T \in G
  BY <1>1
<1> HIDE DEF G
<1>3. SUBSET S \subseteq G
  BY <1>2, GrowingSubsets
<1> QED BY <1>3 DEF G

\* The rest of the facts about sums follow from these three.
LEMMA TotalIsMonotone ==
    ASSUME NEW f, NEW S, IsFiniteSet(S), \A x \in S : f[x] \in Nat, NEW T \in SUBSET S
    PROVE  Total(f, T) \in Nat /\ Total(f, T) <= Total(f, S)
<1> DEFINE G == {U \in SUBSET S : Total(f, U) \in Nat
                     /\ \A V \in SUBSET U : Total(f, V) \in Nat /\ Total(f, V) <= Total(f, U)}
<1>1. ASSUME NEW U \in SUBSET S, \A x \in U : U \ {x} \in G PROVE U \in G
  <2>1. IsFiniteSet(U)
    BY FS_Subset
  <2>2. Total(f, U) \in Nat
    <3>1. CASE U = {}
      BY <3>1, TotalOfNone
    <3>2. CASE U # {}
      <4>1. PICK x \in U : TRUE
        BY <3>2
      <4>2. Total(f, U) = f[x] + Total(f, U \ {x})
        BY <2>1, TotalWithout
      <4>3. Total(f, U \ {x}) \in Nat
        BY <1>1
      <4> QED BY <4>2, <4>3
    <3> QED BY <3>1, <3>2
  <2>3. ASSUME NEW V \in SUBSET U PROVE Total(f, V) \in Nat /\ Total(f, V) <= Total(f, U)
    <3>1. CASE V = U
      BY <2>2, <3>1
    <3>2. CASE V # U
      <4>1. PICK x \in U : x \notin V
        BY <3>2
      <4>2. Total(f, U) = f[x] + Total(f, U \ {x})
        BY <2>1, TotalWithout
      <4>3. /\ Total(f, U \ {x}) \in Nat /\ f[x] \in Nat
            /\ Total(f, V) \in Nat /\ Total(f, V) <= Total(f, U \ {x})
        BY <1>1, <4>1
      <4> QED BY <4>2, <4>3
    <3> QED BY <3>1, <3>2
  <2> QED BY <2>2, <2>3
<1> HIDE DEF G
<1>2. SUBSET S \subseteq G
  BY <1>1, GrowingSubsets
<1> QED BY <1>2 DEF G

LEMMA TotalOfDifference ==
    ASSUME NEW f, NEW g, NEW h, NEW S, IsFiniteSet(S),
           \A x \in S : f[x] \in Int /\ g[x] \in Int /\ h[x] = f[x] - g[x]
    PROVE  Total(h, S) = Total(f, S) - Total(g, S)
<1> DEFINE G == {T \in SUBSET S : Total(h, T) = Total(f, T) - Total(g, T)}
<1>1. ASSUME NEW T \in SUBSET S, \A x \in T : T \ {x} \in G PROVE T \in G
  <2>1. IsFiniteSet(T)
    BY FS_Subset
  <2>2. CASE T = {}
    BY <2>2, TotalOfNone
  <2>3. CASE T # {}
    <3>1. PICK x \in T : TRUE
      BY <2>3
    <3> DEFINE U == T \ {x}
    <3>2. /\ Total(f, T) = f[x] + Total(f, U) /\ Total(g, T) = g[x] + Total(g, U)
          /\ Total(h, T) = h[x] + Total(h, U)
      BY <2>1, TotalWithout
    <3>3. IsFiniteSet(U) /\ U \in SUBSET S
      BY <2>1, FS_Subset
    <3>4. Total(f, U) \in Int /\ Total(g, U) \in Int
      BY <3>3, TotalIsNumber
    <3>5. Total(h, U) = Total(f, U) - Total(g, U)
      BY <1>1
    <3>6. f[x] \in Int /\ g[x] \in Int /\ h[x] = f[x] - g[x]
      OBVIOUS
    <3> HIDE DEF U
    <3>7. Total(h, T) = Total(f, T) - Total(g, T)
      BY <3>2, <3>4, <3>5, <3>6
    <3> QED BY <3>7
  <2> QED BY <2>2, <2>3
<1> HIDE DEF G
<1>2. SUBSET S \subseteq G
  BY <1>1, GrowingSubsets
<1> QED BY <1>2 DEF G

\* A sum over two sets that have nothing in common.
LEMMA TotalOfParts ==
    ASSUME NEW f, NEW S, IsFiniteSet(S), \A x \in S : f[x] \in Int, NEW T \in SUBSET S
    PROVE  Total(f, S) = Total(f, T) + Total(f, S \ T)
<1> DEFINE G == {U \in SUBSET T : Total(f, S) = Total(f, U) + Total(f, S \ U)}
<1>1. ASSUME NEW U \in SUBSET T, \A x \in U : U \ {x} \in G PROVE U \in G
  <2>1. \A V \in SUBSET S : IsFiniteSet(V) /\ Total(f, V) \in Int
    BY FS_Subset, TotalIsNumber
  <2>2. CASE U = {}
    <3>1. S \ U = S
      BY <2>2
    <3> QED BY <2>1, <2>2, <3>1, TotalOfNone
  <2>3. CASE U # {}
    <3>1. PICK x \in U : TRUE
      BY <2>3
    <3>2. Total(f, U) = f[x] + Total(f, U \ {x})
      BY <2>1, TotalWithout
    <3>3. Total(f, S \ (U \ {x})) = f[x] + Total(f, S \ U)
      <4>1. x \in S \ (U \ {x}) /\ (S \ (U \ {x})) \ {x} = S \ U
        BY <3>1
      <4> QED BY <2>1, <4>1, TotalWithout
    <3>4. Total(f, S) = Total(f, U \ {x}) + Total(f, S \ (U \ {x}))
      BY <1>1, <3>1
    <3>5. /\ f[x] \in Int /\ Total(f, U \ {x}) \in Int /\ Total(f, S \ U) \in Int
          /\ Total(f, U) \in Int
      BY <2>1
    <3>6. Total(f, S) = Total(f, U) + Total(f, S \ U)
      BY <3>2, <3>3, <3>4, <3>5
    <3> QED BY <3>6
  <2> QED BY <2>2, <2>3
<1> HIDE DEF G
<1>2. IsFiniteSet(T)
  BY FS_Subset
<1>3. SUBSET T \subseteq G
  BY <1>1, <1>2, GrowingSubsets
<1> QED BY <1>3 DEF G

\* The sums of the model in these terms.
LEMMA SumIsTotal ==
    ASSUME NEW f, NEW g, NEW S, IsFiniteSet(S), DOMAIN g = S, \A x \in S : g[x] = f[x]
    PROVE  SumOf(g) = Total(f, S)
<1>1. SumOf(g) = Total(g, S)
  BY DEF SumOf, Total
<1> QED BY <1>1, TotalAgrees

-----------------------------------------------------------------------------
(* Sorting *)

\* A strict total order of the elements of a set.
Orders(R, S) ==
    /\ \A x \in S : <<x, x>> \notin R
    /\ \A x, y \in S : x # y => <<x, y>> \in R \/ <<y, x>> \in R
    /\ \A x, y, z \in S : <<x, y>> \in R /\ <<y, z>> \in R => <<x, z>> \in R

Behind(S, R, x) == {p \in S : <<p, x>> \in R}

\* How many precede an element tells it from the others, and tells them apart
\* in the right direction.
LEMMA RanksFollowOrder ==
    ASSUME NEW S, IsFiniteSet(S), NEW R, Orders(R, S)
    PROVE  /\ \A x \in S : Cardinality(Behind(S, R, x)) \in 0 .. Cardinality(S) - 1
           /\ \A x, y \in S : <<x, y>> \in R =>
                 Cardinality(Behind(S, R, x)) < Cardinality(Behind(S, R, y))
<1> DEFINE B(x) == Behind(S, R, x)
           n == Cardinality(S)
<1>1. \A T \in SUBSET S : IsFiniteSet(T) /\ Cardinality(T) \in Nat
  BY FS_Subset, FS_CardinalityType
<1>2. n \in Nat
  BY FS_CardinalityType
<1>3. ASSUME NEW x \in S PROVE Cardinality(B(x)) \in 0 .. n - 1
  <2>1. B(x) \in SUBSET (S \ {x}) /\ B(x) \in SUBSET S
    BY DEF Behind, Orders
  <2>2. IsFiniteSet(S \ {x}) /\ Cardinality(S \ {x}) = n - 1
    BY FS_RemoveElement
  <2> HIDE DEF B, n
  <2>3. Cardinality(B(x)) <= n - 1 /\ Cardinality(B(x)) \in Nat
    BY <1>1, <2>1, <2>2, FS_Subset
  <2> QED BY <1>2, <2>3
<1>4. ASSUME NEW x \in S, NEW y \in S, <<x, y>> \in R
      PROVE  Cardinality(B(x)) < Cardinality(B(y))
  <2>1. B(x) \in SUBSET (B(y) \ {x}) /\ x \in B(y) /\ B(y) \in SUBSET S /\ B(x) \in SUBSET S
    BY <1>4 DEF Behind, Orders
  <2> HIDE DEF B, n
  <2>2. IsFiniteSet(B(y) \ {x}) /\ Cardinality(B(y) \ {x}) = Cardinality(B(y)) - 1
    BY <1>1, <2>1, FS_RemoveElement
  <2>3. Cardinality(B(x)) <= Cardinality(B(y)) - 1
    BY <2>1, <2>2, FS_Subset
  <2>4. Cardinality(B(x)) \in Nat /\ Cardinality(B(y)) \in Nat
    BY <1>1, <2>1
  <2> QED BY <2>3, <2>4
<1> QED BY <1>3, <1>4

\* An injective function takes every value of an interval of that many numbers.
LEMMA RanksFill ==
    ASSUME NEW S, IsFiniteSet(S), NEW rank \in [S -> 0 .. Cardinality(S) - 1],
           \A x, y \in S : rank[x] = rank[y] => x = y
    PROVE  \A i \in 0 .. Cardinality(S) - 1 : \E x \in S : rank[x] = i
<1> DEFINE n == Cardinality(S)
           T == 0 .. n - 1
<1>1. n \in Nat
  BY FS_CardinalityType
<1>2. IsFiniteSet(T) /\ Cardinality(T) = n
  <2>1. 0 \in Int /\ n - 1 \in Int
    BY <1>1
  <2>2. IsFiniteSet(T) /\ Cardinality(T) = IF 0 > n - 1 THEN 0 ELSE n - 1 - 0 + 1
    BY <2>1, FS_Interval
  <2> QED BY <1>1, <2>2
<1> HIDE DEF T
<1>3. rank \in Injection(S, T)
  BY DEF Injection, IsInjective, T
<1>4. rank \in Surjection(S, T)
  BY <1>2, <1>3, FS_Injection
<1> QED BY <1>4 DEF Surjection, T

\* A sorted sequence has every element once, and in order.
IsSorting(q, S, R) ==
    /\ q \in [1 .. Cardinality(S) -> S]
    /\ \A x \in S : \E i \in 1 .. Cardinality(S) : q[i] = x
    /\ \A i, j \in 1 .. Cardinality(S) : i < j <=> <<q[i], q[j]>> \in R

LEMMA SortedSorts ==
    ASSUME NEW S, IsFiniteSet(S), NEW R, Orders(R, S)
    PROVE  IsSorting(Sorted(S, R), S, R)
<1> DEFINE n == Cardinality(S)
           rank == [x \in S |-> Cardinality(Behind(S, R, x))]
           q == Sorted(S, R)
<1>1. n \in Nat
  BY FS_CardinalityType
<1>2. /\ rank \in [S -> 0 .. n - 1]
      /\ \A x, y \in S : <<x, y>> \in R => rank[x] < rank[y]
  BY RanksFollowOrder
<1>3. \A x, y \in S : rank[x] = rank[y] => x = y
  <2> HIDE DEF rank, n
  <2> SUFFICES ASSUME NEW x \in S, NEW y \in S, rank[x] = rank[y], x # y PROVE FALSE
    OBVIOUS
  <2>1. rank[x] \in Int /\ rank[y] \in Int
    BY <1>1, <1>2
  <2>2. <<x, y>> \in R \/ <<y, x>> \in R
    BY DEF Orders
  <2>3. rank[x] < rank[y] \/ rank[y] < rank[x]
    BY <1>2, <2>2
  <2> QED BY <2>1, <2>3
<1>4. q = [i \in 1 .. n |-> CHOOSE x \in S : Cardinality(Behind(S, R, x)) = i - 1]
  BY DEF Sorted, Behind
<1>4a. \A x \in S : rank[x] = Cardinality(Behind(S, R, x))
  OBVIOUS
<1> HIDE DEF rank, q
<1>5. \A i \in 0 .. n - 1 : \E x \in S : rank[x] = i
  BY <1>2, <1>3, RanksFill
<1> HIDE DEF n
<1>6. \A i \in 1 .. n : q[i] \in S /\ rank[q[i]] = i - 1
  <2> SUFFICES ASSUME NEW i \in 1 .. n PROVE q[i] \in S /\ rank[q[i]] = i - 1
    OBVIOUS
  <2>1. i - 1 \in 0 .. n - 1
    BY <1>1
  <2>2. \E x \in S : Cardinality(Behind(S, R, x)) = i - 1
    BY <1>4a, <1>5, <2>1
  <2>3. q[i] = CHOOSE x \in S : Cardinality(Behind(S, R, x)) = i - 1
    BY <1>4
  <2> QED BY <1>4a, <2>2, <2>3
<1>7. q \in [1 .. n -> S]
  BY <1>4, <1>6
<1>8. ASSUME NEW x \in S PROVE \E i \in 1 .. n : q[i] = x
  <2>1. PICK i \in 1 .. n : i - 1 = rank[x]
    <3>1. PICK r \in 0 .. n - 1 : r = rank[x]
      BY <1>2
    <3>2. r + 1 \in 1 .. n /\ (r + 1) - 1 = r
      BY <1>1
    <3> QED BY <3>1, <3>2
  <2>2. q[i] \in S /\ rank[q[i]] = rank[x]
    BY <1>6, <2>1
  <2> QED BY <1>3, <2>2
<1>9. ASSUME NEW i \in 1 .. n, NEW j \in 1 .. n PROVE i < j <=> <<q[i], q[j]>> \in R
  <2>0. q[i] \in S /\ q[j] \in S /\ rank[q[i]] = i - 1 /\ rank[q[j]] = j - 1
    BY <1>6
  <2>1. <<q[i], q[j]>> \in R => i < j
    BY <1>2, <2>0
  <2>2. <<q[j], q[i]>> \in R => j < i
    BY <1>2, <2>0
  <2>3. i < j => q[i] # q[j]
    BY <2>0
  <2> QED BY <2>0, <2>1, <2>2, <2>3 DEF Orders
<1> QED BY <1>7, <1>8, <1>9 DEF IsSorting, n, q

\* Both keys order the orders of a snapshot, by their identifiers at last.
DueFirst(orders) == {pair \in orders \X orders : Before(pair[1], pair[2])}
PriorityFirst(orders) == {pair \in orders \X orders : MoreImportant(pair[1], pair[2])}

OrdersGiven(orders) ==
    /\ orders \subseteq Order /\ IsFiniteSet(orders)
    /\ \A o, p \in orders : o.id = p.id => o = p

LEMMA KeysOrder ==
    ASSUME NEW orders, OrdersGiven(orders)
    PROVE  Orders(DueFirst(orders), orders) /\ Orders(PriorityFirst(orders), orders)
<1>1. \A o \in orders : o.id \in Int /\ o.due \in Int /\ o.priority \in Int
  BY DEF OrdersGiven, Order
<1>2. \A o, p \in orders : <<o, p>> \in DueFirst(orders) <=> Before(o, p)
  BY DEF DueFirst
<1>3. \A o, p \in orders : <<o, p>> \in PriorityFirst(orders) <=> MoreImportant(o, p)
  BY DEF PriorityFirst
<1>4. Orders(DueFirst(orders), orders)
  BY <1>1, <1>2 DEF Orders, Before, OrdersGiven
<1>5. Orders(PriorityFirst(orders), orders)
  BY <1>1, <1>3 DEF Orders, MoreImportant, OrdersGiven
<1> QED BY <1>4, <1>5

LEMMA OrdersAreSorted ==
    ASSUME NEW orders, OrdersGiven(orders)
    PROVE  /\ IsSorting(ByDueDate(orders), orders, DueFirst(orders))
           /\ IsSorting(ByPriority(orders), orders, PriorityFirst(orders))
<1>1. ByDueDate(orders) = Sorted(orders, DueFirst(orders))
  BY DEF ByDueDate, DueFirst
<1>2. ByPriority(orders) = Sorted(orders, PriorityFirst(orders))
  BY DEF ByPriority, PriorityFirst
<1> QED BY <1>1, <1>2, KeysOrder, SortedSorts DEF OrdersGiven

-----------------------------------------------------------------------------
(* The allocation loop *)

StartOfTurns(starting) == [available |-> starting, received |-> {}, allocated |-> <<>>]

IsTurns(turn, starting, supplies, ordered) ==
    turn = [k \in 0 .. Len(ordered) |->
              IF k = 0 THEN StartOfTurns(starting)
              ELSE AllocateOrder(turn[k - 1], supplies, ordered[k])]

TurnsUpTo(turn, starting, supplies, ordered, j) ==
    \A k \in 0 .. j : turn[k] = IF k = 0 THEN StartOfTurns(starting)
                                ELSE AllocateOrder(turn[k - 1], supplies, ordered[k])

\* The loop's variables are defined at each turn: a run of it is extended
\* turn by turn.
LEMMA TurnsExist ==
    ASSUME NEW starting, NEW supplies, NEW ordered, Len(ordered) \in Nat
    PROVE  \E turn : IsTurns(turn, starting, supplies, ordered)
<1> DEFINE n == Len(ordered)
           upTo(turn, j) == TurnsUpTo(turn, starting, supplies, ordered, j)
           G == {j \in 0 .. n : \E turn : upTo(turn, j)}
<1> HIDE DEF n
<1>0. n \in Nat
  BY DEF n
<1>1. 0 \in G
  <2>1. upTo([k \in 0 .. n |-> StartOfTurns(starting)], 0)
    BY <1>0 DEF TurnsUpTo
  <2> HIDE DEF upTo
  <2> QED BY <1>0, <2>1
<1>2. ASSUME NEW j \in 1 .. n, j - 1 \in G PROVE j \in G
  <2>1. PICK turn : upTo(turn, j - 1)
    BY <1>2
  <2> DEFINE next == AllocateOrder(turn[j - 1], supplies, ordered[j])
             new == [k \in 0 .. j |-> IF k = j THEN next ELSE turn[k]]
  <2>2. ASSUME NEW k \in 0 .. j
        PROVE  new[k] = IF k = 0 THEN StartOfTurns(starting)
                        ELSE AllocateOrder(new[k - 1], supplies, ordered[k])
    <3>1. CASE k = j
      <4>1. new[k] = next /\ new[k - 1] = turn[j - 1] /\ k # 0
        BY <3>1
      <4> QED BY <3>1, <4>1
    <3>2. CASE k # j /\ k # 0
      <4>1. k \in 0 .. j - 1 /\ new[k] = turn[k] /\ new[k - 1] = turn[k - 1]
        BY <3>2
      <4> QED BY <2>1, <3>2, <4>1 DEF TurnsUpTo
    <3>3. CASE k # j /\ k = 0
      <4>1. k \in 0 .. j - 1 /\ new[k] = turn[k]
        BY <3>3
      <4> QED BY <2>1, <3>3, <4>1 DEF TurnsUpTo
    <3> QED BY <3>1, <3>2, <3>3
  <2> HIDE DEF new
  <2>3. upTo(new, j)
    BY <2>2 DEF TurnsUpTo
  <2> HIDE DEF upTo
  <2>4. \E t : upTo(t, j)
    BY <2>3
  <2>5. j \in 0 .. n
    BY <1>0
  <2> QED BY <2>4, <2>5
<1> HIDE DEF G
<1>3. 0 .. n \subseteq G
  BY <1>0, <1>1, <1>2, CountingUp
<1>4. PICK turn : upTo(turn, n)
  BY <1>0, <1>3 DEF G
<1> DEFINE new == [k \in 0 .. n |-> turn[k]]
<1>5. ASSUME NEW k \in 0 .. n
      PROVE  new[k] = IF k = 0 THEN StartOfTurns(starting)
                      ELSE AllocateOrder(new[k - 1], supplies, ordered[k])
  <2>1. turn[k] = IF k = 0 THEN StartOfTurns(starting)
                  ELSE AllocateOrder(turn[k - 1], supplies, ordered[k])
    BY <1>4 DEF TurnsUpTo
  <2>2. new[k] = turn[k] /\ (k # 0 => new[k - 1] = turn[k - 1])
    BY <1>0
  <2> QED BY <2>1, <2>2
<1>6. new = [k \in 0 .. n |-> new[k]]
  OBVIOUS
<1> HIDE DEF new
<1>7. IsTurns(new, starting, supplies, ordered)
  <2> DEFINE step(k) == IF k = 0 THEN StartOfTurns(starting)
                        ELSE AllocateOrder(new[k - 1], supplies, ordered[k])
  <2>1. \A k \in 0 .. n : new[k] = step(k)
    BY <1>5
  <2>2. new = [k \in 0 .. n |-> step(k)]
    <3> HIDE DEF step
    <3> QED BY <1>6, <2>1
  <2> QED BY <2>2 DEF IsTurns, n
<1> QED BY <1>7

LEMMA TurnsFollow ==
    ASSUME NEW starting, NEW supplies, NEW ordered, Len(ordered) \in Nat
    PROVE  LET turn == AllocationTurns(starting, supplies, ordered)
           IN  /\ turn[0] = StartOfTurns(starting)
               /\ \A k \in 1 .. Len(ordered) :
                     turn[k] = AllocateOrder(turn[k - 1], supplies, ordered[k])
<1> DEFINE turn == AllocationTurns(starting, supplies, ordered)
<1>1. turn = CHOOSE t : IsTurns(t, starting, supplies, ordered)
  BY DEF AllocationTurns, IsTurns, StartOfTurns
<1> HIDE DEF turn
<1>2. IsTurns(turn, starting, supplies, ordered)
  BY <1>1, TurnsExist
<1>3. turn[0] = StartOfTurns(starting)
  BY <1>2 DEF IsTurns
<1>4. \A k \in 1 .. Len(ordered) :
         turn[k] = AllocateOrder(turn[k - 1], supplies, ordered[k])
  BY <1>2 DEF IsTurns
<1> QED BY <1>3, <1>4 DEF turn

-----------------------------------------------------------------------------
(* The ledger of a loop *)

\* The arithmetic of the loop on its own: before turn k the stock received so
\* far is stock[k], the order demands need[k] and gets got[k].
Has(stock, left, k) == left[k - 1] + (stock[k] - stock[k - 1])

Ledger(n, need, stock, got, left) ==
    /\ n \in Nat /\ need \in [1 .. n -> Nat] /\ got \in [1 .. n -> Int]
    /\ stock \in [0 .. n -> Int] /\ left \in [0 .. n -> Int]
    /\ left[0] = stock[0]
    /\ \A k \in 1 .. n :
          /\ got[k] = IF Has(stock, left, k) <= need[k] THEN Has(stock, left, k) ELSE need[k]
          /\ left[k] = Has(stock, left, k) - got[k]

LEMMA MinIs ==
    ASSUME NEW S \in SUBSET Int, NEW m \in S, \A y \in S : m <= y
    PROVE  Min(S) = m
<1>1. Min(S) \in S /\ \A y \in S : Min(S) <= y
  <2>1. \E x \in S : \A y \in S : x <= y
    OBVIOUS
  <2> QED BY <2>1 DEF Min
<1>2. Min(S) <= m /\ m <= Min(S) /\ m \in Int /\ Min(S) \in Int
  BY <1>1
<1> QED BY <1>2

LEMMA LesserOfTwo ==
    ASSUME NEW x \in Int, NEW y \in Int
    PROVE  Min({x, y}) = IF x <= y THEN x ELSE y
<1>1. CASE x <= y
  BY <1>1, MinIs
<1>2. CASE ~(x <= y)
  BY <1>2, MinIs
<1> QED BY <1>1, <1>2

LEMMA PartialSums ==
    ASSUME NEW n \in Nat, NEW f, \A i \in 1 .. n : f[i] \in Int
    PROVE  /\ Total(f, 1 .. 0) = 0
           /\ \A k \in 0 .. n : Total(f, 1 .. k) \in Int
           /\ \A k \in 1 .. n : Total(f, 1 .. k) = Total(f, 1 .. k - 1) + f[k]
<1>1. \A k \in 0 .. n : IsFiniteSet(1 .. k) /\ \A i \in 1 .. k : f[i] \in Int
  BY FS_Interval
<1>2. Total(f, 1 .. 0) = 0
  <2>1. 1 .. 0 = {}
    OBVIOUS
  <2> QED BY <2>1, TotalOfNone
<1>3. \A k \in 0 .. n : Total(f, 1 .. k) \in Int
  BY <1>1, TotalIsNumber
<1>4. ASSUME NEW k \in 1 .. n PROVE Total(f, 1 .. k) = Total(f, 1 .. k - 1) + f[k]
  <2>1. k \in 1 .. k /\ (1 .. k) \ {k} = 1 .. k - 1 /\ k \in 0 .. n /\ k - 1 \in 0 .. n
    OBVIOUS
  <2>2. Total(f, 1 .. k) = f[k] + Total(f, (1 .. k) \ {k})
    <3> DEFINE K == 1 .. k
    <3>1. IsFiniteSet(K) /\ k \in K /\ \A i \in K : f[i] \in Int
      BY <1>1, <2>1
    <3> HIDE DEF K
    <3>2. Total(f, K) = f[k] + Total(f, K \ {k})
      BY <3>1, TotalWithout
    <3> QED BY <3>2 DEF K
  <2>3. Total(f, 1 .. k - 1) \in Int /\ f[k] \in Int
    BY <1>3, <2>1
  <2>4. Total(f, 1 .. k) = f[k] + Total(f, 1 .. k - 1)
    BY <2>1, <2>2
  <2> HIDE DEF Total
  <2> QED BY <2>3, <2>4
<1> QED BY <1>2, <1>3, <1>4

\* What is left is the stock less what was handed out, and no turn bounds what
\* was handed out more tightly than the tightest of all does.
LEMMA LedgerBalances ==
    ASSUME NEW n, NEW need, NEW stock, NEW got, NEW left, Ledger(n, need, stock, got, left)
    PROVE  \A k \in 0 .. n :
              LET N(j) == Total(need, 1 .. j)
                  A == Total(got, 1 .. k)
              IN  /\ left[k] = stock[k] - A
                  /\ A <= N(k) /\ \A j \in 1 .. k : A <= stock[j] + N(k) - N(j)
                  /\ A = N(k) \/ \E j \in 1 .. k : A = stock[j] + N(k) - N(j)
<1> DEFINE N(k) == Total(need, 1 .. k)
           A(k) == Total(got, 1 .. k)
           G == {k \in 0 .. n :
                   /\ left[k] = stock[k] - A(k)
                   /\ A(k) <= N(k) /\ \A j \in 1 .. k : A(k) <= stock[j] + N(k) - N(j)
                   /\ A(k) = N(k) \/ \E j \in 1 .. k : A(k) = stock[j] + N(k) - N(j)}
<1>1. n \in Nat /\ need \in [1 .. n -> Int] /\ got \in [1 .. n -> Int]
  BY DEF Ledger
<1>2. /\ N(0) = 0 /\ A(0) = 0
      /\ \A k \in 0 .. n : N(k) \in Int /\ A(k) \in Int
      /\ \A k \in 1 .. n : N(k) = N(k - 1) + need[k] /\ A(k) = A(k - 1) + got[k]
  BY <1>1, PartialSums
<1> HIDE DEF N, A
<1>3. \A k \in 0 .. n : stock[k] \in Int /\ left[k] \in Int
  BY DEF Ledger
<1>4. 0 \in G
  BY <1>1, <1>2, <1>3 DEF Ledger
<1>5. ASSUME NEW k \in 1 .. n, k - 1 \in G PROVE k \in G
  <2> DEFINE h == k - 1
             has == Has(stock, left, k)
  <2>0. h \in 0 .. n /\ k \in 0 .. n /\ k \in 1 .. k
    BY <1>1
  <2>1. /\ left[h] = stock[h] - A(h) /\ A(h) <= N(h)
        /\ \A j \in 1 .. h : A(h) <= stock[j] + N(h) - N(j)
        /\ A(h) = N(h) \/ \E j \in 1 .. h : A(h) = stock[j] + N(h) - N(j)
    BY <1>5
  <2>2. /\ got[k] = IF has <= need[k] THEN has ELSE need[k]
        /\ left[k] = has - got[k]
    BY DEF Ledger
  <2>3. N(k) = N(h) + need[k] /\ A(k) = A(h) + got[k]
    BY <1>2
  <2>4. /\ stock[h] \in Int /\ stock[k] \in Int /\ left[h] \in Int /\ got[k] \in Int
        /\ need[k] \in Int /\ N(h) \in Int /\ N(k) \in Int /\ A(h) \in Int /\ A(k) \in Int
    BY <1>1, <1>2, <1>3, <2>0
  <2>5. ASSUME NEW j \in 1 .. k
        PROVE  stock[j] \in Int /\ N(j) \in Int /\ (j # k => j \in 1 .. h)
    <3>1. j \in 0 .. n /\ (j # k => j \in 1 .. h)
      BY <1>1
    <3> QED BY <1>2, <1>3, <3>1
  <2>5a. \A j \in 1 .. h : j \in 1 .. k
    OBVIOUS
  <2>6. has = stock[k] - A(h)
    BY <2>1, <2>4 DEF Has
  <2> HIDE DEF h, has
  <2>7. left[k] = stock[k] - A(k)
    BY <2>2, <2>3, <2>4, <2>6
  <2>8. got[k] <= need[k] /\ got[k] <= stock[k] - A(h)
    BY <2>2, <2>4, <2>6
  <2>9. A(k) <= N(k)
    BY <2>1, <2>3, <2>4, <2>8
  <2>10. ASSUME NEW j \in 1 .. k PROVE A(k) <= stock[j] + N(k) - N(j)
    <3>1. CASE j = k
      BY <2>3, <2>4, <2>8, <3>1
    <3>2. CASE j # k
      <4>1. A(h) <= stock[j] + N(h) - N(j) /\ stock[j] \in Int /\ N(j) \in Int
        BY <2>1, <2>5, <3>2
      <4> QED BY <2>3, <2>4, <2>8, <4>1
    <3> QED BY <3>1, <3>2
  <2>11. A(k) = N(k) \/ \E j \in 1 .. k : A(k) = stock[j] + N(k) - N(j)
    <3>1. CASE got[k] = stock[k] - A(h)
      <4>1. A(k) = stock[k] + N(k) - N(k)
        BY <2>3, <2>4, <3>1
      <4> QED BY <2>0, <4>1
    <3>2. CASE got[k] = need[k]
      <4>1. CASE A(h) = N(h)
        BY <2>3, <3>2, <4>1
      <4>2. CASE \E j \in 1 .. h : A(h) = stock[j] + N(h) - N(j)
        <5>1. PICK j \in 1 .. h : A(h) = stock[j] + N(h) - N(j)
          BY <4>2
        <5>2. j \in 1 .. k /\ stock[j] \in Int /\ N(j) \in Int
          BY <2>5, <2>5a
        <5>3. A(k) = stock[j] + N(k) - N(j)
          BY <2>3, <2>4, <3>2, <5>1, <5>2
        <5> QED BY <5>2, <5>3
      <4> QED BY <2>1, <4>1, <4>2
    <3> QED BY <2>2, <2>6, <3>1, <3>2
  <2> QED BY <2>0, <2>7, <2>9, <2>10, <2>11
<1>6. 0 .. n \subseteq G
  <2> HIDE DEF G
  <2> QED BY <1>1, <1>4, <1>5, CountingUp
<1>7. \A k \in 0 .. n : k \in G
  BY <1>6
<1> QED BY <1>7 DEF N, A

LEMMA LedgerIsGreedy ==
    ASSUME NEW n, NEW need, NEW stock, NEW got, NEW left, Ledger(n, need, stock, got, left)
    PROVE  Total(got, 1 .. n) =
             Min({Total(need, 1 .. n)} \union
                 {stock[j] + Total(need, 1 .. n) - Total(need, 1 .. j) : j \in 1 .. n})
<1> DEFINE N(k) == Total(need, 1 .. k)
           a == Total(got, 1 .. n)
           S == {N(n)} \union {stock[j] + N(n) - N(j) : j \in 1 .. n}
<1>1. /\ n \in Nat /\ n \in 0 .. n /\ \A k \in 0 .. n : stock[k] \in Int
      /\ \A i \in 1 .. n : need[i] \in Int
  BY DEF Ledger
<1>2. \A k \in 0 .. n : N(k) \in Int
  BY <1>1, PartialSums
<1>3. /\ a <= N(n) /\ \A j \in 1 .. n : a <= stock[j] + N(n) - N(j)
      /\ a = N(n) \/ \E j \in 1 .. n : a = stock[j] + N(n) - N(j)
  BY <1>1, LedgerBalances
<1> HIDE DEF N, a
<1>4. S \in SUBSET Int
  <2>1. N(n) \in Int /\ \A j \in 1 .. n : stock[j] \in Int /\ N(j) \in Int
    BY <1>1, <1>2
  <2>2. \A j \in 1 .. n : stock[j] + N(n) - N(j) \in Int
    BY <2>1
  <2> QED BY <2>1, <2>2
<1>5. a \in S /\ \A y \in S : a <= y
  BY <1>3
<1> HIDE DEF S
<1>6. a = Min(S)
  BY <1>4, <1>5, MinIs
<1> QED BY <1>6 DEF S, N, a

\* With no less coming in at any turn, no order that was served in full is
\* served less.
LEMMA MoreSupplyServesMore ==
    ASSUME NEW n, NEW need,
           NEW stock, NEW got, NEW left, Ledger(n, need, stock, got, left),
           NEW stock2, NEW got2, NEW left2, Ledger(n, need, stock2, got2, left2),
           stock2[0] = stock[0],
           \A k \in 1 .. n : stock[k] - stock[k - 1] <= stock2[k] - stock2[k - 1]
    PROVE  \A k \in 1 .. n : got[k] = need[k] => got2[k] = need[k]
<1> DEFINE G == {k \in 0 .. n : left[k] <= left2[k]}
<1>0. n \in Nat
  BY DEF Ledger
<1>1. 0 \in G
  BY <1>0 DEF Ledger
<1>2. ASSUME NEW k \in 1 .. n
      PROVE  LET has == Has(stock, left, k)
                 has2 == Has(stock2, left2, k)
             IN  /\ has \in Int /\ has2 \in Int /\ need[k] \in Int
                 /\ got[k] = (IF has <= need[k] THEN has ELSE need[k])
                 /\ got2[k] = (IF has2 <= need[k] THEN has2 ELSE need[k])
                 /\ left[k] = has - got[k] /\ left2[k] = has2 - got2[k]
                 /\ left[k - 1] <= left2[k - 1] => has <= has2
  <2>1. k \in 0 .. n /\ k - 1 \in 0 .. n
    BY <1>0
  <2>2. /\ left[k - 1] \in Int /\ left2[k - 1] \in Int /\ stock[k] \in Int
        /\ stock[k - 1] \in Int /\ stock2[k] \in Int /\ stock2[k - 1] \in Int
        /\ need[k] \in Int
    BY <2>1 DEF Ledger
  <2>3. stock[k] - stock[k - 1] <= stock2[k] - stock2[k - 1]
    OBVIOUS
  <2>4. /\ Has(stock, left, k) \in Int /\ Has(stock2, left2, k) \in Int
        /\ left[k - 1] <= left2[k - 1] => Has(stock, left, k) <= Has(stock2, left2, k)
    BY <2>2, <2>3 DEF Has
  <2> QED BY <2>2, <2>4 DEF Ledger
<1>3. ASSUME NEW k \in 1 .. n, k - 1 \in G PROVE k \in G
  <2>1. k \in 0 .. n
    BY <1>0
  <2> QED BY <1>2, <1>3, <2>1
<1>4. 0 .. n \subseteq G
  <2> HIDE DEF G
  <2> QED BY <1>0, <1>1, <1>3, CountingUp
<1>5. ASSUME NEW k \in 1 .. n, got[k] = need[k] PROVE got2[k] = need[k]
  <2>1. k - 1 \in G
    BY <1>0, <1>4
  <2> QED BY <1>2, <1>5, <2>1
<1> QED BY <1>5

\* What the turns so far have served in full.
InFull(n, need, got) == [i \in 1 .. n |-> IF got[i] = need[i] THEN need[i] ELSE 0]

\* What is served in full never exceeds the stock received, however the turns
\* that are not served in full use up what is there.
LEMMA ServedFitsStock ==
    ASSUME NEW n, NEW need, NEW stock, NEW got, NEW left, Ledger(n, need, stock, got, left),
           NEW most \in Nat, stock[0] <= most,
           \A k \in 1 .. n : stock[k - 1] <= stock[k]
    PROVE  \A k \in 0 .. n :
              /\ Total(InFull(n, need, got), 1 .. k) \in Int
              /\ Total(InFull(n, need, got), 1 .. k) <= most + (stock[k] - stock[0])
<1> DEFINE full == InFull(n, need, got)
           P(k) == Total(full, 1 .. k)
           bound(k) == most + (stock[k] - stock[0])
           G == {k \in 0 .. n : P(k) <= bound(k) /\ P(k) + left[k] <= bound(k)}
<1>1. /\ n \in Nat /\ \A k \in 0 .. n : stock[k] \in Int /\ left[k] \in Int
      /\ \A i \in 1 .. n : need[i] \in Nat /\ got[i] \in Int
      /\ left[0] = stock[0]
      /\ \A k \in 1 .. n :
            /\ got[k] = IF Has(stock, left, k) <= need[k] THEN Has(stock, left, k) ELSE need[k]
            /\ left[k] = Has(stock, left, k) - got[k]
  BY DEF Ledger
<1>2. \A i \in 1 .. n : full[i] \in Int /\ full[i] = IF got[i] = need[i] THEN need[i] ELSE 0
  BY <1>1 DEF InFull
<1> HIDE DEF full
<1>3. /\ P(0) = 0 /\ \A k \in 0 .. n : P(k) \in Int
      /\ \A k \in 1 .. n : P(k) = P(k - 1) + full[k]
  BY <1>1, <1>2, PartialSums
<1> HIDE DEF P
<1>4. 0 \in G
  <2>1. 0 \in 0 .. n /\ stock[0] \in Int
    BY <1>1
  <2> QED BY <1>1, <1>3, <2>1
<1>5. ASSUME NEW k \in 1 .. n, k - 1 \in G PROVE k \in G
  <2> DEFINE h == k - 1
             has == Has(stock, left, k)
  <2>1. k \in 0 .. n /\ h \in 0 .. n /\ 0 \in 0 .. n
    BY <1>1
  <2>2. /\ stock[0] \in Int /\ stock[h] \in Int /\ stock[k] \in Int /\ stock[h] <= stock[k]
        /\ left[h] \in Int /\ left[k] \in Int /\ P(h) \in Int /\ P(k) \in Int
        /\ need[k] \in Nat /\ got[k] \in Int
    BY <1>1, <1>3, <2>1
  <2>3. /\ got[k] = IF has <= need[k] THEN has ELSE need[k]
        /\ left[k] = has - got[k]
        /\ P(k) = P(h) + (IF got[k] = need[k] THEN need[k] ELSE 0)
        /\ P(h) <= bound(h) /\ P(h) + left[h] <= bound(h)
    BY <1>1, <1>2, <1>3, <1>5
  <2>4. has = left[h] + (stock[k] - stock[h])
    BY DEF Has
  <2> HIDE DEF h, has
  <2>5. CASE got[k] = need[k]
    <3>1. P(k) + left[k] = P(h) + left[h] + (stock[k] - stock[h]) /\ left[k] >= 0
      BY <2>2, <2>3, <2>4, <2>5
    <3> QED BY <2>1, <2>2, <2>3, <3>1
  <2>6. CASE got[k] # need[k]
    <3>1. P(k) = P(h) /\ left[k] = 0
      BY <2>2, <2>3, <2>4, <2>6
    <3> QED BY <2>1, <2>2, <2>3, <3>1
  <2> QED BY <2>5, <2>6
<1>6. 0 .. n \subseteq G
  <2> HIDE DEF G
  <2> QED BY <1>1, <1>4, <1>5, CountingUp
<1> QED BY <1>3, <1>6 DEF P, full

-----------------------------------------------------------------------------
(* The loop keeps a ledger *)

\* What the loop is given: supplies, and a snapshot's orders in some sequence.
SuppliesGiven(supplies) ==
    IsFiniteSet(supplies) /\ \A s \in supplies : s.quantity \in Nat /\ s.date \in Int

LEMMA SupplySums ==
    ASSUME NEW supplies, SuppliesGiven(supplies), NEW V \in SUBSET supplies, NEW U \in SUBSET V
    PROVE  /\ TotalOf(U) \in Nat /\ TotalOf(V) \in Nat
           /\ TotalOf(V) = TotalOf(U) + TotalOf(V \ U)
<1> DEFINE quantity == [s \in supplies |-> s.quantity]
<1>1. \A W \in SUBSET supplies : TotalOf(W) = Total(quantity, W) /\ IsFiniteSet(W)
  <2> TAKE W \in SUBSET supplies
  <2>1. IsFiniteSet(W)
    BY FS_Subset DEF SuppliesGiven
  <2> DEFINE g == [s \in W |-> s.quantity]
  <2>2. DOMAIN g = W /\ \A s \in W : g[s] = quantity[s]
    OBVIOUS
  <2> HIDE DEF g, quantity
  <2>3. SumOf(g) = Total(quantity, W)
    BY <2>1, <2>2, SumIsTotal
  <2> QED BY <2>1, <2>3 DEF TotalOf, g
<1>2. \A s \in supplies : quantity[s] \in Nat
  BY DEF SuppliesGiven
<1>3. IsFiniteSet(supplies)
  BY DEF SuppliesGiven
<1> HIDE DEF quantity
<1>4. \A W \in SUBSET supplies : TotalOf(W) \in Nat
  BY <1>1, <1>2, <1>3, TotalIsMonotone
<1>5. Total(quantity, V) = Total(quantity, U) + Total(quantity, V \ U)
  <2>1. IsFiniteSet(V) /\ \A x \in V : quantity[x] \in Int
    BY <1>1, <1>2
  <2> QED BY <2>1, TotalOfParts
<1>6. U \in SUBSET supplies /\ V \ U \in SUBSET supplies
  OBVIOUS
<1> QED BY <1>1, <1>4, <1>5, <1>6

\* The orders of a sequence are told apart by position, and so by identifier.
LEMMA SortedOnce ==
    ASSUME NEW orders, OrdersGiven(orders), NEW q, NEW R, IsSorting(q, orders, R)
    PROVE  LET n == Cardinality(orders)
           IN  /\ n \in Nat /\ Len(q) = n /\ q \in [1 .. n -> orders]
               /\ \A i, j \in 1 .. n : q[i].id = q[j].id => i = j
               /\ \A i \in 1 .. n : q[i].demand \in Nat /\ q[i].due \in Int
<1> DEFINE n == Cardinality(orders)
<1>1. n \in Nat
  BY FS_CardinalityType DEF OrdersGiven
<1>2. q \in [1 .. n -> orders] /\ \A i, j \in 1 .. n : i < j <=> <<q[i], q[j]>> \in R
  BY DEF IsSorting
<1> HIDE DEF n
<1>3. Len(q) = n
  BY <1>1, <1>2
<1>4. ASSUME NEW i \in 1 .. n, NEW j \in 1 .. n, q[i].id = q[j].id PROVE i = j
  <2>1. q[i] = q[j]
    BY <1>2, <1>4 DEF OrdersGiven
  <2>2. ~(i < i) /\ (i < j \/ j < i \/ i = j)
    BY <1>1
  <2> QED BY <1>2, <2>1, <2>2
<1>5. \A i \in 1 .. n : q[i].demand \in Nat /\ q[i].due \in Int
  BY <1>2 DEF OrdersGiven, Order
<1> QED BY <1>1, <1>2, <1>3, <1>4, <1>5 DEF n

ReceivedBy(supplies, q, k) == {s \in supplies : \E i \in 1 .. k : s.date <= q[i].due}
Needs(q) == [i \in 1 .. Len(q) |-> q[i].demand]
Stocks(starting, supplies, q) ==
    [k \in 0 .. Len(q) |-> starting + TotalOf(ReceivedBy(supplies, q, k))]
Lefts(starting, supplies, q) ==
    [k \in 0 .. Len(q) |-> AllocationTurns(starting, supplies, q)[k].available]
Gots(starting, supplies, q) ==
    [i \in 1 .. Len(q) |-> AllocateComponentSupply(starting, supplies, q)[q[i].id]]

\* One turn, said of the dates received so far.
LEMMA TurnReceives ==
    ASSUME NEW supplies, SuppliesGiven(supplies), NEW q, NEW k \in Nat \ {0},
           \A i \in 1 .. k : q[i].due \in Int,
           NEW acc, acc.received = {s.date : s \in ReceivedBy(supplies, q, k - 1)}
    PROVE  LET now == ReceivedNow(acc, supplies, q[k])
               before == ReceivedBy(supplies, q, k - 1)
               after == ReceivedBy(supplies, q, k)
           IN  /\ now = after \ before /\ before \subseteq after /\ after \subseteq supplies
               /\ acc.received \union {s.date : s \in now} = {s.date : s \in after}
<1> DEFINE before == ReceivedBy(supplies, q, k - 1)
           after == ReceivedBy(supplies, q, k)
           now == ReceivedNow(acc, supplies, q[k])
<1>0. \A s \in supplies : s.date \in Int
  BY DEF SuppliesGiven
<1>1. k \in 1 .. k /\ \A i \in 1 .. k : i = k \/ i \in 1 .. k - 1
  OBVIOUS
<1>1a. \A i \in 1 .. k - 1 : i \in 1 .. k
  OBVIOUS
<1>2. before \subseteq after /\ after \subseteq supplies /\ before \subseteq supplies
  BY <1>1a DEF ReceivedBy
<1>3. \A s \in supplies : s.date \in acc.received <=> s \in before
  <2> SUFFICES ASSUME NEW s \in supplies, s.date \in acc.received PROVE s \in before
    OBVIOUS
  <2>1. PICK p \in before : p.date = s.date
    OBVIOUS
  <2> QED BY <2>1 DEF ReceivedBy
<1>4. \A s \in supplies : s \in after <=> s \in before \/ s.date <= q[k].due
  BY <1>1, <1>1a DEF ReceivedBy
<1>5. now = after \ before
  BY <1>2, <1>3, <1>4 DEF ReceivedNow
<1> HIDE DEF now, before, after
<1>6. {s.date : s \in before} \union {s.date : s \in now} = {s.date : s \in after}
  BY <1>2, <1>5
<1> QED BY <1>2, <1>5, <1>6 DEF before, after, now

LEMMA NoSupplyIsNothing == TotalOf({}) = 0
<1> DEFINE g == [s \in {} |-> s.quantity]
<1>1. IsFiniteSet({}) /\ DOMAIN g = {} /\ \A s \in {} : g[s] = g[s]
  BY FS_EmptySet
<1> HIDE DEF g
<1>2. SumOf(g) = Total(g, {})
  BY <1>1, SumIsTotal
<1> QED BY <1>2, TotalOfNone DEF TotalOf, g

\* The loop keeps the ledger: an order's share is what its turn gave it.
LEMMA LoopKeepsLedger ==
    ASSUME NEW orders, OrdersGiven(orders), NEW q, NEW R, IsSorting(q, orders, R),
           NEW supplies, SuppliesGiven(supplies), NEW starting \in Int
    PROVE  Ledger(Len(q), Needs(q), Stocks(starting, supplies, q),
                  Gots(starting, supplies, q), Lefts(starting, supplies, q))
<1> DEFINE n == Len(q)
           turn == AllocationTurns(starting, supplies, q)
           need == Needs(q)
           stock == Stocks(starting, supplies, q)
           left == Lefts(starting, supplies, q)
           got == Gots(starting, supplies, q)
           gives(k) == IF Has(stock, left, k) <= need[k] THEN Has(stock, left, k) ELSE need[k]
           received(k) == turn[k].received = {s.date : s \in ReceivedBy(supplies, q, k)}
           shares(k) == \A i \in 1 .. k : /\ q[i].id \in DOMAIN turn[k].allocated
                                          /\ turn[k].allocated[q[i].id] = gives(i)
           G == {k \in 0 .. n : left[k] \in Int /\ received(k) /\ shares(k)
                                /\ (k # 0 => left[k] = Has(stock, left, k) - gives(k))}
<1>1. /\ n \in Nat
      /\ \A i, j \in 1 .. n : q[i].id = q[j].id => i = j
      /\ \A i \in 1 .. n : q[i].demand \in Nat /\ q[i].due \in Int
  BY SortedOnce
<1>2. /\ turn[0] = StartOfTurns(starting)
      /\ \A k \in 1 .. n : turn[k] = AllocateOrder(turn[k - 1], supplies, q[k])
  BY <1>1, TurnsFollow
<1>3. /\ need \in [1 .. n -> Nat] /\ \A k \in 1 .. n : need[k] = q[k].demand
      /\ \A k \in 0 .. n : left[k] = turn[k].available
      /\ \A k \in 0 .. n : stock[k] = starting + TotalOf(ReceivedBy(supplies, q, k))
      /\ DOMAIN left = 0 .. n /\ DOMAIN stock = 0 .. n /\ DOMAIN got = 1 .. n
      /\ left = [k \in 0 .. n |-> left[k]] /\ stock = [k \in 0 .. n |-> stock[k]]
      /\ got = [k \in 1 .. n |-> got[k]]
      /\ \A k \in 1 .. n : got[k] = turn[n].allocated[q[k].id]
  BY <1>1 DEF Needs, Lefts, Stocks, Gots, AllocateComponentSupply
<1> HIDE DEF need, stock, left, got, n, turn
<1>4. \A k \in 0 .. n : stock[k] \in Int
  <2> SUFFICES ASSUME NEW k \in 0 .. n PROVE stock[k] \in Int
    OBVIOUS
  <2>1. ReceivedBy(supplies, q, k) \in SUBSET supplies
    BY DEF ReceivedBy
  <2>2. TotalOf(ReceivedBy(supplies, q, k)) \in Nat
    BY <2>1, SupplySums
  <2> QED BY <1>3, <2>2
<1>5. ReceivedBy(supplies, q, 0) = {}
  <2>1. 1 .. 0 = {}
    OBVIOUS
  <2> QED BY <2>1 DEF ReceivedBy
<1>6. left[0] = starting /\ stock[0] = starting /\ received(0)
  <2>1. turn[0].available = starting /\ turn[0].received = {}
    BY <1>2 DEF StartOfTurns
  <2>2. 0 \in 0 .. n
    BY <1>1
  <2>3. stock[0] = starting + TotalOf({}) /\ left[0] = turn[0].available
    BY <1>3, <1>5, <2>2
  <2>4. starting + 0 = starting
    OBVIOUS
  <2>5. {s.date : s \in {}} = {}
    OBVIOUS
  <2> QED BY <1>5, <2>1, <2>3, <2>4, <2>5, NoSupplyIsNothing
<1>7. 0 \in G
  <2>1. shares(0)
    <3>1. 1 .. 0 = {}
      OBVIOUS
    <3> QED BY <3>1
  <2> HIDE DEF shares, received
  <2>2. 0 \in 0 .. n
    BY <1>1
  <2> QED BY <1>6, <2>1, <2>2
<1>8. ASSUME NEW k \in 1 .. n, k - 1 \in G PROVE k \in G
  <2> DEFINE acc == turn[k - 1]
             now == ReceivedNow(acc, supplies, q[k])
             before == ReceivedBy(supplies, q, k - 1)
             after == ReceivedBy(supplies, q, k)
             available == acc.available + TotalOf(now)
             allocated == Min({available, q[k].demand})
  <2>0. k \in 0 .. n /\ k - 1 \in 0 .. n /\ k \in Nat \ {0} /\ k \in 1 .. k
    BY <1>1
  <2>1. left[k - 1] \in Int /\ received(k - 1) /\ shares(k - 1)
    BY <1>8
  <2>2. \A i \in 1 .. k : q[i].due \in Int
    BY <1>1
  <2>3. /\ now = after \ before /\ before \subseteq after /\ after \subseteq supplies
        /\ acc.received \union {s.date : s \in now} = {s.date : s \in after}
    BY <2>0, <2>1, <2>2, TurnReceives
  <2>4. /\ turn[k].available = available - allocated
        /\ turn[k].received = acc.received \union {s.date : s \in now}
        /\ turn[k].allocated = [id \in DOMAIN acc.allocated \union {q[k].id} |->
                                   IF id = q[k].id THEN allocated ELSE acc.allocated[id]]
    <3>1. turn[k] = AllocateOrder(acc, supplies, q[k])
      BY <1>2
    <3> HIDE DEF acc
    <3> QED BY <3>1 DEF AllocateOrder
  <2>5. TotalOf(before) \in Nat /\ TotalOf(after) \in Nat
        /\ TotalOf(after) = TotalOf(before) + TotalOf(after \ before)
    BY <2>3, SupplySums
  <2>6. stock[k] - stock[k - 1] = TotalOf(now) /\ TotalOf(now) \in Int
    <3>1. TotalOf(now) \in Nat
      <4>1. now \in SUBSET supplies
        BY <2>3
      <4> QED BY <4>1, SupplySums
    <3>2. stock[k] = starting + TotalOf(after) /\ stock[k - 1] = starting + TotalOf(before)
      BY <1>3, <2>0
    <3>3. TotalOf(after) = TotalOf(before) + TotalOf(now)
      BY <2>3, <2>5
    <3> HIDE DEF now, before, after
    <3> QED BY <2>5, <3>1, <3>2, <3>3
  <2>7. available = Has(stock, left, k) /\ available \in Int
    <3>1. acc.available = left[k - 1]
      BY <1>3, <2>0
    <3> HIDE DEF acc, now
    <3> QED BY <2>1, <2>6, <3>1 DEF Has
  <2>8. allocated = gives(k) /\ allocated \in Int
    <3>1. q[k].demand \in Int /\ need[k] = q[k].demand
      BY <1>1, <1>3
    <3> HIDE DEF available
    <3>2. allocated = IF available <= q[k].demand THEN available ELSE q[k].demand
      BY <2>7, <3>1, LesserOfTwo
    <3> QED BY <2>7, <3>1, <3>2
  <2>9. left[k] = Has(stock, left, k) - gives(k) /\ left[k] \in Int
    <3>1. left[k] = turn[k].available
      BY <1>3, <2>0
    <3> HIDE DEF available, allocated, gives
    <3> QED BY <2>4, <2>7, <2>8, <3>1
  <2>10. received(k)
    BY <2>3, <2>4
  <2>11. shares(k)
    <3> SUFFICES ASSUME NEW i \in 1 .. k
        PROVE  /\ q[i].id \in DOMAIN turn[k].allocated
               /\ turn[k].allocated[q[i].id] = gives(i)
      OBVIOUS
    <3> HIDE DEF gives, allocated, acc
    <3>1. CASE i = k
      BY <2>4, <2>8, <3>1
    <3>2. CASE i # k
      <4>1. i \in 1 .. k - 1 /\ i \in 1 .. n
        BY <1>1, <3>2
      <4>2. q[i].id # q[k].id
        BY <1>1, <3>2, <4>1
      <4>3. q[i].id \in DOMAIN acc.allocated /\ acc.allocated[q[i].id] = gives(i)
        BY <2>1, <4>1 DEF acc
      <4> QED BY <2>4, <4>2, <4>3
    <3> QED BY <3>1, <3>2
  <2> HIDE DEF gives, received, shares
  <2> QED BY <2>0, <2>9, <2>10, <2>11
<1>9. 0 .. n \subseteq G
  <2> HIDE DEF G
  <2> QED BY <1>1, <1>7, <1>8, CountingUp
<1>10. ASSUME NEW k \in 1 .. n
       PROVE  got[k] = gives(k) /\ left[k] = Has(stock, left, k) - got[k] /\ got[k] \in Int
  <2>1. k \in 0 .. n /\ n \in 0 .. n /\ k - 1 \in 0 .. n /\ k # 0
    BY <1>1
  <2>2. k \in G /\ n \in G /\ k - 1 \in G
    BY <1>9, <2>1
  <2>3. left[k] = Has(stock, left, k) - gives(k)
    BY <2>1, <2>2
  <2>4. turn[n].allocated[q[k].id] = gives(k)
    BY <2>2
  <2>5. gives(k) \in Int
    <3>1. left[k - 1] \in Int /\ stock[k] \in Int /\ stock[k - 1] \in Int /\ need[k] \in Int
      BY <1>3, <1>4, <2>1, <2>2
    <3>2. Has(stock, left, k) \in Int
      BY <3>1 DEF Has
    <3> QED BY <3>1, <3>2
  <2> HIDE DEF gives
  <2> QED BY <1>3, <2>3, <2>4, <2>5
<1>11. /\ left \in [0 .. n -> Int] /\ stock \in [0 .. n -> Int] /\ got \in [1 .. n -> Int]
  <2>1. \A k \in 0 .. n : left[k] \in Int
    BY <1>9
  <2> QED BY <1>3, <1>4, <1>10, <2>1
<1>12. Ledger(n, need, stock, got, left)
  BY <1>1, <1>3, <1>6, <1>10, <1>11 DEF Ledger
<1> QED BY <1>12 DEF n, need, stock, got, left

-----------------------------------------------------------------------------
(* What an intervention predicts *)

\* A sum over the first orders of a sequence is a sum over its first turns.
Lists(q, n, S) ==
    /\ n \in Nat /\ IsFiniteSet(S) /\ q \in [1 .. n -> S]
    /\ \A i, j \in 1 .. n : q[i] = q[j] => i = j

FirstOf(q, k) == {q[i] : i \in 1 .. k}

LEMMA Reindexed ==
    ASSUME NEW n, NEW S, NEW q, Lists(q, n, S),
           NEW f, \A x \in S : f[x] \in Int,
           NEW g, \A i \in 1 .. n : g[i] = f[q[i]]
    PROVE  \A k \in 0 .. n : Total(f, FirstOf(q, k)) = Total(g, 1 .. k)
<1> DEFINE first(k) == FirstOf(q, k)
           G == {k \in 0 .. n : Total(f, first(k)) = Total(g, 1 .. k)}
<1>0. /\ n \in Nat /\ IsFiniteSet(S) /\ \A i \in 1 .. n : q[i] \in S
      /\ \A i, j \in 1 .. n : q[i] = q[j] => i = j
  BY DEF Lists
<1>1. \A i \in 1 .. n : q[i] \in S /\ g[i] \in Int
  BY <1>0
<1>2. /\ Total(g, 1 .. 0) = 0
      /\ \A k \in 0 .. n : Total(g, 1 .. k) \in Int
      /\ \A k \in 1 .. n : Total(g, 1 .. k) = Total(g, 1 .. k - 1) + g[k]
  BY <1>0, <1>1, PartialSums
<1>3. 0 \in G
  <2>0. 0 \in 0 .. n
    BY <1>0
  <2>1. first(0) = {}
    BY DEF FirstOf
  <2>2. Total(g, 1 .. 0) = 0
    BY <1>2
  <2> HIDE DEF first
  <2>3. Total(f, first(0)) = 0
    BY <2>1, TotalOfNone
  <2>4. Total(f, first(0)) = Total(g, 1 .. 0)
    BY <2>2, <2>3
  <2> QED BY <2>0, <2>4
<1>4. ASSUME NEW k \in 1 .. n, k - 1 \in G PROVE k \in G
  <2>0. k \in 0 .. n /\ k - 1 \in 0 .. n
    BY <1>0
  <2>1. first(k) \in SUBSET S /\ q[k] \in first(k) /\ first(k) \ {q[k]} = first(k - 1)
    <3>1. \A i \in 1 .. k : i \in 1 .. n /\ (i # k => i \in 1 .. k - 1)
      BY <1>0
    <3>2. \A i \in 1 .. k - 1 : i \in 1 .. k /\ i \in 1 .. n /\ i # k
      BY <1>0
    <3>3. k \in 1 .. k
      OBVIOUS
    <3> QED BY <1>0, <1>1, <3>1, <3>2, <3>3 DEF FirstOf
  <2>2. IsFiniteSet(first(k)) /\ \A x \in first(k) : f[x] \in Int
    BY <1>0, <2>1, FS_Subset
  <2> HIDE DEF first
  <2>3. Total(f, first(k)) = f[q[k]] + Total(f, first(k) \ {q[k]})
    BY <2>1, <2>2, TotalWithout
  <2>4. Total(f, first(k - 1)) = Total(g, 1 .. k - 1)
    BY <1>4
  <2>5. Total(g, 1 .. k) = Total(g, 1 .. k - 1) + g[k]
    BY <1>2
  <2>6. g[k] = f[q[k]] /\ g[k] \in Int /\ Total(g, 1 .. k - 1) \in Int
    BY <1>1, <1>2, <2>0
  <2>7. Total(f, first(k)) = f[q[k]] + Total(f, first(k - 1))
    BY <2>1, <2>3
  <2>8. Total(f, first(k)) = Total(g, 1 .. k)
    <3>1. Total(f, first(k)) = g[k] + Total(g, 1 .. k - 1)
      BY <2>4, <2>6, <2>7
    <3>2. g[k] + Total(g, 1 .. k - 1) = Total(g, 1 .. k - 1) + g[k]
      BY <2>6
    <3> QED BY <2>5, <3>1, <3>2
  <2> QED BY <2>0, <2>8
<1>5. 0 .. n \subseteq G
  <2> HIDE DEF G
  <2> QED BY <1>0, <1>3, <1>4, CountingUp
<1> QED BY <1>5

\* The caller's order: by priority where the option resequences.
Sequence(orders, resequence) == IF resequence THEN ByPriority(orders) ELSE ByDueDate(orders)
Key(orders, resequence) == IF resequence THEN PriorityFirst(orders) ELSE DueFirst(orders)

LEMMA SequenceIsSorted ==
    ASSUME NEW orders, OrdersGiven(orders), NEW resequence
    PROVE  IsSorting(Sequence(orders, resequence), orders, Key(orders, resequence))
<1>1. CASE resequence
  BY <1>1, OrdersAreSorted DEF Sequence, Key
<1>2. CASE ~resequence
  BY <1>2, OrdersAreSorted DEF Sequence, Key
<1> QED BY <1>1, <1>2

MissedOrders(starting, orders, supplies, q) ==
    {o \in orders : AllocateComponentSupply(starting, supplies, q)[o.id] # o.demand}

LEMMA SumsOfOrders ==
    ASSUME NEW orders, OrdersGiven(orders), NEW some \in SUBSET orders, NEW fewer \in SUBSET some
    PROVE  /\ DemandOf(some) \in Nat /\ RevenueOf(some) \in Nat /\ MarginOf(some) \in Nat
           /\ DemandOf(some) = Total([o \in orders |-> o.demand], some)
           /\ DemandOf(fewer) <= DemandOf(some)
           /\ RevenueOf(fewer) <= RevenueOf(some)
<1> DEFINE d == [o \in orders |-> o.demand]
           r == [o \in orders |-> o.revenue]
           m == [o \in orders |-> o.margin]
<1>1. \A o \in orders : d[o] \in Nat /\ r[o] \in Nat /\ m[o] \in Nat
  BY DEF OrdersGiven, Order
<1>2. \A S \in SUBSET orders : IsFiniteSet(S)
  BY FS_Subset DEF OrdersGiven
<1>3. ASSUME NEW S \in SUBSET orders
      PROVE  /\ DemandOf(S) = Total(d, S) /\ RevenueOf(S) = Total(r, S)
             /\ MarginOf(S) = Total(m, S)
  <2> DEFINE ds == [o \in S |-> o.demand]
             rs == [o \in S |-> o.revenue]
             ms == [o \in S |-> o.margin]
  <2>1. /\ DOMAIN ds = S /\ \A o \in S : ds[o] = d[o]
        /\ DOMAIN rs = S /\ \A o \in S : rs[o] = r[o]
        /\ DOMAIN ms = S /\ \A o \in S : ms[o] = m[o]
    OBVIOUS
  <2>2. IsFiniteSet(S)
    BY <1>2
  <2> HIDE DEF ds, rs, ms, d, r, m
  <2>3. SumOf(ds) = Total(d, S) /\ SumOf(rs) = Total(r, S) /\ SumOf(ms) = Total(m, S)
    BY <2>1, <2>2, SumIsTotal
  <2> QED BY <2>3 DEF DemandOf, RevenueOf, MarginOf, ds, rs, ms
<1> HIDE DEF d, r, m
<1>4. \A S \in SUBSET orders, T \in SUBSET orders : T \subseteq S =>
         /\ Total(d, S) \in Nat /\ Total(r, S) \in Nat /\ Total(m, S) \in Nat
         /\ Total(d, T) <= Total(d, S) /\ Total(r, T) <= Total(r, S)
  <2> SUFFICES ASSUME NEW S \in SUBSET orders, NEW T \in SUBSET S
      PROVE  /\ Total(d, S) \in Nat /\ Total(r, S) \in Nat /\ Total(m, S) \in Nat
             /\ Total(d, T) <= Total(d, S) /\ Total(r, T) <= Total(r, S)
    OBVIOUS
  <2>1. /\ IsFiniteSet(S) /\ S \in SUBSET S
        /\ \A o \in S : d[o] \in Nat /\ r[o] \in Nat /\ m[o] \in Nat
    BY <1>1, <1>2
  <2>2. Total(d, S) \in Nat /\ Total(d, T) <= Total(d, S)
    BY <2>1, TotalIsMonotone
  <2>3. Total(r, S) \in Nat /\ Total(r, T) <= Total(r, S)
    BY <2>1, TotalIsMonotone
  <2>4. Total(m, S) \in Nat
    BY <2>1, TotalIsMonotone
  <2> QED BY <2>2, <2>3, <2>4
<1>5. fewer \in SUBSET orders
  OBVIOUS
<1> QED BY <1>3, <1>4, <1>5 DEF d

\* The demand of the orders before a turn is the sum over the turns before it.
LEMMA DemandInTurns ==
    ASSUME NEW orders, OrdersGiven(orders), NEW q, NEW R, IsSorting(q, orders, R)
    PROVE  /\ \A k \in 0 .. Len(q) :
                 DemandOf(FirstOf(q, k)) = Total(Needs(q), 1 .. k)
           /\ FirstOf(q, Len(q)) = orders /\ Lists(q, Len(q), orders)
           /\ \A k \in 1 .. Len(q) : {p \in orders : <<p, q[k]>> \in R} = FirstOf(q, k - 1)
<1> DEFINE n == Len(q)
           d == [o \in orders |-> o.demand]
           need == Needs(q)
<1>1. /\ n \in Nat /\ q \in [1 .. n -> orders] /\ IsFiniteSet(orders) /\ n = Cardinality(orders)
      /\ \A i, j \in 1 .. n : q[i] = q[j] => i = j
  BY SortedOnce DEF OrdersGiven
<1>2. \A i \in 1 .. n : need[i] = d[q[i]]
  BY <1>1 DEF Needs
<1>3. \A o \in orders : d[o] \in Int
  BY DEF OrdersGiven, Order
<1>4. \A k \in 0 .. n : FirstOf(q, k) \in SUBSET orders
  <2> SUFFICES ASSUME NEW k \in 0 .. n, NEW i \in 1 .. k PROVE q[i] \in orders
    BY DEF FirstOf
  <2>1. i \in 1 .. n
    BY <1>1
  <2> QED BY <1>1, <2>1
<1>5. \A k \in 0 .. n : DemandOf(FirstOf(q, k)) = Total(d, FirstOf(q, k))
  BY <1>4, SumsOfOrders
<1>5a. Lists(q, n, orders)
  BY <1>1 DEF Lists
<1> HIDE DEF n, d, need
<1>6. \A k \in 0 .. n : Total(d, FirstOf(q, k)) = Total(need, 1 .. k)
  BY <1>2, <1>3, <1>5a, Reindexed
<1>7. FirstOf(q, n) = orders
  BY <1>1 DEF IsSorting, FirstOf
<1>8. ASSUME NEW k \in 1 .. n
      PROVE  {p \in orders : <<p, q[k]>> \in R} = FirstOf(q, k - 1)
  <2>1. \A i \in 1 .. n : i < k <=> <<q[i], q[k]>> \in R
    BY <1>1 DEF IsSorting
  <2>2. \A i \in 1 .. k - 1 : i \in 1 .. n /\ i < k
    BY <1>1
  <2>3. \A i \in 1 .. n : i < k => i \in 1 .. k - 1
    BY <1>1
  <2>4. \A p \in {p \in orders : <<p, q[k]>> \in R} : p \in FirstOf(q, k - 1)
    BY <1>7, <2>1, <2>3 DEF FirstOf
  <2>5. \A i \in 1 .. k - 1 : q[i] \in {p \in orders : <<p, q[k]>> \in R}
    BY <1>1, <2>1, <2>2
  <2> QED BY <2>4, <2>5 DEF FirstOf
<1> QED BY <1>5, <1>5a, <1>6, <1>7, <1>8 DEF n, need

\* What an intervention predicts, in terms of its ledger.
LEMMA OutcomeOfLedger ==
    ASSUME NEW orders, OrdersGiven(orders), orders # {}, NEW resequence,
           NEW supplies, SuppliesGiven(supplies), NEW starting \in Int, NEW cost
    PROVE  LET q == Sequence(orders, resequence)
               got == Gots(starting, supplies, q)
               missed == MissedOrders(starting, orders, supplies, q)
               outcome == InterventionOutcome(starting, orders, supplies, resequence, cost)
           IN  /\ outcome.uncovered_part_demand =
                     Total(Needs(q), 1 .. Len(q)) - Total(got, 1 .. Len(q))
               /\ outcome.uncovered_part_demand \in Int
               /\ outcome.otif_loss_percentage \in Int
               /\ outcome.revenue_at_risk = RevenueOf(missed)
               /\ outcome.margin_at_risk = MarginOf(missed)
               /\ outcome.response_cost = cost
               /\ outcome.protected =
                     {q[i].id : i \in {j \in 1 .. Len(q) : got[j] = Needs(q)[j]}}
<1> DEFINE q == Sequence(orders, resequence)
           n == Len(q)
           share == AllocateComponentSupply(starting, supplies, q)
           got == Gots(starting, supplies, q)
           need == Needs(q)
           missed == MissedOrders(starting, orders, supplies, q)
           protected == {o \in orders : share[o.id] = o.demand}
           short == [o \in orders |-> o.demand - share[o.id]]
           outcome == InterventionOutcome(starting, orders, supplies, resequence, cost)
<1>1. /\ outcome.uncovered_part_demand = SumOf(short)
      /\ outcome.otif_loss_percentage =
            (100 * Cardinality(orders \ protected)) \div Cardinality(orders)
      /\ outcome.revenue_at_risk = RevenueOf(orders \ protected)
      /\ outcome.margin_at_risk = MarginOf(orders \ protected)
      /\ outcome.response_cost = cost
      /\ outcome.protected = {o.id : o \in protected}
  BY DEF InterventionOutcome, Sequence
<1>2. orders \ protected = missed
  BY DEF MissedOrders
<1>3. IsSorting(q, orders, Key(orders, resequence))
  BY SequenceIsSorted
<1> HIDE DEF q, outcome
<1>4. /\ n \in Nat /\ q \in [1 .. n -> orders] /\ IsFiniteSet(orders)
      /\ \A i, j \in 1 .. n : q[i] = q[j] => i = j
      /\ \A i \in 1 .. n : q[i].demand \in Nat
  BY <1>3, SortedOnce DEF OrdersGiven
<1>5. Ledger(n, need, Stocks(starting, supplies, q), got, Lefts(starting, supplies, q))
  BY <1>3, LoopKeepsLedger
<1>6. got \in [1 .. n -> Int] /\ need \in [1 .. n -> Nat]
  <2> HIDE DEF n, got, need
  <2> QED BY <1>5 DEF Ledger
<1>7. \A i \in 1 .. n : got[i] = share[q[i].id] /\ need[i] = q[i].demand
  BY DEF Gots, Needs
<1>8. /\ FirstOf(q, n) = orders /\ Lists(q, n, orders)
      /\ \A o \in orders : \E i \in 1 .. n : q[i] = o
  <2>1. FirstOf(q, n) = orders /\ Lists(q, n, orders)
    BY <1>3, DemandInTurns
  <2> QED BY <2>1 DEF FirstOf
<1> HIDE DEF n, got, need, share
<1>9. SumOf(short) = Total(need, 1 .. n) - Total(got, 1 .. n) /\ SumOf(short) \in Int
  <2> DEFINE gap == [i \in 1 .. n |-> need[i] - got[i]]
  <2>1. \A i \in 1 .. n : gap[i] = short[q[i]] /\ short[q[i]] \in Int
    BY <1>4, <1>6, <1>7
  <2>2. \A o \in orders : short[o] \in Int
    BY <1>8, <2>1
  <2>3. DOMAIN short = orders /\ \A o \in orders : short[o] = short[o]
    OBVIOUS
  <2>4. \A i \in 1 .. n : need[i] \in Int /\ got[i] \in Int /\ gap[i] = need[i] - got[i]
    BY <1>6
  <2>5. IsFiniteSet(1 .. n) /\ n \in 0 .. n
    BY <1>4, FS_Interval
  <2> HIDE DEF short, gap
  <2>6. SumOf(short) = Total(short, orders)
    BY <1>4, <2>3, SumIsTotal
  <2>7. Total(short, FirstOf(q, n)) = Total(gap, 1 .. n)
    <3>1. \A i \in 1 .. n : gap[i] = short[q[i]]
      BY <2>1
    <3>2. \A k \in 0 .. n : Total(short, FirstOf(q, k)) = Total(gap, 1 .. k)
      BY <1>8, <2>2, <3>1, Reindexed
    <3> QED BY <2>5, <3>2
  <2>8. Total(gap, 1 .. n) = Total(need, 1 .. n) - Total(got, 1 .. n)
    BY <2>4, <2>5, TotalOfDifference
  <2>9. Total(short, orders) \in Int
    BY <1>4, <2>2, TotalIsNumber
  <2> QED BY <1>8, <2>6, <2>7, <2>8, <2>9
<1>10. outcome.otif_loss_percentage \in Int
  <2>1. IsFiniteSet(orders \ protected)
    BY <1>4, FS_Subset
  <2>2. Cardinality(orders \ protected) \in Nat /\ Cardinality(orders) \in Nat
    BY <1>4, <2>1, FS_CardinalityType
  <2>3. Cardinality(orders) # 0
    BY <1>4, FS_EmptySet
  <2> HIDE DEF protected
  <2>4. \A x \in Nat, y \in Nat : y # 0 => (100 * x) \div y \in Int
    OBVIOUS
  <2> QED BY <1>1, <2>2, <2>3, <2>4
<1>11. {o.id : o \in protected} = {q[i].id : i \in {j \in 1 .. n : got[j] = need[j]}}
  <2>1. \A o \in protected : \E i \in 1 .. n : q[i] = o /\ got[i] = need[i]
    BY <1>7, <1>8
  <2>2. \A i \in 1 .. n : got[i] = need[i] => q[i] \in protected
    BY <1>4, <1>7
  <2> HIDE DEF protected
  <2> QED BY <2>1, <2>2
<1> HIDE DEF missed, protected, short
<1> QED BY <1>1, <1>2, <1>9, <1>10, <1>11 DEF q, n, got, need, outcome, missed

\* The demand an intervention leaves uncovered is the closed form's.
LEMMA GreedyIsClosedForm ==
    ASSUME NEW orders, OrdersGiven(orders), orders # {}, NEW resequence,
           NEW supplies, SuppliesGiven(supplies), NEW starting \in Int, NEW cost
    PROVE  InterventionOutcome(starting, orders, supplies, resequence, cost).uncovered_part_demand
             = GreedyUncovered(starting, supplies, Sequence(orders, resequence))
<1> DEFINE q == Sequence(orders, resequence)
           n == Len(q)
           need == Needs(q)
           got == Gots(starting, supplies, q)
           stock == Stocks(starting, supplies, q)
           demand(k) == SumOf([i \in 1 .. k |-> q[i].demand])
           stocked(j) == starting + TotalOf({s \in supplies : \E i \in 1 .. j : s.date <= q[i].due})
<1>1. IsSorting(q, orders, Key(orders, resequence))
  BY SequenceIsSorted
<1>2. InterventionOutcome(starting, orders, supplies, resequence, cost).uncovered_part_demand
        = Total(need, 1 .. n) - Total(got, 1 .. n)
  BY OutcomeOfLedger
<1>3. GreedyUncovered(starting, supplies, q) =
        demand(n) - Min({demand(n)} \union {stocked(j) + demand(n) - demand(j) : j \in 1 .. n})
  BY DEF GreedyUncovered
<1> HIDE DEF q
<1>4. n \in Nat /\ \A i \in 1 .. n : need[i] = q[i].demand
  BY <1>1, SortedOnce DEF Needs
<1>5. Ledger(n, need, stock, got, Lefts(starting, supplies, q))
  BY <1>1, LoopKeepsLedger
<1>6. \A j \in 1 .. n : stock[j] = stocked(j)
  <2> SUFFICES ASSUME NEW j \in 1 .. n PROVE stock[j] = stocked(j)
    OBVIOUS
  <2>1. j \in 0 .. Len(q)
    BY <1>4
  <2> QED BY <2>1 DEF Stocks, ReceivedBy
<1> HIDE DEF n, need, stock, got
<1>7. \A k \in 0 .. n : demand(k) = Total(need, 1 .. k)
  <2> SUFFICES ASSUME NEW k \in 0 .. n PROVE demand(k) = Total(need, 1 .. k)
    OBVIOUS
  <2> DEFINE g == [i \in 1 .. k |-> q[i].demand]
  <2>1. DOMAIN g = 1 .. k /\ \A i \in 1 .. k : g[i] = need[i]
    BY <1>4
  <2>2. IsFiniteSet(1 .. k)
    BY <1>4, FS_Interval
  <2> HIDE DEF g
  <2>3. SumOf(g) = Total(need, 1 .. k)
    BY <2>1, <2>2, SumIsTotal
  <2> QED BY <2>3 DEF g
<1>8. Total(got, 1 .. n) = Min({Total(need, 1 .. n)} \union
         {stock[j] + Total(need, 1 .. n) - Total(need, 1 .. j) : j \in 1 .. n})
  BY <1>5, LedgerIsGreedy
<1>9. n \in 0 .. n /\ \A j \in 1 .. n : j \in 0 .. n
  BY <1>4
<1> HIDE DEF demand, stocked
<1>10. {stock[j] + Total(need, 1 .. n) - Total(need, 1 .. j) : j \in 1 .. n}
         = {stocked(j) + demand(n) - demand(j) : j \in 1 .. n}
  <2>1. \A j \in 1 .. n : stock[j] + Total(need, 1 .. n) - Total(need, 1 .. j)
                             = stocked(j) + demand(n) - demand(j)
    BY <1>6, <1>7, <1>9
  <2> QED BY <2>1
<1>11. demand(n) = Total(need, 1 .. n)
  BY <1>7, <1>9
<1> QED BY <1>2, <1>3, <1>8, <1>10, <1>11 DEF q

\* More supply, in the same sequence, protects no fewer orders.
LEMMA MoreSupplyProtectsMore ==
    ASSUME NEW orders, OrdersGiven(orders), orders # {}, NEW resequence, NEW starting \in Int,
           NEW supplies, SuppliesGiven(supplies), NEW fewer \in SUBSET supplies,
           NEW cost, NEW cost2
    PROVE  InterventionOutcome(starting, orders, fewer, resequence, cost).protected \subseteq
             InterventionOutcome(starting, orders, supplies, resequence, cost2).protected
<1> DEFINE q == Sequence(orders, resequence)
           n == Len(q)
           need == Needs(q)
           got == Gots(starting, fewer, q)
           stock == Stocks(starting, fewer, q)
           left == Lefts(starting, fewer, q)
           got2 == Gots(starting, supplies, q)
           stock2 == Stocks(starting, supplies, q)
           left2 == Lefts(starting, supplies, q)
           by(U, k) == ReceivedBy(U, q, k)
<1>0. SuppliesGiven(fewer)
  BY FS_Subset DEF SuppliesGiven
<1>1. IsSorting(q, orders, Key(orders, resequence))
  BY SequenceIsSorted
<1>2. InterventionOutcome(starting, orders, fewer, resequence, cost).protected
        = {q[i].id : i \in {j \in 1 .. n : got[j] = need[j]}}
  BY <1>0, OutcomeOfLedger
<1>3. InterventionOutcome(starting, orders, supplies, resequence, cost2).protected
        = {q[i].id : i \in {j \in 1 .. n : got2[j] = need[j]}}
  BY OutcomeOfLedger
<1> HIDE DEF q
<1>4. Ledger(n, need, stock, got, left) /\ Ledger(n, need, stock2, got2, left2)
  BY <1>0, <1>1, LoopKeepsLedger
<1>5. n \in Nat
  BY <1>1, SortedOnce
<1>6. /\ \A k \in 0 .. n : stock[k] = starting + TotalOf(by(fewer, k))
      /\ \A k \in 0 .. n : stock2[k] = starting + TotalOf(by(supplies, k))
  BY DEF Stocks
<1>7. stock2[0] = stock[0]
  <2>1. by(fewer, 0) = {} /\ by(supplies, 0) = {} /\ 0 \in 0 .. n
    <3>1. 1 .. 0 = {}
      OBVIOUS
    <3> QED BY <1>5, <3>1 DEF ReceivedBy
  <2>2. stock[0] = starting + TotalOf({}) /\ stock2[0] = starting + TotalOf({})
    BY <1>6, <2>1
  <2> QED BY <2>2
<1> HIDE DEF n, need, stock, got, left, stock2, got2, left2
<1>8. ASSUME NEW k \in 1 .. n
      PROVE  stock[k] - stock[k - 1] <= stock2[k] - stock2[k - 1]
  <2> DEFINE b == by(fewer, k - 1)  a == by(fewer, k)
             b2 == by(supplies, k - 1)  a2 == by(supplies, k)
  <2>1. /\ b \in SUBSET a /\ a \in SUBSET fewer /\ b2 \in SUBSET a2 /\ a2 \in SUBSET supplies
        /\ a \ b \in SUBSET (a2 \ b2) /\ a2 \ b2 \in SUBSET supplies
    <3>1. \A i \in 1 .. k - 1 : i \in 1 .. k
      OBVIOUS
    <3> QED BY <3>1 DEF ReceivedBy
  <2>2. k \in 0 .. n /\ k - 1 \in 0 .. n
    BY <1>5
  <2>3. /\ stock[k] = starting + TotalOf(a) /\ stock[k - 1] = starting + TotalOf(b)
        /\ stock2[k] = starting + TotalOf(a2) /\ stock2[k - 1] = starting + TotalOf(b2)
    BY <1>6, <2>2
  <2> HIDE DEF a, b, a2, b2
  <2>4. /\ TotalOf(b) \in Nat /\ TotalOf(a) \in Nat /\ TotalOf(a \ b) \in Nat
        /\ TotalOf(a) = TotalOf(b) + TotalOf(a \ b)
    <3>1. a \in SUBSET supplies /\ a \ b \in SUBSET a
      BY <2>1
    <3>2. TotalOf(b) \in Nat /\ TotalOf(a) \in Nat /\ TotalOf(a) = TotalOf(b) + TotalOf(a \ b)
      BY <2>1, <3>1, SupplySums
    <3>3. TotalOf(a \ b) \in Nat
      BY <3>1, SupplySums
    <3> QED BY <3>2, <3>3
  <2>5. /\ TotalOf(b2) \in Nat /\ TotalOf(a2) \in Nat
        /\ TotalOf(a2) = TotalOf(b2) + TotalOf(a2 \ b2)
    BY <2>1, SupplySums
  <2>6. TotalOf(a \ b) <= TotalOf(a2 \ b2) /\ TotalOf(a2 \ b2) \in Nat
    <3> DEFINE c == a \ b  c2 == a2 \ b2
    <3>1. c \in SUBSET c2 /\ c2 \in SUBSET supplies /\ c2 \ c \in SUBSET c2
      BY <2>1
    <3> HIDE DEF c, c2
    <3>2. TotalOf(c) \in Nat /\ TotalOf(c2) \in Nat /\ TotalOf(c2) = TotalOf(c) + TotalOf(c2 \ c)
      BY <3>1, SupplySums
    <3>3. TotalOf(c2 \ c) \in Nat
      BY <3>1, SupplySums
    <3>4. TotalOf(c) <= TotalOf(c2)
      BY <3>2, <3>3
    <3> QED BY <3>2, <3>4 DEF c, c2
  <2> QED BY <2>3, <2>4, <2>5, <2>6
<1>9. \A k \in 1 .. n : got[k] = need[k] => got2[k] = need[k]
  BY <1>4, <1>7, <1>8, MoreSupplyServesMore
<1> QED BY <1>2, <1>3, <1>9 DEF n, need, got, got2

-----------------------------------------------------------------------------
(* Protection and delivery on time *)

LEMMA AtLeastNothing ==
    ASSUME NEW x \in Int
    PROVE  Max({0, x}) \in Nat /\ x <= Max({0, x})
<1>1. \E y \in {0, x} : \A z \in {0, x} : y >= z
  <2>1. CASE x <= 0
    BY <2>1
  <2>2. CASE x > 0
    BY <2>2
  <2> QED BY <2>1, <2>2
<1>2. Max({0, x}) \in {0, x} /\ \A z \in {0, x} : Max({0, x}) >= z
  BY <1>1 DEF Max
<1> QED BY <1>2

\* By a day the orders protected and due have no more demand than there is.
FitsBy(day, protected, orders, supplies, starting) ==
    LET kept == {o \in orders : o.id \in protected}
    IN  DemandOf({o \in kept : o.due <= day})
           <= Max({0, starting}) + TotalOf({s \in supplies : s.date <= day})

\* A turn that comes after every order due by a day, with nothing received
\* that arrives later, shows what is protected to be deliverable by that day.
LEMMA ProtectedByTurn ==
    ASSUME NEW orders, OrdersGiven(orders), orders # {}, NEW resequence,
           NEW supplies, SuppliesGiven(supplies), NEW starting \in Int, NEW cost,
           NEW day \in Int, NEW m \in 0 .. Len(Sequence(orders, resequence)),
           {o \in orders : o.due <= day} \subseteq FirstOf(Sequence(orders, resequence), m),
           \A s \in ReceivedBy(supplies, Sequence(orders, resequence), m) : s.date <= day
    PROVE  FitsBy(day, InterventionOutcome(starting, orders, supplies, resequence, cost).protected,
                  orders, supplies, starting)
<1> DEFINE q == Sequence(orders, resequence)
           n == Len(q)
           need == Needs(q)
           got == Gots(starting, supplies, q)
           stock == Stocks(starting, supplies, q)
           left == Lefts(starting, supplies, q)
           full == InFull(n, need, got)
           by(k) == ReceivedBy(supplies, q, k)
           arrived == {s \in supplies : s.date <= day}
           kept == {o \in orders : o.id \in
                       InterventionOutcome(starting, orders, supplies, resequence, cost).protected}
           kept_by == {o \in kept : o.due <= day}
           most == Max({0, starting})
           d == [o \in orders |-> o.demand]
           f == [o \in orders |-> IF o \in kept THEN o.demand ELSE 0]
<1>1. IsSorting(q, orders, Key(orders, resequence))
  BY SequenceIsSorted
<1>2. InterventionOutcome(starting, orders, supplies, resequence, cost).protected
        = {q[i].id : i \in {j \in 1 .. n : got[j] = need[j]}}
  BY OutcomeOfLedger
<1>3. /\ {o \in orders : o.due <= day} \subseteq FirstOf(q, m) /\ by(m) \subseteq arrived
      /\ m \in 0 .. n
  BY DEF ReceivedBy
<1> HIDE DEF q
<1>4. Ledger(n, need, stock, got, left)
  BY <1>1, LoopKeepsLedger
<1>5. /\ n \in Nat /\ q \in [1 .. n -> orders]
      /\ \A i, j \in 1 .. n : q[i].id = q[j].id => i = j
      /\ \A i \in 1 .. n : q[i].demand \in Nat /\ need[i] = q[i].demand
  BY <1>1, SortedOnce DEF Needs
<1>6. /\ \A k \in 0 .. n : stock[k] = starting + TotalOf(by(k))
      /\ stock[0] = starting
  <2>1. \A k \in 0 .. n : stock[k] = starting + TotalOf(by(k))
    BY DEF Stocks
  <2>2. by(0) = {} /\ 0 \in 0 .. n
    <3>1. 1 .. 0 = {}
      OBVIOUS
    <3> QED BY <1>5, <3>1 DEF ReceivedBy
  <2>3. TotalOf(by(0)) = 0
    BY <2>2, NoSupplyIsNothing
  <2> QED BY <2>1, <2>2, <2>3
<1>7. \A k \in 1 .. n : stock[k - 1] <= stock[k]
  <2> SUFFICES ASSUME NEW k \in 1 .. n PROVE stock[k - 1] <= stock[k]
    OBVIOUS
  <2> DEFINE b == by(k - 1)  a == by(k)
  <2>1. k \in 0 .. n /\ k - 1 \in 0 .. n /\ \A i \in 1 .. k - 1 : i \in 1 .. k
    BY <1>5
  <2>2. b \in SUBSET a /\ a \in SUBSET supplies
    BY <2>1 DEF ReceivedBy
  <2>3. a \ b \in SUBSET a /\ stock[k] = starting + TotalOf(a)
        /\ stock[k - 1] = starting + TotalOf(b)
    BY <1>6, <2>1
  <2> HIDE DEF a, b, stock
  <2>4. /\ TotalOf(b) \in Nat /\ TotalOf(a) \in Nat /\ TotalOf(a) = TotalOf(b) + TotalOf(a \ b)
        /\ TotalOf(a \ b) \in Nat
    BY <2>2, <2>3, SupplySums
  <2> QED BY <2>3, <2>4
<1>8. most \in Nat /\ starting <= most
  BY AtLeastNothing
<1>9. \A o \in orders : d[o] \in Nat /\ f[o] \in Nat /\ (o \in kept => f[o] = d[o])
  BY DEF OrdersGiven, Order
<1>10. \A i \in 1 .. n : full[i] = f[q[i]]
  <2> SUFFICES ASSUME NEW i \in 1 .. n PROVE full[i] = f[q[i]]
    OBVIOUS
  <2>1. q[i] \in kept <=> got[i] = need[i]
    BY <1>2, <1>5
  <2>2. q[i] \in orders
    BY <1>5
  <2>3. full[i] = IF got[i] = need[i] THEN need[i] ELSE 0
    BY DEF InFull
  <2> HIDE DEF kept, full, need, got
  <2> QED BY <1>5, <2>1, <2>2, <2>3
<1>11. Lists(q, n, orders)
  BY <1>1, DemandInTurns
<1>12. kept_by \subseteq FirstOf(q, m) /\ kept_by \subseteq kept /\ kept \subseteq orders
  BY <1>3
<1>13. FirstOf(q, m) \subseteq orders
  <2> SUFFICES ASSUME NEW i \in 1 .. m PROVE q[i] \in orders
    BY DEF FirstOf
  <2>1. i \in 1 .. n
    BY <1>3, <1>5
  <2> QED BY <1>5, <2>1
<1>14. Total(full, 1 .. m) \in Int /\ Total(full, 1 .. m) <= most + (stock[m] - stock[0])
  <2> HIDE DEF n, need, stock, got, left, most
  <2>1. stock[0] <= most
    BY <1>6, <1>8
  <2>2. \A k \in 0 .. n : /\ Total(full, 1 .. k) \in Int
                          /\ Total(full, 1 .. k) <= most + (stock[k] - stock[0])
    BY <1>4, <1>7, <1>8, <2>1, ServedFitsStock
  <2> QED BY <1>3, <2>2
<1> HIDE DEF n, need, got, stock, left, full, kept, kept_by, most, d, f
<1>15. Total(f, FirstOf(q, m)) = Total(full, 1 .. m)
  <2>1. \A o \in orders : f[o] \in Int
    BY <1>9
  <2> QED BY <1>3, <1>10, <1>11, <2>1, Reindexed
<1>16. Total(f, kept_by) <= Total(f, FirstOf(q, m)) /\ Total(f, kept_by) \in Nat
  <2>1. IsFiniteSet(FirstOf(q, m)) /\ \A o \in FirstOf(q, m) : f[o] \in Nat
    BY <1>9, <1>13, FS_Subset DEF OrdersGiven
  <2> QED BY <1>12, <2>1, TotalIsMonotone
<1>17. DemandOf(kept_by) = Total(f, kept_by)
  <2>1. kept_by \in SUBSET orders
    BY <1>12
  <2>2. DemandOf(kept_by) = Total(d, kept_by)
    BY <2>1, SumsOfOrders DEF d
  <2>3. IsFiniteSet(kept_by) /\ \A o \in kept_by : d[o] = f[o]
    BY <1>9, <1>12, FS_Subset DEF OrdersGiven
  <2> QED BY <2>2, <2>3, TotalAgrees
<1>18. TotalOf(by(m)) \in Nat /\ TotalOf(arrived) \in Nat /\ TotalOf(by(m)) <= TotalOf(arrived)
  <2> DEFINE b == by(m)
  <2>1. b \in SUBSET arrived /\ arrived \in SUBSET supplies /\ arrived \ b \in SUBSET arrived
    BY <1>3
  <2> HIDE DEF b, arrived
  <2>2. /\ TotalOf(b) \in Nat /\ TotalOf(arrived) \in Nat
        /\ TotalOf(arrived) = TotalOf(b) + TotalOf(arrived \ b)
        /\ TotalOf(arrived \ b) \in Nat
    BY <2>1, SupplySums
  <2>3. TotalOf(b) <= TotalOf(arrived)
    BY <2>2
  <2> QED BY <2>2, <2>3 DEF b
<1>19. stock[m] = starting + TotalOf(by(m)) /\ stock[0] = starting
  BY <1>3, <1>6
<1> HIDE DEF by, arrived
<1>20. DemandOf(kept_by) <= most + TotalOf(arrived)
  BY <1>8, <1>14, <1>15, <1>16, <1>17, <1>18, <1>19
<1> QED BY <1>20 DEF FitsBy, kept_by, kept, most, arrived

\* In due order such a turn exists for every day, and without supplies the
\* last one will do.
LEMMA TurnOfTheDay ==
    ASSUME NEW orders, OrdersGiven(orders), NEW q, NEW R, IsSorting(q, orders, R),
           NEW supplies, SuppliesGiven(supplies), NEW day \in Int,
           supplies = {} \/ InDueOrder(q)
    PROVE  \E m \in 0 .. Len(q) :
              /\ {o \in orders : o.due <= day} \subseteq FirstOf(q, m)
              /\ \A s \in ReceivedBy(supplies, q, m) : s.date <= day
<1> DEFINE n == Len(q)
           IsTurn(m, k) == \A i \in 1 .. k : i <= m <=> q[i].due <= day
           G == {k \in 0 .. n : \E m \in 0 .. k : IsTurn(m, k)}
<1>1. /\ n \in Nat /\ q \in [1 .. n -> orders] /\ \A i \in 1 .. n : q[i].due \in Int
      /\ FirstOf(q, n) = orders
  BY SortedOnce, DemandInTurns
<1>2. CASE supplies = {}
  <2>1. n \in 0 .. n /\ ReceivedBy(supplies, q, n) = {}
    BY <1>1, <1>2 DEF ReceivedBy
  <2> QED BY <1>1, <2>1
<1>3. CASE InDueOrder(q)
  <2> HIDE DEF n
  <2>0. \A i, j \in 1 .. n : i < j => q[i].due <= q[j].due
    BY <1>1, <1>3 DEF InDueOrder
  <2>1. 0 \in G
    BY <1>1
  <2>2. ASSUME NEW k \in 1 .. n, k - 1 \in G PROVE k \in G
    <3>1. PICK m \in 0 .. k - 1 : IsTurn(m, k - 1)
      BY <2>2
    <3>2. k \in 0 .. n /\ k \in 0 .. k /\ m \in 0 .. k /\ ~(k <= m)
          /\ \A i \in 1 .. k : i \in 1 .. n /\ i <= k /\ (i = k \/ i \in 1 .. k - 1)
      BY <1>1
    <3>3. CASE q[k].due <= day
      <4>1. ASSUME NEW i \in 1 .. k PROVE q[i].due <= day
        <5>1. q[i].due \in Int /\ q[k].due \in Int /\ (i = k \/ i < k) /\ i \in 1 .. n
          BY <1>1, <3>2
        <5>2. i < k => q[i].due <= q[k].due
          BY <2>0, <5>1
        <5> QED BY <3>3, <5>1, <5>2
      <4>2. IsTurn(k, k)
        BY <3>2, <4>1
      <4> QED BY <3>2, <4>2
    <3>4. CASE ~(q[k].due <= day)
      <4>1. IsTurn(m, k)
        BY <3>1, <3>2, <3>4
      <4> QED BY <3>2, <4>1
    <3> QED BY <3>3, <3>4
  <2>3. n \in G
    <3>1. 0 .. n \subseteq G
      <4> HIDE DEF G
      <4> QED BY <1>1, <2>1, <2>2, CountingUp
    <3>2. n \in 0 .. n
      BY <1>1
    <3> QED BY <3>1, <3>2
  <2>4. PICK m \in 0 .. n : IsTurn(m, n)
    BY <2>3
  <2>5. {o \in orders : o.due <= day} \subseteq FirstOf(q, m)
    <3> SUFFICES ASSUME NEW o \in orders, o.due <= day PROVE o \in FirstOf(q, m)
      OBVIOUS
    <3>1. PICK i \in 1 .. n : q[i] = o
      BY <1>1 DEF FirstOf
    <3>2. i \in 1 .. m
      BY <1>1, <2>4, <3>1
    <3> QED BY <3>1, <3>2 DEF FirstOf
  <2>6. \A s \in ReceivedBy(supplies, q, m) : s.date <= day
    <3> SUFFICES ASSUME NEW s \in supplies, NEW i \in 1 .. m, s.date <= q[i].due
                 PROVE  s.date <= day
      BY DEF ReceivedBy
    <3>1. i \in 1 .. n /\ q[i].due <= day
      BY <1>1, <2>4
    <3> QED BY <1>1, <3>1 DEF SuppliesGiven
  <2> QED BY <2>4, <2>5, <2>6 DEF n
<1> QED BY <1>2, <1>3

\* What an intervention protects is deliverable on time, without supplies or
\* in due order.
LEMMA ProtectedOnTime ==
    ASSUME NEW orders, OrdersGiven(orders), orders # {}, NEW resequence,
           NEW supplies, SuppliesGiven(supplies), NEW starting \in Int, NEW cost,
           supplies = {} \/ InDueOrder(Sequence(orders, resequence)), NEW day \in Int
    PROVE  FitsBy(day, InterventionOutcome(starting, orders, supplies, resequence, cost).protected,
                  orders, supplies, starting)
<1> DEFINE q == Sequence(orders, resequence)
<1>1. IsSorting(q, orders, Key(orders, resequence))
  BY SequenceIsSorted
<1>2. PICK m \in 0 .. Len(q) :
         /\ {o \in orders : o.due <= day} \subseteq FirstOf(q, m)
         /\ \A s \in ReceivedBy(supplies, q, m) : s.date <= day
  <2> HIDE DEF q
  <2>1. supplies = {} \/ InDueOrder(q)
    BY DEF q
  <2> QED BY <1>1, <2>1, TurnOfTheDay
<1> QED BY <1>2, ProtectedByTurn

LEMMA DueDatesAscend ==
    ASSUME NEW orders, OrdersGiven(orders)
    PROVE  InDueOrder(Sequence(orders, FALSE))
<1> DEFINE q == Sequence(orders, FALSE)
           n == Cardinality(orders)
<1>1. IsSorting(q, orders, DueFirst(orders))
  BY SequenceIsSorted DEF Key
<1> HIDE DEF q
<1>2. DOMAIN q = 1 .. n /\ \A i \in 1 .. n : q[i].due \in Int
  <2>1. q \in [1 .. n -> orders]
    BY <1>1 DEF IsSorting
  <2> QED BY <2>1 DEF OrdersGiven, Order
<1>3. \A i, j \in 1 .. n : i < j => Before(q[i], q[j])
  BY <1>1 DEF IsSorting, DueFirst
<1>4. InDueOrder(q)
  BY <1>2, <1>3 DEF InDueOrder, Before
<1> QED BY <1>4 DEF q

-----------------------------------------------------------------------------
(* The exposure calculator against the baseline *)

\* With no supply to come, an order whose demand fits behind those before it
\* is served, and what is served never exceeds the stock.
LEMMA FixedStock ==
    ASSUME NEW n, NEW need, NEW stock, NEW got, NEW left, Ledger(n, need, stock, got, left),
           NEW usable \in Nat, \A k \in 0 .. n : stock[k] = usable
    PROVE  /\ Total(need, 1 .. n) \in Int /\ Total(got, 1 .. n) \in Int
           /\ \A k \in 1 .. n : need[k] <= usable - Total(need, 1 .. k - 1) => got[k] = need[k]
           /\ Total(got, 1 .. n) <= usable
           /\ Total(got, 1 .. n) <= Total(need, 1 .. n)
<1> DEFINE N(k) == Total(need, 1 .. k)
           A(k) == Total(got, 1 .. k)
<1>1. /\ n \in Nat /\ \A i \in 1 .. n : need[i] \in Int /\ got[i] \in Int
      /\ \A k \in 0 .. n : left[k] \in Int
      /\ left[0] = stock[0]
      /\ \A k \in 1 .. n :
            /\ got[k] = IF Has(stock, left, k) <= need[k] THEN Has(stock, left, k) ELSE need[k]
            /\ left[k] = Has(stock, left, k) - got[k]
  BY DEF Ledger
<1>2. \A k \in 0 .. n : N(k) \in Int /\ A(k) \in Int
  BY <1>1, PartialSums
<1>3. \A k \in 0 .. n : left[k] = stock[k] - A(k) /\ A(k) <= N(k)
  <2>1. /\ \A k \in 0 .. n : left[k] = stock[k] - Total(got, 1 .. k)
        /\ \A k \in 0 .. n : Total(got, 1 .. k) <= Total(need, 1 .. k)
    BY LedgerBalances
  <2> QED BY <2>1
<1> HIDE DEF N, A
<1>4. ASSUME NEW k \in 1 .. n
      PROVE  /\ Has(stock, left, k) = usable - A(k - 1)
             /\ need[k] <= usable - N(k - 1) => got[k] = need[k]
             /\ left[k] >= 0
  <2>1. k \in 0 .. n /\ k - 1 \in 0 .. n
    BY <1>1
  <2>2. /\ stock[k] = usable /\ stock[k - 1] = usable /\ left[k - 1] = usable - A(k - 1)
        /\ A(k - 1) \in Int /\ N(k - 1) \in Int /\ A(k - 1) <= N(k - 1)
    BY <1>2, <1>3, <2>1
  <2>3. Has(stock, left, k) = usable - A(k - 1)
    BY <2>2 DEF Has
  <2>4. /\ got[k] = IF Has(stock, left, k) <= need[k] THEN Has(stock, left, k) ELSE need[k]
        /\ left[k] = Has(stock, left, k) - got[k] /\ need[k] \in Int /\ got[k] \in Int
    BY <1>1
  <2> QED BY <2>2, <2>3, <2>4
<1>5. left[n] >= 0
  <2>1. CASE n = 0
    BY <1>1, <2>1
  <2>2. CASE n # 0
    <3>1. n \in 1 .. n
      BY <1>1, <2>2
    <3> QED BY <1>4, <3>1
  <2> QED BY <2>1, <2>2
<1>6. n \in 0 .. n
  BY <1>1
<1>7. A(n) <= usable
  BY <1>2, <1>3, <1>5, <1>6
<1> QED BY <1>2, <1>3, <1>4, <1>6, <1>7 DEF N, A

\* What the baseline hands out of a fixed stock.
LEMMA BaselineServes ==
    ASSUME NEW orders, OrdersGiven(orders), NEW q, NEW R, IsSorting(q, orders, R),
           NEW usable \in Nat
    PROVE  LET got == Gots(usable, {}, q)
               need == Needs(q)
               n == Len(q)
           IN  /\ n \in Nat
               /\ Total(need, 1 .. n) \in Int /\ Total(got, 1 .. n) \in Int
               /\ \A k \in 1 .. n : need[k] <= usable - Total(need, 1 .. k - 1) => got[k] = need[k]
               /\ Total(got, 1 .. n) <= usable
               /\ Total(got, 1 .. n) <= Total(need, 1 .. n)
<1> DEFINE n == Len(q)
           need == Needs(q)
           got == Gots(usable, {}, q)
           stock == Stocks(usable, {}, q)
           left == Lefts(usable, {}, q)
<1>1. SuppliesGiven({})
  BY FS_EmptySet DEF SuppliesGiven
<1>2. Ledger(n, need, stock, got, left)
  BY <1>1, LoopKeepsLedger
<1>3. ASSUME NEW k \in 0 .. n PROVE stock[k] = usable
  <2>1. ReceivedBy({}, q, k) = {}
    BY DEF ReceivedBy
  <2>2. stock[k] = usable + TotalOf({})
    BY <2>1 DEF Stocks
  <2> QED BY <2>2, NoSupplyIsNothing
<1> HIDE DEF n, need, stock, got, left
<1>4. n \in Nat
  BY <1>2 DEF Ledger
<1> QED BY <1>2, <1>3, <1>4, FixedStock DEF n, need, got

\* The calculator's loop finds every order affected that the baseline misses.
LEMMA MissedAreAffected ==
    ASSUME NEW orders, OrdersGiven(orders), NEW usable \in Nat
    PROVE  LET q == Sequence(orders, FALSE)
               got == Gots(usable, {}, q)
           IN  \A o \in orders : o \notin AffectedOrders(usable, {}, orders) =>
                  \E k \in 1 .. Len(q) : q[k] = o /\ got[k] = Needs(q)[k]
<1> DEFINE q == Sequence(orders, FALSE)
           n == Len(q)
           need == Needs(q)
           got == Gots(usable, {}, q)
<1>1. IsSorting(q, orders, DueFirst(orders))
  BY SequenceIsSorted DEF Key
<1> HIDE DEF q
<1>2. \A k \in 1 .. n : need[k] <= usable - Total(need, 1 .. k - 1) => got[k] = need[k]
  BY <1>1, BaselineServes
<1>3. /\ \A k \in 0 .. n : DemandOf(FirstOf(q, k)) = Total(need, 1 .. k)
      /\ FirstOf(q, n) = orders
      /\ \A k \in 1 .. n : {p \in orders : <<p, q[k]>> \in DueFirst(orders)} = FirstOf(q, k - 1)
  BY <1>1, DemandInTurns
<1>4. n \in Nat /\ \A k \in 1 .. n : need[k] = q[k].demand
  BY <1>1, SortedOnce DEF Needs
<1> HIDE DEF n, need, got
<1> SUFFICES ASSUME NEW o \in orders, o \notin AffectedOrders(usable, {}, orders)
             PROVE  \E k \in 1 .. n : q[k] = o /\ got[k] = need[k]
  BY DEF q, n, need, got
<1>5. PICK k \in 1 .. n : q[k] = o
  BY <1>3 DEF FirstOf
<1>6. {p \in orders : Before(p, o)} = FirstOf(q, k - 1)
  <2>1. {p \in orders : Before(p, o)} = {p \in orders : <<p, o>> \in DueFirst(orders)}
    BY DEF DueFirst
  <2> QED BY <1>3, <1>5, <2>1
<1>7. DemandOf({p \in orders : Before(p, o)}) = Total(need, 1 .. k - 1)
  <2>1. k - 1 \in 0 .. n
    BY <1>4
  <2> QED BY <1>3, <1>6, <2>1
<1>8. ~(usable + TotalOf({}) - DemandOf({p \in orders : Before(p, o)}) < o.demand)
  <2>1. {s \in {} : s.date <= o.due} = {}
    OBVIOUS
  <2> QED BY <2>1 DEF AffectedOrders
<1>9. DemandOf({p \in orders : Before(p, o)}) \in Nat /\ o.demand \in Nat
  <2>1. {p \in orders : Before(p, o)} \in SUBSET orders
    OBVIOUS
  <2>2. o.demand \in Nat
    BY DEF OrdersGiven, Order
  <2> HIDE DEF Before
  <2> QED BY <2>1, <2>2, SumsOfOrders
<1>10. need[k] <= usable - Total(need, 1 .. k - 1)
  BY <1>4, <1>5, <1>7, <1>8, <1>9, NoSupplyIsNothing
<1> QED BY <1>2, <1>5, <1>10

\* The deepest balance of project_inventory is no deeper than all demand at once.
LEMMA ShortageIsBounded ==
    ASSUME NEW orders, OrdersGiven(orders), orders # {}, NEW usable \in Nat
    PROVE  LET shortage == CalculateExposure(usable, {}, orders).shortage
           IN  shortage = 0 \/ (shortage \in Int /\ shortage <= DemandOf(orders) - usable)
<1> DEFINE balance == ProjectInventory(usable, {}, orders)
           levels == {balance[day] : day \in DOMAIN balance}
           due(day) == {o \in orders : o.due <= day}
           shortage == CalculateExposure(usable, {}, orders).shortage
<1>1. shortage = 0 \/ shortage = -Min(levels)
  BY DEF CalculateExposure
<1>2. DOMAIN balance = {o.due : o \in orders}
  BY DEF ProjectInventory
<1>3. ASSUME NEW day \in DOMAIN balance
      PROVE  balance[day] \in Int /\ usable - DemandOf(orders) <= balance[day]
  <2>1. balance[day] = usable + TotalOf({}) - DemandOf(due(day))
    <3>1. {s \in {} : s.date <= day} = {}
      OBVIOUS
    <3> QED BY <3>1 DEF ProjectInventory
  <2>2. due(day) \in SUBSET orders /\ orders \in SUBSET orders
    OBVIOUS
  <2> HIDE DEF balance, due
  <2>3. DemandOf(due(day)) <= DemandOf(orders) /\ DemandOf(orders) \in Nat
    BY <2>2, SumsOfOrders
  <2>4. DemandOf(due(day)) \in Nat
    BY <2>2, SumsOfOrders
  <2> QED BY <2>1, <2>3, <2>4, NoSupplyIsNothing
<1> HIDE DEF balance, shortage, due
<1>4. levels \in SUBSET Int /\ levels # {}
  BY <1>2, <1>3
<1>5. IsFiniteSet(levels)
  <2> DEFINE level == [o \in orders |-> balance[o.due]]
  <2>1. level \in Surjection(orders, levels)
    BY <1>2 DEF Surjection
  <2>2. IsFiniteSet(orders)
    BY DEF OrdersGiven
  <2> HIDE DEF level, levels
  <2> QED BY <2>1, <2>2, FS_Surjection
<1>6. Min(levels) \in levels
  <2> HIDE DEF levels
  <2> QED BY <1>4, <1>5, MinIsLeast
<1>7. PICK day \in DOMAIN balance : Min(levels) = balance[day]
  BY <1>6
<1>8. DemandOf(orders) \in Nat
  <2>1. orders \in SUBSET orders
    OBVIOUS
  <2> QED BY <2>1, SumsOfOrders
<1> HIDE DEF levels
<1>9. balance[day] \in Int /\ usable - DemandOf(orders) <= balance[day]
  BY <1>3
<1>10. -Min(levels) \in Int /\ -Min(levels) <= DemandOf(orders) - usable
  BY <1>7, <1>8, <1>9
<1> QED BY <1>1, <1>10 DEF shortage

LEMMA CalculatorIsCautious ==
    ASSUME NEW orders, OrdersGiven(orders), orders # {}, NEW usable \in Nat, NEW cost
    PROVE  LET exposure == CalculateExposure(usable, {}, orders)
               baseline == InterventionOutcome(usable, orders, {}, FALSE, cost)
           IN  /\ {o.id : o \in orders} \ exposure.affected \subseteq baseline.protected
               /\ exposure.shortage <= baseline.uncovered_part_demand
               /\ baseline.revenue_at_risk <= exposure.revenue_at_risk
<1> DEFINE resequence == FALSE
           q == Sequence(orders, resequence)
           n == Len(q)
           need == Needs(q)
           got == Gots(usable, {}, q)
           missed == MissedOrders(usable, orders, {}, q)
           affected == AffectedOrders(usable, {}, orders)
           exposure == CalculateExposure(usable, {}, orders)
           baseline == InterventionOutcome(usable, orders, {}, resequence, cost)
<1>1. IsSorting(q, orders, DueFirst(orders))
  BY SequenceIsSorted DEF Key
<1>2. SuppliesGiven({}) /\ usable \in Int
  BY FS_EmptySet DEF SuppliesGiven
<1>6. \A o \in orders : o \notin affected => \E k \in 1 .. n : q[k] = o /\ got[k] = need[k]
  BY MissedAreAffected
<1> HIDE DEF resequence
<1>3. /\ baseline.uncovered_part_demand = Total(need, 1 .. n) - Total(got, 1 .. n)
      /\ baseline.revenue_at_risk = RevenueOf(missed)
      /\ baseline.protected = {q[i].id : i \in {j \in 1 .. n : got[j] = need[j]}}
  BY <1>2, OutcomeOfLedger
<1>4. exposure.affected = {o.id : o \in affected} /\ exposure.revenue_at_risk = RevenueOf(affected)
  BY DEF CalculateExposure
<1>5. affected \in SUBSET orders
  BY DEF AffectedOrders
<1>7. missed \in SUBSET affected
  <2>1. \A k \in 1 .. n : /\ got[k] = AllocateComponentSupply(usable, {}, q)[q[k].id]
                          /\ need[k] = q[k].demand
    BY DEF Gots, Needs
  <2> HIDE DEF q, n, got, need, affected
  <2> QED BY <1>6, <2>1 DEF MissedOrders
<1>8. /\ n \in Nat /\ Total(need, 1 .. n) \in Int /\ Total(got, 1 .. n) \in Int
      /\ Total(got, 1 .. n) <= usable /\ Total(got, 1 .. n) <= Total(need, 1 .. n)
  <2> HIDE DEF q
  <2> QED BY <1>1, BaselineServes
<1>9. DemandOf(orders) = Total(need, 1 .. n)
  <2> HIDE DEF q
  <2>1. /\ \A k \in 0 .. n : DemandOf(FirstOf(q, k)) = Total(need, 1 .. k)
        /\ FirstOf(q, n) = orders
    BY <1>1, DemandInTurns
  <2>2. n \in 0 .. n
    BY <1>8
  <2> QED BY <2>1, <2>2
<1>10. exposure.shortage = 0 \/ (/\ exposure.shortage \in Int
                                 /\ exposure.shortage <= DemandOf(orders) - usable)
  BY ShortageIsBounded
<1> HIDE DEF q, n, need, got, missed, affected, exposure, baseline
<1>11. exposure.shortage <= baseline.uncovered_part_demand
  BY <1>3, <1>8, <1>9, <1>10
<1>12. baseline.revenue_at_risk <= exposure.revenue_at_risk
  BY <1>3, <1>4, <1>5, <1>7, SumsOfOrders
<1>13. {o.id : o \in orders} \ exposure.affected \subseteq baseline.protected
  <2> SUFFICES ASSUME NEW o \in orders, o.id \notin exposure.affected
               PROVE  o.id \in baseline.protected
    OBVIOUS
  <2>1. o \notin affected
    BY <1>4
  <2>2. PICK k \in 1 .. n : q[k] = o /\ got[k] = need[k]
    BY <1>6, <2>1
  <2> QED BY <1>3, <2>2
<1> QED BY <1>11, <1>12, <1>13 DEF exposure, baseline, resequence

-----------------------------------------------------------------------------
(* The outcomes of the options *)

\* Whole units and amounts, whatever the intervention.
LEMMA InterventionIsCounted ==
    ASSUME NEW orders, OrdersGiven(orders), orders # {}, NEW resequence,
           NEW supplies, SuppliesGiven(supplies), NEW starting \in Int, NEW cost \in Int
    PROVE  \A n \in OutcomeNames :
              InterventionOutcome(starting, orders, supplies, resequence, cost)[n] \in Int
<1> DEFINE out == InterventionOutcome(starting, orders, supplies, resequence, cost)
           missed == MissedOrders(starting, orders, supplies, Sequence(orders, resequence))
<1>1. out.uncovered_part_demand \in Int /\ out.otif_loss_percentage \in Int
  BY OutcomeOfLedger
<1>2. out.revenue_at_risk = RevenueOf(missed) /\ out.margin_at_risk = MarginOf(missed)
  BY OutcomeOfLedger
<1>3. out.response_cost = cost
  BY DEF InterventionOutcome
<1>4. missed \in SUBSET orders
  BY DEF MissedOrders
<1> HIDE DEF out, missed
<1>5. RevenueOf(missed) \in Nat /\ MarginOf(missed) \in Nat
  BY <1>4, SumsOfOrders
<1>6. \A n \in OutcomeNames : out[n] \in Int
  BY <1>1, <1>2, <1>3, <1>5 DEF OutcomeNames
<1> QED BY <1>6 DEF out

LEMMA SnapshotFacts ==
    ASSUME NEW s \in Snapshots
    PROVE  /\ OrdersGiven(s.orders) /\ s.orders # {}
           /\ UsableInventory(s.inventory) \in Int
           /\ ExpediteCost(s) \in Int /\ TransferCost(s) \in Int
           /\ SuppliesGiven({}) /\ SuppliesGiven(AlphaReceipt(s))
           /\ SuppliesGiven(DallasTransfer(s))
           /\ SuppliesGiven(AlphaReceipt(s) \union DallasTransfer(s))
<1>1. OrdersGiven(s.orders) /\ s.orders # {}
  BY SnapshotAssumption DEF OrdersGiven
<1>2. UsableInventory(s.inventory) \in Int
  BY SnapshotAssumption DEF UsableInventory
<1>3. \A x, y \in Nat : x * y \in Int
  OBVIOUS
<1>4. ExpediteCost(s) \in Int
  <2>1. s.expedite # NoOffer => s.expedite.quantity \in Nat /\ s.expedite.unit_cost \in Nat
    BY SnapshotAssumption
  <2> QED BY <1>3, <2>1 DEF ExpediteCost
<1>5. TransferCost(s) \in Int
  <2>1. s.transfer.quantity \in Nat /\ s.transfer.unit_cost \in Nat
    BY SnapshotAssumption
  <2> QED BY <1>3, <2>1 DEF TransferCost
<1>6. SuppliesGiven({})
  BY FS_EmptySet DEF SuppliesGiven
<1>7. SuppliesGiven(AlphaReceipt(s))
  <2>1. CASE s.expedite = NoOffer
    BY <1>6, <2>1 DEF AlphaReceipt
  <2>2. CASE s.expedite # NoOffer
    <3> DEFINE receipt == [source |-> "alpha", date |-> s.expedite.due,
                           quantity |-> s.expedite.quantity]
    <3>1. s.expedite.due \in Nat /\ s.expedite.quantity \in Nat \ {0}
      BY <2>2, SnapshotAssumption
    <3>2. receipt.date \in Int /\ receipt.quantity \in Nat
      BY <3>1
    <3>3. AlphaReceipt(s) = {receipt}
      BY <2>2 DEF AlphaReceipt
    <3> HIDE DEF receipt
    <3>4. IsFiniteSet({receipt})
      BY FS_Singleton
    <3> QED BY <3>2, <3>3, <3>4 DEF SuppliesGiven
  <2> QED BY <2>1, <2>2
<1>8. SuppliesGiven(DallasTransfer(s))
  <2> DEFINE moved == [source |-> "transfer", date |-> s.transfer.arrival,
                       quantity |-> s.transfer.quantity]
  <2>1. s.transfer.arrival \in Nat /\ s.transfer.quantity \in Nat \ {0}
    BY SnapshotAssumption
  <2>2. moved.date \in Int /\ moved.quantity \in Nat
    BY <2>1
  <2>3. DallasTransfer(s) = {moved}
    BY DEF DallasTransfer
  <2> HIDE DEF moved
  <2>4. IsFiniteSet({moved})
    BY FS_Singleton
  <2> QED BY <2>2, <2>3, <2>4 DEF SuppliesGiven
<1>9. SuppliesGiven(AlphaReceipt(s) \union DallasTransfer(s))
  <2>1. IsFiniteSet(AlphaReceipt(s)) /\ IsFiniteSet(DallasTransfer(s))
    BY <1>7, <1>8 DEF SuppliesGiven
  <2>2. IsFiniteSet(AlphaReceipt(s) \union DallasTransfer(s))
    BY <2>1, FS_Union
  <2> QED BY <1>7, <1>8, <2>2 DEF SuppliesGiven
<1> QED BY <1>1, <1>2, <1>4, <1>5, <1>6, <1>7, <1>8, <1>9

LEMMA OptionsPredict ==
    ASSUME NEW s
    PROVE  LET predicted(o) == ResponseOptions(s)[o].predicted
           IN  /\ predicted("no_mitigation") = Outcome(s, {}, FALSE, 0)
               /\ predicted("expedite") = Outcome(s, AlphaReceipt(s), FALSE, ExpediteCost(s))
               /\ predicted("transfer") = Outcome(s, DallasTransfer(s), FALSE, TransferCost(s))
               /\ predicted("resequence") = Outcome(s, {}, TRUE, 0)
               /\ predicted("beta") \in {NoOutcome, Outcome(s, {}, FALSE, 0)}
               /\ predicted("combined") = Outcome(s, AlphaReceipt(s) \union DallasTransfer(s), TRUE,
                                                  ExpediteCost(s) + TransferCost(s))
<1>1. /\ ResponseOptions(s)["no_mitigation"] = NoMitigation(s)
      /\ ResponseOptions(s)["expedite"] = Expedite(s)
      /\ ResponseOptions(s)["transfer"] = Transfer(s)
      /\ ResponseOptions(s)["resequence"] = Resequence(s)
      /\ ResponseOptions(s)["beta"] = Beta(s)
      /\ ResponseOptions(s)["combined"] = Combined(s)
  BY DEF ResponseOptions, OptionIds
<1>2. NoMitigation(s).predicted = Outcome(s, {}, FALSE, 0)
  BY DEF NoMitigation
<1>3. Expedite(s).predicted = Outcome(s, AlphaReceipt(s), FALSE, ExpediteCost(s))
  BY DEF Expedite
<1>4. Transfer(s).predicted = Outcome(s, DallasTransfer(s), FALSE, TransferCost(s))
  BY DEF Transfer
<1>5. Resequence(s).predicted = Outcome(s, {}, TRUE, 0)
  BY DEF Resequence
<1>6. Beta(s).predicted \in {NoOutcome, Outcome(s, {}, FALSE, 0)}
  BY DEF Beta
<1>7. Combined(s).predicted = Outcome(s, AlphaReceipt(s) \union DallasTransfer(s), TRUE,
                                      ExpediteCost(s) + TransferCost(s))
  BY DEF Combined
<1> QED BY <1>1, <1>2, <1>3, <1>4, <1>5, <1>6, <1>7

\* What an option predicts is counted in whole units and amounts.
LEMMA OutcomesAreNumbers ==
    ASSUME NEW s \in Snapshots, NEW o \in OptionIds
    PROVE  LET predicted == ResponseOptions(s)[o].predicted
           IN  predicted # NoOutcome => \A n \in OutcomeNames : predicted[n] \in Int
<1> DEFINE counted(p) == \A n \in OutcomeNames : p[n] \in Int
           predicted(id) == ResponseOptions(s)[id].predicted
<1>1. ASSUME NEW supplies, SuppliesGiven(supplies), NEW resequence, NEW cost \in Int
      PROVE  counted(Outcome(s, supplies, resequence, cost))
  <2> DEFINE start == UsableInventory(s.inventory)
             orders == s.orders
  <2>1. OrdersGiven(orders) /\ orders # {} /\ start \in Int
    BY SnapshotFacts
  <2>2. Outcome(s, supplies, resequence, cost)
          = InterventionOutcome(start, orders, supplies, resequence, cost)
    BY DEF Outcome
  <2> HIDE DEF start, orders
  <2>3. counted(InterventionOutcome(start, orders, supplies, resequence, cost))
    BY <1>1, <2>1, InterventionIsCounted
  <2> HIDE DEF counted
  <2> QED BY <2>2, <2>3
<1> HIDE DEF counted, predicted
<1>2. /\ counted(predicted("no_mitigation")) /\ counted(predicted("expedite"))
      /\ counted(predicted("transfer")) /\ counted(predicted("resequence"))
      /\ counted(predicted("combined"))
      /\ predicted("beta") # NoOutcome => counted(predicted("beta"))
  <2>0. /\ SuppliesGiven({}) /\ SuppliesGiven(AlphaReceipt(s))
        /\ SuppliesGiven(DallasTransfer(s))
        /\ SuppliesGiven(AlphaReceipt(s) \union DallasTransfer(s))
        /\ ExpediteCost(s) \in Int /\ TransferCost(s) \in Int
    BY SnapshotFacts
  <2>0a. 0 \in Int /\ ExpediteCost(s) + TransferCost(s) \in Int
    BY <2>0
  <2>1. /\ counted(Outcome(s, {}, FALSE, 0)) /\ counted(Outcome(s, {}, TRUE, 0))
        /\ counted(Outcome(s, AlphaReceipt(s), FALSE, ExpediteCost(s)))
        /\ counted(Outcome(s, DallasTransfer(s), FALSE, TransferCost(s)))
    BY <1>1, <2>0, <2>0a
  <2>2. counted(Outcome(s, AlphaReceipt(s) \union DallasTransfer(s), TRUE,
                        ExpediteCost(s) + TransferCost(s)))
    BY <1>1, <2>0, <2>0a
  <2> QED BY <2>1, <2>2, OptionsPredict DEF predicted
<1>3. predicted(o) # NoOutcome => counted(predicted(o))
  BY <1>2 DEF OptionIds
<1> QED BY <1>3 DEF predicted, counted

-----------------------------------------------------------------------------
(* The options of a snapshot *)

\* _option_roles: three roles at most, so a burden is a number.
LEMMA BurdenIsNumber ==
    ASSUME NEW roles \in SUBSET {"material_planner", "finance_approver", "quality_approver"}
    PROVE  ApprovalBurden(roles) \in Nat
<1>1. IsFiniteSet({"material_planner", "finance_approver", "quality_approver"})
  <2>1. IsFiniteSet({"material_planner"} \union {"finance_approver"})
    BY FS_Singleton, FS_AddElement
  <2>2. IsFiniteSet(({"material_planner"} \union {"finance_approver"}) \union {"quality_approver"})
    BY <2>1, FS_AddElement
  <2>3. {"material_planner", "finance_approver", "quality_approver"}
          = ({"material_planner"} \union {"finance_approver"}) \union {"quality_approver"}
    OBVIOUS
  <2> QED BY <2>2, <2>3
<1>2. IsFiniteSet(roles \ {"response_approver"})
  BY <1>1, FS_Subset
<1> QED BY <1>2, FS_CardinalityType DEF ApprovalBurden

LEMMA RiskIsNumber ==
    ASSUME NEW unconfirmed \in {0, 1}, NEW movements \in {0, 1}, NEW changes \in {0, 1},
           NEW coordinated \in {1, 3}
    PROVE  ExecutionRisk(unconfirmed, movements, changes, coordinated) \in Int
  BY DEF ExecutionRisk, Max

OptionFields == {"kind", "active", "executable", "predicted", "roles", "codes", "requires",
                 "burden", "risk"}

\* What evaluate_response_options makes of a snapshot.
LEMMA OptionsAre ==
    ASSUME NEW s, NEW o \in OptionIds
    PROVE  LET option == ResponseOptions(s)[o]
           IN  /\ DOMAIN option = OptionFields
               /\ option.burden \in Int /\ option.risk \in Int
               /\ option.active <=> o # "no_mitigation"
               /\ o = "beta" => "quality_approver" \in option.roles
               /\ option.active /\ o # "beta" => option.kind \in DOMAIN ActionKindsByOption
               /\ option.kind \in {"expedite", "combined"} =>
                    /\ option.codes = {} => s.expedite # NoOffer
                    /\ option.predicted.response_cost > 20000 => "finance_approver" \in option.roles
<1> DEFINE base == ResponseOptions(s)
<1> DEFINE Goal(id, option) ==
             /\ DOMAIN option = OptionFields
             /\ option.burden \in Int /\ option.risk \in Int
             /\ option.active <=> id # "no_mitigation"
             /\ id = "beta" => "quality_approver" \in option.roles
             /\ option.active /\ id # "beta" => option.kind \in DOMAIN ActionKindsByOption
             /\ option.kind \in {"expedite", "combined"} =>
                  /\ option.codes = {} => s.expedite # NoOffer
                  /\ option.predicted.response_cost > 20000 => "finance_approver" \in option.roles
<1>0. /\ Unconfirmed(s) \in {0, 1} /\ Movements(s) \in {0, 1}
      /\ {"expedite", "transfer", "resequence", "combined"} \subseteq DOMAIN ActionKindsByOption
      /\ \A finance, quality \in BOOLEAN :
            OptionRoles(finance, quality)
              \in SUBSET {"material_planner", "finance_approver", "quality_approver"}
  BY DEF Unconfirmed, Movements, OptionRoles, ActionKindsByOption
<1>1. Goal("no_mitigation", NoMitigation(s))
  BY DEF NoMitigation, OptionFields
<1>2. Goal("expedite", Expedite(s))
  <2> DEFINE cost == ExpediteCost(s)
             outcome == Outcome(s, AlphaReceipt(s), FALSE, cost)
             roles == OptionRoles(RequiresFinance(cost), FALSE)
             risk == ExecutionRisk(Unconfirmed(s), 0, 0, 1)
  <2>1. RequiresFinance(cost) \in BOOLEAN /\ (cost > 20000 => "finance_approver" \in roles)
    BY DEF RequiresFinance, OptionRoles
  <2>2. roles \in SUBSET {"material_planner", "finance_approver", "quality_approver"}
    BY DEF OptionRoles
  <2>6. risk \in Int
    BY <1>0, RiskIsNumber
  <2>4. Expedite(s) = [kind |-> "expedite", active |-> TRUE, executable |-> s.expedite # NoOffer,
           predicted |-> outcome, roles |-> roles, requires |-> AlphaEvidence(s),
           codes |-> {c \in {"ALPHA_PARTIAL_SHIPMENT_UNAVAILABLE"} : s.expedite = NoOffer},
           burden |-> ApprovalBurden(roles), risk |-> risk]
    BY DEF Expedite
  <2> HIDE DEF cost, roles, risk
  <2>3. outcome.response_cost = cost
    BY DEF Outcome, InterventionOutcome
  <2>7. ApprovalBurden(roles) \in Int
    BY <2>2, BurdenIsNumber
  <2> HIDE DEF outcome
  <2> QED BY <1>0, <2>1, <2>6, <2>7, <2>3, <2>4 DEF OptionFields
<1>3. Goal("transfer", Transfer(s))
  <2>1. ExecutionRisk(0, Movements(s), 0, 1) \in Int
    BY <1>0, RiskIsNumber
  <2> QED BY <1>0, <2>1 DEF Transfer, OptionFields
<1>4. Goal("resequence", Resequence(s))
  <2>1. ExecutionRisk(0, 0, 1, 1) \in Int
    BY RiskIsNumber
  <2> QED BY <1>0, <2>1 DEF Resequence, OptionFields
<1>5. Goal("beta", Beta(s))
  <2> DEFINE roles == OptionRoles(FALSE, TRUE)
             risk == ExecutionRisk(Unconfirmed(s), 0, 0, 1)
             approved == s.beta = "approved"
             outcome == IF approved THEN Outcome(s, {}, FALSE, 0) ELSE NoOutcome
  <2>1. /\ roles \in SUBSET {"material_planner", "finance_approver", "quality_approver"}
        /\ "quality_approver" \in roles
    BY DEF OptionRoles
  <2>2. risk \in Int
    BY <1>0, RiskIsNumber
  <2>3. Beta(s) = [kind |-> "alternate_source", active |-> TRUE, executable |-> approved,
           predicted |-> outcome, roles |-> roles,
           requires |-> {Requirement("beta", {"qualification_state"})},
           codes |-> {c \in {"QUALITY_QUALIFICATION_PENDING"} : ~approved},
           burden |-> ApprovalBurden(roles), risk |-> risk]
    BY DEF Beta
  <2> HIDE DEF roles, risk, approved, outcome
  <2>4. ApprovalBurden(roles) \in Int
    BY <2>1, BurdenIsNumber
  <2> QED BY <2>1, <2>2, <2>3, <2>4 DEF OptionFields
<1>6. Goal("combined", Combined(s))
  <2> DEFINE cost == ExpediteCost(s) + TransferCost(s)
             outcome == Outcome(s, AlphaReceipt(s) \union DallasTransfer(s), TRUE, cost)
             roles == OptionRoles(RequiresFinance(cost), FALSE)
             risk == ExecutionRisk(Unconfirmed(s), Movements(s), 1, 3)
             codes == Expedite(s).codes \union Transfer(s).codes \union Resequence(s).codes
  <2>1. RequiresFinance(cost) \in BOOLEAN /\ (cost > 20000 => "finance_approver" \in roles)
    BY DEF RequiresFinance, OptionRoles
  <2>2. roles \in SUBSET {"material_planner", "finance_approver", "quality_approver"}
    BY DEF OptionRoles
  <2>6. risk \in Int
    BY <1>0, RiskIsNumber
  <2>4. codes = {} => s.expedite # NoOffer
    BY DEF Expedite
  <2>5. Combined(s) = [kind |-> "combined", active |-> TRUE, executable |-> codes = {},
           predicted |-> outcome, roles |-> roles, codes |-> codes,
           requires |-> AlphaEvidence(s) \union {Requirement("transfer", Quantified)},
           burden |-> ApprovalBurden(roles), risk |-> risk]
    BY DEF Combined
  <2> HIDE DEF cost, roles, risk, codes
  <2>3. outcome.response_cost = cost
    BY DEF Outcome, InterventionOutcome
  <2>7. ApprovalBurden(roles) \in Int
    BY <2>2, BurdenIsNumber
  <2> HIDE DEF outcome
  <2> QED BY <1>0, <2>1, <2>6, <2>7, <2>3, <2>4, <2>5 DEF OptionFields
<1>7. /\ base["no_mitigation"] = NoMitigation(s) /\ base["expedite"] = Expedite(s)
      /\ base["transfer"] = Transfer(s) /\ base["resequence"] = Resequence(s)
      /\ base["beta"] = Beta(s) /\ base["combined"] = Combined(s)
  BY DEF ResponseOptions, OptionIds
<1> HIDE DEF base
<1> QED BY <1>1, <1>2, <1>3, <1>4, <1>5, <1>6, <1>7 DEF OptionIds, base
-----------------------------------------------------------------------------
(* The inductive invariant *)

\* Nothing after evaluate_response_options changes what an option is; codes
\* are only added, and an option is only made infeasible.
SameOption(option, base) ==
    /\ DOMAIN option = OptionFields
    /\ option.kind = base.kind /\ option.active = base.active
    /\ option.predicted = base.predicted /\ option.roles = base.roles
    /\ option.requires = base.requires
    /\ option.burden = base.burden /\ option.risk = base.risk
    /\ base.codes \subseteq option.codes

OptionsStand ==
    pc # "evaluate" =>
        \A o \in OptionIds : SameOption(options[o], ResponseOptions(snapshot)[o])

\* An option without codes has none of its requirements to thank for one.
EvidenceCounts ==
    pc \notin {"evaluate", "validate", "refused"} =>
        /\ validation = ValidateRequiredEvidence(bundle, at)
        /\ \A o \in OptionIds : options[o].codes = {} =>
              \A r \in options[o].requires : RequirementCodes(r, validation) = {}

\* Every satisfaction is Taylor's, for an option whose cost and day it covers,
\* and no option Jordan has to approve is left executable.
ApprovalsStand ==
    /\ \A g \in approvals : /\ g.option \in OptionIds /\ at.workflow = "legacy"
                            /\ g.role = "finance_approver"
                            /\ Permits(Taylor, options[g.option], at)
    /\ pc \in {"evaluate", "validate", "refused", "authorize"} => approvals = {}
    /\ pc \in {"quality", "rank", "decide", "plan", "done"} =>
          \A o \in OptionIds : options[o].executable => "quality_approver" \notin options[o].roles

Ranked == pc \in {"rank", "decide", "plan", "done"}

EligibleAreFeasible ==
    /\ Ranked => eligible = {o \in OptionIds : Feasible(options[o])}
    /\ ~Ranked => eligible = {}

\* What option o is worth on the i-th comparator, and o being no worse than p
\* on the first i.
Worth(o, i) == Value(o, options[o], Comparators[i].name)
NoWorse(o, p, i) == \A j \in 1 .. i : Worth(o, j) <= Worth(p, j)

\* After some stages: an option no worse on their comparators than one that is
\* left is left itself, and none beats one that is left by more than the
\* threshold of the comparator after those it is no worse on.
EliminationIsSound ==
    pc \in {"rank", "decide"} =>
        /\ remaining \subseteq eligible
        /\ eligible # {} => remaining # {}
        /\ comparator \in 1 .. 9
        /\ pc = "rank" => eligible # {} /\ comparator <= 8
        /\ pc = "decide" /\ eligible # {} => \E o \in remaining : remaining = {o}
        /\ \A p \in remaining, o \in eligible :
              /\ NoWorse(o, p, comparator - 1) => o \in remaining
              /\ \A i \in 1 .. comparator - 1 :
                    NoWorse(o, p, i - 1) => Worth(p, i) <= Worth(o, i) + Comparators[i].threshold

\* What was selected was eligible and authorized, and could be planned unless
\* the customer orders do not match.
SelectionAuthorized ==
    selected # NoOption =>
        /\ pc \in {"plan", "done"} /\ selected \in eligible
        /\ SatisfactionsHold(selected, options[selected], approvals, at)
        /\ pc = "done" => actions # <<>> \/ Unmatched(selected)

PipelineInvariant ==
    /\ snapshot \in Snapshots /\ bundle \in Bundles /\ at \in Contexts /\ pc \in Stages
    /\ pc = "plan" => selected \in eligible
    /\ OptionsStand /\ EvidenceCounts /\ ApprovalsStand /\ EligibleAreFeasible
    /\ EliminationIsSound /\ SelectionAuthorized

-----------------------------------------------------------------------------
(* What evidence, authorizations and quality do to an option *)

\* _apply_evidence_feasibility keeps the option and adds codes; one it leaves
\* without codes has every requirement answered.
LEMMA EvidenceKeeps ==
    ASSUME NEW option, NEW base, NEW valid, SameOption(option, base)
    PROVE  LET after == EvidenceFeasibility(option, valid)
           IN  /\ SameOption(after, base)
               /\ after.codes = {} => \A r \in after.requires : RequirementCodes(r, valid) = {}
<1> DEFINE codes == option.codes \union {c \in valid.global_codes : option.active}
                      \union UNION {RequirementCodes(r, valid) : r \in option.requires}
           after == EvidenceFeasibility(option, valid)
<1>1. DOMAIN option = OptionFields
  BY DEF SameOption
<1>2. after = [option EXCEPT !.codes = codes, !.executable = @ /\ codes = {}]
  BY DEF EvidenceFeasibility
<1>3. option.codes \subseteq codes
  OBVIOUS
<1>4. codes = {} => \A r \in option.requires : RequirementCodes(r, valid) = {}
  OBVIOUS
<1> HIDE DEF after, codes
<1>5. /\ DOMAIN after = OptionFields /\ after.codes = codes
      /\ \A f \in OptionFields \ {"codes", "executable"} : after[f] = option[f]
  BY <1>1, <1>2 DEF OptionFields
<1>6. /\ after.kind = option.kind /\ after.active = option.active
      /\ after.predicted = option.predicted /\ after.roles = option.roles
      /\ after.requires = option.requires
      /\ after.burden = option.burden /\ after.risk = option.risk
  BY <1>5 DEF OptionFields
<1>7. SameOption(after, base)
  BY <1>3, <1>5, <1>6 DEF SameOption
<1> QED BY <1>4, <1>5, <1>6, <1>7 DEF after

\* _apply_quality_approval_feasibility keeps the option too, and leaves none
\* executable that asks for a quality approval nobody gave.
LEMMA QualityKeeps ==
    ASSUME NEW option, NEW base, NEW o, NEW granted, SameOption(option, base),
           \A g \in granted : g.role # "quality_approver"
    PROVE  LET after == QualityFeasibility(o, option, granted)
           IN  /\ SameOption(after, base) /\ option.codes \subseteq after.codes
               /\ after.executable => "quality_approver" \notin after.roles
<1> DEFINE blocked == [option EXCEPT !.executable = FALSE,
                                     !.codes = @ \union {"QUALITY_APPROVAL_UNSATISFIED"}]
           after == QualityFeasibility(o, option, granted)
<1>1. DOMAIN option = OptionFields
  BY DEF SameOption
<1>2. after = IF option.executable /\ "quality_approver" \in option.roles
              THEN blocked ELSE option
  BY DEF QualityFeasibility
<1>3. /\ DOMAIN blocked = OptionFields /\ blocked.executable = FALSE
      /\ blocked.codes = option.codes \union {"QUALITY_APPROVAL_UNSATISFIED"}
      /\ \A f \in OptionFields \ {"codes", "executable"} : blocked[f] = option[f]
  BY <1>1 DEF OptionFields
<1> HIDE DEF after, blocked
<1>4. /\ blocked.kind = option.kind /\ blocked.active = option.active
      /\ blocked.predicted = option.predicted /\ blocked.roles = option.roles
      /\ blocked.requires = option.requires
      /\ blocked.burden = option.burden /\ blocked.risk = option.risk
  BY <1>3 DEF OptionFields
<1>5. SameOption(blocked, base) /\ option.codes \subseteq blocked.codes
  BY <1>3, <1>4 DEF SameOption
<1> QED BY <1>2, <1>3, <1>5 DEF after

\* An item the validation found authoritative carries what it is validated for.
LEMMA AuthoritativeCarries ==
    ASSUME bundle \in Bundles, at \in Contexts, NEW item \in bundle.items, NEW scope,
           ItemValidation(item, at, ConflictedIds(bundle)).authoritative,
           scope \subseteq ItemValidation(item, at, ConflictedIds(bundle)).scope
    PROVE  Carries(item, scope)
<1> DEFINE conflicted == ConflictedIds(bundle)
           validated == ValidatedScope(item, at.mode)
           state == IF item.id \in conflicted THEN "conflicted" ELSE item.uncertainty
           validity == BusinessValidity(item, at)
<1>1. item \in EvidenceItem /\ at.started \in Nat /\ at.scenario \in Nat /\ RetrievalWindow \in Nat
  BY InputAssumption
<1>2. /\ item.source_time \in Nat \union {Never} /\ item.retrieved_at \in Nat \union {Never}
      /\ item.effective_at \in Nat \union {Never} /\ item.expires_at \in Nat \union {Never}
  BY <1>1 DEF EvidenceItem
<1>3. /\ item.required /\ item.kind # "contextual_evidence"
      /\ item.scope # {} /\ item.scope \subseteq validated /\ scope \subseteq validated
      /\ TimestampsOrdered(item) /\ CurrentRetrieval(item) /\ RetrievalInWindow(item, at)
      /\ validity = "valid" /\ state # "conflicted"
  BY DEF ItemValidation
<1>4. item.mode = at.mode /\ scope \subseteq item.scope
  BY <1>3 DEF ValidatedScope
<1>5. /\ item.for_this_analysis /\ item.healthy
      /\ item.source_time # Never /\ item.retrieved_at # Never
      /\ item.source_time <= item.retrieved_at
      /\ item.retrieved_at \in at.started .. at.started + RetrievalWindow
  BY <1>1, <1>2, <1>3 DEF TimestampsOrdered, CurrentRetrieval, RetrievalInWindow
<1>6. /\ item.effective_at = Never \/ item.effective_at <= at.scenario
      /\ item.expires_at = Never \/ at.scenario < item.expires_at
  BY <1>1, <1>2, <1>3 DEF BusinessValidity
<1>7. item.uncertainty # "conflicted" /\ item.id \notin conflicted
  BY <1>3
<1>8. ASSUME NEW c \in bundle.conflicts, c.relevant, item.id \in c.ids
      PROVE  \E r \in bundle.resolutions :
                r.conflict = c.id /\ r.actor.entra /\ "agent" \notin r.actor.roles
                /\ \E role \in r.actor.roles : \A s \in c.scope : role \in ScopeResolverRoles(s)
  <2>1. c \notin Unresolved(bundle)
    BY <1>7, <1>8 DEF ConflictedIds
  <2>2. PICK r \in bundle.resolutions : Resolves(r, c)
    BY <1>8, <2>1 DEF Unresolved
  <2> QED BY <2>2 DEF Resolves, ActorAuthorized
<1> HIDE DEF conflicted, validated, state, validity
<1> QED BY <1>3, <1>4, <1>5, <1>6, <1>7, <1>8 DEF Carries
\* An option the validated evidence leaves without codes is carried, item by
\* item, by the evidence it requires.
LEMMA RequirementsCarry ==
    ASSUME bundle \in Bundles, at \in Contexts, NEW r,
           RequirementCodes(r, ValidateRequiredEvidence(bundle, at)) = {}
    PROVE  \E item \in bundle.items : item.id = r.evidence /\ Carries(item, r.scope)
<1> DEFINE valid == ValidateRequiredEvidence(bundle, at)
           ids == {item.id : item \in bundle.items}
           chosen(id) == CHOOSE item \in bundle.items : item.id = id
           v == valid.items[r.evidence]
           item == chosen(r.evidence)
<1>1. valid.items = [id \in ids |-> ItemValidation(chosen(id), at, ConflictedIds(bundle))]
  BY DEF ValidateRequiredEvidence
<1> HIDE DEF valid
<1>2. r.evidence \in ids
  BY <1>1 DEF RequirementCodes, valid
<1>3. v = ItemValidation(item, at, ConflictedIds(bundle))
  BY <1>1, <1>2
<1>4. item \in bundle.items /\ item.id = r.evidence
  BY <1>2
<1>5. RequirementCodes(r, valid) =
        v.codes \union {c \in {"EVIDENCE_CONFLICT_UNRESOLVED"} : v.uncertainty = "conflicted"}
                \union {c \in {"AUTHORITY_SCOPE_MISMATCH"} : ~(r.scope \subseteq v.scope)}
                \union {c \in {"REQUIRED_EVIDENCE_NOT_AUTHORITATIVE"} :
                          ~v.authoritative /\ v.codes = {} /\ ~(v.uncertainty = "conflicted")}
  BY <1>1, <1>2 DEF RequirementCodes
<1> HIDE DEF v, item
<1>6. v.authoritative /\ r.scope \subseteq v.scope
  BY <1>5 DEF valid
<1> QED BY <1>3, <1>4, <1>6, AuthoritativeCarries

\* What the case Taylor's standing authorization is not for leaves out.
LEMMA SatisfactionsAreTaylors ==
    ASSUME NEW opts, NEW ctx
    PROVE  \A g \in Satisfactions(opts, ctx) :
              /\ g.option \in OptionIds /\ ctx.workflow = "legacy"
              /\ g.role = "finance_approver" /\ Permits(Taylor, opts[g.option], ctx)
<1>1. SUFFICES ASSUME NEW g \in Satisfactions(opts, ctx)
      PROVE  /\ g.option \in OptionIds /\ ctx.workflow = "legacy"
             /\ g.role = "finance_approver" /\ Permits(Taylor, opts[g.option], ctx)
  OBVIOUS
<1>2. PICK o \in OptionIds, a \in StandingAuthorizations(ctx) :
         /\ Permits(a, opts[o], ctx)
         /\ g = [option |-> o, authorization |-> a.id, persona |-> a.persona, role |-> a.role]
  BY DEF Satisfactions
<1>3. a = Taylor /\ Taylor.role = "finance_approver" /\ ctx.workflow = "legacy"
  BY DEF StandingAuthorizations, Taylor
<1> QED BY <1>2, <1>3

-----------------------------------------------------------------------------
(* The comparators *)

\* Every comparator gives every feasible option an integer.
LEMMA WorthIsNumber ==
    ASSUME snapshot \in Snapshots, OptionsStand, pc # "evaluate",
           NEW o \in OptionIds, Feasible(options[o]), NEW i \in 1 .. 8
    PROVE  Worth(o, i) \in Int
<1> DEFINE base == ResponseOptions(snapshot)[o]
           name == Comparators[i].name
<1>1. SameOption(options[o], base)
  BY DEF OptionsStand
<1>2. /\ base.burden \in Int /\ base.risk \in Int
      /\ base.predicted # NoOutcome => \A n \in OutcomeNames : base.predicted[n] \in Int
  BY OptionsAre, OutcomesAreNumbers DEF OutcomeNames
<1>3. name \in OutcomeNames \union {"burden", "risk", "option_id"}
  BY ComparatorFacts
<1>4. IdOrder[o] \in Int
  BY OptionsAreFinite
<1> HIDE DEF base, name
<1>5. /\ options[o].burden \in Int /\ options[o].risk \in Int
      /\ \A n \in OutcomeNames : options[o].predicted[n] \in Int
  BY <1>1, <1>2 DEF SameOption, Feasible
<1>6. Value(o, options[o], name) \in Int
  BY <1>3, <1>4, <1>5 DEF Value, OutcomeNames
<1> QED BY <1>6 DEF Worth, name

LEMMA ThresholdIsNumber ==
    ASSUME NEW i \in 1 .. 8
    PROVE  Comparators[i].threshold \in Nat
  BY ComparatorFacts

\* A stage keeps the best option, and whatever is within the threshold of it.
LEMMA RetainedFacts ==
    ASSUME snapshot \in Snapshots, OptionsStand, pc # "evaluate",
           NEW i \in 1 .. 8, NEW ids \in SUBSET OptionIds, ids # {},
           \A o \in ids : Feasible(options[o])
    PROVE  LET kept == Retained(ids, options, Comparators[i])
               t == Comparators[i].threshold
           IN  /\ kept \subseteq ids /\ kept # {}
               /\ \A p \in kept, o \in ids : Worth(p, i) <= Worth(o, i) + t
               /\ \A p \in kept, o \in ids : Worth(o, i) <= Worth(p, i) => o \in kept
<1> DEFINE w(o) == Worth(o, i)
           values == {w(o) : o \in ids}
           best == Min(values)
           t == Comparators[i].threshold
           kept == Retained(ids, options, Comparators[i])
<1>1. \A o \in ids : w(o) \in Int
  BY WorthIsNumber
<1>2. kept = {o \in ids : w(o) <= best + t}
  BY DEF Retained, Worth
<1>3. IsFiniteSet(values)
  <2>1. IsFiniteSet(ids)
    BY OptionsAreFinite, FS_Subset
  <2>2. [o \in ids |-> w(o)] \in Surjection(ids, values)
    BY DEF Surjection
  <2> QED BY <2>1, <2>2, FS_Surjection
<1>4. values \in SUBSET Int /\ values # {}
  BY <1>1
<1>5. t \in Nat
  BY ThresholdIsNumber
<1>6. best \in values /\ \A y \in values : best <= y
  <2> HIDE DEF values
  <2> QED BY <1>3, <1>4, MinIsLeast
<1>7. PICK b \in ids : w(b) = best
  BY <1>6
<1>8. \A o \in ids : best <= w(o)
  BY <1>6
<1> HIDE DEF w, best, t, values, kept
<1> SUFFICES /\ kept \subseteq ids /\ kept # {}
             /\ \A p \in kept, o \in ids : w(p) <= w(o) + t
             /\ \A p \in kept, o \in ids : w(o) <= w(p) => o \in kept
  BY DEF w, t, kept
<1> QED BY <1>1, <1>2, <1>5, <1>7, <1>8
-----------------------------------------------------------------------------
(* Every step preserves the invariant *)

LEMMA PipelineInit == Init => PipelineInvariant
  BY DEF Init, PipelineInvariant, Stages, OptionsStand, EvidenceCounts, ApprovalsStand,
         EligibleAreFeasible, Ranked, EliminationIsSound, SelectionAuthorized

LEMMA EvaluateStep == PipelineInvariant /\ Evaluate => PipelineInvariant'
<1> SUFFICES ASSUME PipelineInvariant, Evaluate PROVE PipelineInvariant'
  OBVIOUS
<1>1. OptionsStand'
  <2> SUFFICES ASSUME NEW o \in OptionIds
               PROVE  SameOption(ResponseOptions(snapshot)[o], ResponseOptions(snapshot)[o])
    BY DEF Evaluate, OptionsStand
  <2> QED BY OptionsAre DEF SameOption
<1> QED BY <1>1 DEF Evaluate, PipelineInvariant, Stages, EvidenceCounts, ApprovalsStand,
                    EligibleAreFeasible, Ranked, EliminationIsSound, SelectionAuthorized

LEMMA RefuseStep == PipelineInvariant /\ Refuse => PipelineInvariant'
  BY DEF Refuse, PipelineInvariant, Stages, OptionsStand, EvidenceCounts, ApprovalsStand,
         EligibleAreFeasible, Ranked, EliminationIsSound, SelectionAuthorized

LEMMA ValidateStep == PipelineInvariant /\ Validate => PipelineInvariant'
<1> SUFFICES ASSUME PipelineInvariant, Validate PROVE PipelineInvariant'
  OBVIOUS
<1>1. \A o \in OptionIds : SameOption(options[o], ResponseOptions(snapshot)[o])
  BY DEF PipelineInvariant, OptionsStand, Validate
<1>2. /\ validation' = ValidateRequiredEvidence(bundle, at)
      /\ \A o \in OptionIds : options'[o] = EvidenceFeasibility(options[o], validation')
      /\ pc' = "authorize"
      /\ UNCHANGED <<snapshot, bundle, at, approvals, eligible, remaining, comparator, selected>>
  BY DEF Validate
<1>3. \A o \in OptionIds :
         /\ SameOption(options'[o], ResponseOptions(snapshot)[o])
         /\ options'[o].codes = {} =>
               \A r \in options'[o].requires : RequirementCodes(r, validation') = {}
  BY <1>1, <1>2, EvidenceKeeps
<1>4. OptionsStand' /\ EvidenceCounts'
  BY <1>2, <1>3 DEF OptionsStand, EvidenceCounts
<1> QED BY <1>2, <1>4 DEF Validate, PipelineInvariant, Stages, ApprovalsStand,
                    EligibleAreFeasible, Ranked, EliminationIsSound, SelectionAuthorized

LEMMA AuthorizeStep == PipelineInvariant /\ Authorize => PipelineInvariant'
<1> SUFFICES ASSUME PipelineInvariant, Authorize PROVE PipelineInvariant'
  OBVIOUS
<1>1. \A o \in OptionIds : SameOption(options[o], ResponseOptions(snapshot)[o])
  BY DEF PipelineInvariant, OptionsStand, Authorize
<1>2. /\ approvals' = Satisfactions(options, at)
      /\ \A o \in OptionIds : options'[o] = QualityFeasibility(o, options[o], approvals')
      /\ pc' = "quality" /\ pc = "authorize"
      /\ UNCHANGED <<snapshot, bundle, at, validation, eligible, remaining, comparator,
                     selected>>
  BY DEF Authorize
<1>3. \A g \in approvals' : /\ g.option \in OptionIds /\ at.workflow = "legacy"
                            /\ g.role = "finance_approver"
                            /\ Permits(Taylor, options[g.option], at)
  BY <1>2, SatisfactionsAreTaylors
<1>4. \A o \in OptionIds :
         /\ SameOption(options'[o], ResponseOptions(snapshot)[o])
         /\ options[o].codes \subseteq options'[o].codes
         /\ options'[o].executable => "quality_approver" \notin options'[o].roles
  BY <1>1, <1>2, <1>3, QualityKeeps
<1>5. \A o \in OptionIds : /\ options'[o].requires = options[o].requires
                           /\ options'[o].kind = options[o].kind
                           /\ options'[o].predicted = options[o].predicted
  BY <1>1, <1>4 DEF SameOption
<1>6. OptionsStand'
  BY <1>2, <1>4 DEF OptionsStand
<1>7. EvidenceCounts'
  <2>1. /\ validation = ValidateRequiredEvidence(bundle, at)
        /\ \A o \in OptionIds : options[o].codes = {} =>
              \A r \in options[o].requires : RequirementCodes(r, validation) = {}
    BY <1>2 DEF PipelineInvariant, EvidenceCounts
  <2> QED BY <1>2, <1>4, <1>5, <2>1 DEF EvidenceCounts
<1>8. ApprovalsStand'
  <2>1. ASSUME NEW g \in approvals' PROVE Permits(Taylor, options'[g.option], at)
    BY <1>3, <1>5 DEF Permits
  <2> QED BY <1>2, <1>3, <1>4, <2>1 DEF ApprovalsStand, Permits
<1> QED BY <1>2, <1>6, <1>7, <1>8 DEF PipelineInvariant, Stages, EligibleAreFeasible, Ranked,
                                      EliminationIsSound, SelectionAuthorized

LEMMA StartRankingStep == PipelineInvariant /\ StartRanking => PipelineInvariant'
<1> SUFFICES ASSUME PipelineInvariant, StartRanking PROVE PipelineInvariant'
  OBVIOUS
<1>1. /\ pc = "quality" /\ pc' \in {"decide", "rank"} /\ (pc' = "rank" <=> eligible' # {})
      /\ eligible' = {o \in OptionIds : Feasible(options[o])}
      /\ remaining' = eligible' /\ comparator' = 1
      /\ UNCHANGED <<snapshot, bundle, at, options, validation, approvals, selected, actions>>
  BY DEF StartRanking
<1>2. OptionsStand' /\ EvidenceCounts' /\ ApprovalsStand'
  BY <1>1 DEF PipelineInvariant, OptionsStand, EvidenceCounts, ApprovalsStand
<1>3. EligibleAreFeasible'
  BY <1>1 DEF EligibleAreFeasible, Ranked
<1>4. EliminationIsSound'
  BY <1>1 DEF EliminationIsSound
<1> QED BY <1>1, <1>2, <1>3, <1>4 DEF PipelineInvariant, Stages, SelectionAuthorized
LEMMA RankStep == PipelineInvariant /\ Rank => PipelineInvariant'
<1> SUFFICES ASSUME PipelineInvariant, Rank PROVE PipelineInvariant'
  OBVIOUS
<1> DEFINE c == comparator
           t == Comparators[c].threshold
<1>1. /\ pc = "rank" /\ pc' \in {"decide", "rank"}
      /\ remaining' = Retained(remaining, options, Comparators[c])
      /\ comparator' = c + 1
      /\ pc' = "rank" <=> ~(Cardinality(remaining') = 1 \/ c = 8)
      /\ UNCHANGED <<snapshot, bundle, at, options, validation, approvals, eligible, selected,
                     actions>>
  BY ComparatorFacts DEF Rank
<1>2. /\ remaining \subseteq eligible /\ remaining # {} /\ eligible # {} /\ c \in 1 .. 8
      /\ eligible = {o \in OptionIds : Feasible(options[o])}
      /\ \A p \in remaining, o \in eligible :
            /\ NoWorse(o, p, c - 1) => o \in remaining
            /\ \A i \in 1 .. c - 1 :
                  NoWorse(o, p, i - 1) => Worth(p, i) <= Worth(o, i) + Comparators[i].threshold
  BY <1>1 DEF PipelineInvariant, EliminationIsSound, EligibleAreFeasible, Ranked
<1>3. /\ remaining' \subseteq remaining /\ remaining' # {}
      /\ \A p \in remaining', o \in remaining : Worth(p, c) <= Worth(o, c) + t
      /\ \A p \in remaining', o \in remaining : Worth(o, c) <= Worth(p, c) => o \in remaining'
  <2>1. snapshot \in Snapshots /\ OptionsStand /\ pc # "evaluate"
    BY <1>1 DEF PipelineInvariant
  <2>2. remaining \in SUBSET OptionIds /\ \A o \in remaining : Feasible(options[o])
    BY <1>2
  <2> QED BY <1>1, <1>2, <2>1, <2>2, RetainedFacts
<1>4. \A o, p : \A i \in 1 .. 8 : NoWorse(o, p, i) =>
         NoWorse(o, p, i - 1) /\ Worth(o, i) <= Worth(p, i)
  BY DEF NoWorse
<1>5. ASSUME NEW p \in remaining', NEW o \in eligible
      PROVE  /\ NoWorse(o, p, c) => o \in remaining'
             /\ \A i \in 1 .. c :
                   NoWorse(o, p, i - 1) => Worth(p, i) <= Worth(o, i) + Comparators[i].threshold
  <2>1. NoWorse(o, p, c) => o \in remaining'
    BY <1>2, <1>3, <1>4
  <2>2. NoWorse(o, p, c - 1) => Worth(p, c) <= Worth(o, c) + t
    BY <1>2, <1>3
  <2>3. ASSUME NEW i \in 1 .. c, NoWorse(o, p, i - 1)
        PROVE  Worth(p, i) <= Worth(o, i) + Comparators[i].threshold
    <3>1. CASE i = c
      BY <2>2, <2>3, <3>1
    <3>2. CASE i \in 1 .. c - 1
      BY <1>2, <1>3, <2>3, <3>2
    <3> QED BY <1>2, <3>1, <3>2
  <2> QED BY <2>1, <2>3
<1>6. pc' = "decide" => \E o \in remaining' : remaining' = {o}
  <2>1. CASE Cardinality(remaining') = 1
    <3>1. IsFiniteSet(remaining')
      BY <1>2, <1>3, OptionsAreFinite, FS_Subset
    <3> QED BY <2>1, <3>1, OneOption
  <2>2. CASE c = 8
    <3>1. \A o \in OptionIds : Worth(o, 8) = IdOrder[o]
      BY ComparatorFacts DEF Worth, Value
    <3>2. t = 0
      BY <2>2, ComparatorFacts
    <3>3. \A p, o \in remaining' : IdOrder[p] <= IdOrder[o] + 0
      BY <1>2, <1>3, <2>2, <3>1, <3>2
    <3>4. \A o, p \in remaining' : o \in OptionIds /\ p \in OptionIds
      BY <1>2, <1>3
    <3>5. \A o, p \in remaining' : o = p
      BY <3>3, <3>4, OptionsAreFinite
    <3> QED BY <1>3, <3>5
  <2> QED BY <1>1, <2>1, <2>2
<1>7. EliminationIsSound'
  <2>1. comparator' - 1 = c /\ comparator' \in 1 .. 9 /\ (pc' = "rank" => comparator' <= 8)
    BY <1>1, <1>2
  <2>2. ASSUME NEW p \in remaining', NEW o \in eligible'
        PROVE  /\ NoWorse(o, p, comparator - 1)' => o \in remaining'
               /\ \A i \in 1 .. comparator' - 1 :
                     NoWorse(o, p, i - 1)'
                       => Worth(p, i)' <= Worth(o, i)' + Comparators[i].threshold
    <3>1. /\ NoWorse(o, p, c) => o \in remaining'
          /\ \A i \in 1 .. c :
                NoWorse(o, p, i - 1) => Worth(p, i) <= Worth(o, i) + Comparators[i].threshold
      BY <1>1, <1>5
    <3>2. options' = options
      BY <1>1
    <3> QED BY <2>1, <3>1, <3>2 DEF NoWorse, Worth
  <2> QED BY <1>1, <1>2, <1>3, <1>6, <2>1, <2>2 DEF EliminationIsSound
<1>8. OptionsStand' /\ EvidenceCounts' /\ ApprovalsStand' /\ EligibleAreFeasible'
  BY <1>1 DEF PipelineInvariant, OptionsStand, EvidenceCounts, ApprovalsStand,
              EligibleAreFeasible, Ranked
<1> QED BY <1>1, <1>7, <1>8 DEF PipelineInvariant, Stages, SelectionAuthorized

LEMMA DecideStep ==
    ASSUME PipelineInvariant, NEW o \in OptionIds, Decide(o)
    PROVE  PipelineInvariant'
<1>1. /\ pc = "decide"
      /\ UNCHANGED <<snapshot, bundle, at, options, validation, approvals, eligible,
                     remaining, comparator, actions>>
      /\ \/ /\ DecisionAuthorized(o, options, approvals, eligible, validation, at)
            /\ selected' = o /\ pc' = "plan"
         \/ selected' = NoOption /\ pc' = "done"
  BY DEF Decide
<1>2. OptionsStand' /\ EvidenceCounts' /\ ApprovalsStand' /\ EligibleAreFeasible'
  BY <1>1 DEF PipelineInvariant, OptionsStand, EvidenceCounts, ApprovalsStand,
              EligibleAreFeasible, Ranked
<1>3. EliminationIsSound'
  BY <1>1 DEF EliminationIsSound
<1>4. SelectionAuthorized' /\ (pc' = "plan" => selected' \in eligible')
  BY <1>1 DEF SelectionAuthorized, DecisionAuthorized, SatisfactionsHold
<1> QED BY <1>1, <1>2, <1>3, <1>4 DEF PipelineInvariant, Stages

\* Where customers match, as many rows are found as production orders are named.
LEMMA MatchingRows ==
    ASSUME NEW s \in Snapshots, CustomersMatch(s), NEW orders \in SUBSET s.orders,
           \A o \in orders : o.customer # NoCustomer
    PROVE  Cardinality(CustomerRows(orders, s)) = Cardinality(orders)
<1> DEFINE rows == CustomerRows(orders, s)
           row(o) == CHOOSE i \in DOMAIN s.customer_lines : s.customer_lines[i] = o.customer
           f == [o \in orders |-> row(o)]
<1>1. IsFiniteSet(orders)
  BY SnapshotAssumption, FS_Subset
<1>2. \A o \in orders : \E i \in DOMAIN s.customer_lines :
         \A j \in DOMAIN s.customer_lines : s.customer_lines[j] = o.customer <=> j = i
  BY DEF CustomersMatch
<1>3. \A o \in orders : row(o) \in DOMAIN s.customer_lines /\ s.customer_lines[row(o)] = o.customer
  BY <1>2
<1>4. \A o, p \in orders : o.customer = p.customer => o = p
  BY DEF CustomersMatch
<1> HIDE DEF row
<1>5. f \in [orders -> rows]
  BY <1>3 DEF CustomerRows
<1>6. \A o, p \in orders : f[o] = f[p] => o = p
  BY <1>3, <1>4
<1>7. ASSUME NEW i \in rows PROVE \E o \in orders : f[o] = i
  <2>1. PICK o \in orders : i \in DOMAIN s.customer_lines /\ s.customer_lines[i] = o.customer
    BY DEF CustomerRows
  <2>2. row(o) = i
    BY <1>2, <1>3, <2>1
  <2> QED BY <2>2
<1> HIDE DEF f, rows
<1>8. f \in Bijection(orders, rows)
  BY <1>5, <1>6, <1>7 DEF Bijection, Injection, Surjection, IsInjective
<1>9. ExistsBijection(orders, rows)
  BY <1>8 DEF ExistsBijection
<1> QED BY <1>1, <1>9, FS_Bijection DEF rows

LEMMA ResequencingBuilds ==
    ASSUME NEW s \in Snapshots, NEW option, CustomersMatch(s)
    PROVE  Cardinality(CustomerRows(ResequencedFor(option, s), s)) = Cardinality(ResequencedFor(option, s))
<1>1. /\ ResequencedFor(option, s) \in SUBSET s.orders
      /\ \A o \in ResequencedFor(option, s) : o.customer # NoCustomer
  BY DEF ResequencedFor
<1> QED BY <1>1, MatchingRows

\* Whatever is eligible has its actions, and they have their data.
LEMMA EligibleIsPlannable ==
    ASSUME PipelineInvariant, NEW o \in eligible
    PROVE  /\ Plannable(options[o], snapshot) \/ Unmatched(o)
           /\ options[o].kind \in DOMAIN ActionKindsByOption
<1> DEFINE base == ResponseOptions(snapshot)[o]
           kind == options[o].kind
<1>1. pc \in {"rank", "decide", "plan", "done"} /\ o \in OptionIds /\ Feasible(options[o])
  BY DEF PipelineInvariant, EligibleAreFeasible, Ranked
<1>2. SameOption(options[o], base) /\ "quality_approver" \notin options[o].roles
  BY <1>1 DEF PipelineInvariant, OptionsStand, ApprovalsStand, Feasible
<1>3. /\ base.active /\ o # "beta" => base.kind \in DOMAIN ActionKindsByOption
      /\ o = "beta" => "quality_approver" \in base.roles
      /\ base.kind \in {"expedite", "combined"} /\ base.codes = {} => snapshot.expedite # NoOffer
  BY <1>1, OptionsAre
<1> HIDE DEF base
<1>4. kind \in DOMAIN ActionKindsByOption
  BY <1>1, <1>2, <1>3 DEF SameOption, Feasible
<1>5. kind \in {"expedite", "combined"} => snapshot.expedite # NoOffer
  BY <1>1, <1>2, <1>3 DEF SameOption, Feasible
<1> HIDE DEF kind
<1>6. \A i \in DOMAIN ActionKindsByOption[kind] :
         /\ ActionKindsByOption[kind][i] = "coordinate_expedite" => kind \in {"expedite", "combined"}
         /\ ActionKindsByOption[kind][i] = "resequence_production"
               => kind \in {"resequence", "combined"}
  <2>1. kind \in {"expedite", "transfer", "resequence", "combined"}
    BY <1>4 DEF ActionKindsByOption
  <2> QED BY <2>1 DEF ActionKindsByOption
<1>7. ASSUME kind \in {"resequence", "combined"} => CustomersMatch(snapshot)
      PROVE  \A i \in DOMAIN ActionKindsByOption[kind] :
                ActionBuilds(ActionKindsByOption[kind][i], options[o], snapshot)
  <2>1. CASE kind \in {"resequence", "combined"}
    <3>1. Cardinality(CustomerRows(ResequencedFor(options[o], snapshot), snapshot))
             = Cardinality(ResequencedFor(options[o], snapshot))
      BY <1>7, <2>1, ResequencingBuilds DEF PipelineInvariant
    <3> QED BY <1>5, <1>6, <3>1 DEF ActionBuilds
  <2>2. CASE kind \notin {"resequence", "combined"}
    BY <1>5, <1>6, <2>2 DEF ActionBuilds
  <2> QED BY <2>1, <2>2
<1>8. Plannable(options[o], snapshot) \/ Unmatched(o)
  <2>1. CASE kind \in {"resequence", "combined"} => CustomersMatch(snapshot)
    BY <1>1, <1>4, <1>7, <2>1 DEF Plannable, Feasible, kind
  <2>2. CASE kind \in {"resequence", "combined"} /\ ~CustomersMatch(snapshot)
    BY <2>2 DEF Unmatched, kind
  <2> QED BY <2>1, <2>2
<1> QED BY <1>4, <1>8 DEF kind

LEMMA PlanStep == PipelineInvariant /\ Plan => PipelineInvariant'
<1> SUFFICES ASSUME PipelineInvariant, Plan PROVE PipelineInvariant'
  OBVIOUS
<1>1. /\ pc = "plan" /\ pc' = "done"
      /\ actions' = IF Plannable(options[selected], snapshot)
                    THEN ActionKindsByOption[options[selected].kind] ELSE <<>>
      /\ UNCHANGED <<snapshot, bundle, at, options, validation, approvals, eligible,
                     remaining, comparator, selected>>
  BY DEF Plan
<1>2. selected \in eligible
  BY <1>1 DEF PipelineInvariant
<1>3. actions' # <<>> \/ Unmatched(selected)
  <2>1. \A k \in DOMAIN ActionKindsByOption : ActionKindsByOption[k] # <<>>
    BY DEF ActionKindsByOption
  <2> QED BY <1>1, <1>2, <2>1, EligibleIsPlannable
<1>4. OptionsStand' /\ EvidenceCounts' /\ ApprovalsStand' /\ EligibleAreFeasible'
  BY <1>1 DEF PipelineInvariant, OptionsStand, EvidenceCounts, ApprovalsStand,
              EligibleAreFeasible, Ranked
<1>5. EliminationIsSound'
  BY <1>1 DEF EliminationIsSound
<1>6. SelectionAuthorized'
  BY <1>1, <1>3 DEF PipelineInvariant, SelectionAuthorized, SatisfactionsHold, Unmatched
<1> QED BY <1>1, <1>4, <1>5, <1>6 DEF PipelineInvariant, Stages

LEMMA PipelineStep == PipelineInvariant /\ [Next]_vars => PipelineInvariant'
<1> SUFFICES ASSUME PipelineInvariant, [Next]_vars PROVE PipelineInvariant'
  OBVIOUS
<1>1. CASE Evaluate
  BY <1>1, EvaluateStep
<1>2. CASE Refuse
  BY <1>2, RefuseStep
<1>3. CASE Validate
  BY <1>3, ValidateStep
<1>4. CASE Authorize
  BY <1>4, AuthorizeStep
<1>5. CASE StartRanking
  BY <1>5, StartRankingStep
<1>6. CASE Rank
  BY <1>6, RankStep
<1>7. ASSUME NEW o \in OptionIds, Decide(o) PROVE PipelineInvariant'
  BY <1>7, DecideStep
<1>8. CASE Plan
  BY <1>8, PlanStep
<1>9. CASE UNCHANGED vars
  BY <1>9 DEF vars, PipelineInvariant, OptionsStand, EvidenceCounts, ApprovalsStand,
              EligibleAreFeasible, Ranked, EliminationIsSound, NoWorse, Worth,
              SelectionAuthorized, Unmatched
<1> QED BY <1>1, <1>2, <1>3, <1>4, <1>5, <1>6, <1>7, <1>8, <1>9 DEF Next

-----------------------------------------------------------------------------
(* Theorems *)

\* What analyze_case hands from stage to stage: options that only gain codes,
\* evidence that answers every requirement of an option without codes,
\* satisfactions within what Taylor granted, and a ranking that keeps whatever
\* is no worse than what it keeps.
THEOREM PipelineInvariantHolds == Spec => []PipelineInvariant
  BY PipelineInit, PipelineStep, PTL DEF Spec

\* A selected option requires nothing that an item of the bundle does not carry.
LEMMA SelectedIsCarried == PipelineInvariant => DecidedOnCarryingEvidence
<1> SUFFICES ASSUME PipelineInvariant, selected # NoOption, NEW r \in options[selected].requires
             PROVE  \E item \in bundle.items : item.id = r.evidence /\ Carries(item, r.scope)
  BY DEF DecidedOnCarryingEvidence
<1>1. pc \in {"plan", "done"} /\ selected \in eligible
  BY DEF PipelineInvariant, SelectionAuthorized
<1>2. selected \in OptionIds /\ options[selected].codes = {}
  BY <1>1 DEF PipelineInvariant, EligibleAreFeasible, Ranked, Feasible
<1>3. RequirementCodes(r, ValidateRequiredEvidence(bundle, at)) = {}
  BY <1>1, <1>2 DEF PipelineInvariant, EvidenceCounts
<1>4. bundle \in Bundles /\ at \in Contexts
  BY DEF PipelineInvariant
<1> QED BY <1>3, <1>4, RequirementsCarry

LEMMA EligibleArePlanned == PipelineInvariant => EligibleOptionsArePlannable
  BY EligibleIsPlannable DEF PipelineInvariant, SelectionAuthorized, EligibleOptionsArePlannable

\* The one satisfaction DecisionPolicy asks for is Taylor's, and covers the cost.
LEMMA FreightIsAuthorized == PipelineInvariant => StandingAuthorizationCovers
<1> SUFFICES ASSUME PipelineInvariant PROVE StandingAuthorizationCovers
  OBVIOUS
<1>1. ASSUME selected # NoOption, at.workflow = "legacy",
             options[selected].kind \in {"expedite", "combined"},
             options[selected].predicted.response_cost > 20000
      PROVE  /\ options[selected].predicted.response_cost <= Taylor.maximum_cost
             /\ at.scenario \in Taylor.from .. Taylor.through
  <2> DEFINE base == ResponseOptions(snapshot)[selected]
             option == options[selected]
             given == {g \in approvals : g.option = selected /\ g.role = "finance_approver"}
  <2>1. /\ pc \in {"plan", "done"} /\ selected \in eligible
        /\ SatisfactionsHold(selected, option, approvals, at)
    BY <1>1 DEF PipelineInvariant, SelectionAuthorized
  <2>2. selected \in OptionIds
    BY <2>1 DEF PipelineInvariant, EligibleAreFeasible, Ranked
  <2>3. SameOption(option, base)
    BY <2>1, <2>2 DEF PipelineInvariant, OptionsStand
  <2>4. base.kind \in {"expedite", "combined"} /\ base.predicted.response_cost > 20000
          => "finance_approver" \in base.roles
    BY <2>2, OptionsAre
  <2> HIDE DEF base
  <2>5. "finance_approver" \in option.roles
    BY <1>1, <2>3, <2>4 DEF SameOption
  <2>6. Cardinality(given) = 1
    BY <1>1, <2>1, <2>5 DEF SatisfactionsHold
  <2>7. given # {}
    BY <2>6, FS_EmptySet
  <2>8. PICK g \in approvals : g.option = selected
    BY <2>7
  <2>9. Permits(Taylor, option, at)
    BY <2>8 DEF PipelineInvariant, ApprovalsStand
  <2>10. at.scenario \in Nat
    BY InputAssumption DEF PipelineInvariant
  <2> QED BY <2>9, <2>10 DEF Permits, Taylor
<1>2. at.workflow = "independent" => \A g \in approvals : g.role # "finance_approver"
  BY DEF PipelineInvariant, ApprovalsStand
<1> QED BY <1>1, <1>2 DEF StandingAuthorizationCovers

\* A decision DecisionPolicy accepts selects an option that evidence carries
\* and that plan_actions has actions for, if it does not resequence for
\* customers the snapshot does not match one to one; the cost of an expedite
\* in it, above the threshold, is within the standing authorization that day.
THEOREM SelectionsStand == Spec => []SelectionStands
<1>1. PipelineInvariant => SelectionStands
  BY SelectedIsCarried, EligibleArePlanned, FreightIsAuthorized DEF SelectionStands
<1> QED BY <1>1, PipelineInvariantHolds, PTL

\* rank_options ends with one option, and no eligible option that is no worse
\* on the comparators before one beats it there by more than the threshold.
THEOREM RecommendationsNotBeaten == Spec => []RecommendationNotBeaten
<1>1. PipelineInvariant => RecommendationNotBeaten
  <2> SUFFICES ASSUME PipelineInvariant, pc = "decide", eligible # {}
               PROVE  RecommendationNotBeaten
    BY DEF RecommendationNotBeaten
  <2>1. /\ remaining \subseteq eligible /\ comparator \in 1 .. 9
        /\ \A p \in remaining, o \in eligible :
              /\ NoWorse(o, p, comparator - 1) => o \in remaining
              /\ \A i \in 1 .. comparator - 1 :
                    NoWorse(o, p, i - 1) => Worth(p, i) <= Worth(o, i) + Comparators[i].threshold
    BY DEF PipelineInvariant, EliminationIsSound
  <2>2. PICK kept \in remaining : remaining = {kept}
    BY DEF PipelineInvariant, EliminationIsSound
  <2>3. eligible = {o \in OptionIds : Feasible(options[o])}
    BY DEF PipelineInvariant, EligibleAreFeasible, Ranked
  <2>4. Recommended = kept
    <3>1. IdOrder[kept] <= IdOrder[kept]
      BY <2>1, <2>2, <2>3, OptionsAreFinite
    <3> QED BY <2>2, <3>1 DEF Recommended
  <2>5. Cardinality(remaining) = 1
    BY <2>2, FS_Singleton
  <2>6. ASSUME NEW o \in eligible, NEW i \in 1 .. 8, NoWorse(o, kept, i - 1)
        PROVE  Worth(kept, i) <= Worth(o, i) + Comparators[i].threshold
    <3>1. CASE i \in 1 .. comparator - 1
      BY <2>1, <2>2, <2>6, <3>1
    <3>2. CASE i >= comparator
      <4>1. NoWorse(o, kept, comparator - 1)
        BY <2>1, <2>6, <3>2 DEF NoWorse
      <4>2. o = kept
        BY <2>1, <2>2, <4>1
      <4>3. Worth(kept, i) \in Int
        BY <2>1, <2>2, <2>3, WorthIsNumber DEF PipelineInvariant
      <4> QED BY <4>2, <4>3, ThresholdIsNumber
    <3> QED BY <2>1, <3>1, <3>2
  <2> QED BY <2>4, <2>5, <2>6, ComparatorFacts DEF RecommendationNotBeaten, NoWorse, Worth
<1> QED BY <1>1, PipelineInvariantHolds, PTL

-----------------------------------------------------------------------------
(* The supply arithmetic against its reference *)

\* Until evidence is applied the options are what the snapshot makes them.
LEMMA PredictedAre ==
    ASSUME OptionsStand, pc = "validate"
    PROVE  \A o \in OptionIds : options[o].predicted = ResponseOptions(snapshot)[o].predicted
  BY DEF OptionsStand, SameOption

LEMMA AllocatesGreedily ==
    ASSUME snapshot \in Snapshots, OptionsStand
    PROVE  AllocationIsGreedy
<1> SUFFICES ASSUME pc = "validate" PROVE AllocationIsGreedy
  BY DEF AllocationIsGreedy
<1> DEFINE start == UsableInventory(snapshot.inventory)
           orders == snapshot.orders
           receipt == AlphaReceipt(snapshot)
           due == FALSE
<1>1. OrdersGiven(orders) /\ orders # {} /\ start \in Int /\ SuppliesGiven(receipt)
  BY SnapshotFacts
<1>2. options["expedite"].predicted =
         InterventionOutcome(start, orders, receipt, due, ExpediteCost(snapshot))
  BY PredictedAre, OptionsPredict DEF OptionIds, Outcome
<1>3. Sequence(orders, due) = ByDueDate(orders)
  BY DEF Sequence
<1> HIDE DEF start, orders, receipt, due
<1>4. options["expedite"].predicted.uncovered_part_demand
        = GreedyUncovered(start, receipt, ByDueDate(orders))
  BY <1>1, <1>2, <1>3, GreedyIsClosedForm
<1> QED BY <1>4 DEF AllocationIsGreedy, start, orders, receipt

\* Each option with its supplies and its sequence.
LEMMA ProtectsPunctually ==
    ASSUME snapshot \in Snapshots, OptionsStand
    PROVE  ProtectionIsPunctual
<1> SUFFICES ASSUME pc = "validate" PROVE ProtectionIsPunctual
  BY DEF ProtectionIsPunctual
<1> DEFINE start == UsableInventory(snapshot.inventory)
           orders == snapshot.orders
           receipt == AlphaReceipt(snapshot)
           transfer == DallasTransfer(snapshot)
           both == receipt \union transfer
           due == FALSE
           important == TRUE
           kept(o) == {order \in orders : order.id \in options[o].predicted.protected}
           Meets(o, supplies) ==
              \A day \in {order.due : order \in kept(o)} :
                 FitsBy(day, options[o].predicted.protected, orders, supplies, start)
<1>1. /\ OrdersGiven(orders) /\ orders # {} /\ start \in Int /\ SuppliesGiven({})
      /\ SuppliesGiven(receipt) /\ SuppliesGiven(transfer) /\ SuppliesGiven(both)
  BY SnapshotFacts
<1>2. /\ options["no_mitigation"].predicted = InterventionOutcome(start, orders, {}, due, 0)
      /\ options["resequence"].predicted = InterventionOutcome(start, orders, {}, important, 0)
      /\ options["expedite"].predicted =
            InterventionOutcome(start, orders, receipt, due, ExpediteCost(snapshot))
      /\ options["transfer"].predicted =
            InterventionOutcome(start, orders, transfer, due, TransferCost(snapshot))
      /\ options["combined"].predicted =
            InterventionOutcome(start, orders, both, important,
                                ExpediteCost(snapshot) + TransferCost(snapshot))
  BY PredictedAre, OptionsPredict DEF OptionIds, Outcome
<1>3. /\ SuppliesOf("no_mitigation") = {} /\ SuppliesOf("resequence") = {}
      /\ SuppliesOf("expedite") = receipt /\ SuppliesOf("transfer") = transfer
      /\ SuppliesOf("combined") = both
  BY DEF SuppliesOf
<1>4. \A o : DeliverableOnTime(o) <=> Meets(o, SuppliesOf(o))
  BY DEF DeliverableOnTime, FitsBy
<1>5. InDueOrder(Sequence(orders, due)) /\ Sequence(orders, important) = ByPriority(orders)
  BY <1>1, DueDatesAscend DEF Sequence
<1>6. \A order \in orders : order.due \in Int
  BY <1>1 DEF OrdersGiven, Order
<1> HIDE DEF start, orders, receipt, transfer, both, due, important
<1>7. ASSUME NEW o, NEW supplies, SuppliesGiven(supplies), NEW resequence, NEW cost,
             supplies = {} \/ InDueOrder(Sequence(orders, resequence)),
             options[o].predicted = InterventionOutcome(start, orders, supplies, resequence, cost)
      PROVE  Meets(o, supplies)
  <2> SUFFICES ASSUME NEW day \in Int
               PROVE  FitsBy(day, options[o].predicted.protected, orders, supplies, start)
    BY <1>6
  <2> QED BY <1>1, <1>7, ProtectedOnTime
<1> HIDE DEF Meets
<1>8. Meets("no_mitigation", {}) /\ Meets("resequence", {})
  BY <1>1, <1>2, <1>7
<1>9. Meets("expedite", receipt) /\ Meets("transfer", transfer)
  BY <1>1, <1>2, <1>5, <1>7
<1>10. InDueOrder(ByPriority(orders)) => Meets("combined", both)
  BY <1>1, <1>2, <1>5, <1>7
<1> QED BY <1>3, <1>4, <1>8, <1>9, <1>10 DEF ProtectionIsPunctual, orders

LEMMA SupplyDoesNotHurt ==
    ASSUME snapshot \in Snapshots, OptionsStand
    PROVE  SupplyNeverHurts
<1> SUFFICES ASSUME pc = "validate" PROVE SupplyNeverHurts
  BY DEF SupplyNeverHurts
<1> DEFINE start == UsableInventory(snapshot.inventory)
           orders == snapshot.orders
           receipt == AlphaReceipt(snapshot)
           transfer == DallasTransfer(snapshot)
           both == AlphaReceipt(snapshot) \union DallasTransfer(snapshot)
           due == FALSE
           important == TRUE
           predicted(supplies, resequence, cost) ==
               InterventionOutcome(start, orders, supplies, resequence, cost)
<1>1. /\ OrdersGiven(orders) /\ orders # {} /\ start \in Int
      /\ SuppliesGiven(receipt) /\ SuppliesGiven(transfer) /\ SuppliesGiven(both)
  BY SnapshotFacts
<1>2. /\ options["no_mitigation"].predicted = predicted({}, due, 0)
      /\ options["resequence"].predicted = predicted({}, important, 0)
      /\ options["expedite"].predicted = predicted(receipt, due, ExpediteCost(snapshot))
      /\ options["transfer"].predicted = predicted(transfer, due, TransferCost(snapshot))
      /\ options["combined"].predicted =
            predicted(both, important, ExpediteCost(snapshot) + TransferCost(snapshot))
  BY PredictedAre, OptionsPredict DEF OptionIds, Outcome
<1> HIDE DEF start, orders, receipt, transfer, both, due, important
<1>3. ASSUME NEW supplies, SuppliesGiven(supplies), NEW resequence, NEW cost
      PROVE  predicted({}, resequence, 0).protected \subseteq predicted(supplies, resequence, cost).protected
  <2>1. {} \in SUBSET supplies
    OBVIOUS
  <2> QED BY <1>1, <1>3, <2>1, MoreSupplyProtectsMore
<1> HIDE DEF predicted
<1>4. /\ options["no_mitigation"].predicted.protected \subseteq options["expedite"].predicted.protected
      /\ options["no_mitigation"].predicted.protected \subseteq options["transfer"].predicted.protected
      /\ options["resequence"].predicted.protected \subseteq options["combined"].predicted.protected
  BY <1>1, <1>2, <1>3
<1> QED BY <1>4 DEF SupplyNeverHurts

LEMMA CalculatorCovers ==
    ASSUME snapshot \in Snapshots, OptionsStand
    PROVE  CalculatorCoversBaseline
<1> SUFFICES ASSUME pc = "validate", UsableInventory(snapshot.inventory) >= 0
             PROVE  CalculatorCoversBaseline
  BY DEF CalculatorCoversBaseline
<1> DEFINE usable == UsableInventory(snapshot.inventory)
           orders == snapshot.orders
<1>1. OrdersGiven(orders) /\ orders # {} /\ usable \in Nat
  <2>1. OrdersGiven(orders) /\ orders # {} /\ usable \in Int
    BY SnapshotFacts
  <2>2. usable >= 0
    OBVIOUS
  <2> HIDE DEF usable
  <2> QED BY <2>1, <2>2
<1>2. options["no_mitigation"].predicted = InterventionOutcome(usable, orders, {}, FALSE, 0)
  BY PredictedAre, OptionsPredict DEF OptionIds, Outcome
<1>3. CalculatorUsable(snapshot.inventory) = usable
  <2>1. CalculatorUsable(snapshot.inventory) = Max({0, usable})
    BY DEF CalculatorUsable, UsableInventory
  <2> HIDE DEF usable
  <2> QED BY <1>1, <2>1 DEF Max
<1> HIDE DEF usable, orders
<1>4. LET exposure == CalculateExposure(usable, {}, orders)
          baseline == options["no_mitigation"].predicted
      IN  /\ {o.id : o \in orders} \ exposure.affected \subseteq baseline.protected
          /\ exposure.shortage <= baseline.uncovered_part_demand
          /\ baseline.revenue_at_risk <= exposure.revenue_at_risk
  BY <1>1, <1>2, CalculatorIsCautious
<1> QED BY <1>3, <1>4 DEF CalculatorCoversBaseline, usable, orders

\* In due order what the options predict is the shortage the closed form gives
\* and protects only what is deliverable on time (as does any sequence without
\* supplies); more supply takes no order's protection away, and
\* calculate_exposure errs on the side of caution: for any orders, any dates and
\* any stock.
THEOREM ExposuresMatch == Spec => []ExposureMatchesReference
<1>1. PipelineInvariant => ExposureMatchesReference
  BY AllocatesGreedily, ProtectsPunctually, SupplyDoesNotHurt, CalculatorCovers
     DEF PipelineInvariant, ExposureMatchesReference
<1> QED BY <1>1, PipelineInvariantHolds, PTL
=============================================================================
