-------------------------- MODULE DailyLifeProofs --------------------------
(***************************************************************************)
(* Theorems about her day to day: the arbiter that bounds every change,    *)
(* her activities, sleep and diary, what she knows and looks up, the       *)
(* people she meets, and what consolidation makes of it all.  The parts    *)
(* share no state; each has an inductive invariant of its own.             *)
(***************************************************************************)
EXTENDS Arbitration, Life, Knowledge, Growth, Society,
        FiniteSetTheorems, WellFoundedInduction, TLAPS

-----------------------------------------------------------------------------
(***************************************************************************)
(* Folds over a finite set.  The library takes its members in an order the *)
(* provers know nothing of: what a fold is, and what it keeps, is shown by *)
(* induction on the size of the set, by least counterexample.              *)
(***************************************************************************)
Some(s) == CHOOSE x \in s : TRUE
UpTo(G, n) == {s \in SUBSET G : Cardinality(s) <= n}
Folding(s, base, step, g) ==
  IF s = {} THEN base ELSE step[<<Some(s), g[s \ {Some(s)}]>>]
IsFold(G, R, base, step, g) ==
  g \in [SUBSET G -> R] /\ \A s \in SUBSET G : g[s] = Folding(s, base, step, g)
FoldsUpTo(G, R, n, base, step, g) ==
  /\ g \in [UpTo(G, n) -> R]
  /\ \A s \in UpTo(G, n) : g[s] = Folding(s, base, step, g)

LEMMA LeastNumber ==
  ASSUME NEW S \in SUBSET Nat, S # {}
  PROVE  \E m \in S : \A n \in S : m <= n
<1>1. PICK m \in S : \A n \in S : ~(<<n, m>> \in OpToRel(<, Nat))
  BY NatLessThanWellFounded, WFMin
<1>2. \A n \in S : ~(n < m)
  BY <1>1 DEF OpToRel
<1>3. QED
  BY <1>2

LEMMA OneFewer ==
  ASSUME NEW G, IsFiniteSet(G), NEW s \in SUBSET G, s # {}
  PROVE  /\ Some(s) \in s /\ s \ {Some(s)} \in SUBSET G
         /\ Cardinality(s) \in Nat /\ Cardinality(s \ {Some(s)}) \in Nat
         /\ Cardinality(s) = Cardinality(s \ {Some(s)}) + 1
<1>1. Some(s) \in s
  BY DEF Some
<1>2. IsFiniteSet(s) /\ IsFiniteSet(s \ {Some(s)})
  BY FS_Subset
<1>3. Cardinality(s \ {Some(s)}) = Cardinality(s) - 1
  BY <1>1, <1>2, FS_RemoveElement
<1>4. QED
  BY <1>1, <1>2, <1>3, FS_CardinalityType

\* What holds of a set whenever it holds of all smaller ones holds of every
\* finite set.
LEMMA BySize ==
  ASSUME NEW G, IsFiniteSet(G), NEW Good,
         \A s \in SUBSET G :
           (\A t \in SUBSET G : Cardinality(t) < Cardinality(s) => t \in Good) => s \in Good
  PROVE  SUBSET G \subseteq Good
<1> DEFINE Sizes == {n \in Nat : \E s \in SUBSET G : Cardinality(s) = n /\ s \notin Good}
<1>1. \A s \in SUBSET G : Cardinality(s) \in Nat
  BY FS_Subset, FS_CardinalityType
<1>2. ASSUME NEW m \in Sizes, \A n \in Sizes : m <= n PROVE FALSE
  <2>1. PICK s \in SUBSET G : Cardinality(s) = m /\ s \notin Good
    BY <1>2
  <2>2. PICK t \in SUBSET G : Cardinality(t) < Cardinality(s) /\ t \notin Good
    BY <2>1
  <2>3. Cardinality(t) \in Sizes
    BY <1>1, <2>2
  <2>4. m <= Cardinality(t) /\ Cardinality(t) < m
    BY <1>2, <2>1, <2>2, <2>3
  <2> HIDE DEF Sizes
  <2>5. QED
    BY <1>1, <2>1, <2>4
<1>3. Sizes = {}
  <2>1. Sizes \in SUBSET Nat
    OBVIOUS
  <2> HIDE DEF Sizes
  <2>2. QED
    BY <1>2, <2>1, LeastNumber
<1>4. QED
  BY <1>1, <1>3

\* In particular what holds of the empty set, and of a set when of one member
\* fewer.
LEMMA OneByOne ==
  ASSUME NEW G, IsFiniteSet(G), NEW Good, {} \in Good,
         \A s \in SUBSET G : s # {} /\ s \ {Some(s)} \in Good => s \in Good
  PROVE  SUBSET G \subseteq Good
<1>1. ASSUME NEW s \in SUBSET G,
             \A t \in SUBSET G : Cardinality(t) < Cardinality(s) => t \in Good
      PROVE  s \in Good
  <2>1. CASE s = {}
    BY <2>1
  <2>2. CASE s # {}
    <3>1. /\ s \ {Some(s)} \in SUBSET G
          /\ Cardinality(s \ {Some(s)}) \in Nat
          /\ Cardinality(s) = Cardinality(s \ {Some(s)}) + 1
      BY <2>2, OneFewer
    <3>2. Cardinality(s \ {Some(s)}) < Cardinality(s)
      BY <3>1
    <3>3. QED
      BY <1>1, <2>2, <3>1, <3>2
  <2>3. QED
    BY <2>1, <2>2
<1>2. QED
  BY <1>1, BySize

LEMMA NoMembers ==
  ASSUME NEW G, IsFiniteSet(G), NEW s \in UpTo(G, 0) PROVE s = {}
<1>1. s \in SUBSET G /\ Cardinality(s) <= 0
  BY DEF UpTo
<1>2. ASSUME s # {} PROVE FALSE
  <2>1. /\ Cardinality(s \ {Some(s)}) \in Nat
        /\ Cardinality(s) = Cardinality(s \ {Some(s)}) + 1
    BY <1>1, <1>2, OneFewer
  <2>2. QED
    BY <1>1, <2>1
<1>3. QED
  BY <1>2

LEMMA FoldsToAnySize ==
  ASSUME NEW G, IsFiniteSet(G), NEW R, NEW base \in R, NEW step \in [G \X R -> R]
  PROVE  \A n \in Nat : \E g : FoldsUpTo(G, R, n, base, step, g)
<1> DEFINE Folds(n, g) == FoldsUpTo(G, R, n, base, step, g)
           Missing == {n \in Nat : ~\E g : Folds(n, g)}
<1>1. SUFFICES ASSUME Missing # {} PROVE FALSE
  OBVIOUS
<1>2. PICK m \in Missing : \A n \in Missing : m <= n
  BY <1>1, LeastNumber
<1>3. CASE m = 0
  <2>1. \A s \in UpTo(G, 0) : s = {}
    BY NoMembers
  <2>2. Folds(0, [s \in UpTo(G, 0) |-> base])
    BY <2>1 DEF FoldsUpTo, Folding
  <2>3. QED
    BY <1>2, <1>3, <2>2
<1>4. CASE m # 0
  <2>1. m \in Nat /\ m - 1 \in Nat /\ m - 1 \notin Missing
    BY <1>2, <1>4
  <2>2. PICK g : Folds(m - 1, g)
    BY <2>1
  <2> DEFINE h == [s \in UpTo(G, m) |-> Folding(s, base, step, g)]
  <2>3. \A s \in UpTo(G, m) : s # {} => /\ s \ {Some(s)} \in UpTo(G, m - 1)
                                       /\ Some(s) \in G
    <3>1. ASSUME NEW s \in UpTo(G, m), s # {}
          PROVE  s \ {Some(s)} \in UpTo(G, m - 1) /\ Some(s) \in G
      <4>1. s \in SUBSET G /\ Cardinality(s) <= m
        BY DEF UpTo
      <4>2. QED
        BY <2>1, <3>1, <4>1, OneFewer DEF UpTo
    <3>2. QED
      BY <3>1
  <2>4. \A s \in UpTo(G, m) : Folding(s, base, step, g) \in R
    BY <2>2, <2>3 DEF FoldsUpTo, Folding
  <2>5. \A s \in UpTo(G, m - 1) : s \in UpTo(G, m) /\ h[s] = g[s]
    <3>1. ASSUME NEW s \in UpTo(G, m - 1) PROVE s \in UpTo(G, m)
      <4>1. s \in SUBSET G /\ Cardinality(s) <= m - 1
        BY DEF UpTo
      <4>2. Cardinality(s) \in Nat
        BY <4>1, FS_Subset, FS_CardinalityType
      <4>3. QED
        BY <2>1, <4>1, <4>2 DEF UpTo
    <3>2. QED
      BY <2>2, <3>1 DEF FoldsUpTo
  <2>6. \A s \in UpTo(G, m) : h[s] = Folding(s, base, step, h)
    BY <2>3, <2>5 DEF Folding
  <2>7. Folds(m, h)
    BY <2>4, <2>6 DEF FoldsUpTo
  <2>8. QED
    BY <1>2, <2>7
<1>5. QED
  BY <1>3, <1>4

\* A step that stays within R folds to a function into R.
LEMMA FoldExists ==
  ASSUME NEW G, IsFiniteSet(G), NEW R, NEW base \in R, NEW step \in [G \X R -> R]
  PROVE  \E g : IsFold(G, R, base, step, g)
<1>1. Cardinality(G) \in Nat
  BY FS_CardinalityType
<1>2. PICK g : FoldsUpTo(G, R, Cardinality(G), base, step, g)
  BY <1>1, FoldsToAnySize
<1>3. UpTo(G, Cardinality(G)) = SUBSET G
  BY FS_Subset DEF UpTo
<1>4. QED
  BY <1>2, <1>3 DEF FoldsUpTo, IsFold
-----------------------------------------------------------------------------
(* Sums of a function over a set: what Growth calls Total.                 *)
Adding(f, s, g) == IF s = {} THEN 0 ELSE f[Some(s)] + g[s \ {Some(s)}]
Sums(f, G) == CHOOSE g : g = [s \in SUBSET G |-> Adding(f, s, g)]

LEMMA TotalIsSum ==
  ASSUME NEW f, NEW G PROVE Total(f, G) = Sums(f, G)[G]
BY DEF Total, MapThenSumSet, MapThenFoldSet, Sums, Adding, Some

LEMMA SumsAre ==
  ASSUME NEW G, IsFiniteSet(G), NEW f, \A v \in G : f[v] \in Int
  PROVE  /\ Sums(f, G) = [s \in SUBSET G |-> Adding(f, s, Sums(f, G))]
         /\ \A s \in SUBSET G : Sums(f, G)[s] = Adding(f, s, Sums(f, G))
         /\ \A s \in SUBSET G : Sums(f, G)[s] \in Int
<1> DEFINE step == [e \in G \X Int |-> f[e[1]] + e[2]]
<1>1. step \in [G \X Int -> Int]
  OBVIOUS
<1>2. PICK g : IsFold(G, Int, 0, step, g)
  <2>1. 0 \in Int
    OBVIOUS
  <2> HIDE DEF step
  <2>2. QED
    BY <1>1, <2>1, FoldExists
<1>3. \A s \in SUBSET G : g[s] = Adding(f, s, g)
  <2>1. ASSUME NEW s \in SUBSET G, s # {} PROVE g[s] = Adding(f, s, g)
    <3>1. Some(s) \in G /\ g[s \ {Some(s)}] \in Int
      BY <1>2, <2>1, OneFewer DEF IsFold
    <3>2. g[s] = step[<<Some(s), g[s \ {Some(s)}]>>]
      BY <1>2, <2>1 DEF IsFold, Folding
    <3>3. QED
      BY <2>1, <3>1, <3>2 DEF Adding
  <2>2. QED
    BY <1>2, <2>1 DEF IsFold, Folding, Adding
<1>4. g = [s \in SUBSET G |-> Adding(f, s, g)]
  BY <1>2, <1>3 DEF IsFold
<1>5. Sums(f, G) = [s \in SUBSET G |-> Adding(f, s, Sums(f, G))]
  BY <1>4 DEF Sums
<1>6. \A s \in SUBSET G : Sums(f, G)[s] = Adding(f, s, Sums(f, G))
  BY <1>5
<1> DEFINE Good == {s \in SUBSET G : Sums(f, G)[s] \in Int}
<1>7. {} \in Good
  <2>1. Sums(f, G)[{}] = 0
    BY <1>6 DEF Adding
  <2>2. QED
    BY <2>1
<1>8. ASSUME NEW s \in SUBSET G, s # {}, s \ {Some(s)} \in Good PROVE s \in Good
  <2>1. Sums(f, G)[s] = f[Some(s)] + Sums(f, G)[s \ {Some(s)}]
    BY <1>6, <1>8 DEF Adding
  <2>2. f[Some(s)] \in Int /\ Sums(f, G)[s \ {Some(s)}] \in Int
    BY <1>8, OneFewer
  <2>3. QED
    BY <2>1, <2>2
<1>9. SUBSET G \subseteq Good
  <2> HIDE DEF Good
  <2> QED
    BY <1>7, <1>8, OneByOne
<1>10. QED
  BY <1>5, <1>6, <1>9

\* A sum does not know the set it is part of.
LEMMA SumOfPart ==
  ASSUME NEW G, IsFiniteSet(G), NEW f, \A v \in G : f[v] \in Int, NEW s \in SUBSET G
  PROVE  Total(f, s) = Sums(f, G)[s] /\ Total(f, s) \in Int
<1> DEFINE Good == {t \in SUBSET s : Sums(f, s)[t] = Sums(f, G)[t]}
<1>1. IsFiniteSet(s)
  BY FS_Subset
<1>2. /\ \A t \in SUBSET s : Sums(f, s)[t] = Adding(f, t, Sums(f, s))
      /\ \A t \in SUBSET s : Sums(f, G)[t] = Adding(f, t, Sums(f, G))
  BY <1>1, SumsAre
<1>3. {} \in Good
  BY <1>2 DEF Adding
<1>4. ASSUME NEW t \in SUBSET s, t # {}, t \ {Some(t)} \in Good PROVE t \in Good
  BY <1>2, <1>4 DEF Adding
<1>5. SUBSET s \subseteq Good
  <2> HIDE DEF Good
  <2> QED
    BY <1>1, <1>3, <1>4, OneByOne
<1>6. QED
  BY <1>5, TotalIsSum, SumsAre

\* The order does not matter: any member may be taken out first.
LEMMA SumSplits ==
  ASSUME NEW G, IsFiniteSet(G), NEW f, \A v \in G : f[v] \in Int, NEW v \in G
  PROVE  Total(f, G) = f[v] + Total(f, G \ {v})
<1> DEFINE T == Sums(f, G)
           Good == {s \in SUBSET G : \A w \in s : T[s] = f[w] + T[s \ {w}]}
<1>1. /\ \A s \in SUBSET G : T[s] = Adding(f, s, T)
      /\ \A s \in SUBSET G : T[s] \in Int
  BY SumsAre
<1>2. ASSUME NEW s \in SUBSET G,
             \A t \in SUBSET G : Cardinality(t) < Cardinality(s) => t \in Good,
             NEW w \in s
      PROVE  T[s] = f[w] + T[s \ {w}]
  <2> DEFINE x == Some(s)
  <2>1. x \in s /\ T[s] = f[x] + T[s \ {x}]
    BY <1>1, <1>2, OneFewer DEF Adding
  <2>2. CASE w = x
    BY <2>1, <2>2
  <2>3. CASE w # x
    <3>1. /\ Cardinality(s) \in Nat
          /\ Cardinality(s \ {x}) = Cardinality(s) - 1
          /\ Cardinality(s \ {w}) = Cardinality(s) - 1
      BY <2>1, FS_Subset, FS_RemoveElement, FS_CardinalityType
    <3>2. Cardinality(s \ {x}) < Cardinality(s) /\ Cardinality(s \ {w}) < Cardinality(s)
      BY <3>1
    <3>3. s \ {x} \in Good /\ s \ {w} \in Good
      BY <1>2, <3>2
    <3>4. /\ T[s \ {x}] = f[w] + T[(s \ {x}) \ {w}]
          /\ T[s \ {w}] = f[x] + T[(s \ {w}) \ {x}]
      BY <2>1, <2>3, <3>3
    <3>5. T[(s \ {x}) \ {w}] = T[(s \ {w}) \ {x}]
      <4>1. (s \ {x}) \ {w} = (s \ {w}) \ {x}
        OBVIOUS
      <4> HIDE DEF T, x
      <4>2. QED
        BY <4>1
    <3>6. f[x] \in Int /\ f[w] \in Int /\ T[(s \ {w}) \ {x}] \in Int
      BY <1>1, <2>1
    <3> HIDE DEF x, T
    <3>7. QED
      BY <2>1, <3>4, <3>5, <3>6
  <2>4. QED
    BY <2>2, <2>3
<1>3. SUBSET G \subseteq Good
  <2>1. \A s \in SUBSET G :
          (\A t \in SUBSET G : Cardinality(t) < Cardinality(s) => t \in Good) => s \in Good
    BY <1>2
  <2> HIDE DEF Good
  <2>2. QED
    BY <2>1, BySize
<1>4. T[G] = f[v] + T[G \ {v}]
  BY <1>3
<1>5. QED
  BY <1>4, SumOfPart

\* What is greater at every member is greater in sum.
LEMMA SumGrows ==
  ASSUME NEW G, IsFiniteSet(G), NEW f, NEW h,
         \A v \in G : f[v] \in Int /\ h[v] \in Int /\ f[v] <= h[v]
  PROVE  Total(f, G) <= Total(h, G)
<1> DEFINE Good == {s \in SUBSET G : Sums(f, G)[s] <= Sums(h, G)[s]}
<1>1. /\ \A s \in SUBSET G : Sums(f, G)[s] = Adding(f, s, Sums(f, G))
      /\ \A s \in SUBSET G : Sums(f, G)[s] \in Int
  BY SumsAre
<1>2. /\ \A s \in SUBSET G : Sums(h, G)[s] = Adding(h, s, Sums(h, G))
      /\ \A s \in SUBSET G : Sums(h, G)[s] \in Int
  BY SumsAre
<1>3. {} \in Good
  <2>1. Sums(f, G)[{}] = 0 /\ Sums(h, G)[{}] = 0
    BY <1>1, <1>2 DEF Adding
  <2>2. QED
    BY <2>1
<1>4. ASSUME NEW s \in SUBSET G, s # {}, s \ {Some(s)} \in Good PROVE s \in Good
  <2>1. /\ Sums(f, G)[s] = f[Some(s)] + Sums(f, G)[s \ {Some(s)}]
        /\ Sums(h, G)[s] = h[Some(s)] + Sums(h, G)[s \ {Some(s)}]
    BY <1>1, <1>2, <1>4 DEF Adding
  <2>2. /\ f[Some(s)] \in Int /\ h[Some(s)] \in Int /\ f[Some(s)] <= h[Some(s)]
        /\ Sums(f, G)[s \ {Some(s)}] \in Int /\ Sums(h, G)[s \ {Some(s)}] \in Int
        /\ Sums(f, G)[s \ {Some(s)}] <= Sums(h, G)[s \ {Some(s)}]
    BY <1>1, <1>2, <1>4, OneFewer
  <2>3. Sums(f, G)[s] <= Sums(h, G)[s]
    BY <2>1, <2>2
  <2>4. QED
    BY <2>3
<1>5. SUBSET G \subseteq Good
  <2> HIDE DEF Good
  <2> QED
    BY <1>3, <1>4, OneByOne
<1>6. QED
  BY <1>5, TotalIsSum

-----------------------------------------------------------------------------
(***************************************************************************)
(* Theorems about Arbitration, for every registry, policy and sequence of  *)
(* runs.  Each comes down to one lemma about what a commit does to a key.  *)
(***************************************************************************)

(* What a group of adjustments adds up to is a fold too, and an integer.   *)
Weight(p) == Operand(p).number
Summed(s, g) == IF s = {} THEN 0 ELSE Weight(Some(s)) + g[s \ {Some(s)}]
Totals(G) == CHOOSE g : g = [s \in SUBSET G |-> Summed(s, g)]

LEMMA DeltaIsTotal ==
  ASSUME NEW G PROVE Delta(G) = Totals(G)[G]
BY DEF Delta, MapThenSumSet, MapThenFoldSet, Totals, Summed, Weight, Some

LEMMA TotalsAreSums ==
  ASSUME NEW G, IsFiniteSet(G), \A p \in G : Weight(p) \in Int
  PROVE  Totals(G) = [s \in SUBSET G |-> Summed(s, Totals(G))]
<1> DEFINE f == [p \in G |-> Weight(p)]
<1>1. Sums(f, G) = [s \in SUBSET G |-> Adding(f, s, Sums(f, G))]
  BY SumsAre
<1>2. \A s \in SUBSET G : Adding(f, s, Sums(f, G)) = Summed(s, Sums(f, G))
  BY OneFewer DEF Adding, Summed
<1>3. Sums(f, G) = [s \in SUBSET G |-> Summed(s, Sums(f, G))]
  BY <1>1, <1>2
<1>4. QED
  BY <1>3 DEF Totals

LEMMA DeltaIsAnInteger ==
  ASSUME NEW G, IsFiniteSet(G), \A p \in G : Weight(p) \in Int
  PROVE  Delta(G) \in Int
<1> DEFINE Good == {s \in SUBSET G : Totals(G)[s] \in Int}
<1>1. \A s \in SUBSET G : Totals(G)[s] = Summed(s, Totals(G))
  BY TotalsAreSums
<1>2. {} \in Good
  <2>1. Totals(G)[{}] = 0
    BY <1>1 DEF Summed
  <2>2. QED
    BY <2>1
<1>3. ASSUME NEW s \in SUBSET G, s # {}, s \ {Some(s)} \in Good PROVE s \in Good
  <2>1. Totals(G)[s] = Weight(Some(s)) + Totals(G)[s \ {Some(s)}]
    BY <1>1, <1>3 DEF Summed
  <2>2. Weight(Some(s)) \in Int /\ Totals(G)[s \ {Some(s)}] \in Int
    BY <1>3, OneFewer
  <2>3. QED
    BY <2>1, <2>2
<1>4. SUBSET G \subseteq Good
  <2> HIDE DEF Good
  <2> QED
    BY <1>2, <1>3, OneByOne
<1>5. QED
  BY <1>4, DeltaIsTotal

-----------------------------------------------------------------------------
(* A group that is not rejected agrees, and what it asks for has been held *)
(* against the policy.                                                     *)
LEMMA ResolvedAsAsked ==
  ASSUME NEW P \in SUBSET Proposals, NEW k \in Keys, NEW current,
         NEW v \in Resolve(Group(P, k), k, current)
  PROVE  /\ Agree(Group(P, k))
         /\ \E p \in Group(P, k) :
              \/ /\ Operation(p) = "set"
                 /\ v = Operand(p) /\ SetAllowed(v, k, current)
              \/ /\ Operation(p) = "invalidate"
                 /\ v = Null
              \/ /\ Operation(p) = "adjust"
                 /\ AdjustAllowed(Group(P, k), k, current)
                 /\ v = Number(current.number + Delta(Group(P, k)))
<1> DEFINE G == Group(P, k)
           p == CHOOSE q \in G : TRUE
<1>1. G # {} /\ Agree(G)
  BY DEF Resolve
<1>2. p \in G /\ p \in Proposals
  BY <1>1 DEF Group
<1>3. Operation(p) \in {"set", "invalidate", "adjust"}
  BY <1>2 DEF Proposals, Operands, Operation
<1>4. CASE Operation(p) = "set"
  <2>1. v \in {w \in {Operand(p)} : SetAllowed(w, k, current)}
    BY <1>1, <1>4 DEF Resolve
  <2> QED
    BY <1>1, <1>2, <1>4, <2>1
<1>5. CASE Operation(p) = "invalidate"
  <2>1. v \in {w \in {Null} : current # Absent}
    BY <1>1, <1>5 DEF Resolve
  <2> QED
    BY <1>1, <1>2, <1>5, <2>1
<1>6. CASE Operation(p) = "adjust"
  <2>1. /\ AdjustAllowed(G, k, current)
        /\ v = Number(current.number + Delta(G))
    BY <1>1, <1>6 DEF Resolve
  <2> QED
    BY <1>1, <1>2, <1>6, <2>1
<1> QED
  BY <1>3, <1>4, <1>5, <1>6

(* So it has an admissible proposal, and the value is within its bounds.   *)
LEMMA ResolvedValue ==
  ASSUME NEW P \in SUBSET Proposals, NEW k \in Keys, NEW current,
         NEW v \in Resolve(Group(P, k), k, current)
  PROVE  \E p \in Group(P, k) :
           /\ InBounds(k, v)
           /\ \/ Operation(p) = "set" /\ v = Operand(p)
              \/ Operation(p) = "invalidate" /\ v = Null
              \/ Operation(p) = "adjust" /\ current.type = "number"
<1>1. InBounds(k, Null)
  BY DEF InBounds, Null
<1>2. QED
  BY <1>1, ResolvedAsAsked DEF SetAllowed, AdjustAllowed

(* A commit leaves a key alone or gives it a value its group resolved to.  *)
LEMMA CommittedValue ==
  ASSUME ArbitrateAndCommit, NEW k \in Keys
  PROVE  \/ state'[k] = state[k]
         \/ state'[k].value \in Resolve(Group(pending, k), k, state[k].value)
<1>1. CASE k \in Accepted(pending, state)
  <2>1. state'[k] = [value |-> NewValue(k), version |-> NextVersion(k)]
    BY <1>1 DEF ArbitrateAndCommit
  <2>2. Resolve(Group(pending, k), k, state[k].value) # {}
    BY <1>1 DEF Accepted
  <2>3. NewValue(k) \in Resolve(Group(pending, k), k, state[k].value)
    BY <2>2 DEF NewValue
  <2> QED
    BY <2>1, <2>3
<1>2. CASE k \notin Accepted(pending, state)
  BY <1>2 DEF ArbitrateAndCommit
<1> QED
  BY <1>1, <1>2

(* A run gathers proposals only.                                           *)
PendingOK == pending \subseteq Proposals

(* The proposals of a run stay well formed.                                *)
LEMMA PendingIsWellFormed == Spec => []PendingOK
<1>1. Init => PendingOK
  BY DEF Init, PendingOK
<1>2. PendingOK /\ [Next]_vars => PendingOK'
  BY DEF PendingOK, Next, Propose, ArbitrateAndCommit, vars
<1> QED
  BY <1>1, <1>2, PTL DEF Spec

(* Whatever the engines propose, and in whatever sequence of runs, a value *)
(* outside the bounds of its domain is never stored (spec 2.12).           *)
THEOREM BoundsHold == Spec => []StoredWithinBounds
<1>1. Init => StoredWithinBounds
  BY DEF Init, StoredWithinBounds, InBounds, Absent
<1>2. PendingOK /\ StoredWithinBounds /\ [Next]_vars => StoredWithinBounds'
  <2> SUFFICES ASSUME PendingOK, StoredWithinBounds, [Next]_vars, NEW k \in Keys
               PROVE  InBounds(k, state'[k].value)
    BY DEF StoredWithinBounds, InBounds
  <2>1. CASE ArbitrateAndCommit
    BY <2>1, CommittedValue, ResolvedValue DEF PendingOK, StoredWithinBounds
  <2>2. CASE UNCHANGED state
    BY <2>2 DEF StoredWithinBounds
  <2> QED
    BY <2>1, <2>2 DEF Next, Propose, vars
<1> QED
  BY <1>1, <1>2, PendingIsWellFormed, PTL DEF Spec

(* Deep state moves only through consolidation, and no key moves but for a *)
(* proposal of its owner, or of the admin, that cites evidence of its own. *)
THEOREM DeepGateHolds == Spec => DeepStateIsGated
<1>1. ASSUME PendingOK, [Next]_vars, NEW k \in Keys, state'[k] # state[k]
      PROVE  \E p \in pending :
               /\ p.key = k
               /\ p.module \in {OwnerOf[DomainOf[k]], AdminWriter}
               /\ p.evidence >= Policy[DomainOf[k]].evidence
               /\ DomainOf[k] \in Deep => p.module \in Consolidation
  <2>1. ArbitrateAndCommit
    BY <1>1 DEF Next, Propose, vars
  <2>2. PICK p \in Group(pending, k) : TRUE
    BY <1>1, <2>1, CommittedValue, ResolvedValue DEF PendingOK
  <2>3. p \in pending /\ p.key = k /\ Admissible(p)
    BY <2>2 DEF Group
  <2> QED
    BY <2>3 DEF Admissible, MayWrite, PassesGate, EnoughEvidence
<1>2. PendingOK /\ [Next]_vars =>
        [\A k \in Keys : state'[k] # state[k] =>
           \E p \in pending :
             /\ p.key = k
             /\ p.module \in {OwnerOf[DomainOf[k]], AdminWriter}
             /\ p.evidence >= Policy[DomainOf[k]].evidence
             /\ DomainOf[k] \in Deep => p.module \in Consolidation]_vars
  BY <1>1
<1> QED
  BY <1>2, PendingIsWellFormed, PTL DEF Spec, DeepStateIsGated

(* An adjustment never resolves an unknown value: unknown is not zero.     *)
THEOREM UnknownIsNeverZero == Spec => UnknownIsNotZero
<1>1. ASSUME PendingOK, [Next]_vars, NEW k \in Keys,
             state[k].value.type # "number", state'[k].value.type = "number"
      PROVE  \E p \in pending : p.key = k /\ p.act = <<"set", state'[k].value>>
  <2>1. ArbitrateAndCommit
    BY <1>1 DEF Next, Propose, vars
  <2>2. PICK p \in Group(pending, k) :
          \/ Operation(p) = "set" /\ state'[k].value = Operand(p)
          \/ Operation(p) = "invalidate" /\ state'[k].value = Null
          \/ Operation(p) = "adjust" /\ state[k].value.type = "number"
    BY <1>1, <2>1, CommittedValue, ResolvedValue DEF PendingOK
  <2>3. Operation(p) = "set" /\ state'[k].value = Operand(p)
    BY <1>1, <2>2 DEF Null
  <2>4. p \in pending /\ p.key = k /\ p \in Proposals
    BY <1>1 DEF Group, PendingOK
  <2>5. p.act = <<p.act[1], p.act[2]>>
    BY <2>4 DEF Proposals, Operands
  <2> QED
    BY <2>3, <2>4, <2>5 DEF Operation, Operand
<1>2. PendingOK /\ [Next]_vars =>
        [\A k \in Keys :
           state[k].value.type # "number" /\ state'[k].value.type = "number" =>
             \E p \in pending : p.key = k /\ p.act = <<"set", state'[k].value>>]_vars
  BY <1>1
<1> QED
  BY <1>2, PendingIsWellFormed, PTL DEF Spec, UnknownIsNotZero

(* Stored values carry integers, and a run has gathered finitely many      *)
(* proposals.                                                              *)
WholeNumbers ==
  /\ PendingOK /\ IsFiniteSet(pending)
  /\ \A k \in Keys : state[k].value.number \in Int

(* An admissible proposal carries a number.                                *)
LEMMA OperandsAreNumbers ==
  ASSUME NEW p \in Proposals
  PROVE  Operand(p).number \in Int
BY NumbersAssumption
   DEF Proposals, Operands, Operand, Number, Text, NotFinite, Null

LEMMA GroupIsWellFormed ==
  ASSUME WholeNumbers, NEW k \in Keys
  PROVE  /\ Group(pending, k) \subseteq Proposals
         /\ Delta(Group(pending, k)) \in Int
<1>1. Group(pending, k) \subseteq pending /\ IsFiniteSet(pending)
  BY DEF Group, WholeNumbers
<1>2. IsFiniteSet(Group(pending, k))
  BY <1>1, FS_Subset
<1>3. Group(pending, k) \subseteq Proposals
  BY <1>1 DEF WholeNumbers, PendingOK
<1>4. \A p \in Group(pending, k) : Weight(p) \in Int
  BY <1>3, OperandsAreNumbers DEF Weight
<1>5. QED
  BY <1>2, <1>3, <1>4, DeltaIsAnInteger

LEMMA WholeNumbersHold == Spec => []WholeNumbers
<1>1. Init => WholeNumbers
  BY FS_EmptySet DEF Init, WholeNumbers, PendingOK, Absent
<1>2. WholeNumbers /\ [Next]_vars => WholeNumbers'
  <2> SUFFICES ASSUME WholeNumbers, [Next]_vars PROVE WholeNumbers'
    OBVIOUS
  <2>1. CASE Propose
    <3>1. IsFiniteSet(pending)'
      BY <2>1, FS_AddElement DEF Propose, WholeNumbers
    <3>2. PendingOK' /\ UNCHANGED state
      BY <2>1 DEF Propose, WholeNumbers, PendingOK
    <3>3. QED
      BY <3>1, <3>2 DEF WholeNumbers
  <2>2. CASE ArbitrateAndCommit
    <3>1. PendingOK' /\ IsFiniteSet(pending)'
      BY <2>2, FS_EmptySet DEF ArbitrateAndCommit, PendingOK
    <3>2. ASSUME NEW k \in Keys PROVE state'[k].value.number \in Int
      <4>1. CASE state'[k] = state[k]
        BY <4>1 DEF WholeNumbers
      <4>2. CASE state'[k].value \in Resolve(Group(pending, k), k, state[k].value)
        <5> DEFINE v == state'[k].value
        <5>1. PICK p \in Group(pending, k) :
                \/ v = Operand(p)
                \/ v = Null
                \/ v = Number(state[k].value.number + Delta(Group(pending, k)))
          BY <4>2, ResolvedAsAsked DEF WholeNumbers, PendingOK
        <5>2. Operand(p).number \in Int
          BY OperandsAreNumbers, GroupIsWellFormed
        <5>3. state[k].value.number + Delta(Group(pending, k)) \in Int
          BY GroupIsWellFormed DEF WholeNumbers
        <5>4. QED
          BY <5>1, <5>2, <5>3 DEF Null, Number
      <4>3. QED
        BY <2>2, <4>1, <4>2, CommittedValue
    <3>3. QED
      BY <3>1, <3>2 DEF WholeNumbers
  <2>3. CASE UNCHANGED vars
    BY <2>3 DEF vars, WholeNumbers, PendingOK
  <2>4. QED
    BY <2>1, <2>2, <2>3 DEF Next
<1>3. QED
  BY <1>1, <1>2, PTL DEF Spec

(* The proposals of a group that agrees all say what one of them says.     *)
LEMMA NobodyIsOverruled ==
  ASSUME NEW k \in Keys, NEW p \in Group(pending, k),
         Group(pending, k) \subseteq Proposals, Agree(Group(pending, k)),
         \/ Operation(p) = "set" /\ state'[k].value = Operand(p)
         \/ Operation(p) = "invalidate" /\ state'[k].value = Null
         \/ /\ Operation(p) = "adjust"
            /\ state'[k].value.number - state[k].value.number = Delta(Group(pending, k))
  PROVE  OverrulesNobody(k)
<1> DEFINE G == Group(pending, k)
<1>1. G = {q \in pending : q.key = k /\ Admissible(q)}
  BY DEF Group
<1>2. SUFFICES ASSUME NEW q \in G
               PROVE  \/ q.act = <<"set", state'[k].value>>
                      \/ /\ Operation(q) = "adjust"
                         /\ state'[k].value.number - state[k].value.number
                              = MapThenSumSet(LAMBDA r : Operand(r).number,
                                  {r \in pending : r.key = k /\ Operation(r) = "adjust" /\ Admissible(r)})
                      \/ Operation(q) = "invalidate" /\ state'[k].value = Null
  BY <1>1 DEF OverrulesNobody
<1>3. Operation(q) = Operation(p)
  BY DEF Agree
<1>4. CASE Operation(p) = "set"
  <2>1. Operand(q) = Operand(p)
    BY <1>3, <1>4 DEF Agree
  <2>2. q.act = <<q.act[1], q.act[2]>>
    BY DEF Proposals, Operands
  <2>3. QED
    BY <1>3, <1>4, <2>1, <2>2 DEF Operation, Operand
<1>5. CASE Operation(p) = "invalidate"
  BY <1>3, <1>5
<1>6. CASE Operation(p) = "adjust"
  <2>1. \A r \in G : Operation(r) = "adjust"
    BY <1>6 DEF Agree
  <2>2. G = {r \in pending : r.key = k /\ Operation(r) = "adjust" /\ Admissible(r)}
    BY <1>1, <2>1
  <2>3. Delta(G) = MapThenSumSet(LAMBDA r : Operand(r).number,
          {r \in pending : r.key = k /\ Operation(r) = "adjust" /\ Admissible(r)})
    BY <2>2 DEF Delta
  <2>4. QED
    BY <1>3, <1>6, <2>3
<1>7. QED
  BY <1>4, <1>5, <1>6

(* One run changes a key by no more than its domain may move in one event, *)
(* however many proposals that took, and does what every admissible        *)
(* proposal for it asked: disagreement changes nothing.                    *)
THEOREM ChangesAreArbitrated == Spec => EveryChangeIsArbitrated
<1>1. ASSUME WholeNumbers, [Next]_vars, NEW k \in Keys, state'[k] # state[k]
      PROVE  MovesWithinLimit(k) /\ OverrulesNobody(k)
  <2> DEFINE G == Group(pending, k)
             old == state[k].value
             new == state'[k].value
  <2>1. ArbitrateAndCommit
    BY <1>1 DEF Next, Propose, vars
  <2>2. new \in Resolve(G, k, old)
    BY <1>1, <2>1, CommittedValue
  <2>3. Agree(G) /\ G \subseteq Proposals /\ Delta(G) \in Int /\ old.number \in Int
    BY <1>1, <2>2, ResolvedAsAsked, GroupIsWellFormed DEF WholeNumbers, PendingOK
  <2>4. PICK p \in G :
          \/ Operation(p) = "set" /\ new = Operand(p) /\ SetAllowed(new, k, old)
          \/ Operation(p) = "invalidate" /\ new = Null
          \/ /\ Operation(p) = "adjust" /\ AdjustAllowed(G, k, old)
             /\ new = Number(old.number + Delta(G))
    BY <1>1, <2>2, ResolvedAsAsked DEF WholeNumbers, PendingOK
  <2>5. Operation(p) = "adjust" => new.number - old.number = Delta(G)
    <3>1. ASSUME new = Number(old.number + Delta(G))
          PROVE  new.number - old.number = Delta(G)
      <4>1. new.number = old.number + Delta(G)
        BY <3>1 DEF Number
      <4> HIDE DEF new, old, G
      <4>2. QED
        BY <2>3, <4>1
    <3>2. QED
      BY <2>4, <3>1
  <2>6. MovesWithinLimit(k)
    <3>1. CASE Operation(p) = "set"
      BY <2>4, <3>1 DEF SetAllowed, MovesWithinLimit
    <3>2. CASE Operation(p) = "invalidate"
      BY <2>4, <3>2 DEF Null, MovesWithinLimit
    <3>3. CASE Operation(p) = "adjust"
      BY <2>4, <2>5, <3>3 DEF AdjustAllowed, MovesWithinLimit
    <3>4. QED
      BY <2>4, <3>1, <3>2, <3>3
  <2>7. OverrulesNobody(k)
    BY <2>3, <2>4, <2>5, NobodyIsOverruled
  <2>8. QED
    BY <2>6, <2>7
<1>2. WholeNumbers /\ [Next]_vars =>
        [\A k \in Keys : state'[k] # state[k] =>
           MovesWithinLimit(k) /\ OverrulesNobody(k)]_vars
  BY <1>1
<1>3. QED
  BY <1>2, WholeNumbersHold, PTL DEF Spec, EveryChangeIsArbitrated

-----------------------------------------------------------------------------
(***************************************************************************)
(* She does one thing at a time and every day is accounted for, for any    *)
(* lengths of nights and naps and any number of hours, acts and stops.     *)
(*                                                                         *)
(* The tables do not say why: a handler writes on the strength of what its *)
(* source saw when the tick offered it.  The invariant therefore says what *)
(* each step of a handler may still rely on: every handler but the waking  *)
(* one runs while she is awake, she lies down before she falls asleep, and *)
(* the day whose entry is being written is owed one.                       *)
(***************************************************************************)

Activity == [plan : Nat, status : {"ongoing", "completed", "abandoned"}, since : Nat]
Sleep    == [nap : BOOLEAN, ended : BOOLEAN, since : Nat, planned : {NapHours, MainHours}]
Entry    == [status : {"none", "pending", "written"}, writes : Nat]
Day      == [open : BOOLEAN, entry : Entry]
Plan     == [status : {"planned", "in_progress"}]

OfDiary == {"drafting", "closing_day"}
OfPlan  == {"starting_plan", "starting_work"}
Awake   == {"go_to_sleep", "lying_down", "falling_asleep", "start_activity",
            "finish_activity", "pursue_goal", "do_habit", "starting_habit",
            "attend_group", "joining_in"}
Handler ==
  [at : Awake \cup {"waiting", "wake_up", "getting_up"}]
    \cup [at : OfDiary, day : Nat] \cup [at : OfPlan, plan : Nat]

LifeTypeInv ==
  /\ hour \in Nat
  /\ activities \in Seq(Activity)
  /\ sleeps \in Seq(Sleep)
  /\ days \in Seq(Day)
  /\ plans \in Seq(Plan)
  /\ handler \in Handler

AtMostOne(S) == \A a, b \in S : a = b

\* Only a handler that wakes her may find her asleep.
OneInv ==
  /\ AtMostOne(Ongoing) /\ AtMostOne(OpenSleeps) /\ AtMostOne(OpenDays)
  /\ OpenSleeps # {} => Ongoing = {}
  /\ handler.at \in Awake \cup OfDiary \cup OfPlan => OpenSleeps = {}
  /\ handler.at = "falling_asleep" => Ongoing = {}

DayInv ==
  /\ \A d \in DOMAIN days :
       /\ ~days[d].open => days[d].entry.status # "none"
       /\ days[d].entry.writes <= 1
       /\ days[d].entry.status # "written" => days[d].entry.writes = 0
  /\ handler.at \in OfDiary => /\ handler.day \in DOMAIN days
                               /\ days[handler.day].entry.status # "none"
  /\ handler.at = "drafting" => days[handler.day].entry.status = "pending"

LifeInv == LifeTypeInv /\ OneInv /\ DayInv

-----------------------------------------------------------------------------
(* The current row of a table: what the repositories' queries find.        *)

LEMMA TheLast ==
  ASSUME NEW S \in SUBSET Nat, AtMostOne(S), S # {}
  PROVE  (CHOOSE s \in S : \A t \in S : t <= s) \in S
<1>1. PICK s \in S : \A t \in S : t = s
  BY DEF AtMostOne
<1>2. \A t \in S : t <= s
  BY <1>1
<1>3. QED
  BY <1>1, <1>2

LEMMA CurrentSleepIs ==
  ASSUME LifeTypeInv, OneInv
  PROVE  /\ CurrentSleep = 0 <=> OpenSleeps = {}
         /\ CurrentSleep # 0 => CurrentSleep \in OpenSleeps
<1>1. OpenSleeps \subseteq Nat \ {0}
  BY DEF LifeTypeInv, OpenSleeps
<1>2. CASE OpenSleeps = {}
  BY <1>2 DEF CurrentSleep
<1>3. CASE OpenSleeps # {}
  BY <1>1, <1>3, TheLast DEF CurrentSleep, OneInv
<1>4. QED
  BY <1>2, <1>3

LEMMA CurrentDayIs ==
  ASSUME LifeTypeInv, OneInv
  PROVE  /\ CurrentDay = 0 <=> OpenDays = {}
         /\ CurrentDay # 0 => CurrentDay \in OpenDays
<1>1. OpenDays \subseteq Nat \ {0}
  BY DEF LifeTypeInv, OpenDays
<1>2. CASE OpenDays = {}
  BY <1>2 DEF CurrentDay
<1>3. CASE OpenDays # {}
  BY <1>1, <1>3, TheLast DEF CurrentDay, OneInv
<1>4. QED
  BY <1>2, <1>3

LEMMA LifeInitially == LifeInit => LifeInv
<1>1. SUFFICES ASSUME LifeInit PROVE LifeInv
  OBVIOUS
<1>2. /\ hour = 0 /\ activities = <<>> /\ sleeps = <<>> /\ plans = <<>>
      /\ days = <<[open |-> TRUE, entry |-> NoEntry]>> /\ handler = Waiting
  BY <1>1, Zenon DEF LifeInit
<1>3. [open |-> TRUE, entry |-> NoEntry] \in Day
  BY DEF Day, Entry, NoEntry
<1>4. handler.at = "waiting" /\ handler \in Handler
  BY <1>2 DEF Waiting, Handler
<1>5. days \in Seq(Day) /\ Len(days) = 1 /\ days[1].open /\ days[1].entry = NoEntry
  BY <1>2, <1>3
<1>6. LifeTypeInv
  BY <1>2, <1>4, <1>5 DEF LifeTypeInv
<1>7. Ongoing = {} /\ OpenSleeps = {} /\ OpenDays \subseteq {1}
  BY <1>2, <1>5 DEF Ongoing, OngoingIn, OpenSleeps, OpenDays
<1>8. OneInv
  BY <1>4, <1>7 DEF OneInv, AtMostOne, Awake, OfDiary, OfPlan
<1>9. DayInv
  BY <1>4, <1>5 DEF DayInv, NoEntry, OfDiary
<1>10. QED
  BY <1>6, <1>8, <1>9 DEF LifeInv

-----------------------------------------------------------------------------
(* What each table is left as.                                             *)

\* An activity begins while she is awake: it is the only one.
LEMMA OneBegins ==
  ASSUME LifeTypeInv, NEW plan \in Nat, StartActivity(plan)
  PROVE  activities' \in Seq(Activity) /\ Ongoing' = {Len(activities) + 1}
<1> DEFINE gone(a) == IF a \in Ongoing THEN [activities[a] EXCEPT !.status = "abandoned"]
                      ELSE activities[a]
           kept == [a \in DOMAIN activities |-> gone(a)]
           new  == [plan |-> plan, status |-> "ongoing", since |-> hour]
<1>1. \A a \in DOMAIN activities : gone(a) \in Activity /\ gone(a).status # "ongoing"
  <2>1. TAKE a \in DOMAIN activities
  <2>2. activities[a] \in Activity
    BY DEF LifeTypeInv
  <2>3. CASE a \in Ongoing
    BY <2>2, <2>3 DEF Activity
  <2>4. CASE a \notin Ongoing
    BY <2>2, <2>4 DEF Ongoing, OngoingIn
  <2>5. QED
    BY <2>3, <2>4
<1> HIDE DEF gone
<1>2. kept \in Seq(Activity) /\ Len(kept) = Len(activities) /\ Len(activities) \in Nat
      /\ \A a \in DOMAIN kept : kept[a].status # "ongoing"
  <2>1. Len(activities) \in Nat /\ DOMAIN activities = 1..Len(activities)
    BY DEF LifeTypeInv
  <2>2. kept \in [1..Len(activities) -> Activity]
    BY <1>1, <2>1
  <2>3. kept \in Seq(Activity)
    BY <2>1, <2>2
  <2>4. Len(kept) = Len(activities)
    BY <2>1, <2>2, <2>3
  <2>5. \A a \in DOMAIN kept : kept[a].status # "ongoing"
    BY <1>1
  <2>6. QED
    BY <2>1, <2>3, <2>4, <2>5
<1>3. new \in Activity /\ new.status = "ongoing"
  BY DEF Activity, LifeTypeInv
<1>4. activities' = Append(kept, new)
  BY DEF StartActivity, gone
<1> HIDE DEF kept, new
<1>5. /\ activities' \in Seq(Activity) /\ Len(activities') = Len(activities) + 1
      /\ activities'[Len(activities) + 1].status = "ongoing"
      /\ \A a \in 1..Len(activities) : activities'[a].status # "ongoing"
  BY <1>2, <1>3, <1>4
<1>6. QED
  BY <1>2, <1>5 DEF Ongoing, OngoingIn

LEMMA OneFinishes ==
  ASSUME LifeTypeInv, NEW a \in Ongoing, FinishActivity(a)
  PROVE  activities' \in Seq(Activity) /\ Ongoing' = Ongoing \ {a}
<1>1. a \in DOMAIN activities /\ activities[a] \in Activity
  BY DEF LifeTypeInv, Ongoing, OngoingIn
<1>2. /\ [activities[a] EXCEPT !.status = "completed"] \in Activity
      /\ [activities[a] EXCEPT !.status = "completed"].status = "completed"
  BY <1>1 DEF Activity
<1>3. /\ activities' \in Seq(Activity) /\ DOMAIN activities' = DOMAIN activities
      /\ activities'[a].status = "completed"
      /\ \A b \in DOMAIN activities : b # a => activities'[b] = activities[b]
  <2>1. activities \in Seq(Activity) /\ DOMAIN activities = 1..Len(activities)
    BY DEF LifeTypeInv
  <2> DEFINE finished == [activities[a] EXCEPT !.status = "completed"]
  <2> HIDE DEF finished
  <2>2. finished \in Activity /\ finished.status = "completed"
    BY <1>2 DEF finished
  <2>3. activities' = [activities EXCEPT ![a] = finished]
    BY DEF FinishActivity, finished
  <2>4. QED
    BY <1>1, <2>1, <2>2, <2>3
<1>4. QED
  BY <1>1, <1>3 DEF Ongoing, OngoingIn

LEMMA SheFallsAsleep ==
  ASSUME LifeTypeInv, OpenSleeps = {}, FallAsleep
  PROVE  sleeps' \in Seq(Sleep) /\ AtMostOne(OpenSleeps)'
<1>1. PICK inWindow \in BOOLEAN : sleeps' = Append(sleeps,
         [nap |-> IsNap(inWindow), ended |-> FALSE, since |-> hour,
          planned |-> IF IsNap(inWindow) THEN NapHours ELSE MainHours])
  BY DEF FallAsleep
<1> DEFINE new == [nap |-> IsNap(inWindow), ended |-> FALSE, since |-> hour,
                   planned |-> IF IsNap(inWindow) THEN NapHours ELSE MainHours]
<1>2. IsNap(inWindow) \in BOOLEAN
  BY DEF IsNap
<1>3. new \in Sleep
  BY <1>2 DEF Sleep, LifeTypeInv
<1> HIDE DEF new
<1>4. /\ sleeps' \in Seq(Sleep) /\ Len(sleeps') = Len(sleeps) + 1 /\ Len(sleeps) \in Nat
      /\ DOMAIN sleeps = 1..Len(sleeps) /\ DOMAIN sleeps' = 1..Len(sleeps')
      /\ \A s \in DOMAIN sleeps : sleeps'[s] = sleeps[s]
  BY <1>1, <1>3 DEF LifeTypeInv, new
<1>5. OpenSleeps' \subseteq {Len(sleeps) + 1}
  BY <1>4 DEF OpenSleeps
<1>6. QED
  BY <1>4, <1>5 DEF AtMostOne

LEMMA SheWakes ==
  ASSUME LifeTypeInv, OneInv, WakeUp
  PROVE  sleeps' \in Seq(Sleep) /\ OpenSleeps' = {}
<1>1. CASE CurrentSleep = 0
  BY <1>1, CurrentSleepIs DEF WakeUp, OpenSleeps, LifeTypeInv
<1>2. CASE CurrentSleep # 0
  <2> DEFINE s == CurrentSleep
             over == [sleeps[s] EXCEPT !.ended = TRUE]
  <2>1. OpenSleeps = {s}
    BY <1>2, CurrentSleepIs DEF OneInv, AtMostOne
  <2>2. s \in DOMAIN sleeps
    BY <2>1 DEF OpenSleeps
  <2>3. sleeps[s] \in Sleep
    BY <2>2 DEF LifeTypeInv
  <2>4. over \in Sleep /\ over.ended
    BY <2>3 DEF Sleep
  <2>5. sleeps' = [sleeps EXCEPT ![s] = over]
    BY <1>2 DEF WakeUp
  <2> HIDE DEF s, over
  <2>6. /\ sleeps' \in Seq(Sleep) /\ DOMAIN sleeps' = DOMAIN sleeps /\ sleeps'[s].ended
        /\ \A t \in DOMAIN sleeps : t # s => sleeps'[t] = sleeps[t]
    BY <2>2, <2>4, <2>5 DEF LifeTypeInv
  <2>7. QED
    BY <2>1, <2>6 DEF OpenSleeps
<1>3. QED
  BY <1>1, <1>2

\* A day gets a new entry, or is closed; the others stay as they are.
LEMMA OneDayMoves ==
  ASSUME LifeTypeInv, NEW d \in DOMAIN days, NEW new \in Day, days' = [days EXCEPT ![d] = new]
  PROVE  /\ days' \in Seq(Day) /\ DOMAIN days' = DOMAIN days /\ days'[d] = new
         /\ \A e \in DOMAIN days : e # d => days'[e] = days[e]
<1>1. days \in Seq(Day) /\ DOMAIN days = 1..Len(days)
  BY DEF LifeTypeInv
<1>2. QED
  BY <1>1

\* What bedtime does to a day's entry, to the day and to what is to follow.
LEMMA DayStep ==
  ASSUME LifeTypeInv, OneInv, DayInv,
         ReflectAtBedtime \/ WriteDiary \/ CloseDay
  PROVE  /\ days' \in Seq(Day) /\ OpenDays' \subseteq OpenDays /\ DayInv'
         /\ \/ handler' = Waiting \/ handler' = [at |-> "lying_down"]
            \/ handler' \in [at : OfDiary, day : Nat]
         /\ OpenSleeps # {} => handler' = Waiting
<1> USE DEF OfDiary
<1>1. CASE UNCHANGED days /\ (handler' = Waiting \/ handler' = [at |-> "lying_down"])
           /\ (OpenSleeps # {} => handler' = Waiting)
  BY <1>1 DEF DayInv, OpenDays, LifeTypeInv, Waiting
<1>2. CASE ReflectAtBedtime
  <2>1. CASE \/ CurrentSleep # 0 \/ CurrentDay = 0
             \/ days[CurrentDay].entry.status = "written"
    BY <1>1, <1>2, <2>1, CurrentSleepIs DEF ReflectAtBedtime, Goto, Done
  <2>2. CASE /\ CurrentSleep = 0 /\ CurrentDay # 0 /\ days[CurrentDay].entry.status # "written"
             /\ days' = [days EXCEPT ![CurrentDay].entry.status = "pending"]
             /\ \/ handler' = [at |-> "drafting", day |-> CurrentDay]
                \/ Goto("lying_down")
    <3> DEFINE d == CurrentDay
               new == [days[d] EXCEPT !.entry.status = "pending"]
    <3>1. d \in OpenDays /\ d \in DOMAIN days /\ days[d] \in Day
      BY <2>2, CurrentDayIs DEF OpenDays, LifeTypeInv
    <3>2. /\ new \in Day /\ new.open = days[d].open /\ new.entry.status = "pending"
          /\ new.entry.writes = days[d].entry.writes
      BY <3>1 DEF Day, Entry
    <3>3. /\ days' = [days EXCEPT ![d] = new]
          /\ handler' = [at |-> "drafting", day |-> d] \/ handler' = [at |-> "lying_down"]
      BY <2>2 DEF Goto
    <3>4. OpenSleeps = {} /\ d \in Nat
      BY <2>2, <3>1, CurrentSleepIs DEF LifeTypeInv
    <3>5. days[d].entry.status # "written"
      BY <2>2
    <3> HIDE DEF d, new
    <3>6. /\ days' \in Seq(Day) /\ DOMAIN days' = DOMAIN days /\ days'[d] = new
          /\ \A e \in DOMAIN days : e # d => days'[e] = days[e]
      BY <3>1, <3>2, <3>3, OneDayMoves
    <3>7. OpenDays' \subseteq OpenDays
      BY <3>1, <3>2, <3>6 DEF OpenDays
    <3>8. DayInv'
      BY <3>1, <3>2, <3>3, <3>5, <3>6 DEF DayInv
    <3>9. QED
      BY <3>3, <3>4, <3>6, <3>7, <3>8
  <2>3. CASE CurrentSleep = 0 /\ Goto("lying_down") /\ UNCHANGED days
    BY <1>1, <2>3, CurrentSleepIs DEF Goto
  <2>4. QED
    BY <1>2, <2>1, <2>2, <2>3, Zenon DEF ReflectAtBedtime
<1>3. CASE WriteDiary
  <2> DEFINE d == handler.day
  <2>1. /\ OpenSleeps = {} /\ handler.at = "drafting" /\ d \in DOMAIN days
        /\ handler \in [at : OfDiary, day : Nat] /\ d \in Nat
    BY <1>3 DEF WriteDiary, OneInv, DayInv, LifeTypeInv, Handler, OfPlan, Awake
  <2>2. /\ days[d] \in Day /\ days[d].entry.status = "pending" /\ days[d].entry.writes = 0
    BY <2>1 DEF DayInv, LifeTypeInv
  <2>3. CASE UNCHANGED days
    <3>1. handler' = [handler EXCEPT !.at = "closing_day"]
          \/ handler' = [at |-> "lying_down"]
      BY <1>3 DEF WriteDiary, Goto
    <3>2. CASE handler' = [handler EXCEPT !.at = "closing_day"]
      <4>1. /\ handler' \in [at : OfDiary, day : Nat] /\ handler'.at = "closing_day"
            /\ handler'.day = d
        BY <2>1, <3>2
      <4>2. QED
        BY <2>1, <2>2, <2>3, <4>1 DEF DayInv, OpenDays, LifeTypeInv
    <3>3. QED
      BY <1>1, <2>1, <2>3, <3>1, <3>2
  <2>4. ASSUME days' = [days EXCEPT
                 ![handler.day].entry = [status |-> "written", writes |-> @.writes + 1]],
               handler' = [handler EXCEPT !.at = "closing_day"] \/ Goto("lying_down")
        PROVE  /\ days' \in Seq(Day) /\ OpenDays' \subseteq OpenDays /\ DayInv'
               /\ handler' = [at |-> "lying_down"] \/ handler' \in [at : OfDiary, day : Nat]
    <3> DEFINE new == [days[d] EXCEPT !.entry =
                         [status |-> "written", writes |-> days[d].entry.writes + 1]]
    <3>1. /\ new \in Day /\ new.open = days[d].open /\ new.entry.status = "written"
          /\ new.entry.writes = 1
      BY <2>2 DEF Day, Entry
    <3>2. days' = [days EXCEPT ![d] = new]
      BY <2>4
    <3>3. \/ handler' = [at |-> "lying_down"]
          \/ /\ handler' \in [at : OfDiary, day : Nat]
             /\ handler'.at = "closing_day" /\ handler'.day = d
      BY <2>1, <2>4 DEF Goto
    <3> HIDE DEF d, new
    <3>4. /\ days' \in Seq(Day) /\ DOMAIN days' = DOMAIN days /\ days'[d] = new
          /\ \A e \in DOMAIN days : e # d => days'[e] = days[e]
      BY <2>1, <3>1, <3>2, OneDayMoves
    <3>5. OpenDays' \subseteq OpenDays
      BY <3>1, <3>4 DEF OpenDays
    <3>6. DayInv'
      BY <2>1, <3>1, <3>3, <3>4 DEF DayInv
    <3>7. QED
      BY <3>3, <3>4, <3>5, <3>6
  <2>5. QED
    BY <1>3, <2>1, <2>3, <2>4 DEF WriteDiary
<1>4. CASE CloseDay
  <2> DEFINE d == handler.day
             new == [days[d] EXCEPT !.open = FALSE]
  <2>1. /\ OpenSleeps = {} /\ d \in DOMAIN days /\ days[d] \in Day
        /\ days[d].entry.status # "none"
    BY <1>4 DEF CloseDay, OneInv, DayInv, LifeTypeInv
  <2>2. new \in Day /\ ~new.open /\ new.entry = days[d].entry
    BY <2>1 DEF Day
  <2>3. days' = [days EXCEPT ![d] = new] /\ handler' = [at |-> "lying_down"]
    BY <1>4 DEF CloseDay, Goto
  <2> HIDE DEF d, new
  <2>4. /\ days' \in Seq(Day) /\ DOMAIN days' = DOMAIN days /\ days'[d] = new
        /\ \A e \in DOMAIN days : e # d => days'[e] = days[e]
    BY <2>1, <2>2, <2>3, OneDayMoves
  <2>5. OpenDays' \subseteq OpenDays
    BY <2>2, <2>4 DEF OpenDays
  <2>6. DayInv'
    BY <2>1, <2>2, <2>3, <2>4 DEF DayInv
  <2>7. QED
    BY <2>1, <2>3, <2>4, <2>5, <2>6
<1>5. QED
  BY <1>2, <1>3, <1>4

LEMMA ADayBegins ==
  ASSUME LifeTypeInv, OneInv, DayInv, BeginDay
  PROVE  days' \in Seq(Day) /\ AtMostOne(OpenDays)' /\ DayInv'
<1>1. handler'.at = "waiting"
  BY DEF BeginDay, Done, Waiting
<1>2. CASE UNCHANGED days
  BY <1>1, <1>2 DEF LifeTypeInv, OneInv, DayInv, OpenDays, AtMostOne, OfDiary
<1>3. CASE OpenDays = {} /\ days' = Append(days, [open |-> TRUE, entry |-> NoEntry])
  <2> DEFINE new == [open |-> TRUE, entry |-> NoEntry]
  <2>1. new \in Day /\ new.open /\ new.entry.status = "none" /\ new.entry.writes = 0
    BY DEF Day, Entry, NoEntry
  <2> HIDE DEF new
  <2>2. /\ days' \in Seq(Day) /\ Len(days') = Len(days) + 1 /\ Len(days) \in Nat
        /\ DOMAIN days = 1..Len(days) /\ DOMAIN days' = 1..Len(days')
        /\ days'[Len(days) + 1] = new
        /\ \A d \in DOMAIN days : days'[d] = days[d]
    BY <1>3, <2>1 DEF LifeTypeInv, new
  <2>3. OpenDays' = {Len(days) + 1}
    BY <1>3, <2>1, <2>2 DEF OpenDays
  <2>4. QED
    BY <1>1, <2>1, <2>2, <2>3 DEF AtMostOne, DayInv, OfDiary
<1>4. QED
  BY <1>2, <1>3, CurrentDayIs DEF BeginDay

-----------------------------------------------------------------------------
(* Every step keeps the invariant.                                         *)

\* What is to follow a step, when it is none of the diary's.
Follows(step) == handler' = [at |-> step]

LEMMA TablesStay ==
  /\ UNCHANGED activities => UNCHANGED Ongoing
  /\ UNCHANGED sleeps => UNCHANGED OpenSleeps
  /\ UNCHANGED days => UNCHANGED OpenDays
  BY DEF Ongoing, OngoingIn, OpenSleeps, OpenDays

LEMMA LifeTypeKept ==
  ASSUME LifeInv, [LifeNext]_lifeVars
  PROVE  LifeTypeInv'
<1> USE DEF LifeInv
<1>1. hour' \in Nat
  <2>1. UNCHANGED hour \/ hour' = hour + 1
    BY Zenon DEF LifeNext, HandleEvent, Hour, Tick, RunStartActivity, RunFinishActivity,
       ReflectAtBedtime, WriteDiary, CloseDay, LieDown, FallAsleep, WakeUp, BeginDay,
       PursueGoal, StartPlan, StartWork, DoHabit, StartHabit, MeetGroup, JoinIn, Stop, lifeVars
  <2>2. QED
    BY <2>1 DEF LifeTypeInv
<1>2. activities' \in Seq(Activity)
  <2>1. CASE UNCHANGED activities
    BY <2>1 DEF LifeTypeInv
  <2>2. CASE RunStartActivity \/ StartHabit \/ JoinIn
    BY <2>1, <2>2, OneBegins DEF RunStartActivity, StartHabit, JoinIn
  <2>3. CASE StartWork
    <3>1. handler.plan \in Nat
      BY <2>3 DEF StartWork, LifeTypeInv, Handler, Awake, OfDiary
    <3>2. QED
      BY <2>3, <3>1, OneBegins DEF StartWork
  <2>4. CASE RunFinishActivity \/ LieDown
    BY <2>1, <2>4, OneFinishes DEF RunFinishActivity, LieDown
  <2>5. QED
    BY <2>1, <2>2, <2>3, <2>4 DEF LifeNext, HandleEvent, Hour, Tick,
       ReflectAtBedtime, WriteDiary, CloseDay, FallAsleep, WakeUp, BeginDay,
       PursueGoal, StartPlan, DoHabit, MeetGroup, Stop, lifeVars
<1>3. sleeps' \in Seq(Sleep)
  <2>1. CASE UNCHANGED sleeps
    BY <2>1 DEF LifeTypeInv
  <2>2. CASE FallAsleep
    <3>1. OpenSleeps = {}
      BY <2>2 DEF FallAsleep, OneInv, Awake
    <3>2. QED
      BY <2>2, <3>1, SheFallsAsleep
  <2>3. CASE WakeUp
    BY <2>3, SheWakes
  <2>4. QED
    BY <2>1, <2>2, <2>3 DEF LifeNext, HandleEvent, Hour, Tick, RunStartActivity,
       RunFinishActivity, ReflectAtBedtime, WriteDiary, CloseDay, LieDown, BeginDay,
       PursueGoal, StartPlan, StartWork, DoHabit, StartHabit, MeetGroup, JoinIn, Stop, lifeVars
<1>4. days' \in Seq(Day)
  <2>1. CASE UNCHANGED days
    BY <2>1 DEF LifeTypeInv
  <2>2. CASE ReflectAtBedtime \/ WriteDiary \/ CloseDay
    BY <2>2, DayStep
  <2>3. CASE BeginDay
    BY <2>3, ADayBegins
  <2>4. QED
    BY <2>1, <2>2, <2>3 DEF LifeNext, HandleEvent, Hour, Tick, RunStartActivity,
       RunFinishActivity, LieDown, FallAsleep, WakeUp, PursueGoal, StartPlan,
       StartWork, DoHabit, StartHabit, MeetGroup, JoinIn, Stop, lifeVars
<1>5. plans' \in Seq(Plan)
  <2>1. CASE UNCHANGED plans
    BY <2>1 DEF LifeTypeInv
  <2>2. CASE PursueGoal
    <3> DEFINE new == [status |-> "planned"]
    <3>1. new \in Plan
      BY DEF Plan
    <3>2. UNCHANGED plans \/ plans' = Append(plans, new)
      BY <2>2 DEF PursueGoal
    <3>3. plans \in Seq(Plan)
      BY DEF LifeTypeInv
    <3> HIDE DEF new
    <3>4. CASE plans' = Append(plans, new)
      BY <3>1, <3>3, <3>4
    <3>5. QED
      BY <2>1, <3>2, <3>4
  <2>3. CASE StartPlan
    <3>1. plans \in Seq(Plan)
      BY DEF LifeTypeInv
    <3>2. CASE handler.plan \in DOMAIN plans
      <4> DEFINE begun == [plans[handler.plan] EXCEPT !.status = "in_progress"]
      <4>1. plans[handler.plan] \in Plan
        BY <3>1, <3>2
      <4>2. begun \in Plan
        BY <4>1 DEF Plan
      <4>3. plans' = [plans EXCEPT ![handler.plan] = begun]
        BY <2>3 DEF StartPlan
      <4> HIDE DEF begun
      <4>4. QED
        BY <3>1, <3>2, <4>2, <4>3
    <3>3. CASE handler.plan \notin DOMAIN plans
      BY <2>1, <2>3, <3>1, <3>3 DEF StartPlan
    <3>4. QED
      BY <3>2, <3>3
  <2>4. QED
    BY <2>1, <2>2, <2>3 DEF LifeNext, HandleEvent, Hour, Tick, RunStartActivity,
       RunFinishActivity, ReflectAtBedtime, WriteDiary, CloseDay, LieDown, FallAsleep,
       WakeUp, BeginDay, StartWork, DoHabit, StartHabit, MeetGroup, JoinIn, Stop, lifeVars
<1>6. handler' \in Handler
  <2>1. CASE UNCHANGED handler \/ handler' = Waiting
    BY <2>1 DEF LifeTypeInv, Handler, Waiting
  <2>2. CASE \E step \in Awake \cup {"getting_up", "wake_up"} : Follows(step)
    BY <2>2 DEF Handler, Follows
  <2>3. CASE Tick
    BY <2>2, <2>3 DEF Tick, SleepOffers, ActivityOffers, GoalOffers, HabitOffers, GroupOffers, Awake,
       Follows
  <2>4. CASE ReflectAtBedtime \/ WriteDiary \/ CloseDay
    BY <2>1, <2>2, <2>4, DayStep DEF Handler, Awake, Follows
  <2>5. CASE PursueGoal
    <3>1. Len(plans) \in Nat /\ PlansToResume \subseteq Nat
      BY DEF LifeTypeInv, PlansToResume, OpenPlans
    <3>2. handler' = Waiting \/ \E p \in Nat : handler' = [at |-> "starting_plan", plan |-> p]
      BY <2>5, <3>1 DEF PursueGoal, Done
    <3>3. QED
      BY <2>1, <3>2 DEF Handler, OfPlan
  <2>6. CASE StartPlan
    <3>1. handler \in [at : OfPlan, plan : Nat]
      BY <2>6 DEF StartPlan, LifeTypeInv, Handler, Awake, OfDiary
    <3>2. QED
      BY <2>6, <3>1 DEF StartPlan, Handler, OfPlan
  <2>7. QED
    BY <2>1, <2>2, <2>3, <2>4, <2>5, <2>6 DEF LifeNext, HandleEvent, Hour,
       RunStartActivity, RunFinishActivity, LieDown, FallAsleep, WakeUp, BeginDay,
       StartWork, DoHabit, StartHabit, MeetGroup, JoinIn, Stop, lifeVars, Goto, Done, Awake, Follows
<1>7. QED
  BY <1>1, <1>2, <1>3, <1>4, <1>5, <1>6 DEF LifeTypeInv

\* Where the handler may stand once it has moved on.
LEMMA AtFollows ==
  ASSUME NEW step, Follows(step)
  PROVE  handler'.at = step
  BY DEF Follows

LEMMA OneKept ==
  ASSUME LifeInv, [LifeNext]_lifeVars
  PROVE  OneInv'
<1> USE TablesStay DEF LifeInv, OneInv, Awake, OfDiary, OfPlan
<1>1. CASE UNCHANGED <<activities, sleeps, days, handler>>
  BY <1>1 DEF AtMostOne
<1>2. CASE UNCHANGED <<activities, sleeps, days>> /\ handler' = Waiting
  BY <1>2 DEF AtMostOne, Waiting
<1>3. CASE Tick
  <2>1. PICK circadian \in CircadianSleepiness :
          \E winner \in SleepOffers(circadian) \cup ActivityOffers \cup GoalOffers
                          \cup HabitOffers \cup GroupOffers : Follows(winner)
    BY <1>3 DEF Tick, Follows
  <2>2. PICK winner \in {"wake_up", "go_to_sleep", "finish_activity", "start_activity",
                         "pursue_goal", "do_habit", "attend_group"} :
          Follows(winner) /\ (winner # "wake_up" => CurrentSleep = 0)
    BY <2>1 DEF SleepOffers, ActivityOffers, GoalOffers, HabitOffers, GroupOffers
  <2>3. handler'.at = winner /\ (winner # "wake_up" => OpenSleeps = {})
    BY <2>2, AtFollows, CurrentSleepIs
  <2>4. QED
    BY <1>3, <2>2, <2>3 DEF Tick, AtMostOne
<1>4. ASSUME NEW plan \in Nat, StartActivity(plan), OpenSleeps = {}, handler' = Waiting,
             UNCHANGED <<sleeps, days>>
      PROVE  OneInv'
  <2>1. Ongoing' = {Len(activities) + 1}
    BY <1>4, OneBegins
  <2>2. QED
    BY <1>4, <2>1 DEF AtMostOne, Waiting
<1>5. ASSUME NEW a \in Ongoing, FinishActivity(a), UNCHANGED <<sleeps, days>>,
             OpenSleeps = {}, handler' = Waiting \/ Follows("falling_asleep")
      PROVE  OneInv'
  <2>1. Ongoing' = {}
    BY <1>5, OneFinishes DEF AtMostOne
  <2>2. QED
    BY <1>5, <2>1 DEF AtMostOne, Waiting, Follows
<1>6. CASE RunStartActivity
  BY <1>2, <1>4, <1>6 DEF RunStartActivity, Done
<1>7. CASE RunFinishActivity
  BY <1>2, <1>5, <1>7 DEF RunFinishActivity, Done
<1>8. CASE LieDown
  <2>1. CASE Ongoing = {} /\ UNCHANGED activities
    <3>1. handler'.at = "falling_asleep" /\ UNCHANGED <<sleeps, days>> /\ OpenSleeps = {}
      BY <1>8 DEF LieDown, Goto
    <3>2. QED
      BY <2>1, <3>1 DEF AtMostOne
  <2>2. QED
    BY <1>5, <1>8, <2>1 DEF LieDown, Goto, Follows
<1>9. CASE FallAsleep
  <2>1. OpenSleeps = {} /\ Ongoing = {} /\ handler'.at = "waiting"
    BY <1>9 DEF FallAsleep, Done, Waiting
  <2>2. AtMostOne(OpenSleeps)'
    BY <1>9, <2>1, SheFallsAsleep
  <2>3. QED
    BY <1>9, <2>1, <2>2 DEF FallAsleep, AtMostOne
<1>10. CASE WakeUp
  <2>1. OpenSleeps' = {} /\ handler'.at \in {"waiting", "getting_up"}
    BY <1>10, SheWakes DEF WakeUp, Done, Waiting, Goto
  <2>2. QED
    BY <1>10, <2>1 DEF WakeUp, AtMostOne
<1>11. CASE BeginDay
  <2>1. AtMostOne(OpenDays)' /\ handler'.at = "waiting"
    BY <1>11, ADayBegins DEF BeginDay, Done, Waiting
  <2>2. QED
    BY <1>11, <2>1 DEF BeginDay, AtMostOne
<1>12. CASE ReflectAtBedtime \/ WriteDiary \/ CloseDay
  <2>1. /\ OpenDays' \subseteq OpenDays /\ UNCHANGED <<activities, sleeps>>
        /\ handler'.at # "falling_asleep"
        /\ OpenSleeps # {} => handler'.at = "waiting"
    BY <1>12, DayStep DEF ReflectAtBedtime, WriteDiary, CloseDay, Waiting
  <2>2. QED
    BY <2>1 DEF AtMostOne
<1>13. CASE PursueGoal \/ StartPlan \/ DoHabit \/ MeetGroup
  <2>1. /\ UNCHANGED <<activities, sleeps, days>> /\ OpenSleeps = {}
        /\ handler'.at # "falling_asleep"
    BY <1>13 DEF PursueGoal, StartPlan, DoHabit, MeetGroup, Done, Goto, Waiting, LifeTypeInv, Handler
  <2>2. QED
    BY <2>1 DEF AtMostOne
<1>14. CASE StartWork
  <2>1. handler.plan \in Nat
    BY <1>14 DEF StartWork, LifeTypeInv, Handler
  <2>2. QED
    BY <1>4, <1>14, <2>1 DEF StartWork, Done
<1>15. CASE StartHabit \/ JoinIn
  BY <1>4, <1>15 DEF StartHabit, JoinIn, Done
<1>16. QED
  BY <1>1, <1>2, <1>3, <1>6, <1>7, <1>8, <1>9, <1>10, <1>11, <1>12, <1>13, <1>14, <1>15
     DEF LifeNext, HandleEvent, Hour, Stop, lifeVars

LEMMA DayKept ==
  ASSUME LifeInv, [LifeNext]_lifeVars
  PROVE  DayInv'
<1> USE DEF LifeInv, OfDiary
<1>1. CASE UNCHANGED <<days, handler>>
  BY <1>1 DEF DayInv
<1>2. CASE UNCHANGED days /\ handler'.at \notin OfDiary
  BY <1>2 DEF DayInv
<1>3. CASE Tick
  <2>1. \E step \in {"wake_up", "go_to_sleep", "finish_activity", "start_activity",
                     "pursue_goal", "do_habit", "attend_group"} : Follows(step)
    BY <1>3 DEF Tick, SleepOffers, ActivityOffers, GoalOffers, HabitOffers, GroupOffers, Follows
  <2>2. QED
    BY <1>2, <1>3, <2>1, AtFollows DEF Tick
<1>4. CASE ReflectAtBedtime \/ WriteDiary \/ CloseDay
  BY <1>4, DayStep
<1>5. CASE BeginDay
  BY <1>5, ADayBegins
<1>6. CASE StartPlan
  <2>1. handler'.at = "starting_work"
    BY <1>6 DEF StartPlan, LifeTypeInv, Handler, Awake, OfPlan
  <2>2. QED
    BY <1>2, <1>6, <2>1 DEF StartPlan
<1>7. CASE PursueGoal
  BY <1>2, <1>7 DEF PursueGoal, Done, Waiting
<1>8. QED
  BY <1>1, <1>2, <1>3, <1>4, <1>5, <1>6, <1>7 DEF LifeNext, HandleEvent, Hour,
     RunStartActivity, RunFinishActivity, LieDown, FallAsleep, WakeUp, StartWork,
     DoHabit, StartHabit, MeetGroup, JoinIn, Stop, lifeVars, Goto, Done, Waiting

-----------------------------------------------------------------------------
(* The theorems.                                                           *)

\* What each step of a handler relies on holds wherever the handlers before
\* it were cut.
THEOREM LifeInvariance == LifeSpec => []LifeInv
<1>1. LifeInv /\ [LifeNext]_lifeVars => LifeInv'
  BY LifeTypeKept, OneKept, DayKept DEF LifeInv
<1>2. QED
  BY <1>1, LifeInitially, PTL DEF LifeSpec

\* One activity at most, one sleep at most, and nothing going on while she
\* sleeps, for any nights, naps and stops.
THEOREM SheDoesOneThing == LifeSpec => []OneThingAtATime
<1>1. ASSUME NEW S, AtMostOne(S)
      PROVE  Cardinality(S) <= 1
  <2>1. CASE S = {}
    BY <2>1, FS_EmptySet
  <2>2. CASE S # {}
    <3>1. PICK s : S = {s}
      BY <1>1, <2>2 DEF AtMostOne
    <3>2. Cardinality(S) = 1
      BY <3>1, FS_Singleton, Zenon
    <3>3. QED
      BY <3>2
  <2>3. QED
    BY <2>1, <2>2
<1>2. LifeInv => OneThingAtATime
  BY <1>1, CurrentSleepIs DEF LifeInv, OneInv, OneThingAtATime
<1>3. QED
  BY <1>2, LifeInvariance, PTL

\* A day that is over has its entry owed or written, and no entry is written
\* twice, however often its bedtime is taken up again.
THEOREM DaysAreAccountedFor == LifeSpec => []DayIsAccountedFor
<1>1. LifeInv => DayIsAccountedFor
  BY DEF LifeInv, DayInv, DayIsAccountedFor
<1>2. QED
  BY <1>1, LifeInvariance, PTL

-----------------------------------------------------------------------------
(***************************************************************************)
(* Nothing she knows is hindsight and every answer is accounted for, for   *)
(* any statements, dates, gaps and lengths of the past.                    *)
(*                                                                         *)
(* Neither property is inductive.  What a handler in flight holds was      *)
(* judged earlier: the invariant says that what it is about to keep        *)
(* existed at the moment it began, that what a coverage job is about to    *)
(* put into the layer is not in it yet - so that no row is ever changed -  *)
(* and that what a search has learned, its own tool call brought.          *)
(***************************************************************************)

Is(place) == doing.at = place

\* A handler's record has the fields its place goes with.
Shaped ==
  /\ "at" \in DOMAIN doing
  /\ Is("fulfil") => "left" \in DOMAIN doing
  /\ Is("exposing") \/ Is("absorbing") => {"left", "note", "moment"} \subseteq DOMAIN doing
  /\ Is("absorbing") => {"learned", "gap"} \subseteq DOMAIN doing /\ doing.learned \in Nat

Call == [gap : Gap, at : Int, status : {"running", "succeeded", "failed"}]

KnowledgeTypeInv ==
  /\ clockTime \in Int
  /\ layer = [s \in Statement |-> layer[s]]
  /\ calls \in Seq(Call)
  /\ gaps = [g \in Gap |-> gaps[g]]
  /\ \A g \in Gap : "status" \in DOMAIN gaps[g]
  /\ Shaped

\* What is in her hands is about statements, and what she is to keep existed.
HandsInv ==
  /\ Is("fulfil") => doing.left \subseteq {s \in Statement : ~Registered(s)}
  /\ Is("exposing") \/ Is("absorbing") =>
       /\ doing.left \subseteq Statement
       /\ doing.note \subseteq {s \in Statement : ExistedAt(s, doing.moment)}

KnownInv ==
  \A a \in acquired : a.what \in Statement /\ ExistedAt(a.what, a.at)

\* The searches on record and the one in flight agree with the tool calls.
LastCall == calls[Len(calls)].status
SearchesInv ==
  /\ Is("chosen") \/ Is("calling") \/ Is("absorbing") \/ Is("closing") => doing.gap \in Gap
  /\ Is("calling") => Len(calls) > 0 /\ LastCall = "running"
  /\ Is("absorbing") =>
       /\ Len(calls) > 0
       /\ \/ LastCall = "succeeded"
          \/ LastCall = "failed" /\ doing.learned = 0 /\ doing.left = {} /\ doing.note = {}
  /\ \A s \in searches : s.acquired > 0 =>
       s.call \in 1..Len(calls) /\ calls[s.call].status = "succeeded"
  /\ Is("closing") /\ doing.learned > 0 =>
       \E s \in searches : s.gap = doing.gap /\ s.acquired > 0

AnsweredInv ==
  \A g \in Gap : gaps[g].status = "answered" =>
    \E s \in searches : s.gap = g /\ s.acquired > 0

-----------------------------------------------------------------------------
(* A row of the layer, once there, is never changed.                       *)

LEMMA StillExisted ==
  ASSUME NEW s \in Statement, NEW t, Registered(s) => layer'[s] = layer[s],
         ExistedAt(s, t)
  PROVE  ExistedAt(s, t)'
  BY DEF ExistedAt, Registered

LEMMA LayerKept ==
  ASSUME UNCHANGED layer, NEW s, NEW t
  PROVE  ExistedAt(s, t)' = ExistedAt(s, t) /\ Registered(s)' = Registered(s)
  BY DEF ExistedAt, Registered

-----------------------------------------------------------------------------
(* The shapes of things.                                                   *)

LEMMA KnowledgeTypeInitially == KnowledgeInit => KnowledgeTypeInv
<1>1. SUFFICES ASSUME KnowledgeInit PROVE KnowledgeTypeInv
  OBVIOUS
<1>2. Shaped /\ calls = <<>>
  BY <1>1 DEF KnowledgeInit, Shaped, Is
<1>3. <<>> \in Seq(Call)
  OBVIOUS
<1>4. layer = [s \in Statement |-> layer[s]]
  BY <1>1 DEF KnowledgeInit
<1>5. \A g \in Gap : gaps[g] = [status |-> "none", action |-> ""]
  BY <1>1 DEF KnowledgeInit
<1>6. gaps = [g \in Gap |-> gaps[g]] /\ \A g \in Gap : "status" \in DOMAIN gaps[g]
  BY <1>1, <1>5 DEF KnowledgeInit
<1>7. clockTime \in Int /\ calls \in Seq(Call)
  <2>1. clockTime = 0
    BY <1>1, Zenon DEF KnowledgeInit
  <2>2. QED
    BY <1>2, <1>3, <2>1
<1>8. QED
  BY <1>2, <1>4, <1>6, <1>7, Zenon DEF KnowledgeTypeInv

LEMMA ShapeKept ==
  ASSUME Shaped, [KnowledgeNext]_knowledgeVars
  PROVE  Shaped'
<1> USE DEF Shaped, Is, Nothing
<1>1. CASE UNCHANGED doing
  BY <1>1
<1>2. CASE PlanWindow
  BY <1>2 DEF PlanWindow
<1>3. CASE RegisterNext
  BY <1>3 DEF RegisterNext
<1>4. CASE CompleteJob
  BY <1>4 DEF CompleteJob
<1>5. CASE LiveBlock
  BY <1>5 DEF LiveBlock
<1>6. CASE Expose
  BY <1>6 DEF Expose
<1>7. CASE Keep
  BY <1>7 DEF Keep
<1>8. CASE EndBlock
  BY <1>8 DEF EndBlock
<1>9. CASE Consider
  BY <1>9 DEF Consider
<1>10. CASE NotPursued
  BY <1>10 DEF NotPursued
<1>11. CASE KnowledgeStop
  BY <1>11 DEF KnowledgeStop
<1>12. CASE RecordSearch
  BY <1>12 DEF RecordSearch
<1>13. CASE CloseGap
  BY <1>13 DEF CloseGap
<1>14. CASE ToolFails
  BY <1>14 DEF ToolFails
<1>15. CASE ToolAnswers
  BY <1>15 DEF ToolAnswers
<1>16. CASE CallTool
  BY <1>16 DEF CallTool
<1>20. QED
  BY <1>1, <1>2, <1>3, <1>4, <1>5, <1>6, <1>7, <1>8, <1>9, <1>10, <1>11, <1>12, <1>13, <1>14, <1>15, <1>16
     DEF KnowledgeNext, RaiseGap, KnowledgeTime, knowledgeVars

LEMMA CallsKept ==
  ASSUME KnowledgeTypeInv, SearchesInv, [KnowledgeNext]_knowledgeVars
  PROVE  calls' \in Seq(Call)
<1>1. CASE UNCHANGED calls
  BY <1>1 DEF KnowledgeTypeInv
<1>2. CASE CallTool
  <2>1. [gap |-> doing.gap, at |-> clockTime, status |-> "running"] \in Call
    BY <1>2 DEF CallTool, KnowledgeTypeInv, SearchesInv, Is, Call
  <2>2. QED
    BY <1>2, <2>1 DEF CallTool, KnowledgeTypeInv
<1>3. ASSUME NEW new \in {"succeeded", "failed"}, CallSettles(new), Is("calling")
      PROVE  calls' \in Seq(Call)
  <2>1. Len(calls) \in 1..Len(calls)
    BY <1>3 DEF KnowledgeTypeInv, SearchesInv
  <2>2. calls[Len(calls)] \in Call
    BY <2>1 DEF KnowledgeTypeInv
  <2>3. [calls[Len(calls)] EXCEPT !.status = new] \in Call
    BY <1>3, <2>2 DEF Call
  <2>4. QED
    BY <1>3, <2>1, <2>3 DEF CallSettles, KnowledgeTypeInv
<1>4. CASE ToolAnswers \/ ToolFails
  BY <1>3, <1>4 DEF ToolAnswers, ToolFails, Is
<1>5. QED
  BY <1>1, <1>2, <1>4 DEF KnowledgeNext, PlanWindow, RegisterNext, CompleteJob, LiveBlock,
     Expose, Keep, EndBlock, RaiseGap, Consider, NotPursued, RecordSearch, CloseGap,
     KnowledgeTime, KnowledgeStop, knowledgeVars

LEMMA GapsKept ==
  ASSUME KnowledgeTypeInv, SearchesInv, [KnowledgeNext]_knowledgeVars
  PROVE  /\ gaps' = [g \in Gap |-> gaps'[g]]
         /\ \A g \in Gap : "status" \in DOMAIN gaps'[g]
<1>1. CASE UNCHANGED gaps
  BY <1>1 DEF KnowledgeTypeInv
<1>2. CASE RaiseGap
  BY <1>2 DEF RaiseGap, KnowledgeTypeInv
<1>3. CASE Consider
  BY <1>3 DEF Consider, OpenGaps, KnowledgeTypeInv
<1>4. CASE CloseGap
  BY <1>4 DEF CloseGap, KnowledgeTypeInv, SearchesInv, Is
<1>5. QED
  BY <1>1, <1>2, <1>3, <1>4 DEF KnowledgeNext, PlanWindow, RegisterNext, CompleteJob,
     LiveBlock, Expose, Keep, EndBlock, NotPursued, CallTool, ToolAnswers, ToolFails,
     RecordSearch, KnowledgeTime, KnowledgeStop, knowledgeVars

LEMMA KnowledgeTypeKept ==
  ASSUME KnowledgeTypeInv, SearchesInv, [KnowledgeNext]_knowledgeVars
  PROVE  KnowledgeTypeInv'
<1>1. clockTime' \in Int
  <2>1. UNCHANGED clockTime \/ clockTime' = clockTime + 1
    BY Zenon DEF KnowledgeNext, PlanWindow, RegisterNext, CompleteJob, LiveBlock, Expose,
       Keep, EndBlock, RaiseGap, Consider, NotPursued, CallTool, ToolAnswers, ToolFails,
       RecordSearch, CloseGap, KnowledgeTime, KnowledgeStop, knowledgeVars
  <2>2. QED
    BY <2>1 DEF KnowledgeTypeInv
<1>2. layer' = [s \in Statement |-> layer'[s]]
  BY DEF KnowledgeTypeInv, KnowledgeNext, PlanWindow, RegisterNext, CompleteJob, LiveBlock, Expose,
     Keep, EndBlock, RaiseGap, Consider, NotPursued, CallTool, ToolAnswers, ToolFails,
     RecordSearch, CloseGap, KnowledgeTime, KnowledgeStop, knowledgeVars
<1>3. Shaped'
  BY ShapeKept DEF KnowledgeTypeInv
<1>4. QED
  BY <1>1, <1>2, <1>3, CallsKept, GapsKept DEF KnowledgeTypeInv

-----------------------------------------------------------------------------
(* No row of the layer is changed, and what is kept existed.               *)

LEMMA RowsStay ==
  ASSUME KnowledgeTypeInv, HandsInv, [KnowledgeNext]_knowledgeVars
  PROVE  \A s \in Statement : Registered(s) => layer'[s] = layer[s]
<1>1. CASE UNCHANGED layer
  BY <1>1
<1>2. CASE RegisterNext
  BY <1>2 DEF RegisterNext, HandsInv, KnowledgeTypeInv, Is
<1>3. CASE ToolAnswers
  BY <1>3 DEF ToolAnswers
<1>4. QED
  BY <1>1, <1>2, <1>3 DEF KnowledgeNext, PlanWindow, CompleteJob, LiveBlock, Expose, Keep,
     EndBlock, RaiseGap, Consider, NotPursued, CallTool, ToolFails, RecordSearch,
     CloseGap, KnowledgeTime, KnowledgeStop, knowledgeVars

LEMMA HandsKept ==
  ASSUME KnowledgeTypeInv, HandsInv, [KnowledgeNext]_knowledgeVars
  PROVE  HandsInv'
<1>1. CASE UNCHANGED <<layer, doing>>
  BY <1>1 DEF HandsInv, Is, ExistedAt, Registered
<1>2. CASE doing' = Nothing
  BY <1>2 DEF HandsInv, Is, Nothing
<1>3. CASE PlanWindow
  <2>1. CASE doing' = [doing EXCEPT !.start = WindowEnd(doing.start)]
    BY <1>3, <2>1 DEF PlanWindow, KnowledgeTypeInv, Shaped, HandsInv, Is
  <2>2. CASE doing' = [at |-> "fulfil", start |-> doing.start,
                       left |-> {s \in Offered(doing.start) : ~Registered(s)}]
    <3>1. Is("fulfil")' /\ ~Is("exposing")' /\ ~Is("absorbing")'
      BY <2>2 DEF Is
    <3>2. doing'.left \subseteq {s \in Statement : ~Registered(s)} /\ UNCHANGED layer
      BY <1>3, <2>2 DEF PlanWindow, Offered
    <3>3. QED
      BY <3>1, <3>2 DEF HandsInv, Registered
  <2>3. QED
    BY <1>2, <1>3, <2>1, <2>2 DEF PlanWindow
<1>4. CASE RegisterNext
  <2>1. PICK s \in doing.left :
          \/ doing' = Nothing
          \/ /\ layer' = [layer EXCEPT ![s] = [from |-> From[s], until |-> Until[s]]]
             /\ doing' = [doing EXCEPT !.left = @ \ {s}]
    BY <1>4 DEF RegisterNext
  <2>2. CASE doing' = [doing EXCEPT !.left = @ \ {s}]
             /\ layer' = [layer EXCEPT ![s] = [from |-> From[s], until |-> Until[s]]]
    <3>1. doing'.left = doing.left \ {s} /\ Is("fulfil")'
          /\ ~Is("exposing")' /\ ~Is("absorbing")'
      BY <1>4, <2>2 DEF RegisterNext, KnowledgeTypeInv, Shaped, Is
    <3>2. \A r \in doing.left \ {s} : r \in Statement /\ layer'[r] = NoItem
      BY <1>4, <2>2 DEF RegisterNext, HandsInv, KnowledgeTypeInv, Is, Registered
    <3>3. QED
      BY <3>1, <3>2 DEF HandsInv, Registered
  <2>3. QED
    BY <1>2, <2>1, <2>2
<1>5. CASE LiveBlock
  <2>1. \A c \in Selected : c \subseteq {s \in Statement : ExistedAt(s, clockTime)}
    BY DEF Selected
  <2>2. QED
    BY <1>5, <2>1 DEF LiveBlock, HandsInv, Is
<1>6. CASE Expose
  <2>1. doing.left \subseteq Statement /\ doing.note = {} /\ UNCHANGED layer
    BY <1>6 DEF Expose, HandsInv, Is
  <2>2. doing'.at = doing.at /\ doing'.moment = doing.moment /\ doing'.left \subseteq doing.left
    BY <1>6 DEF Expose, KnowledgeTypeInv, Shaped, Is
  <2>3. \A s \in doing'.note : s \in Statement /\ ExistedAt(s, doing.moment)
    <3>1. PICK s \in doing.left :
            \/ \E l : doing' = [doing EXCEPT !.left = l]
            \/ /\ Guard(s, doing.moment)
               /\ doing' = [doing EXCEPT !.left = @ \ {s}, !.note = {s}]
      BY <1>6 DEF Expose
    <3>2. doing'.note = {} \/ (doing'.note = {s} /\ Guard(s, doing.moment))
      BY <1>6, <2>1, <3>1 DEF Expose, KnowledgeTypeInv, Shaped, Is
    <3>3. QED
      BY <2>1, <3>2 DEF Guard
  <2>4. QED
    BY <1>6, <2>1, <2>2, <2>3 DEF Expose, HandsInv, Is, ExistedAt, Registered
<1>7. CASE Keep
  BY <1>7 DEF Keep, KnowledgeTypeInv, Shaped, HandsInv, Is
<1>8. CASE ToolAnswers
  BY <1>8 DEF ToolAnswers, RejectTheFuture, HandsInv, Is
<1>9. CASE ToolFails
  BY <1>9 DEF ToolFails, HandsInv, Is
<1>10. CASE CompleteJob \/ Consider \/ CallTool \/ RecordSearch
  BY <1>2, <1>10 DEF CompleteJob, Consider, CallTool, RecordSearch, HandsInv, Is
<1>11. QED
  BY <1>1, <1>2, <1>3, <1>4, <1>5, <1>6, <1>7, <1>8, <1>9, <1>10 DEF KnowledgeNext,
     EndBlock, RaiseGap, NotPursued, CloseGap, KnowledgeTime, KnowledgeStop, knowledgeVars

LEMMA KnownKept ==
  ASSUME KnowledgeTypeInv, HandsInv, KnownInv, [KnowledgeNext]_knowledgeVars
  PROVE  KnownInv'
<1>1. \A s \in Statement : \A t : ExistedAt(s, t) => ExistedAt(s, t)'
  BY RowsStay DEF ExistedAt, Registered
<1>2. \A a \in acquired' :
        \/ a \in acquired
        \/ a.what \in Statement /\ ExistedAt(a.what, a.at)
  <2>1. CASE UNCHANGED acquired
    BY <2>1
  <2>2. CASE Keep
    BY <2>2 DEF Keep, Acquire, HandsInv, Is
  <2>3. QED
    BY <2>1, <2>2 DEF KnowledgeNext, PlanWindow, RegisterNext, CompleteJob, LiveBlock,
       Expose, EndBlock, RaiseGap, Consider, NotPursued, CallTool, ToolAnswers, ToolFails,
       RecordSearch, CloseGap, KnowledgeTime, KnowledgeStop, knowledgeVars
<1>3. QED
  BY <1>1, <1>2 DEF KnownInv

-----------------------------------------------------------------------------
(* Searches and their calls.                                               *)

LEMMA SearchesKept ==
  ASSUME KnowledgeTypeInv, SearchesInv, [KnowledgeNext]_knowledgeVars
  PROVE  SearchesInv'
<1>1. CASE UNCHANGED <<calls, searches, doing>>
  BY <1>1 DEF SearchesInv, Is, LastCall
<1>2. CASE doing' = Nothing /\ UNCHANGED <<calls, searches>>
  BY <1>2 DEF SearchesInv, Is, Nothing
<1>3. CASE PlanWindow \/ RegisterNext \/ CompleteJob \/ LiveBlock
  BY <1>2, <1>3 DEF PlanWindow, RegisterNext, CompleteJob, LiveBlock, KnowledgeTypeInv, Shaped,
     SearchesInv, Is
<1>4. CASE Consider
  BY <1>2, <1>4 DEF Consider, OpenGaps, SearchesInv, Is
<1>5. CASE Expose
  <2>1. /\ Is("absorbing") => doing'.learned = doing.learned /\ doing'.gap = doing.gap
        /\ doing'.at = doing.at
        /\ doing.left # {} /\ doing.at \in {"exposing", "absorbing"}
    BY <1>5 DEF Expose, KnowledgeTypeInv, Shaped, Is
  <2>2. QED
    BY <1>5, <2>1 DEF Expose, SearchesInv, Is, LastCall
<1>6. CASE Keep
  <2>1. /\ Is("absorbing") => doing'.gap = doing.gap
        /\ doing'.at = doing.at
        /\ doing.note # {} /\ doing.at \in {"exposing", "absorbing"}
    BY <1>6 DEF Keep, KnowledgeTypeInv, Shaped, Is
  <2>2. QED
    BY <1>6, <2>1 DEF Keep, SearchesInv, Is, LastCall
<1>7. CASE CallTool
  <2>1. /\ Len(calls') = Len(calls) + 1 /\ calls'[Len(calls')].status = "running"
        /\ \A i \in 1..Len(calls) : calls'[i] = calls[i]
    BY <1>7 DEF CallTool, KnowledgeTypeInv
  <2>2. Len(calls) \in Nat
    BY DEF KnowledgeTypeInv
  <2>3. \A s \in searches' : s.acquired > 0 =>
          s.call \in 1..Len(calls') /\ calls'[s.call].status = "succeeded"
    BY <1>7, <2>1, <2>2 DEF CallTool, SearchesInv
  <2>4. Is("calling")' /\ doing'.gap = doing.gap /\ doing.gap \in Gap
    BY <1>7 DEF CallTool, SearchesInv, Is
  <2>5. QED
    BY <2>1, <2>2, <2>3, <2>4 DEF SearchesInv, Is, LastCall
<1>8. ASSUME NEW new \in {"succeeded", "failed"}, CallSettles(new), UNCHANGED searches,
             Is("calling"), Is("absorbing")', doing'.gap = doing.gap, doing'.learned = 0,
             new = "succeeded" \/ (doing'.left = {} /\ doing'.note = {})
      PROVE  SearchesInv'
  <2>1. Len(calls) \in 1..Len(calls) /\ LastCall = "running" /\ doing.gap \in Gap
    BY <1>8 DEF KnowledgeTypeInv, SearchesInv
  <2>2. "status" \in DOMAIN calls[Len(calls)]
    <3>1. calls[Len(calls)] \in Call
      BY <2>1 DEF KnowledgeTypeInv
    <3>2. QED
      BY <3>1 DEF Call
  <2>3. /\ Len(calls') = Len(calls) /\ calls'[Len(calls)].status = new
        /\ \A i \in 1..Len(calls) : i # Len(calls) => calls'[i] = calls[i]
    BY <1>8, <2>1, <2>2 DEF CallSettles, KnowledgeTypeInv
  <2>4. \A s \in searches' : s.acquired > 0 =>
          s.call \in 1..Len(calls') /\ calls'[s.call].status = "succeeded"
    BY <1>8, <2>1, <2>3 DEF SearchesInv, LastCall
  <2>5. QED
    BY <1>8, <2>1, <2>3, <2>4 DEF SearchesInv, Is, LastCall
<1>9. CASE ToolAnswers
  BY <1>8, <1>9 DEF ToolAnswers, Is
<1>10. CASE ToolFails
  BY <1>8, <1>10 DEF ToolFails, Is
<1>11. CASE RecordSearch
  <2> DEFINE new == [gap |-> doing.gap, at |-> doing.moment, call |-> Len(calls),
                     outcome |-> doing.outcome, acquired |-> doing.learned]
  <2>1. /\ searches' = searches \cup {new}
        /\ new.gap = doing.gap /\ new.call = Len(calls) /\ new.acquired = doing.learned
    BY <1>11 DEF RecordSearch
  <2> HIDE DEF new
  <2>2. /\ Is("absorbing") /\ Is("closing")' /\ doing'.gap = doing.gap /\ UNCHANGED calls
        /\ doing'.learned = doing.learned /\ doing.gap \in Gap
    BY <1>11 DEF RecordSearch, SearchesInv, Is
  <2>3. doing.learned > 0 => Len(calls) \in 1..Len(calls) /\ LastCall = "succeeded"
    BY <2>2 DEF SearchesInv, KnowledgeTypeInv
  <2>4. \A s \in searches' : s.acquired > 0 =>
          s.call \in 1..Len(calls') /\ calls'[s.call].status = "succeeded"
    BY <2>1, <2>2, <2>3 DEF SearchesInv, LastCall
  <2>5. QED
    BY <2>1, <2>2, <2>4 DEF SearchesInv, Is
<1>12. QED
  BY <1>1, <1>2, <1>3, <1>4, <1>5, <1>6, <1>7, <1>9, <1>10, <1>11 DEF KnowledgeNext,
     EndBlock, RaiseGap, NotPursued, CloseGap, KnowledgeTime, KnowledgeStop, knowledgeVars

LEMMA AnsweredKept ==
  ASSUME KnowledgeTypeInv, SearchesInv, AnsweredInv, [KnowledgeNext]_knowledgeVars
  PROVE  AnsweredInv'
<1>1. searches \subseteq searches'
  BY DEF KnowledgeNext, PlanWindow, RegisterNext, CompleteJob, LiveBlock, Expose, Keep,
     EndBlock, RaiseGap, Consider, NotPursued, CallTool, ToolAnswers, ToolFails,
     RecordSearch, CloseGap, KnowledgeTime, KnowledgeStop, knowledgeVars
<1>2. CASE UNCHANGED gaps
  BY <1>1, <1>2 DEF AnsweredInv
<1>3. CASE RaiseGap
  BY <1>1, <1>3 DEF RaiseGap, AnsweredInv, KnowledgeTypeInv
<1>4. CASE Consider
  <2>1. PICK g \in Gap : gaps' = [gaps EXCEPT ![g] =
                    [status |-> IF Decision(g) \in {"ignore", "avoid"} THEN Decision(g)
                                ELSE "open",
                     action |-> Decision(g)]]
    BY <1>4 DEF Consider, OpenGaps
  <2>2. gaps'[g].status # "answered"
    BY <2>1 DEF KnowledgeTypeInv
  <2>3. \A h \in Gap : h # g => gaps'[h] = gaps[h]
    BY <2>1 DEF KnowledgeTypeInv
  <2>4. QED
    BY <1>1, <2>2, <2>3 DEF AnsweredInv
<1>5. CASE CloseGap
  BY <1>1, <1>5 DEF CloseGap, Answered, AnsweredInv, SearchesInv, KnowledgeTypeInv, Is
<1>6. QED
  BY <1>2, <1>3, <1>4, <1>5 DEF KnowledgeNext, PlanWindow, RegisterNext, CompleteJob,
     LiveBlock, Expose, Keep, EndBlock, NotPursued, CallTool, ToolAnswers, ToolFails,
     RecordSearch, KnowledgeTime, KnowledgeStop, knowledgeVars

-----------------------------------------------------------------------------
(* The theorems.                                                           *)

KnowledgeInv == KnowledgeTypeInv /\ SearchesInv /\ HandsInv /\ KnownInv /\ AnsweredInv

\* What a handler in flight holds agrees with the tables, in every behaviour.
THEOREM KnowledgeInvariance == KnowledgeSpec => []KnowledgeInv
<1>1. KnowledgeInit => KnowledgeInv
  <2>1. SUFFICES ASSUME KnowledgeInit PROVE KnowledgeInv
    OBVIOUS
  <2>2. /\ doing.at = "planning" /\ acquired = {} /\ searches = {}
        /\ \A g \in Gap : gaps[g].status = "none"
    BY <2>1 DEF KnowledgeInit
  <2>3. HandsInv /\ KnownInv /\ SearchesInv /\ AnsweredInv
    BY <2>2 DEF HandsInv, KnownInv, SearchesInv, AnsweredInv, Is
  <2>4. QED
    BY <2>1, <2>3, KnowledgeTypeInitially DEF KnowledgeInv
<1>2. KnowledgeInv /\ [KnowledgeNext]_knowledgeVars => KnowledgeInv'
  BY KnowledgeTypeKept, SearchesKept, HandsKept, KnownKept, AnsweredKept DEF KnowledgeInv
<1>3. QED
  BY <1>1, <1>2, PTL DEF KnowledgeSpec

\* Nothing she knows is hindsight: what she acquired was public when she did,
\* however coverage, exposure and searches follow each other and stop.
THEOREM NothingIsHindsight == KnowledgeSpec => []NothingFromTheFuture
<1>1. KnowledgeInv => NothingFromTheFuture
  BY DEF KnowledgeInv, KnownInv, NothingFromTheFuture
<1>2. QED
  BY <1>1, KnowledgeInvariance, PTL

\* A gap that counts as answered has a search on record that taught her
\* something by a tool call that succeeded, wherever a search was cut.
THEOREM AnswersHaveSearches == KnowledgeSpec => []AnswersAreAccountedFor
<1>1. KnowledgeInv => AnswersAreAccountedFor
  BY DEF KnowledgeInv, SearchesInv, AnsweredInv, AnswersAreAccountedFor
<1>2. QED
  BY <1>1, KnowledgeInvariance, PTL

-----------------------------------------------------------------------------
(***************************************************************************)
(* The people of her world.  A contact is with one of them to its end.     *)
(***************************************************************************)

Contact ==
  {NoContact} \cup [at : {"chosen"}, npc : Npc]
    \cup [at : {"dispatched", "proposed", "promoting"}, npc : Npc, valence : Valence]

SocietyInv ==
  /\ npcs \in [Npc -> 0..2]
  /\ promoted = [n \in Npc |-> promoted[n]]
  /\ contact \in Contact
  /\ PromotionSurvivesAStop

LEMMA SocietyInitially == SocietyInit => SocietyInv
  BY PromotionAssumption DEF SocietyInit, SocietyInv, Contact, PromotionSurvivesAStop

\* Where a contact stands; nobody's tier moves while it goes on.
LEMMA ContactKeeps ==
  ASSUME SocietyInv, UNCHANGED <<npcs, promoted>>,
         ChooseContact \/ Interact \/ HandleInteraction \/ RunEnds \/ SocietyStop
  PROVE  SocietyInv'
<1>1. CASE contact' = NoContact \/ contact' = contact
  BY <1>1 DEF SocietyInv, Contact, PromotionSurvivesAStop
<1>2. CASE ChooseContact
  <2>1. contact' \in [at : {"chosen"}, npc : Npc]
    BY <1>2 DEF ChooseContact, Contactable
  <2>2. QED
    BY <2>1 DEF SocietyInv, Contact, PromotionSurvivesAStop
<1>3. CASE Interact /\ contact' # NoContact
  <2>1. contact.npc \in Npc
    BY <1>3 DEF Interact, SocietyInv, Contact, NoContact
  <2>2. contact' \in [at : {"dispatched"}, npc : Npc, valence : Valence]
    BY <1>3, <2>1 DEF Interact
  <2>3. QED
    BY <2>2 DEF SocietyInv, Contact, PromotionSurvivesAStop
<1>4. CASE HandleInteraction \/ RunEnds
  <2>1. /\ contact \in [at : {"dispatched", "proposed"}, npc : Npc, valence : Valence]
        /\ \E at \in {"dispatched", "proposed", "promoting"} :
             contact' = [contact EXCEPT !.at = at]
    BY <1>4 DEF HandleInteraction, RunEnds, SocietyInv, Contact, NoContact
  <2>2. contact' \in [at : {"dispatched", "proposed", "promoting"}, npc : Npc, valence : Valence]
    BY <2>1
  <2>3. QED
    BY <2>2 DEF SocietyInv, Contact, PromotionSurvivesAStop
<1>5. CASE SocietyStop
  BY <1>1, <1>5 DEF SocietyStop
<1>6. QED
  BY <1>1, <1>2, <1>3, <1>4, <1>5

LEMMA MaybePromoteKeeps ==
  ASSUME SocietyInv, MaybePromote
  PROVE  SocietyInv'
<1> DEFINE n == contact.npc  met == Cardinality(With(n))
<1>1. n \in Npc
  BY DEF MaybePromote, SocietyInv, Contact, NoContact
<1>2. /\ npcs' = IF npcs[n] < 2 /\ met >= PromoteAt THEN [npcs EXCEPT ![n] = 2] ELSE npcs
      /\ promoted' = [promoted EXCEPT ![n] = met]
      /\ contact' = NoContact
  BY DEF MaybePromote
<1> HIDE DEF n, met
<1>3. npcs' \in [Npc -> 0..2]
  BY <1>1, <1>2 DEF SocietyInv
<1>4. \A m \in Npc : promoted'[m] >= PromoteAt => npcs'[m] = 2
  <2>1. TAKE m \in Npc
  <2>2. npcs[m] \in 0..2
    BY DEF SocietyInv
  <2>3. CASE m # n
    BY <1>1, <1>2, <2>3 DEF SocietyInv, PromotionSurvivesAStop
  <2>4. CASE m = n
    BY <1>1, <1>2, <2>2, <2>4 DEF SocietyInv
  <2>5. QED
    BY <2>3, <2>4
<1>5. QED
  BY <1>2, <1>3, <1>4 DEF SocietyInv, Contact, PromotionSurvivesAStop

\* Who she keeps returning to is a full person, wherever a contact was cut and
\* however often the rest of it was run.
THEOREM PromotionIsCounted == SocietySpec => []PromotionSurvivesAStop
<1>1. ASSUME SocietyInv, SocietyNext
      PROVE  SocietyInv'
  <2>1. CASE Introduce
    BY <1>1, <2>1 DEF Introduce, SocietyInv, PromotionSurvivesAStop
  <2>2. CASE ChooseContact \/ Interact \/ HandleInteraction \/ RunEnds \/ SocietyStop
    BY <1>1, <2>2, ContactKeeps
       DEF ChooseContact, Interact, HandleInteraction, RunEnds, SocietyStop
  <2>3. CASE MaybePromote
    BY <1>1, <2>3, MaybePromoteKeeps
  <2>4. CASE \/ TimePasses \/ ReviewStages \/ EndRelationship \/ Reconnect
             \/ JoinGroup \/ LeaveGroup \/ AttendGroup
    <3>1. UNCHANGED <<npcs, promoted, contact>>
      BY <2>4 DEF TimePasses, ReviewStages, EndRelationship, Reconnect, JoinGroup,
                  LeaveGroup, AttendGroup
    <3>2. QED
      BY <1>1, <3>1 DEF SocietyInv, PromotionSurvivesAStop
  <2>5. QED
    BY <1>1, <2>1, <2>2, <2>3, <2>4 DEF SocietyNext
<1>2. ASSUME SocietyInv, UNCHANGED societyVars
      PROVE  SocietyInv'
  BY <1>2 DEF SocietyInv, PromotionSurvivesAStop, societyVars
<1>3. SocietyInv => PromotionSurvivesAStop
  BY DEF SocietyInv
<1>4. QED
  BY <1>1, <1>2, <1>3, SocietyInitially, PTL DEF SocietySpec

-----------------------------------------------------------------------------
(***************************************************************************)
(* Theorems about Growth, for every policy of evidence and every length of *)
(* a life.                                                                 *)
(***************************************************************************)

\* Between the read of the evidence and the review, and after it.
Before == {"observing", "raising", "expiring", "retelling", "reviewing"}
After  == {"growing", "shifting", "finishing"}

CandidateRow == [target : Target, direction : {-1, 1}, pattern : Nat, evidence : SUBSET Nat,
                 status : {"accumulating", "expired", "promoted"}, by : Nat]
Proposal == [target : Target, value : Int, from : SUBSET Nat]
Change == {p \in Proposal : p.value \in Scale(p.target)}
Job == {NoJob}
         \cup [at : Before, evidence : SUBSET Nat]
         \cup [at : After, evidence : SUBSET Nat, proposed : SUBSET Proposal,
               committed : SUBSET Change]

GrowthTypeInv ==
  /\ changes \in Seq([adaptation : Adaptation, direction : {-1, 1}])
  /\ consolidations \in Seq([since : Nat, completed : BOOLEAN])
  /\ candidates \in Seq(CandidateRow)
  /\ priorities \in [ValueName -> Nat] /\ baselines \in [Trait -> 0 .. 100]
  /\ retold \in Nat /\ theme \in Nat
  /\ deepState \in [Target -> Int]
  /\ \A t \in Target : deepState[t] = Unset \/ deepState[t] \in Scale(t)
  /\ job \in Job

\* A run of the pipeline changes deep state once, and before that nothing of
\* it is on record.
RunsChangeOnce ==
  /\ \A x \in deepChanges : x.run \in Nat /\ x.run <= Run
  /\ job.at \in Before => \A x \in deepChanges : x.run # Run

\* What the job took from the commit is on record as a change of its run.
CommitsAreRecorded ==
  job.at \in After =>
    \A p \in job.committed :
      \E x \in deepChanges : x.run = Run /\ x.target = p.target /\ x.new = p.value

\* Whichever candidate the job may still promote has earned it.
PromotableIsEarned ==
  job.at \in After =>
    \A c \in DOMAIN candidates :
      /\ candidates[c].status = "accumulating" /\ Passes(c)
      /\ candidates[c].target.domain \in {"values", "personality"}
      /\ CommittedTo(candidates[c].target) # {}
      => \A x \in deepChanges :
           x.run = Run /\ x.target = candidates[c].target => FollowsEvidence(x, c)

GrowthInv ==
  /\ GrowthTypeInv /\ RunsChangeOnce /\ CommitsAreRecorded /\ PromotableIsEarned
  /\ PromotionsAreEarned

-----------------------------------------------------------------------------
(* What arithmetic the redistribution needs.                               *)
LEMMA SignsAre == ASSUME NEW x PROVE Sign(x) \in {-1, 0, 1}
BY DEF Sign

LEMMA ClampedWithin ==
  ASSUME NEW x \in Int, NEW low \in Int, NEW high \in Int, low <= high
  PROVE  Clamped(x, low, high) \in low .. high
BY DEF Clamped

LEMMA ShareOfAGain ==
  ASSUME NEW m \in Nat, NEW a \in Nat, NEW pool \in Nat \ {0}
  PROVE  (m * a) \div pool \in Nat
<1>1. m * a \in Nat
  OBVIOUS
<1> DEFINE x == m * a
<1> HIDE DEF x
<1>2. ASSUME x \in Nat PROVE x \div pool \in Nat
  BY <1>2
<1>3. QED
  BY <1>1, <1>2 DEF x

LEMMA ShareOfALoss ==
  ASSUME NEW m \in Int, m <= 0, NEW a \in Nat, NEW pool \in Nat \ {0}
  PROVE  (m * a) \div pool \in Int /\ (m * a) \div pool <= 0
<1>1. m * a \in Int /\ m * a <= 0
  <2>1. (0 - m) * a \in Nat
    OBVIOUS
  <2>2. m * a = 0 - (0 - m) * a
    OBVIOUS
  <2>3. QED
    BY <2>1, <2>2
<1> DEFINE x == m * a
<1> HIDE DEF x
<1>2. ASSUME x \in Int, x <= 0 PROVE x \div pool \in Int /\ x \div pool <= 0
  BY <1>2
<1>3. QED
  BY <1>1, <1>2 DEF x

LEMMA SumIsPositive ==
  ASSUME NEW G, IsFiniteSet(G), NEW f, \A w \in G : f[w] \in Int /\ 0 <= f[w]
  PROVE  0 <= Total(f, G)
<1> DEFINE Good == {s \in SUBSET G : Sums(f, G)[s] >= 0}
<1>1. /\ \A s \in SUBSET G : Sums(f, G)[s] = Adding(f, s, Sums(f, G))
      /\ \A s \in SUBSET G : Sums(f, G)[s] \in Int
  BY SumsAre
<1>2. {} \in Good
  <2>1. Sums(f, G)[{}] = 0
    BY <1>1 DEF Adding
  <2>2. QED
    BY <2>1
<1>3. ASSUME NEW s \in SUBSET G, s # {}, s \ {Some(s)} \in Good PROVE s \in Good
  <2>1. Sums(f, G)[s] = f[Some(s)] + Sums(f, G)[s \ {Some(s)}]
    BY <1>1, <1>3 DEF Adding
  <2>2. /\ f[Some(s)] \in Int /\ 0 <= f[Some(s)]
        /\ Sums(f, G)[s \ {Some(s)}] \in Int /\ Sums(f, G)[s \ {Some(s)}] >= 0
    BY <1>1, <1>3, OneFewer
  <2>3. Sums(f, G)[s] >= 0
    BY <2>1, <2>2
  <2>4. QED
    BY <2>3
<1>4. SUBSET G \subseteq Good
  <2> HIDE DEF Good
  <2> QED
    BY <1>2, <1>3, OneByOne
<1>5. QED
  BY <1>4, TotalIsSum

\* The value that the others give to never loses by it, and the one that gives
\* never gains: the others' shares add up to no more, or no less, than before.
LEMMA RedistributionFollows ==
  ASSUME NEW p \in [ValueName -> Nat], NEW v \in ValueName, NEW step \in Int, step # 0
  PROVE  /\ Redistribute(p, v, step) \in [ValueName -> Int]
         /\ step > 0 => Redistribute(p, v, step)[v] >= p[v]
         /\ step < 0 => Redistribute(p, v, step)[v] <= p[v]
<1> DEFINE others == ValueName \ {v}
           pool == Total(p, others)
           moved == IF step > 0 THEN Clamped(step, 0, pool) ELSE Clamped(step, -p[v], 0)
           rough == [w \in ValueName |->
                       IF w = v THEN p[v] + moved
                       ELSE IF pool = 0 THEN (-moved) \div Cardinality(others)
                       ELSE p[w] - (moved * p[w]) \div pool]
           q == [rough EXCEPT ![Largest(rough)] =
                   @ + Total(p, ValueName) - Total(rough, ValueName)]
<1>1. Redistribute(p, v, step) = q
  BY DEF Redistribute
<1>2. IsFiniteSet(ValueName) /\ IsFiniteSet(others)
  BY GrowthAssumption, FS_Subset
<1>3. pool \in Nat
  <2>1. pool \in Int
    BY <1>2, SumOfPart
  <2>2. 0 <= pool
    BY <1>2, SumIsPositive
  <2> HIDE DEF others, pool
  <2>3. QED
    BY <2>1, <2>2
<1>4. /\ moved \in Int
      /\ step > 0 => moved >= 0
      /\ step < 0 => moved <= 0
  <2>1. p[v] \in Nat
    OBVIOUS
  <2> HIDE DEF others, pool
  <2>2. QED
    BY <1>3, <2>1 DEF Clamped
<1>5. \A w \in others : Cardinality(others) \in Nat \ {0}
  BY <1>2, FS_EmptySet, FS_CardinalityType
<1>6. ASSUME NEW w \in others
      PROVE  /\ rough[w] \in Int
             /\ pool # 0 /\ step > 0 => rough[w] <= p[w]
             /\ pool # 0 /\ step < 0 => rough[w] >= p[w]
             /\ pool = 0 /\ step < 0 => rough[w] >= 0
             /\ pool = 0 /\ step > 0 => rough[w] = 0
  <2> w # v /\ w \in ValueName /\ p[w] \in Nat
    OBVIOUS
  <2>1. CASE pool = 0
    <3>1. rough[w] = (-moved) \div Cardinality(others)
      BY <2>1
    <3>2. Cardinality(others) \in Nat \ {0}
      BY <1>5
    <3>3. step > 0 => moved = 0
      <4> HIDE DEF others, pool
      <4> QED
        BY <2>1 DEF Clamped
    <3> DEFINE n == Cardinality(others)
    <3> HIDE DEF others, pool, moved, rough, n
    <3>4. n \in Nat \ {0} /\ rough[w] = (-moved) \div n
      BY <3>1, <3>2 DEF n
    <3>5. step < 0 => -moved >= 0
      BY <1>4
    <3>6. QED
      BY <1>4, <2>1, <3>3, <3>4, <3>5
  <2>2. CASE pool # 0
    <3>1. rough[w] = p[w] - (moved * p[w]) \div pool
      BY <2>2
    <3> DEFINE given == (moved * p[w]) \div pool
    <3> HIDE DEF others, pool, moved, rough
    <3>2. step > 0 => given \in Nat
      BY <1>3, <1>4, <2>2, ShareOfAGain
    <3>3. step < 0 => given \in Int /\ given <= 0
      BY <1>3, <1>4, <2>2, ShareOfALoss
    <3> HIDE DEF given
    <3>4. rough[w] = p[w] - given
      BY <3>1 DEF given
    <3>5. QED
      BY <2>2, <3>2, <3>3, <3>4
  <2>3. QED
    BY <2>1, <2>2
<1>7. \A w \in ValueName : rough[w] \in Int
  <2>1. rough[v] \in Int
    <3> HIDE DEF moved
    <3> QED
      BY <1>4
  <2>2. QED
    BY <1>6, <2>1
<1>8. /\ Total(p, ValueName) = p[v] + pool
      /\ Total(rough, ValueName) = rough[v] + Total(rough, others)
      /\ Total(rough, others) \in Int
  <2>1. \A w \in ValueName : p[w] \in Int
    OBVIOUS
  <2> HIDE DEF rough, pool
  <2>2. Total(p, ValueName) = p[v] + Total(p, others)
    BY <1>2, <2>1, SumSplits
  <2>3. Total(rough, ValueName) = rough[v] + Total(rough, others)
    BY <1>2, <1>7, SumSplits
  <2>4. Total(rough, others) \in Int
    BY <1>2, <1>7, SumOfPart
  <2>5. QED
    BY <2>2, <2>3, <2>4 DEF pool
<1>9. /\ step > 0 => Total(rough, others) <= pool
      /\ step < 0 => Total(rough, others) >= pool
  <2>1. \A w \in others : rough[w] \in Int /\ p[w] \in Int /\ 0 <= p[w]
    <3>1. \A w \in others : w \in ValueName /\ p[w] \in Int /\ 0 <= p[w]
      OBVIOUS
    <3> HIDE DEF rough, others
    <3>2. QED
      BY <1>7, <3>1
  <2>2. CASE step > 0
    <3>1. \A w \in others : rough[w] <= p[w]
      BY <1>6, <2>1, <2>2
    <3> HIDE DEF rough, others
    <3>2. Total(rough, others) <= Total(p, others)
      BY <1>2, <2>1, <3>1, SumGrows
    <3>3. QED
      BY <2>2, <3>2
  <2>3. CASE step < 0 /\ pool # 0
    <3>1. \A w \in others : p[w] <= rough[w]
      BY <1>6, <2>1, <2>3
    <3> HIDE DEF rough, others
    <3>2. Total(p, others) <= Total(rough, others)
      BY <1>2, <2>1, <3>1, SumGrows
    <3>3. QED
      BY <1>8, <2>3, <3>2
  <2>4. CASE step < 0 /\ pool = 0
    <3>1. \A w \in others : rough[w] \in Int /\ 0 <= rough[w]
      BY <1>6, <2>1, <2>4
    <3> HIDE DEF rough, others
    <3>2. 0 <= Total(rough, others)
      BY <1>2, <3>1, SumIsPositive
    <3>3. QED
      BY <1>8, <2>4, <3>2
  <2>5. QED
    BY <2>2, <2>3, <2>4
<1>10. Largest(rough) \notin ValueName => q = rough
  OBVIOUS
<1>11. \A w \in ValueName : w # Largest(rough) => q[w] = rough[w]
  OBVIOUS
<1>12. Largest(rough) \in ValueName =>
         q[Largest(rough)] = rough[Largest(rough)]
                               + Total(p, ValueName) - Total(rough, ValueName)
  OBVIOUS
<1>13. rough[v] = p[v] + moved /\ p[v] \in Nat
  OBVIOUS
<1>14. q \in [ValueName -> Int]
  <2>1. \A w \in ValueName : q[w] \in Int
    <3> HIDE DEF q, rough, pool, others
    <3>1. rough[v] \in Int /\ pool \in Int
      BY <1>3, <1>7
    <3>2. QED
      BY <1>3, <1>7, <1>8, <1>11, <1>12, <1>13, <3>1
  <2>2. DOMAIN q = ValueName /\ q = [w \in ValueName |-> q[w]]
    OBVIOUS
  <2> HIDE DEF q
  <2>3. QED
    BY <2>1, <2>2
<1>15. /\ step > 0 => q[v] >= p[v]
       /\ step < 0 => q[v] <= p[v]
  <2>1. CASE v = Largest(rough)
    <3>1. q[v] = rough[v] + Total(p, ValueName) - Total(rough, ValueName)
      BY <1>12, <2>1
    <3>2. rough[v] \in Int
      BY <1>7
    <3> HIDE DEF q, rough, pool, others, moved
    <3>3. q[v] = p[v] + pool - Total(rough, others)
      BY <1>3, <1>8, <1>13, <3>1, <3>2
    <3>4. QED
      BY <1>3, <1>8, <1>9, <1>13, <3>3
  <2>2. CASE v # Largest(rough)
    <3>1. q[v] = rough[v]
      BY <1>11, <2>2
    <3> HIDE DEF q, rough, pool, others, moved
    <3>2. QED
      BY <1>4, <1>13, <3>1
  <2>3. QED
    BY <2>1, <2>2
<1>16. QED
  <2> HIDE DEF q
  <2> QED
    BY <1>1, <1>14, <1>15

-----------------------------------------------------------------------------
(* The candidates of a run: new rows and new evidence, but what has been   *)
(* promoted stays as it is, and nothing is promoted by being observed.     *)
Kept == {rows \in Seq(CandidateRow) :
  /\ \A c \in DOMAIN candidates : candidates[c].status = "promoted" =>
       c \in DOMAIN rows /\ rows[c] = candidates[c]
  /\ \A c \in DOMAIN rows : rows[c].status = "promoted" =>
       c \in DOMAIN candidates /\ candidates[c].status = "promoted"}

LEMMA MappedRows ==
  ASSUME NEW rows \in Seq(CandidateRow), NEW f,
         f = [c \in DOMAIN rows |-> f[c]], \A c \in DOMAIN rows : f[c] \in CandidateRow
  PROVE  f \in Seq(CandidateRow)
<1>1. DOMAIN rows = 1 .. Len(rows) /\ Len(rows) \in Nat
  OBVIOUS
<1>2. f \in [1 .. Len(rows) -> CandidateRow]
  BY <1>1
<1>3. QED
  BY <1>1, <1>2

LEMMA RaisingKeeps ==
  ASSUME GrowthTypeInv, job.evidence \in SUBSET Nat, NEW rows \in Kept,
         NEW lead \in Leads, Direction(lead.adaptation) # 0
  PROVE  RaiseCandidate(rows, lead) \in Kept
<1> DEFINE direction == lead.sign * Direction(lead.adaptation)
           evidence == Tally(lead.adaptation)
           open == {c \in DOMAIN rows : /\ rows[c].status = "accumulating"
                                        /\ rows[c].target = lead.target
                                        /\ rows[c].direction = direction}
           new == [target |-> lead.target, direction |-> direction, pattern |-> 1,
                   evidence |-> evidence, status |-> "accumulating", by |-> 0]
           seen == [c \in DOMAIN rows |->
                      IF c \in open
                      THEN [rows[c] EXCEPT !.pattern = @ + 1, !.evidence = @ \cup evidence]
                      ELSE rows[c]]
<1>1. lead.target \in Target /\ direction \in {-1, 1}
  <2>1. lead.target \in Target /\ lead.sign \in {-1, 1}
    BY GrowthAssumption
  <2>2. Direction(lead.adaptation) \in {-1, 1}
    BY SignsAre DEF Direction
  <2>3. QED
    BY <2>1, <2>2
<1>2. evidence \in SUBSET Nat
  BY DEF Tally
<1>3. rows \in Seq(CandidateRow)
  BY DEF Kept
<1> HIDE DEF direction, evidence
<1>4. CASE open = {}
  <2>1. new \in CandidateRow /\ new.status # "promoted"
    BY <1>1, <1>2 DEF CandidateRow
  <2> HIDE DEF new
  <2>2. Append(rows, new) \in Kept
    <3>1. /\ Append(rows, new) \in Seq(CandidateRow)
          /\ DOMAIN Append(rows, new) = DOMAIN rows \cup {Len(rows) + 1}
          /\ \A c \in DOMAIN rows : Append(rows, new)[c] = rows[c]
          /\ Append(rows, new)[Len(rows) + 1] = new
      BY <1>3, <2>1
    <3> DEFINE longer == Append(rows, new)
    <3> HIDE DEF longer
    <3>2. QED
      BY <2>1, <3>1 DEF Kept, longer
  <2>3. RaiseCandidate(rows, lead) = Append(rows, new)
    BY <1>4 DEF RaiseCandidate, direction, evidence, new
  <2>4. QED
    BY <2>2, <2>3
<1>5. CASE open # {}
  <2>1. \A c \in DOMAIN rows : /\ seen[c] \in CandidateRow
                               /\ seen[c].status = rows[c].status
                               /\ rows[c].status = "promoted" => seen[c] = rows[c]
    <3>1. ASSUME NEW c \in DOMAIN rows
          PROVE  /\ seen[c] \in CandidateRow
                 /\ seen[c].status = rows[c].status
                 /\ rows[c].status = "promoted" => seen[c] = rows[c]
      <4>1. rows[c] \in CandidateRow
        BY <1>3
      <4>2. CASE c \in open
        <5>1. seen[c] = [rows[c] EXCEPT !.pattern = @ + 1, !.evidence = @ \cup evidence]
          BY <4>2
        <5>2. rows[c].status = "accumulating"
          BY <4>2
        <5> DEFINE row == rows[c]
        <5>3. row.pattern + 1 \in Nat /\ row.evidence \cup evidence \in SUBSET Nat
          <6>1. rows[c].pattern \in Nat /\ rows[c].evidence \in SUBSET Nat
            BY <4>1 DEF CandidateRow
          <6>2. rows[c].evidence \cup evidence \in SUBSET Nat
            BY <1>2, <6>1
          <6>3. QED
            BY <6>1, <6>2
        <5>4. [row EXCEPT !.pattern = @ + 1, !.evidence = @ \cup evidence]
                = [row EXCEPT !.pattern = row.pattern + 1,
                              !.evidence = row.evidence \cup evidence]
          OBVIOUS
        <5>5. row \in CandidateRow
          BY <4>1
        <5> HIDE DEF row
        <5>6. /\ [row EXCEPT !.pattern = row.pattern + 1,
                             !.evidence = row.evidence \cup evidence] \in CandidateRow
              /\ [row EXCEPT !.pattern = row.pattern + 1,
                             !.evidence = row.evidence \cup evidence].status = row.status
          BY <5>3, <5>5 DEF CandidateRow
        <5> HIDE DEF seen, open
        <5>7. QED
          BY <5>1, <5>2, <5>4, <5>6 DEF row
      <4>3. CASE c \notin open
        <5>1. seen[c] = rows[c]
          BY <4>3
        <5> HIDE DEF seen, open
        <5>2. QED
          BY <4>1, <5>1
      <4>4. QED
        BY <4>2, <4>3
    <3>2. QED
      BY <3>1
  <2>2. seen = [c \in DOMAIN rows |-> seen[c]] /\ DOMAIN seen = DOMAIN rows
    OBVIOUS
  <2> HIDE DEF seen, open
  <2>3. seen \in Seq(CandidateRow)
    BY <1>3, <2>1, <2>2, MappedRows
  <2>4. seen \in Kept
    BY <2>1, <2>2, <2>3 DEF Kept
  <2>5. RaiseCandidate(rows, lead) = seen
    BY <1>5 DEF RaiseCandidate, direction, evidence, open, seen
  <2>6. QED
    BY <2>4, <2>5
<1>6. QED
  BY <1>4, <1>5

\* The fold over the leads, as the library has it.
Leading == {lead \in Leads : Direction(lead.adaptation) # 0}
Raising(s, g) ==
  IF s = {} THEN candidates ELSE RaiseCandidate(g[s \ {Some(s)}], Some(s))
Raised == CHOOSE g : g = [s \in SUBSET Leading |-> Raising(s, g)]

LEMMA RaisedIsKept ==
  ASSUME GrowthTypeInv, job.evidence \in SUBSET Nat
  PROVE  FoldSet(LAMBDA lead, rows : RaiseCandidate(rows, lead), candidates, Leading)
           \in Kept
<1> DEFINE step == [e \in Leading \X Kept |-> RaiseCandidate(e[2], e[1])]
<1>1. FoldSet(LAMBDA lead, rows : RaiseCandidate(rows, lead), candidates, Leading)
        = Raised[Leading]
  BY DEF FoldSet, MapThenFoldSet, Raised, Raising, Some
<1>2. IsFiniteSet(Leading)
  BY GrowthAssumption, FS_Subset DEF Leading
<1>3. candidates \in Kept
  BY DEF Kept, GrowthTypeInv
<1>4. step \in [Leading \X Kept -> Kept]
  BY RaisingKeeps DEF Leading
<1>5. PICK g : IsFold(Leading, Kept, candidates, step, g)
  <2> HIDE DEF step
  <2> QED
    BY <1>2, <1>3, <1>4, FoldExists
<1>6. \A s \in SUBSET Leading : g[s] = Raising(s, g)
  <2>1. ASSUME NEW s \in SUBSET Leading, s # {} PROVE g[s] = Raising(s, g)
    <3>1. Some(s) \in Leading /\ g[s \ {Some(s)}] \in Kept
      <4>1. Some(s) \in s /\ s \ {Some(s)} \in SUBSET Leading
        BY <1>2, <2>1, OneFewer
      <4>2. g \in [SUBSET Leading -> Kept]
        BY <1>5 DEF IsFold
      <4>3. QED
        BY <4>1, <4>2
    <3>2. g[s] = step[<<Some(s), g[s \ {Some(s)}]>>]
      BY <1>5, <2>1 DEF IsFold, Folding
    <3>3. QED
      BY <2>1, <3>1, <3>2 DEF Raising
  <2>2. QED
    BY <1>5, <2>1 DEF IsFold, Folding, Raising
<1>7. g = [s \in SUBSET Leading |-> Raising(s, g)]
  BY <1>5, <1>6 DEF IsFold
<1>8. Raised = [s \in SUBSET Leading |-> Raising(s, Raised)]
  BY <1>7 DEF Raised
<1>9. \A s \in SUBSET Leading : Raised[s] = Raising(s, Raised)
  BY <1>8
<1> DEFINE Good == {s \in SUBSET Leading : Raised[s] \in Kept}
<1>10. {} \in Good
  <2>1. Raised[{}] = candidates
    BY <1>9 DEF Raising
  <2>2. QED
    BY <1>3, <2>1
<1>11. ASSUME NEW s \in SUBSET Leading, s # {}, s \ {Some(s)} \in Good PROVE s \in Good
  <2>1. Raised[s] = RaiseCandidate(Raised[s \ {Some(s)}], Some(s))
    BY <1>9, <1>11 DEF Raising
  <2>2. Raised[s \ {Some(s)}] \in Kept /\ Some(s) \in Leading
    BY <1>2, <1>11, OneFewer
  <2>3. QED
    BY <2>1, <2>2, RaisingKeeps DEF Leading
<1>12. SUBSET Leading \subseteq Good
  <2> HIDE DEF Good
  <2> QED
    BY <1>2, <1>10, <1>11, OneByOne
<1>13. QED
  BY <1>1, <1>12

-----------------------------------------------------------------------------
(* The review: what is proposed, and what of it the arbiter lets through.  *)
LEMMA CurrentIs ==
  ASSUME GrowthTypeInv, NEW t \in Target
  PROVE  /\ t.domain = "values" => t.key \in ValueName /\ Current(t) \in Nat
         /\ t.domain = "personality" => t.key \in Trait /\ Current(t) \in 0 .. 100
         /\ Current(t) \in Nat
<1>1. /\ t.domain = "values" => t.key \in ValueName
      /\ t.domain = "personality" => t.key \in Trait
      /\ t.domain \in {"values", "personality", "narrative"}
  BY DEF Target
<1>2. \A n \in Scale(t) : n \in Nat
  BY DEF Scale
<1>3. t.domain = "personality" => Scale(t) = 0 .. 100
  BY DEF Scale
<1>4. deepState[t] \notin {Unset, 0} => deepState[t] \in Scale(t)
  BY DEF GrowthTypeInv
<1>5. /\ t.domain = "values" => priorities[t.key] \in Nat
      /\ t.domain = "personality" => baselines[t.key] \in 0 .. 100
  BY <1>1 DEF GrowthTypeInv
<1>6. CASE deepState[t] \notin {Unset, 0}
  BY <1>1, <1>2, <1>3, <1>4, <1>6 DEF Current
<1>7. CASE deepState[t] \in {Unset, 0}
  BY <1>1, <1>5, <1>7 DEF Current
<1>8. QED
  BY <1>6, <1>7

LEMMA PrioritiesAre ==
  ASSUME GrowthTypeInv
  PROVE  /\ CurrentPriorities \in [ValueName -> Nat]
         /\ \A t \in Target : t.domain = "values" => CurrentPriorities[t.key] = Current(t)
<1>1. ASSUME NEW v \in ValueName PROVE Current([domain |-> "values", key |-> v]) \in Nat
  <2>1. [domain |-> "values", key |-> v] \in Target
    BY DEF Target
  <2>2. QED
    BY <2>1, CurrentIs
<1>2. ASSUME NEW t \in Target, t.domain = "values"
      PROVE  t.key \in ValueName /\ t = [domain |-> "values", key |-> t.key]
  BY <1>2 DEF Target
<1>3. QED
  BY <1>1, <1>2 DEF CurrentPriorities

LEMMA RipeRows ==
  ASSUME GrowthTypeInv, NEW d, NEW c \in Ripe(d)
  PROVE  /\ c \in DOMAIN candidates /\ c \in Nat /\ candidates[c] \in CandidateRow
         /\ candidates[c].status = "accumulating" /\ Passes(c)
         /\ candidates[c].target \in Target /\ candidates[c].target.domain = d
         /\ candidates[c].direction \in {-1, 1}
<1>1. c \in DOMAIN candidates /\ candidates \in Seq(CandidateRow)
  BY DEF Ripe, Accumulating, GrowthTypeInv
<1>2. c \in Nat /\ candidates[c] \in CandidateRow
  BY <1>1
<1>3. QED
  BY <1>1, <1>2 DEF Ripe, Accumulating, CandidateRow

\* A candidate asks of its own target what its evidence points to.
LEMMA ReorderedFollows ==
  ASSUME GrowthTypeInv, NEW c \in Ripe("values")
  PROVE  LET t == candidates[c].target
         IN /\ Reordered(c) \in [ValueName -> Int]
            /\ candidates[c].direction = 1 => Reordered(c)[t.key] >= Current(t)
            /\ candidates[c].direction = -1 => Reordered(c)[t.key] <= Current(t)
<1> DEFINE t == candidates[c].target
           step == candidates[c].direction * ValueStep
           p == CurrentPriorities
<1>1. t \in Target /\ t.domain = "values" /\ candidates[c].direction \in {-1, 1}
  BY RipeRows
<1>2. t.key \in ValueName /\ p \in [ValueName -> Nat] /\ p[t.key] = Current(t)
  BY <1>1, CurrentIs, PrioritiesAre
<1>3. /\ step \in Int /\ step # 0
      /\ candidates[c].direction = 1 => step > 0
      /\ candidates[c].direction = -1 => step < 0
  BY <1>1, GrowthAssumption
<1>4. Reordered(c) = Redistribute(p, t.key, step)
  BY DEF Reordered
<1> HIDE DEF t, step, p
<1>5. /\ Redistribute(p, t.key, step) \in [ValueName -> Int]
      /\ step > 0 => Redistribute(p, t.key, step)[t.key] >= p[t.key]
      /\ step < 0 => Redistribute(p, t.key, step)[t.key] <= p[t.key]
  BY <1>2, <1>3, RedistributionFollows
<1>6. QED
  BY <1>2, <1>3, <1>4, <1>5 DEF t

ReviewProposals == ValueProposals \cup TraitProposals \cup ThemeProposals

LEMMA ProposalsAre ==
  ASSUME GrowthTypeInv
  PROVE  /\ ReviewProposals \subseteq Proposal
         /\ \A p \in ReviewProposals : \A c \in p.from :
              /\ p.from = {c}
              /\ p.target = candidates[c].target =>
                   Sign(p.value - Current(p.target)) = candidates[c].direction
         /\ \A c \in Ripe("personality") :
              \/ Current(candidates[c].target) \in {0, 100}
              \/ \E p \in ReviewProposals : p.target = candidates[c].target /\ p.from = {c}
<1>1. ASSUME NEW p \in ValueProposals
      PROVE  /\ p \in Proposal
             /\ \A c \in p.from :
                  /\ p.from = {c}
                  /\ p.target = candidates[c].target =>
                       Sign(p.value - Current(p.target)) = candidates[c].direction
  <2>1. PICK c \in Ripe("values"), v \in ValueName :
          /\ p = [target |-> [domain |-> "values", key |-> v],
                  value |-> Reordered(c)[v], from |-> {c}]
          /\ Reordered(c)[v] # CurrentPriorities[v]
    BY <1>1 DEF ValueProposals
  <2>2. c \in Nat /\ Reordered(c)[v] \in Int
    BY RipeRows, ReorderedFollows
  <2>3. p.target \in Target /\ p.target.domain = "values" /\ p.target.key = v
    BY <2>1 DEF Target
  <2>4. CurrentPriorities[v] = Current(p.target) /\ Current(p.target) \in Nat
    BY <2>3, PrioritiesAre, CurrentIs
  <2>5. ASSUME p.target = candidates[c].target
        PROVE  Sign(p.value - Current(p.target)) = candidates[c].direction
    <3>1. /\ candidates[c].direction = 1 => p.value >= Current(p.target)
          /\ candidates[c].direction = -1 => p.value <= Current(p.target)
      BY <2>1, <2>3, <2>5, ReorderedFollows
    <3>2. p.value \in Int /\ p.value # Current(p.target)
      BY <2>1, <2>2, <2>4
    <3>3. candidates[c].direction \in {-1, 1}
      BY RipeRows
    <3>4. QED
      BY <2>4, <3>1, <3>2, <3>3 DEF Sign
  <2>6. p \in Proposal
    BY <2>1, <2>2, <2>3 DEF Proposal
  <2>7. QED
    BY <2>1, <2>5, <2>6
<1>2. ASSUME NEW c \in Ripe("personality")
      PROVE  LET t == candidates[c].target
                 x == Clamped(Current(t) + candidates[c].direction, 0, 100)
             IN /\ x \in 0 .. 100
                /\ x # Current(t) => Sign(x - Current(t)) = candidates[c].direction
                /\ x = Current(t) => Current(t) \in {0, 100}
  <2>1. /\ candidates[c].direction \in {-1, 1}
        /\ Current(candidates[c].target) \in 0 .. 100
    BY RipeRows, CurrentIs
  <2>2. QED
    BY <2>1 DEF Clamped, Sign
<1>3. ASSUME NEW p \in TraitProposals
      PROVE  /\ p \in Proposal
             /\ \A c \in p.from :
                  /\ p.from = {c}
                  /\ p.target = candidates[c].target =>
                       Sign(p.value - Current(p.target)) = candidates[c].direction
  <2>1. PICK c \in Ripe("personality") :
          p = [target |-> candidates[c].target,
               value |-> Clamped(Current(candidates[c].target) + candidates[c].direction,
                                 0, 100),
               from |-> {c}]
    BY <1>3 DEF TraitProposals
  <2>2. p.value # Current(p.target)
    BY <1>3 DEF TraitProposals
  <2>3. c \in Nat /\ candidates[c].target \in Target
    BY RipeRows
  <2>4. /\ p.value \in 0 .. 100
        /\ Sign(p.value - Current(p.target)) = candidates[c].direction
    BY <1>2, <2>1, <2>2
  <2>5. p \in Proposal
    BY <2>1, <2>3, <2>4 DEF Proposal
  <2>6. QED
    BY <2>1, <2>4, <2>5
<1>4. ASSUME NEW p \in ThemeProposals
      PROVE  p \in Proposal /\ p.from = {}
  <2> DEFINE t == [domain |-> "narrative", key |-> "theme"]
             strength == Clamped(theme, 0, 95)
  <2>1. p = [target |-> t, value |-> Clamped(Current(t) + ThemeStep, 0, strength),
             from |-> {}]
    BY <1>4 DEF ThemeProposals
  <2>2. t \in Target
    BY DEF Target
  <2>3. Current(t) \in Nat
    BY <2>2, CurrentIs
  <2>4. strength \in Int
    BY DEF GrowthTypeInv, Clamped
  <2> HIDE DEF t, strength
  <2>5. Clamped(Current(t) + ThemeStep, 0, strength) \in Int
    BY <2>3, <2>4, GrowthAssumption DEF Clamped
  <2>6. QED
    BY <2>1, <2>2, <2>5 DEF Proposal
<1>5. ASSUME NEW c \in Ripe("personality"), Current(candidates[c].target) \notin {0, 100}
      PROVE  \E p \in TraitProposals : p.target = candidates[c].target /\ p.from = {c}
  <2> DEFINE p == [target |-> candidates[c].target,
                   value |-> Clamped(Current(candidates[c].target) + candidates[c].direction,
                                     0, 100),
                   from |-> {c}]
  <2>1. p.value # Current(p.target)
    BY <1>2, <1>5
  <2>2. p \in TraitProposals
    BY <2>1 DEF TraitProposals
  <2>3. QED
    BY <2>2
<1>6. QED
  BY <1>1, <1>3, <1>4, <1>5 DEF ReviewProposals

-----------------------------------------------------------------------------
(* What the arbiter accepts has been asked for, and a candidate that could *)
(* promote on it either is among those who asked or could not.             *)
LEMMA AcceptedFollows ==
  ASSUME GrowthTypeInv, NEW p \in Merged(Admitted(ReviewProposals))
  PROVE  /\ p \in Change
         /\ \A c \in DOMAIN candidates :
              /\ candidates[c].status = "accumulating" /\ Passes(c)
              /\ candidates[c].target = p.target
              => IF c \in p.from
                 THEN Sign(p.value - Current(p.target)) = candidates[c].direction
                 ELSE p.target.domain = "personality" =>
                        Current(p.target) \in {0, 100} \/ ~Evidenced(c)
<1> DEFINE A == Admitted(ReviewProposals)
           S == Screened(ReviewProposals)
<1>1. PICK a \in A :
        p = [target |-> a.target, value |-> a.value,
             from |-> UNION {q.from : q \in {o \in A : o.target = a.target}}]
  BY DEF Merged
<1>2. \A b \in A : /\ b \in S /\ b \in ReviewProposals /\ b \in Proposal
                   /\ b.value \in Scale(b.target)
                   /\ \A q \in S : q.target = b.target => q.value = b.value
  BY ProposalsAre DEF Admitted, Screened
<1>3. p.target = a.target /\ p.value = a.value
  BY <1>1
<1>4. \A c : c \in p.from <=> \E q \in A : q.target = p.target /\ c \in q.from
  BY <1>1
<1>5. p \in Change
  <2>1. \A q \in A : q.from \subseteq Nat
    BY <1>2 DEF Proposal
  <2>2. p.from \in SUBSET Nat
    BY <1>4, <2>1
  <2>3. p = [target |-> p.target, value |-> p.value, from |-> p.from]
    BY <1>1
  <2>4. p.target \in Target /\ p.value \in Int /\ p.value \in Scale(p.target)
    BY <1>2, <1>3 DEF Proposal
  <2> HIDE DEF A
  <2>5. p \in Proposal
    BY <2>2, <2>3, <2>4 DEF Proposal
  <2>6. QED
    BY <2>4, <2>5 DEF Change
<1>6. ASSUME NEW c \in DOMAIN candidates, candidates[c].target = p.target, c \in p.from
      PROVE  Sign(p.value - Current(p.target)) = candidates[c].direction
  <2>1. PICK q \in A : q.target = p.target /\ c \in q.from
    BY <1>4, <1>6
  <2>2. q.value = a.value
    BY <1>2, <1>3, <2>1
  <2>3. Sign(q.value - Current(q.target)) = candidates[c].direction
    BY <1>2, <1>6, <2>1, ProposalsAre
  <2>4. QED
    BY <1>3, <2>1, <2>2, <2>3
<1>7. ASSUME NEW c \in DOMAIN candidates, candidates[c].status = "accumulating", Passes(c),
             candidates[c].target = p.target, c \notin p.from,
             p.target.domain = "personality", Evidenced(c)
      PROVE  Current(p.target) \in {0, 100}
  <2>1. c \in Ripe("personality")
    BY <1>7 DEF Ripe, Accumulating
  <2>2. SUFFICES ASSUME Current(p.target) \notin {0, 100} PROVE FALSE
    OBVIOUS
  <2>3. PICK own \in ReviewProposals : own.target = p.target /\ own.from = {c}
    BY <1>7, <2>1, <2>2, ProposalsAre
  <2>4. own \in S
    BY <1>7, <2>3 DEF Screened
  <2>5. own.value = a.value
    BY <1>2, <1>3, <2>3, <2>4
  <2>6. own \in A
    BY <1>1, <1>3, <2>3, <2>4, <2>5 DEF Admitted
  <2>7. QED
    BY <1>4, <1>7, <2>3, <2>6
<1>8. QED
  BY <1>5, <1>6, <1>7

LEMMA JobIs ==
  ASSUME job \in Job
  PROVE  /\ job.at \in Before => /\ job \in [at : Before, evidence : SUBSET Nat]
                                 /\ job # NoJob
         /\ job.at \in After => job \in [at : After, evidence : SUBSET Nat,
                                         proposed : SUBSET Proposal,
                                         committed : SUBSET Change]
         /\ NoJob.at \notin Before \cup After
BY DEF Job, NoJob, Before, After

\* As long as no deep change is made and no promoted row is touched.
LEMMA EarnedStays ==
  ASSUME PromotionsAreEarned, history' = history, deepChanges' = deepChanges,
         candidates' \in Kept
  PROVE  PromotionsAreEarned'
<1>1. \A h \in history' : \E x \in deepChanges' :
        x.run = h.run /\ x.target = h.target /\ x.new = h.new
  BY DEF PromotionsAreEarned
<1>2. ASSUME NEW c \in DOMAIN candidates', candidates'[c].status = "promoted"
      PROVE  LET moves == {x \in deepChanges' : /\ x.run = candidates'[c].by
                                                /\ x.target = candidates'[c].target}
             IN Passes(c)' /\ moves # {} /\ \A x \in moves : FollowsEvidence(x, c)'
  <2>1. /\ c \in DOMAIN candidates /\ candidates[c].status = "promoted"
        /\ candidates'[c] = candidates[c]
    BY <1>2 DEF Kept
  <2>2. QED
    BY <2>1 DEF PromotionsAreEarned, Passes, FollowsEvidence, Evidenced
<1>3. QED
  BY <1>1, <1>2 DEF PromotionsAreEarned

LEMMA TheSameAreKept ==
  ASSUME GrowthTypeInv, candidates' = candidates PROVE candidates' \in Kept
BY DEF Kept, GrowthTypeInv

\* So steps before the commit and steps that end the job keep the invariant.
LEMMA NothingPromoted ==
  ASSUME GrowthInv, history' = history, deepChanges' = deepChanges,
         candidates' \in Kept, job'.at \notin After, GrowthTypeInv', RunsChangeOnce'
  PROVE  GrowthInv'
BY EarnedStays DEF GrowthInv, CommitsAreRecorded, PromotableIsEarned

LEMMA GrowthInitially == GrowthInit => GrowthInv
<1> SUFFICES ASSUME GrowthInit PROVE GrowthInv
  OBVIOUS
<1>1. NoJob.at \notin Before \cup After /\ NoJob \in Job
  BY DEF NoJob, Before, After, Job
<1>2. GrowthTypeInv
  <2>1. /\ changes \in Seq([adaptation : Adaptation, direction : {-1, 1}])
        /\ consolidations \in Seq([since : Nat, completed : BOOLEAN])
        /\ candidates \in Seq(CandidateRow)
    BY DEF GrowthInit
  <2>2. /\ priorities \in [ValueName -> Nat] /\ baselines \in [Trait -> 0 .. 100]
        /\ retold \in Nat /\ theme \in Nat
    BY GrowthAssumption DEF GrowthInit
  <2>3. deepState \in [Target -> Int] /\ \A t \in Target : deepState[t] = Unset
    BY DEF GrowthInit, Unset
  <2>4. job \in Job
    BY <1>1 DEF GrowthInit
  <2>5. QED
    BY <2>1, <2>2, <2>3, <2>4 DEF GrowthTypeInv
<1>3. QED
  BY <1>1, <1>2 DEF GrowthInit, GrowthInv, RunsChangeOnce, CommitsAreRecorded,
     PromotableIsEarned, PromotionsAreEarned

LEMMA ReviewKeeps == ASSUME GrowthInv, Review PROVE GrowthInv'
<1> USE DEF GrowthInv
<1>1. PICK accepted \in {Merged(Admitted(ReviewProposals)), {}} :
        /\ deepState' = [t \in Target |->
             IF \E p \in accepted : p.target = t
             THEN (CHOOSE p \in accepted : p.target = t).value ELSE deepState[t]]
        /\ deepChanges' = deepChanges \cup
             {[run |-> Run, target |-> p.target, seen |-> Current(p.target),
               new |-> p.value, from |-> p.from] : p \in accepted}
        /\ job' = [at |-> "growing", evidence |-> job.evidence,
                   proposed |-> ReviewProposals, committed |-> accepted]
  BY DEF Review, ReviewProposals
<1>2. /\ job.at = "reviewing" /\ Run' = Run /\ Run \in Nat
      /\ UNCHANGED <<changes, retold, adaptations, candidates, priorities, baselines,
                     theme, history, consolidations>>
  BY DEF Review, Run, GrowthTypeInv
<1>3. \A p \in accepted :
        /\ p \in Change
        /\ \A c \in DOMAIN candidates :
             /\ candidates[c].status = "accumulating" /\ Passes(c)
             /\ candidates[c].target = p.target
             => IF c \in p.from
                THEN Sign(p.value - Current(p.target)) = candidates[c].direction
                ELSE p.target.domain = "personality" =>
                       Current(p.target) \in {0, 100} \/ ~Evidenced(c)
  BY <1>1, AcceptedFollows
<1>4. job.evidence \in SUBSET Nat /\ job.at \in Before
  BY <1>2, JobIs DEF GrowthTypeInv, Before
<1>5. \A x \in deepChanges : x.run \in Nat /\ x.run <= Run /\ x.run # Run
  BY <1>4 DEF RunsChangeOnce
<1>6. job'.at \in After /\ job'.at \notin Before /\ job'.committed = accepted
  BY <1>1 DEF After, Before
<1> DEFINE Recorded(p) == [run |-> Run, target |-> p.target, seen |-> Current(p.target),
                           new |-> p.value, from |-> p.from]
<1>7. \A x : x \in deepChanges' <=>
              x \in deepChanges \/ \E p \in accepted : x = Recorded(p)
  BY <1>1
<1>8. GrowthTypeInv'
  <2>1. job' \in Job
    <3>1. accepted \in SUBSET Change /\ ReviewProposals \in SUBSET Proposal
      BY <1>3, ProposalsAre
    <3>2. QED
      BY <1>1, <1>4, <3>1 DEF Job, After
  <2>2. ASSUME NEW t \in Target
        PROVE  /\ deepState'[t] \in Int
               /\ deepState'[t] = Unset \/ deepState'[t] \in Scale(t)
    <3>1. CASE \E p \in accepted : p.target = t
      <4>1. PICK p \in accepted : p.target = t /\ deepState'[t] = p.value
        BY <1>1, <3>1
      <4>2. p.value \in Int /\ p.value \in Scale(t)
        BY <1>3, <4>1 DEF Change, Proposal
      <4>3. QED
        BY <4>1, <4>2
    <3>2. CASE ~\E p \in accepted : p.target = t
      BY <1>1, <3>2 DEF GrowthTypeInv
    <3>3. QED
      BY <3>1, <3>2
  <2>3. deepState' \in [Target -> Int]
    BY <1>1, <2>2
  <2>4. QED
    BY <1>2, <2>1, <2>2, <2>3 DEF GrowthTypeInv, Scale, Unset
<1>9. RunsChangeOnce'
  BY <1>2, <1>5, <1>6, <1>7 DEF RunsChangeOnce
<1>10. CommitsAreRecorded'
  <2>1. \A p \in accepted : Recorded(p) \in deepChanges'
    BY <1>7
  <2>2. \A p \in accepted : \E x \in deepChanges' :
          x.run = Run' /\ x.target = p.target /\ x.new = p.value
    BY <1>2, <2>1
  <2>3. QED
    BY <1>6, <2>2 DEF CommitsAreRecorded
<1>11. PromotableIsEarned'
  <2>1. SUFFICES ASSUME NEW c \in DOMAIN candidates, NEW x \in deepChanges',
                        candidates[c].status = "accumulating", Passes(c),
                        x.run = Run, x.target = candidates[c].target
                 PROVE  FollowsEvidence(x, c)
    BY <1>2 DEF PromotableIsEarned, Passes, FollowsEvidence, Evidenced
  <2>2. PICK p \in accepted : x = Recorded(p)
    BY <1>5, <1>7, <2>1
  <2>3. /\ x.target = p.target /\ x.seen = Current(p.target)
        /\ x.new = p.value /\ x.from = p.from
    BY <2>2
  <2>4. QED
    BY <1>3, <2>1, <2>3 DEF FollowsEvidence
<1>12. PromotionsAreEarned'
  <2>1. \A h \in history' : \E x \in deepChanges' :
          x.run = h.run /\ x.target = h.target /\ x.new = h.new
    BY <1>2, <1>7 DEF PromotionsAreEarned
  <2>2. ASSUME NEW c \in DOMAIN candidates, candidates[c].status = "promoted"
        PROVE  LET moves == {x \in deepChanges' : /\ x.run = candidates[c].by
                                                  /\ x.target = candidates[c].target}
               IN Passes(c) /\ moves # {} /\ \A x \in moves : FollowsEvidence(x, c)
    <3> DEFINE moves == {x \in deepChanges : /\ x.run = candidates[c].by
                                             /\ x.target = candidates[c].target}
    <3>1. Passes(c) /\ moves # {} /\ \A x \in moves : FollowsEvidence(x, c)
      BY <2>2 DEF PromotionsAreEarned
    <3>2. candidates[c].by # Run
      BY <1>5, <3>1
    <3>3. moves = {x \in deepChanges' : /\ x.run = candidates[c].by
                                        /\ x.target = candidates[c].target}
      BY <1>7, <3>2
    <3>4. QED
      BY <3>1, <3>3
  <2>3. QED
    BY <1>2, <2>1, <2>2 DEF PromotionsAreEarned, Passes, FollowsEvidence, Evidenced
<1>13. QED
  BY <1>8, <1>9, <1>10, <1>11, <1>12

\* A promotion writes down what the commit did, and of a candidate that has
\* earned it.
LEMMA PromotingKeeps ==
  ASSUME GrowthInv, job.at \in After, NEW d \in {"personality", "values"},
         NEW c \in Promotable(d), Promote(c), NEW H, history' = history \cup H,
         \A h \in H : h.run = Run /\ \E p \in job.committed :
                                       p.target = h.target /\ p.value = h.new,
         UNCHANGED <<deepChanges, consolidations, job>>
  PROVE  /\ candidates' \in Seq(CandidateRow) /\ RunsChangeOnce' /\ CommitsAreRecorded'
         /\ PromotableIsEarned' /\ PromotionsAreEarned'
<1> USE DEF GrowthInv
<1> DEFINE t == candidates[c].target
<1>1. c \in Ripe(d) /\ CommittedTo(t) # {}
  BY DEF Promotable
<1>2. /\ c \in DOMAIN candidates /\ candidates[c] \in CandidateRow
      /\ candidates[c].status = "accumulating" /\ Passes(c) /\ t.domain = d
  BY <1>1, RipeRows
<1>3. Run' = Run /\ Run \in Nat
  BY DEF Run, GrowthTypeInv
<1>4. /\ candidates' = [candidates EXCEPT ![c].status = "promoted", ![c].by = Run]
      /\ candidates \in Seq(CandidateRow)
  BY DEF Promote, GrowthTypeInv
<1>5. /\ DOMAIN candidates' = DOMAIN candidates
      /\ \A o \in DOMAIN candidates : o # c => candidates'[o] = candidates[o]
      /\ candidates'[c] = [candidates[c] EXCEPT !.status = "promoted", !.by = Run]
  BY <1>2, <1>4
<1>6. /\ candidates'[c] \in CandidateRow
      /\ candidates'[c].status = "promoted" /\ candidates'[c].by = Run
      /\ candidates'[c].target = t /\ candidates'[c].direction = candidates[c].direction
      /\ candidates'[c].pattern = candidates[c].pattern
      /\ candidates'[c].evidence = candidates[c].evidence
  <2> DEFINE row == candidates[c]
  <2>1. row \in CandidateRow
    BY <1>2
  <2> HIDE DEF row
  <2>2. LET new == [row EXCEPT !.status = "promoted", !.by = Run]
        IN /\ new \in CandidateRow /\ new.status = "promoted" /\ new.by = Run
           /\ new.target = row.target /\ new.direction = row.direction
           /\ new.pattern = row.pattern /\ new.evidence = row.evidence
    BY <1>3, <2>1 DEF CandidateRow
  <2>3. QED
    BY <1>5, <2>2 DEF row
<1>7. candidates' \in Seq(CandidateRow)
  <2>0. \A o \in DOMAIN candidates : candidates[o] \in CandidateRow
    BY <1>4
  <2>1. \A o \in DOMAIN candidates : candidates'[o] \in CandidateRow
    BY <1>5, <1>6, <2>0
  <2>2. DOMAIN candidates = 1 .. Len(candidates) /\ Len(candidates) \in Nat
    BY <1>4
  <2>3. candidates' \in [1 .. Len(candidates) -> CandidateRow]
    BY <1>4, <2>1, <2>2
  <2>4. QED
    BY <2>2, <2>3
<1>8. RunsChangeOnce'
  BY <1>3 DEF RunsChangeOnce
<1>9. CommitsAreRecorded'
  BY <1>3 DEF CommitsAreRecorded
<1>10. PromotableIsEarned'
  <2>1. SUFFICES ASSUME NEW o \in DOMAIN candidates, NEW x \in deepChanges,
                        candidates'[o].status = "accumulating", Passes(o)',
                        candidates'[o].target.domain \in {"values", "personality"},
                        CommittedTo(candidates'[o].target) # {},
                        x.run = Run, x.target = candidates'[o].target
                 PROVE  FollowsEvidence(x, o)'
    BY <1>3, <1>5 DEF PromotableIsEarned, CommittedTo
  <2>2. o # c /\ candidates'[o] = candidates[o]
    BY <1>5, <1>6, <2>1
  <2>3. FollowsEvidence(x, o)
    BY <2>1, <2>2 DEF PromotableIsEarned, Passes
  <2>4. QED
    BY <2>2, <2>3 DEF FollowsEvidence, Evidenced
<1>11. PromotionsAreEarned'
  <2>1. \A h \in history' : \E x \in deepChanges' :
          x.run = h.run /\ x.target = h.target /\ x.new = h.new
    BY DEF PromotionsAreEarned, CommitsAreRecorded
  <2>2. ASSUME NEW o \in DOMAIN candidates, candidates'[o].status = "promoted"
        PROVE  LET moves == {x \in deepChanges : /\ x.run = candidates'[o].by
                                                 /\ x.target = candidates'[o].target}
               IN Passes(o)' /\ moves # {} /\ \A x \in moves : FollowsEvidence(x, o)'
    <3>1. CASE o # c
      <4>1. candidates'[o] = candidates[o]
        BY <1>5, <3>1
      <4>2. QED
        BY <2>2, <4>1 DEF PromotionsAreEarned, Passes, FollowsEvidence, Evidenced
    <3>2. CASE o = c
      <4>1. \E x \in deepChanges : x.run = Run /\ x.target = t
        BY <1>1 DEF CommitsAreRecorded, CommittedTo
      <4>2. \A x \in deepChanges : x.run = Run /\ x.target = t => FollowsEvidence(x, c)
        BY <1>1, <1>2 DEF PromotableIsEarned
      <4>3. \A x : FollowsEvidence(x, c) => FollowsEvidence(x, c)'
        BY <1>6 DEF FollowsEvidence, Evidenced
      <4>4. Passes(c)'
        BY <1>2, <1>6 DEF Passes
      <4>5. QED
        BY <1>6, <3>2, <4>1, <4>2, <4>3, <4>4
    <3>3. QED
      BY <3>1, <3>2
  <2>3. QED
    BY <1>5, <2>1, <2>2 DEF PromotionsAreEarned
<1>12. QED
  BY <1>7, <1>8, <1>9, <1>10, <1>11

-----------------------------------------------------------------------------
(* The other steps.  None before the commit promotes anything.             *)
LEMMA ObservingLater ==
  ASSUME GrowthTypeInv, job.at \in Before, NEW at \in Before,
         job' = [job EXCEPT !.at = at]
  PROVE  /\ job' \in Job /\ job'.at = at /\ job'.at \notin After
         /\ job.evidence \in SUBSET Nat
BY JobIs DEF GrowthTypeInv, Job, Before, After

LEMMA SameRunsChangeOnce ==
  ASSUME GrowthTypeInv, RunsChangeOnce,
         UNCHANGED <<deepChanges, consolidations>>,
         job'.at \in Before => job.at \in Before
  PROVE  RunsChangeOnce'
BY DEF RunsChangeOnce, Run

LEMMA StartingKeeps == ASSUME GrowthInv, StartJob PROVE GrowthInv'
<1> USE DEF GrowthInv
<1>1. /\ consolidations' = Append(consolidations, [since |-> Len(changes), completed |-> FALSE])
      /\ UNCHANGED <<changes, retold, adaptations, candidates, priorities, baselines,
                     theme, history, deepState, deepChanges>>
  BY DEF StartJob
<1>2. Len(changes) \in Nat /\ DOMAIN changes \subseteq Nat
  BY DEF GrowthTypeInv
<1>3. /\ job' \in [at : {"observing"}, evidence : SUBSET Nat]
      /\ job' \in Job /\ job'.at \notin After
  <2>1. job' = [at |-> "observing",
                evidence |-> {i \in DOMAIN changes :
                                ReadUpTo < i /\ i <= ReadUpTo + MaxRead}]
    BY DEF StartJob
  <2>2. job' \in [at : {"observing"}, evidence : SUBSET Nat]
    BY <1>2, <2>1
  <2>3. QED
    BY <2>2 DEF Job, Before, After
<1>4. /\ consolidations' \in Seq([since : Nat, completed : BOOLEAN])
      /\ Run \in Nat /\ Run' = Run + 1
  BY <1>1, <1>2 DEF GrowthTypeInv, Run
<1>5. GrowthTypeInv'
  BY <1>1, <1>3, <1>4 DEF GrowthTypeInv, Scale, Unset
<1>6. RunsChangeOnce'
  BY <1>1, <1>4 DEF RunsChangeOnce
<1>7. candidates' \in Kept
  BY <1>1, TheSameAreKept
<1>8. QED
  BY <1>1, <1>3, <1>5, <1>6, <1>7, NothingPromoted

LEMMA RaisingCandidatesKeeps == ASSUME GrowthInv, RaiseCandidates PROVE GrowthInv'
<1> USE DEF GrowthInv
<1>1. /\ job.at = "raising" /\ job' = [job EXCEPT !.at = "expiring"]
      /\ UNCHANGED <<changes, retold, adaptations, priorities, baselines, theme,
                     history, deepState, deepChanges, consolidations>>
  BY DEF RaiseCandidates
<1>2. /\ job' \in Job /\ job'.at = "expiring" /\ job'.at \notin After
      /\ job.evidence \in SUBSET Nat /\ job.at \in Before
  BY <1>1, ObservingLater DEF Before
<1>3. candidates' \in Kept
  <2>1. candidates' =
          FoldSet(LAMBDA lead, rows : RaiseCandidate(rows, lead), candidates, Leading)
    BY DEF RaiseCandidates, Leading
  <2>2. QED
    BY <1>2, <2>1, RaisedIsKept
<1>4. GrowthTypeInv'
  <2>1. candidates' \in Seq(CandidateRow)
    BY <1>3 DEF Kept
  <2>2. QED
    BY <1>1, <1>2, <2>1 DEF GrowthTypeInv, Scale, Unset
<1>5. RunsChangeOnce'
  BY <1>1, <1>2, SameRunsChangeOnce
<1>6. QED
  BY <1>1, <1>2, <1>3, <1>4, <1>5, NothingPromoted

LEMMA ExpiringKeeps == ASSUME GrowthInv, ExpireCandidates PROVE GrowthInv'
<1> USE DEF GrowthInv
<1>1. /\ job.at = "expiring" /\ job' = [job EXCEPT !.at = "retelling"]
      /\ UNCHANGED <<changes, retold, adaptations, priorities, baselines, theme,
                     history, deepState, deepChanges, consolidations>>
  BY DEF ExpireCandidates
<1>2. /\ job' \in Job /\ job'.at = "retelling" /\ job'.at \notin After /\ job.at \in Before
  BY <1>1, ObservingLater DEF Before
<1>3. candidates' \in Kept
  <2>1. PICK idle \in SUBSET Accumulating :
          candidates' = [c \in DOMAIN candidates |->
            IF c \in idle THEN [candidates[c] EXCEPT !.status = "expired"]
            ELSE candidates[c]]
    BY DEF ExpireCandidates
  <2>2. candidates \in Seq(CandidateRow)
    BY DEF GrowthTypeInv
  <2>3. DOMAIN candidates = 1 .. Len(candidates) /\ Len(candidates) \in Nat
    BY <2>2
  <2>4. ASSUME NEW c \in DOMAIN candidates
        PROVE  /\ candidates'[c] \in CandidateRow
               /\ candidates'[c].status = "promoted" => candidates[c].status = "promoted"
               /\ candidates[c].status = "promoted" => candidates'[c] = candidates[c]
    <3>1. candidates[c] \in CandidateRow
      BY <2>2
    <3>2. CASE c \in idle
      <4>1. candidates'[c] = [candidates[c] EXCEPT !.status = "expired"]
        BY <2>1, <3>2
      <4>2. candidates[c].status = "accumulating"
        BY <3>2 DEF Accumulating
      <4>3. candidates'[c] \in CandidateRow /\ candidates'[c].status = "expired"
        BY <3>1, <4>1 DEF CandidateRow
      <4>4. QED
        BY <4>2, <4>3
    <3>3. CASE c \notin idle
      BY <2>1, <3>1, <3>3
    <3>4. QED
      BY <3>2, <3>3
  <2>5. candidates' \in [1 .. Len(candidates) -> CandidateRow]
    BY <2>1, <2>3, <2>4
  <2>6. candidates' \in Seq(CandidateRow) /\ DOMAIN candidates' = DOMAIN candidates
    BY <2>3, <2>5
  <2>7. QED
    BY <2>4, <2>6 DEF Kept
<1>4. GrowthTypeInv'
  <2>1. candidates' \in Seq(CandidateRow)
    BY <1>3 DEF Kept
  <2>2. QED
    BY <1>1, <1>2, <2>1 DEF GrowthTypeInv, Scale, Unset
<1>5. RunsChangeOnce'
  BY <1>1, <1>2, SameRunsChangeOnce
<1>6. QED
  BY <1>1, <1>2, <1>3, <1>4, <1>5, NothingPromoted

LEMMA ThemesAre == ASSUME NEW n \in Nat PROVE ThemeStrength(n) \in Nat
<1>1. n + 6 \in Nat \ {0} /\ 100 \in Nat
  OBVIOUS
<1>2. (100 * n) \div (n + 6) \in Nat
  BY <1>1, ShareOfAGain
<1>3. QED
  BY <1>2 DEF ThemeStrength

\* The steps that touch neither the candidates nor the records.
LEMMA OtherStepsKeep ==
  ASSUME GrowthInv,
         LifeChanges \/ Retell \/ ObserveEvidence \/ UpdateThemes \/ FinishJob \/ CutJob
  PROVE  GrowthInv'
<1> USE DEF GrowthInv
<1>1. UNCHANGED <<candidates, priorities, baselines, history, deepState, deepChanges>>
  BY DEF LifeChanges, Retell, ObserveEvidence, UpdateThemes, FinishJob, CutJob
<1>2. candidates' \in Kept
  BY <1>1, TheSameAreKept
<1>3. NoJob \in Job /\ NoJob.at \notin Before \cup After
  BY DEF NoJob, Job, Before, After
<1>4. CASE LifeChanges \/ Retell
  <2>1. UNCHANGED <<theme, consolidations, job>>
    BY <1>4 DEF LifeChanges, Retell
  <2>2. changes' \in Seq([adaptation : Adaptation, direction : {-1, 1}])
    <3> DEFINE row == [adaptation : Adaptation, direction : {-1, 1}]
    <3>1. changes' = changes \/ \E e \in row : changes' = Append(changes, e)
      <4>1. \A a \in Adaptation, d \in {-1, 1} : [adaptation |-> a, direction |-> d] \in row
        OBVIOUS
      <4> HIDE DEF row
      <4>2. QED
        BY <1>4, <4>1 DEF LifeChanges, Retell
    <3> HIDE DEF row
    <3>2. changes \in Seq(row)
      BY DEF GrowthTypeInv, row
    <3>3. changes' \in Seq(row)
      BY <3>1, <3>2
    <3>4. QED
      BY <3>3 DEF row
  <2>3. retold' \in Nat
    BY <1>4 DEF LifeChanges, Retell, GrowthTypeInv
  <2>4. GrowthTypeInv'
    BY <1>1, <2>1, <2>2, <2>3 DEF GrowthTypeInv, Scale, Unset
  <2>5. RunsChangeOnce'
    BY <1>1, <2>1, SameRunsChangeOnce
  <2>6. CommitsAreRecorded' /\ PromotableIsEarned'
    BY <1>1, <2>1
    DEF CommitsAreRecorded, PromotableIsEarned, Run, Passes, CommittedTo, FollowsEvidence,
        Evidenced
  <2>7. PromotionsAreEarned'
    BY <1>1, <1>2, EarnedStays
  <2>8. QED
    BY <2>4, <2>5, <2>6, <2>7
<1>5. CASE ObserveEvidence \/ UpdateThemes
  <2>1. PICK at \in Before : job.at \in Before /\ job' = [job EXCEPT !.at = at]
    BY <1>5 DEF ObserveEvidence, UpdateThemes, Before
  <2>2. job' \in Job /\ job'.at \notin After
    BY <2>1, ObservingLater
  <2>3. UNCHANGED <<changes, retold, consolidations>>
    BY <1>5 DEF ObserveEvidence, UpdateThemes
  <2>4. theme' \in Nat
    BY <1>5, ThemesAre DEF ObserveEvidence, UpdateThemes, GrowthTypeInv
  <2>5. GrowthTypeInv'
    BY <1>1, <2>2, <2>3, <2>4 DEF GrowthTypeInv, Scale, Unset
  <2>6. RunsChangeOnce'
    BY <1>1, <2>1, <2>3, SameRunsChangeOnce
  <2>7. QED
    BY <1>1, <1>2, <2>2, <2>5, <2>6, NothingPromoted
<1>6. CASE FinishJob
  <2>1. /\ consolidations' = [consolidations EXCEPT ![Run].completed = TRUE]
        /\ job' = NoJob /\ UNCHANGED <<changes, retold, theme>>
    BY <1>6 DEF FinishJob
  <2>2. /\ consolidations' \in Seq([since : Nat, completed : BOOLEAN])
        /\ Len(consolidations') = Len(consolidations)
    <3> DEFINE row == [since : Nat, completed : BOOLEAN]
               n == Len(consolidations)
    <3>1. consolidations \in Seq(row) /\ n \in Nat
      BY DEF GrowthTypeInv
    <3>2. \A r \in row : [r EXCEPT !.completed = TRUE] \in row
      OBVIOUS
    <3> HIDE DEF row
    <3>3. consolidations \in [1 .. n -> row]
      BY <3>1
    <3>4. consolidations' =
            [consolidations EXCEPT ![Run] = [consolidations[Run] EXCEPT !.completed = TRUE]]
      BY <2>1
    <3> HIDE DEF n
    <3>5. consolidations' \in [1 .. n -> row]
      BY <3>2, <3>3, <3>4
    <3>6. consolidations' \in Seq(row) /\ Len(consolidations') = n
      BY <3>1, <3>5
    <3>7. QED
      BY <3>6 DEF row, n
  <2>3. GrowthTypeInv'
    BY <1>1, <1>3, <2>1, <2>2 DEF GrowthTypeInv, Scale, Unset
  <2>4. RunsChangeOnce'
    BY <1>1, <1>3, <2>1, <2>2 DEF RunsChangeOnce, Run
  <2>5. QED
    BY <1>1, <1>2, <1>3, <2>1, <2>3, <2>4, NothingPromoted
<1>7. CASE CutJob
  <2>1. job' = NoJob /\ UNCHANGED <<changes, retold, theme, consolidations>>
    BY <1>7 DEF CutJob
  <2>2. GrowthTypeInv'
    BY <1>1, <1>3, <2>1 DEF GrowthTypeInv, Scale, Unset
  <2>3. RunsChangeOnce'
    BY <1>1, <1>3, <2>1, SameRunsChangeOnce
  <2>4. QED
    BY <1>1, <1>2, <1>3, <2>1, <2>2, <2>3, NothingPromoted
<1>8. QED
  BY <1>4, <1>5, <1>6, <1>7

\* The job moves on once nothing is left to promote.
LEMMA MovingOnKeeps ==
  ASSUME GrowthInv, job.at \in After, NEW at \in After, job' = [job EXCEPT !.at = at],
         UNCHANGED <<changes, retold, adaptations, candidates, priorities, baselines,
                     theme, history, deepState, deepChanges, consolidations>>
  PROVE  GrowthInv'
<1> USE DEF GrowthInv
<1>1. /\ job' \in Job /\ job'.at \in After /\ job'.at \notin Before
      /\ job'.committed = job.committed
  BY JobIs DEF GrowthTypeInv, Job, Before, After
<1>2. GrowthTypeInv'
  BY <1>1 DEF GrowthTypeInv, Scale, Unset
<1>3. RunsChangeOnce'
  BY <1>1, SameRunsChangeOnce
<1>4. CommitsAreRecorded' /\ PromotableIsEarned'
  BY <1>1
  DEF CommitsAreRecorded, PromotableIsEarned, Run, Passes, CommittedTo, FollowsEvidence,
      Evidenced
<1>5. candidates' \in Kept
  BY TheSameAreKept
<1>6. QED
  BY <1>2, <1>3, <1>4, <1>5, EarnedStays

LEMMA CommittedIs ==
  ASSUME GrowthTypeInv, job.at \in After, NEW p \in job.committed
  PROVE  /\ p.target \in Target /\ p.value \in Scale(p.target) /\ p.value \in Nat
         /\ p.target.domain = "personality" => p.value \in 0 .. 100
<1>1. p \in Change
  BY JobIs DEF GrowthTypeInv
<1>2. p.target \in Target /\ p.value \in Scale(p.target)
  BY <1>1 DEF Change, Proposal
<1>3. \A n \in Scale(p.target) : n \in Nat
  BY DEF Scale
<1>4. p.target.domain = "personality" => Scale(p.target) = 0 .. 100
  BY DEF Scale
<1>5. QED
  BY <1>2, <1>3, <1>4

LEMMA PromotingATraitKeeps == ASSUME GrowthInv, PromoteTrait PROVE GrowthInv'
<1> USE DEF GrowthInv
<1>1. /\ job.at = "growing" /\ job.at \in After
      /\ UNCHANGED <<changes, retold, adaptations, priorities, theme, deepState,
                     deepChanges, consolidations>>
  BY DEF PromoteTrait, After
<1>2. CASE Promotable("personality") = {}
  <2>1. /\ job' = [job EXCEPT !.at = "shifting"]
        /\ UNCHANGED <<candidates, baselines, history>>
    BY <1>2 DEF PromoteTrait
  <2>2. QED
    BY <1>1, <2>1, MovingOnKeeps DEF After
<1>3. CASE Promotable("personality") # {}
  <2>1. PICK c \in Promotable("personality") :
          LET t == candidates[c].target
              value == (CHOOSE p \in CommittedTo(t) : TRUE).value
          IN /\ baselines' = [baselines EXCEPT ![t.key] = @ + (value - @) \div 5]
             /\ history' = history \cup {[run |-> Run, target |-> t, new |-> value]}
             /\ Promote(c)
             /\ UNCHANGED job
    BY <1>3 DEF PromoteTrait
  <2> DEFINE t == candidates[c].target
             p == CHOOSE q \in CommittedTo(t) : TRUE
             H == {[run |-> Run, target |-> t, new |-> p.value]}
  <2>2. /\ baselines' = [baselines EXCEPT ![t.key] = @ + (p.value - @) \div 5]
        /\ history' = history \cup H
        /\ Promote(c) /\ UNCHANGED job
    BY <2>1
  <2>3. p \in job.committed /\ p.target = t
    BY DEF Promotable, CommittedTo
  <2>4. t \in Target /\ t.domain = "personality"
    BY RipeRows DEF Promotable
  <2>5. p.value \in 0 .. 100 /\ t.key \in Trait
    BY <1>1, <2>3, <2>4, CommittedIs, CurrentIs
  <2>6. baselines' \in [Trait -> 0 .. 100]
    <3>1. baselines \in [Trait -> 0 .. 100]
      BY DEF GrowthTypeInv
    <3> DEFINE old == baselines[t.key]
               new == p.value
    <3>2. old \in 0 .. 100 /\ new \in 0 .. 100
      BY <2>5, <3>1
    <3>3. baselines' = [baselines EXCEPT ![t.key] = old + (new - old) \div 5]
      BY <2>2, <2>5, <3>1
    <3> HIDE DEF old, new
    <3>4. old + (new - old) \div 5 \in 0 .. 100
      BY <3>2
    <3>5. QED
      BY <2>5, <3>1, <3>3, <3>4
  <2>7. \A h \in H : h.run = Run /\ \E q \in job.committed :
                                      q.target = h.target /\ q.value = h.new
    BY <2>3
  <2>8. /\ candidates' \in Seq(CandidateRow) /\ RunsChangeOnce' /\ CommitsAreRecorded'
        /\ PromotableIsEarned' /\ PromotionsAreEarned'
    <3> HIDE DEF H
    <3> QED
      BY <1>1, <2>2, <2>7, PromotingKeeps
  <2>9. GrowthTypeInv'
    BY <1>1, <2>2, <2>6, <2>8 DEF GrowthTypeInv, Scale, Unset
  <2>10. QED
    BY <2>8, <2>9
<1>4. QED
  BY <1>2, <1>3

LEMMA PromotingAValueKeeps == ASSUME GrowthInv, PromoteValue PROVE GrowthInv'
<1> USE DEF GrowthInv
<1>1. /\ job.at = "shifting" /\ job.at \in After
      /\ UNCHANGED <<changes, retold, adaptations, baselines, theme, deepState,
                     deepChanges, consolidations>>
  BY DEF PromoteValue, After
<1>2. CASE Promotable("values") = {}
  <2>1. /\ job' = [job EXCEPT !.at = "finishing"]
        /\ UNCHANGED <<candidates, priorities, history>>
    BY <1>2 DEF PromoteValue
  <2>2. QED
    BY <1>1, <2>1, MovingOnKeeps DEF After
<1>3. CASE Promotable("values") # {}
  <2> DEFINE moved == {p \in job.committed : p.target.domain = "values"}
             H == {[run |-> Run, target |-> p.target, new |-> p.value] : p \in moved}
  <2>1. PICK c \in Promotable("values") :
          /\ priorities' = [v \in ValueName |->
               IF \E p \in moved : p.target.key = v
               THEN (CHOOSE p \in moved : p.target.key = v).value
               ELSE priorities[v]]
          /\ history' = history \cup H
          /\ Promote(c)
          /\ UNCHANGED job
    BY <1>3 DEF PromoteValue
  <2>2. priorities' \in [ValueName -> Nat]
    <3>1. ASSUME NEW v \in ValueName PROVE priorities'[v] \in Nat
      <4>1. CASE \E p \in moved : p.target.key = v
        <5>1. PICK p \in moved : priorities'[v] = p.value
          BY <2>1, <4>1
        <5>2. QED
          BY <1>1, <5>1, CommittedIs
      <4>2. CASE ~\E p \in moved : p.target.key = v
        BY <2>1, <4>2 DEF GrowthTypeInv
      <4>3. QED
        BY <4>1, <4>2
    <3>2. QED
      BY <2>1, <3>1
  <2>3. \A h \in H : h.run = Run /\ \E q \in job.committed :
                                      q.target = h.target /\ q.value = h.new
    OBVIOUS
  <2>4. /\ candidates' \in Seq(CandidateRow) /\ RunsChangeOnce' /\ CommitsAreRecorded'
        /\ PromotableIsEarned' /\ PromotionsAreEarned'
    <3> HIDE DEF H
    <3> QED
      BY <1>1, <2>1, <2>3, PromotingKeeps
  <2>5. GrowthTypeInv'
    BY <1>1, <2>1, <2>2, <2>4 DEF GrowthTypeInv, Scale, Unset
  <2>6. QED
    BY <2>4, <2>5
<1>4. QED
  BY <1>2, <1>3

\* The invariant of consolidation: what it keeps in its tables has its type, a
\* run of the pipeline changes deep state once, what the job took from the
\* commit is on record, and whatever it may yet promote, or has promoted, rests
\* on evidence (growth.py and values.py, their promote_committed).
THEOREM GrowthInvariance == GrowthSpec => []GrowthInv
<1>1. GrowthInit => GrowthInv
  BY GrowthInitially
<1>2. GrowthInv /\ [GrowthNext]_growthVars => GrowthInv'
  <2> SUFFICES ASSUME GrowthInv, [GrowthNext]_growthVars PROVE GrowthInv'
    OBVIOUS
  <2>1. CASE LifeChanges \/ Retell \/ ObserveEvidence \/ UpdateThemes \/ FinishJob \/ CutJob
    BY <2>1, OtherStepsKeep
  <2>2. CASE StartJob
    BY <2>2, StartingKeeps
  <2>3. CASE RaiseCandidates
    BY <2>3, RaisingCandidatesKeeps
  <2>4. CASE ExpireCandidates
    BY <2>4, ExpiringKeeps
  <2>5. CASE Review
    BY <2>5, ReviewKeeps
  <2>6. CASE PromoteTrait
    BY <2>6, PromotingATraitKeeps
  <2>7. CASE PromoteValue
    BY <2>7, PromotingAValueKeeps
  <2>8. CASE UNCHANGED growthVars
    <3>1. GrowthTypeInv'
      BY <2>8 DEF growthVars, GrowthInv, GrowthTypeInv, Scale, Unset
    <3>2. RunsChangeOnce' /\ CommitsAreRecorded'
      BY <2>8 DEF growthVars, GrowthInv, RunsChangeOnce, CommitsAreRecorded, Run
    <3>3. PromotableIsEarned'
      BY <2>8
      DEF growthVars, GrowthInv, PromotableIsEarned, Run, Passes, CommittedTo,
          FollowsEvidence, Evidenced
    <3>4. PromotionsAreEarned'
      BY <2>8
      DEF growthVars, GrowthInv, PromotionsAreEarned, Passes, FollowsEvidence, Evidenced
    <3>5. QED
      BY <3>1, <3>2, <3>3, <3>4 DEF GrowthInv
  <2>9. QED
    BY <2>1, <2>2, <2>3, <2>4, <2>5, <2>6, <2>7, <2>8 DEF GrowthNext
<1>3. QED
  BY <1>1, <1>2, PTL DEF GrowthSpec

\* Nobody changes for nothing: whatever the policy's thresholds and however
\* often the job is cut, a promoted candidate passed the gate and its run moved
\* its target as its evidence allows (PromotionsAreEarned).
THEOREM WhatShapedHerIsEarned == GrowthSpec => []PromotionsAreEarned
<1>1. GrowthInv => PromotionsAreEarned
  BY DEF GrowthInv
<1>2. QED
  BY <1>1, GrowthInvariance, PTL
=============================================================================
