-------------------------- MODULE OwnerTrustProofs --------------------------
(* The weight of an owner, the trust of a ring and the exactness of the    *)
(* stored scores, for all owners, services and reviews.                    *)
EXTENDS OwnerTrust, FiniteSetTheorems, WellFoundedInduction, TLAPS

\* Every non-empty set of numbers has a least one.
LEMMA LeastNumber ==
    ASSUME NEW S \in SUBSET Nat, S # {}
    PROVE  \E m \in S : \A x \in S : m <= x
<1> DEFINE Less == {p \in Nat \X Nat : p[1] < p[2]}
<1>1. IsWellFoundedOn(Less, Nat)
  BY NatLessThanWellFounded DEF OpToRel
<1> HIDE DEF Less
<1>2. PICK m \in S : \A x \in S : <<x, m>> \notin Less
  BY <1>1, WFMin
<1>3. ASSUME NEW x \in S PROVE m <= x
  <2>1. m \in Nat /\ x \in Nat /\ <<x, m>> \notin Less
    BY <1>2
  <2>2. ~ (x < m)
    BY <2>1 DEF Less
  <2>3. QED
    BY <2>1, <2>2
<1>4. QED
  BY <1>3

\* Of some finite sets, one is among the smallest.
LEMMA SmallestSet ==
    ASSUME NEW S, IsFiniteSet(S), NEW F \in SUBSET (SUBSET S), F # {}
    PROVE  \E T \in F : \A U \in F : Cardinality(T) <= Cardinality(U)
<1> DEFINE Sizes == {Cardinality(T) : T \in F}
<1>1. \A T \in F : IsFiniteSet(T) /\ Cardinality(T) \in Nat
  BY FS_Subset, FS_CardinalityType
<1>2. Sizes \in SUBSET Nat /\ Sizes # {}
  BY <1>1
<1>3. PICK m \in Sizes : \A x \in Sizes : m <= x
  BY <1>2, LeastNumber
<1>4. QED
  BY <1>3

(***************************************************************************)
(* Sums.                                                                   *)
(***************************************************************************)
Picked(T) == CHOOSE x \in T : TRUE
SumsTo(f, D, g) == g = [T \in D |-> IF T = {} THEN 0 ELSE f[Picked(T)] + g[T \ {Picked(T)}]]
UpTo(S, n) == {T \in SUBSET S : Cardinality(T) <= n}

\* There is a function that sums over the subsets of a size.
LEMMA SumsExist ==
    ASSUME NEW S, IsFiniteSet(S), NEW f, NEW n \in Nat
    PROVE  \E g : SumsTo(f, UpTo(S, n), g)
<1> DEFINE Bad == {k \in Nat : ~\E g : SumsTo(f, UpTo(S, k), g)}
<1>1. SUFFICES ASSUME Bad # {} PROVE FALSE
  OBVIOUS
<1>2. PICK m \in Bad : \A x \in Bad : m <= x
  BY <1>1, LeastNumber
<1>3. \A T \in SUBSET S : IsFiniteSet(T) /\ Cardinality(T) \in Nat /\ (Cardinality(T) = 0 <=> T = {})
  BY FS_Subset, FS_CardinalityType, FS_EmptySet
<1>4. \A T \in SUBSET S : T # {} =>
        /\ Picked(T) \in T /\ T \ {Picked(T)} \in SUBSET S
        /\ Cardinality(T \ {Picked(T)}) = Cardinality(T) - 1
  BY <1>3, FS_RemoveElement DEF Picked
<1>5. CASE m = 0
  <2> DEFINE g == [T \in UpTo(S, 0) |-> 0]
  <2>1. \A T \in UpTo(S, 0) : T = {}
    BY <1>3 DEF UpTo
  <2>2. SumsTo(f, UpTo(S, 0), g)
    BY <2>1 DEF SumsTo
  <2>3. QED
    BY <1>2, <1>5, <2>2
<1>6. CASE m # 0
  <2>1. m - 1 \in Nat /\ m - 1 \notin Bad
    BY <1>2, <1>6
  <2>2. PICK h : SumsTo(f, UpTo(S, m - 1), h)
    BY <2>1
  <2> DEFINE g == [T \in UpTo(S, m) |-> IF T = {} THEN 0 ELSE f[Picked(T)] + h[T \ {Picked(T)}]]
  <2>3. ASSUME NEW T \in UpTo(S, m - 1) PROVE T \in UpTo(S, m) /\ g[T] = h[T]
    <3>1. T \in UpTo(S, m)
      BY <1>2, <1>3 DEF UpTo
    <3>2. h[T] = IF T = {} THEN 0 ELSE f[Picked(T)] + h[T \ {Picked(T)}]
      BY <2>2 DEF SumsTo
    <3>3. QED
      BY <3>1, <3>2
  <2>4. ASSUME NEW T \in UpTo(S, m), T # {} PROVE T \ {Picked(T)} \in UpTo(S, m - 1)
    BY <1>2, <1>3, <1>4, <2>4 DEF UpTo
  <2>5. ASSUME NEW T \in UpTo(S, m)
        PROVE  g[T] = IF T = {} THEN 0 ELSE f[Picked(T)] + g[T \ {Picked(T)}]
    BY <2>3, <2>4
  <2>6. SumsTo(f, UpTo(S, m), g)
    BY <2>5 DEF SumsTo
  <2>7. QED
    BY <1>2, <2>6
<1>7. QED
  BY <1>5, <1>6

\* g holds the sums of f over the subsets of S.
Sums(f, S, g) ==
    /\ g[{}] = 0
    /\ \A T \in SUBSET S : T # {} => Picked(T) \in T /\ g[T] = f[Picked(T)] + g[T \ {Picked(T)}]

\* The sum of a function is the value of one of its elements and the sum of the others.
LEMMA SumEquation ==
    ASSUME NEW S, IsFiniteSet(S), NEW f, DOMAIN f = S
    PROVE  \E g : g[S] = SumFunction(f) /\ Sums(f, S, g)
<1> DEFINE iter == CHOOSE g : SumsTo(f, SUBSET S, g)
<1>1. UpTo(S, Cardinality(S)) = SUBSET S /\ Cardinality(S) \in Nat
  BY FS_Subset, FS_CardinalityType DEF UpTo
<1>2. SumsTo(f, SUBSET S, iter)
  <2>1. \E g : SumsTo(f, SUBSET S, g)
    <3>1. \E g : SumsTo(f, UpTo(S, Cardinality(S)), g)
      BY <1>1, SumsExist
    <3>2. QED
      BY <1>1, <3>1, Zenon
  <2>2. QED
    BY <2>1
<1>3. SumFunction(f) = iter[S]
  BY DEF SumFunction, SumFunctionOnSet, FoldFunctionOnSet, MapThenFoldSet, SumsTo, Picked
<1> HIDE DEF iter
<1>4. iter[{}] = 0
  BY <1>2 DEF SumsTo
<1>5. ASSUME NEW T \in SUBSET S, T # {}
      PROVE  Picked(T) \in T /\ iter[T] = f[Picked(T)] + iter[T \ {Picked(T)}]
  <2>1. Picked(T) \in T
    BY <1>5 DEF Picked
  <2>2. iter[T] = f[Picked(T)] + iter[T \ {Picked(T)}]
    BY <1>2, <1>5 DEF SumsTo
  <2>3. QED
    BY <2>1, <2>2
<1>6. Sums(f, S, iter)
  BY <1>4, <1>5 DEF Sums
<1>7. QED
  BY <1>3, <1>6

\* A sum of whole numbers is one.
LEMMA SumIsInt ==
    ASSUME NEW S, IsFiniteSet(S), NEW f, DOMAIN f = S, \A x \in S : f[x] \in Int
    PROVE  SumFunction(f) \in Int
<1>0. PICK g : g[S] = SumFunction(f) /\ Sums(f, S, g)
  BY SumEquation
<1>1. /\ g[S] = SumFunction(f)
      /\ g[{}] = 0
      /\ \A T \in SUBSET S : T # {} => \E x \in T : g[T] = f[x] + g[T \ {x}]
  BY <1>0, Zenon DEF Sums
<1> DEFINE Bad == {T \in SUBSET S : g[T] \notin Int}
<1>2. CASE Bad = {}
  BY <1>1, <1>2
<1>3. CASE Bad # {}
  <2>1. PICK T \in Bad : \A U \in Bad : Cardinality(T) <= Cardinality(U)
    BY <1>3, SmallestSet
  <2>2. T \in SUBSET S /\ T # {}
    <3>1. T \in SUBSET S /\ g[T] \notin Int
      BY <2>1
    <3>2. g[{}] \in Int
      BY <1>1
    <3>3. QED
      BY <3>1, <3>2
  <2>3. PICK x \in T : g[T] = f[x] + g[T \ {x}]
    BY <1>1, <2>2, Zenon
  <2>4. /\ T \ {x} \in SUBSET S /\ Cardinality(T) \in Nat
        /\ Cardinality(T \ {x}) = Cardinality(T) - 1
    BY <2>2, FS_Subset, FS_CardinalityType, FS_RemoveElement
  <2>5. T \ {x} \notin Bad
    BY <2>1, <2>4
  <2>6. g[T \ {x}] \in Int /\ f[x] \in Int
    BY <2>2, <2>4, <2>5
  <2>7. QED
    BY <2>1, <2>3, <2>6
<1>4. QED
  BY <1>2, <1>3

\* A sum is at most as many times the greatest value, and at least the least.
LEMMA SumBounds ==
    ASSUME NEW S, IsFiniteSet(S), NEW f, DOMAIN f = S, NEW lo \in Int, NEW hi \in Int,
           \A x \in S : f[x] \in Int /\ lo <= f[x] /\ f[x] <= hi
    PROVE  /\ lo * Cardinality(S) <= SumFunction(f)
           /\ SumFunction(f) <= hi * Cardinality(S)
<1>0. PICK g : g[S] = SumFunction(f) /\ Sums(f, S, g)
  BY SumEquation
<1>1. /\ g[S] = SumFunction(f)
      /\ g[{}] = 0
      /\ \A T \in SUBSET S : T # {} => \E x \in T : g[T] = f[x] + g[T \ {x}]
  BY <1>0, Zenon DEF Sums
<1> DEFINE Within(T) == g[T] \in Int /\ lo * Cardinality(T) <= g[T] /\ g[T] <= hi * Cardinality(T)
           Bad == {T \in SUBSET S : ~Within(T)}
<1>2. CASE Bad = {}
  BY <1>1, <1>2
<1>3. CASE Bad # {}
  <2>1. PICK T \in Bad : \A U \in Bad : Cardinality(T) <= Cardinality(U)
    BY <1>3, SmallestSet
  <2>2. T \in SUBSET S /\ T # {}
    <3>1. T \in SUBSET S /\ ~Within(T)
      BY <2>1
    <3>2. Within({})
      BY <1>1, FS_EmptySet
    <3>3. QED
      BY <3>1, <3>2
  <2>3. PICK x \in T : g[T] = f[x] + g[T \ {x}]
    BY <1>1, <2>2, Zenon
  <2>4. /\ T \ {x} \in SUBSET S /\ Cardinality(T) \in Nat
        /\ Cardinality(T \ {x}) = Cardinality(T) - 1
    BY <2>2, FS_Subset, FS_CardinalityType, FS_RemoveElement
  <2>5. Within(T \ {x})
    <3>1. T \ {x} \notin Bad
      BY <2>1, <2>4
    <3>2. QED
      BY <2>4, <3>1
  <2>6. PICK k \in Int : k = Cardinality(T)
    BY <2>4
  <2>7. PICK rest : rest = g[T \ {x}]
    OBVIOUS
  <2>8. rest \in Int /\ lo * (k - 1) <= rest /\ rest <= hi * (k - 1)
    BY <2>4, <2>5, <2>6, <2>7
  <2>9. f[x] \in Int /\ lo <= f[x] /\ f[x] <= hi
    BY <2>2
  <2>10. lo * (k - 1) = lo * k - lo /\ hi * (k - 1) = hi * k - hi
    BY <2>6
  <2>11. /\ lo * k \in Int /\ hi * k \in Int
    BY <2>6
  <2>12. f[x] + rest \in Int /\ lo * k <= f[x] + rest /\ f[x] + rest <= hi * k
    <3>1. PICK u \in Int, v \in Int : u = lo * k /\ v = hi * k
      BY <2>11
    <3>2. u - lo <= rest /\ rest <= v - hi
      BY <2>8, <2>10, <3>1
    <3>3. u <= f[x] + rest /\ f[x] + rest <= v
      BY <2>8, <2>9, <3>2
    <3>4. QED
      BY <2>8, <2>9, <3>1, <3>3
  <2>13. Within(T)
    BY <2>3, <2>6, <2>7, <2>12
  <2>14. QED
    BY <2>1, <2>13
<1>4. QED
  BY <1>2, <1>3

\* Nothing adds up to nothing.
LEMMA SumOfZeros ==
    ASSUME NEW S, IsFiniteSet(S), NEW f, DOMAIN f = S, \A x \in S : f[x] = 0
    PROVE  SumFunction(f) = 0
<1>1. PICK k \in Nat : k = Cardinality(S)
  BY FS_CardinalityType
<1>2. 0 * k <= SumFunction(f) /\ SumFunction(f) <= 0 * k
  BY <1>1, SumBounds
<1>3. QED
  BY <1>2, SumIsInt

\* What is within so many times a weight, term by term, adds up to as much.
LEMMA SumWithin ==
    ASSUME NEW S, IsFiniteSet(S), NEW f, DOMAIN f = S, NEW h, DOMAIN h = S, NEW c \in Int,
           \A x \in S : /\ f[x] \in Int /\ h[x] \in Int
                        /\ -(c * h[x]) <= f[x] /\ f[x] <= c * h[x]
    PROVE  -(c * SumFunction(h)) <= SumFunction(f) /\ SumFunction(f) <= c * SumFunction(h)
<1>1. PICK F : F[S] = SumFunction(f) /\ Sums(f, S, F)
  BY SumEquation
<1>2. PICK H : H[S] = SumFunction(h) /\ Sums(h, S, H)
  BY SumEquation
<1> DEFINE Within(T) == F[T] \in Int /\ H[T] \in Int /\ -(c * H[T]) <= F[T] /\ F[T] <= c * H[T]
           Bad == {T \in SUBSET S : ~Within(T)}
<1>3. CASE Bad = {}
  BY <1>1, <1>2, <1>3
<1>4. CASE Bad # {}
  <2>1. PICK T \in Bad : \A U \in Bad : Cardinality(T) <= Cardinality(U)
    BY <1>4, SmallestSet
  <2>2. T \in SUBSET S /\ ~Within(T)
    BY <2>1
  <2>3. T # {}
    <3>1. F[{}] = 0 /\ H[{}] = 0
      BY <1>1, <1>2, Zenon DEF Sums
    <3>2. Within({})
      BY <3>1
    <3>3. QED
      BY <2>2, <3>2
  <2>4. PICK x : x = Picked(T)
    OBVIOUS
  <2>5. x \in T /\ F[T] = f[x] + F[T \ {x}] /\ H[T] = h[x] + H[T \ {x}]
    BY <1>1, <1>2, <2>2, <2>3, <2>4, Zenon DEF Sums
  <2>6. /\ T \ {x} \in SUBSET S /\ Cardinality(T) \in Nat
        /\ Cardinality(T \ {x}) = Cardinality(T) - 1
    BY <2>2, <2>5, FS_Subset, FS_CardinalityType, FS_RemoveElement
  <2>7. T \ {x} \notin Bad
    BY <2>1, <2>6
  <2>8. PICK a, b, u, v : a = f[x] /\ b = h[x] /\ u = F[T \ {x}] /\ v = H[T \ {x}]
    OBVIOUS
  <2>9. u \in Int /\ v \in Int /\ -(c * v) <= u /\ u <= c * v
    BY <2>6, <2>7, <2>8
  <2>10. a \in Int /\ b \in Int /\ -(c * b) <= a /\ a <= c * b
    BY <2>2, <2>5, <2>8
  <2>11. c * (b + v) = c * b + c * v /\ c * b \in Int /\ c * v \in Int
    BY <2>9, <2>10
  <2>12. a + u \in Int /\ b + v \in Int /\ -(c * (b + v)) <= a + u /\ a + u <= c * (b + v)
    BY <2>9, <2>10, <2>11
  <2>13. F[T] = a + u /\ H[T] = b + v
    BY <2>5, <2>8
  <2>14. Within(T)
    BY <2>12, <2>13
  <2>15. QED
    BY <2>2, <2>14
<1>5. QED
  BY <1>3, <1>4

(***************************************************************************)
(* Weights, votes and scores.                                              *)
(***************************************************************************)
\* The least and the greatest of two numbers.
LEMMA LeastAndGreatest ==
    ASSUME NEW x \in Int, NEW y \in Int
    PROVE  /\ Min({x, y}) = IF x <= y THEN x ELSE y
           /\ Max({x, y}) = IF x <= y THEN y ELSE x
<1> DEFINE least == IF x <= y THEN x ELSE y
           greatest == IF x <= y THEN y ELSE x
<1>1. \A z \in {x, y} : (\A w \in {x, y} : z <= w) => z = least
  OBVIOUS
<1>2. least \in {x, y} /\ \A w \in {x, y} : least <= w
  OBVIOUS
<1>3. \A z \in {x, y} : (\A w \in {x, y} : z >= w) => z = greatest
  OBVIOUS
<1>4. greatest \in {x, y} /\ \A w \in {x, y} : greatest >= w
  OBVIOUS
<1> HIDE DEF least, greatest
<1>5. Min({x, y}) = least
  BY <1>1, <1>2 DEF Min
<1>6. Max({x, y}) = greatest
  BY <1>3, <1>4 DEF Max
<1>7. QED
  BY <1>5, <1>6 DEF least, greatest

\* Nobody weighs more than the cap, and a slashed or unproven owner weighs nothing.
LEMMA WeightOfTrust ==
    ASSUME NEW t \in StoredTrust
    PROVE  /\ EffectiveWeight(t) \in Int /\ 0 <= EffectiveWeight(t) /\ EffectiveWeight(t) <= Cap
           /\ t.slashed \/ (~t.seed /\ t.raw = 0) => EffectiveWeight(t) = 0
<1>1. /\ t.raw \in Int /\ Cap \in Int /\ Theta \in Int /\ 0 < Theta /\ Theta <= Cap
  BY TrustAssumption DEF StoredTrust
<1>2. Min({Cap, t.raw}) = IF Cap <= t.raw THEN Cap ELSE t.raw
  BY <1>1, LeastAndGreatest
<1>3. PICK slashed, seed, raw, least :
        slashed = t.slashed /\ seed = t.seed /\ raw = t.raw /\ least = Min({Cap, t.raw})
  OBVIOUS
<1>4. EffectiveWeight(t) = IF slashed THEN 0 ELSE IF seed THEN Cap ELSE IF raw < Theta THEN 0 ELSE least
  BY <1>3 DEF EffectiveWeight
<1>5. raw \in Int /\ least = IF Cap <= raw THEN Cap ELSE raw
  BY <1>1, <1>2, <1>3
<1>6. QED
  BY <1>1, <1>3, <1>4, <1>5

\* What a review's proof and rating count for.
LEMMA EvidenceOfReview ==
    ASSUME NEW row \in Review
    PROVE  /\ ProofMultiplier(row) \in {1, 2} /\ LegacyMultiplier(row) \in {1, 2}
           /\ row.rating \in Int
BY DEF ProofMultiplier, LegacyMultiplier, Review

\* A mean of some reviews is a number: they have some evidence.
LEMMA MeanIsInt ==
    ASSUME NEW S \in SUBSET Review, IsFiniteSet(S), S # {}
    PROVE  MeanLean(S) \in Int
<1> DEFINE leans == [row \in S |-> Scale * ProofMultiplier(row) * (row.rating - 3)]
           evidence == [row \in S |-> ProofMultiplier(row)]
<1>1. \A row \in S : leans[row] \in Int
  <2> TAKE row \in S
  <2>1. PICK m \in Int, r \in Int : m = ProofMultiplier(row) /\ r = row.rating
    BY EvidenceOfReview
  <2>2. Scale * m \in Int /\ Scale * m * (r - 3) \in Int
    BY TrustAssumption
  <2>3. QED
    BY <2>1, <2>2
<1>2. \A row \in S : evidence[row] \in Int /\ 1 <= evidence[row]
  BY EvidenceOfReview
<1>3. \A row \in S : evidence[row] <= 2
  BY EvidenceOfReview
<1>4. DOMAIN leans = S /\ DOMAIN evidence = S
  OBVIOUS
<1> HIDE DEF leans, evidence
<1>5. SumFunction(leans) \in Int /\ SumFunction(evidence) \in Int
  BY <1>1, <1>2, <1>4, SumIsInt
<1>6. PICK k \in Nat : k = Cardinality(S)
  BY FS_CardinalityType
<1>7. k > 0
  BY <1>6, FS_EmptySet
<1>8. 1 * k <= SumFunction(evidence)
  BY <1>2, <1>3, <1>4, <1>6, SumBounds
<1>9. SumFunction(evidence) > 0
  BY <1>5, <1>7, <1>8
<1>10. SumFunction(leans) \div SumFunction(evidence) \in Int
  <2>1. PICK u \in Int, v \in Int : u = SumFunction(leans) /\ v = SumFunction(evidence)
    BY <1>5
  <2>2. u \div v \in Int
    BY <1>9, <2>1
  <2>3. QED
    BY <2>1, <2>2
<1>11. QED
  BY <1>10 DEF MeanLean, leans, evidence

\* The owners with a hosted review, and the days of wallets with one of old.
HostedBy(S) == {o \in Owner : \E row \in S : row.basis = "hosted" /\ row.owner = o}
LegacyDays(S) == {<<row.wallet, row.day>> : row \in {x \in S : x.basis = "legacy"}}

\* A vote of an owner stands on hosted reviews of that owner.
LEMMA OwnerVoteRows ==
    ASSUME NEW S \in SUBSET Review, NEW vote \in OwnerVotes(S)
    PROVE  /\ vote.by \in Owner /\ vote.rows \in SUBSET S /\ vote.rows # {}
           /\ \A row \in vote.rows : Weighted(row) /\ row.owner = vote.by
<1>1. PICK voter \in {x \in S : Weighted(x)} :
        vote = [by |-> voter.owner, rows |-> {row \in S : Weighted(row) /\ row.owner = voter.owner}]
  BY DEF OwnerVotes
<1>2. voter.owner \in Owner
  BY <1>1 DEF Weighted, Review
<1>3. QED
  BY <1>1, <1>2

\* A vote of a wallet stands on reviews of old of that wallet.
LEMMA LegacyVoteRows ==
    ASSUME NEW S \in SUBSET Review, NEW vote \in LegacyVotes(S)
    PROVE  /\ vote.by \in Wallet /\ vote.rows \in SUBSET S /\ vote.rows # {}
           /\ \A row \in vote.rows : IsLegacyRow(row) /\ row.wallet = vote.by
<1>1. PICK voter \in {x \in S : IsLegacyRow(x)} :
        vote = [by |-> voter.wallet,
                rows |-> {row \in S : IsLegacyRow(row) /\ <<voter.wallet, voter.day>> = <<row.wallet, row.day>>}]
  BY DEF LegacyVotes
<1>2. voter.wallet \in Wallet
  BY <1>1 DEF IsLegacyRow, Review
<1>3. QED
  BY <1>1, <1>2

\* What a wallet's vote weighs.
LEMMA WeightOfLegacyVote ==
    ASSUME NEW S \in SUBSET Review, NEW vote \in LegacyVotes(S)
    PROVE  /\ LegacyWeight(vote) \in Int /\ 0 <= LegacyWeight(vote) /\ LegacyWeight(vote) <= 2 * Cap
           /\ EffectiveWeight(WalletTrust[vote.by]) = 0 => LegacyWeight(vote) = 0
<1> DEFINE multipliers == {LegacyMultiplier(row) : row \in vote.rows}
<1>1. vote.by \in Wallet /\ vote.rows \in SUBSET S /\ vote.rows # {}
  BY LegacyVoteRows
<1>2. multipliers \in SUBSET {1, 2} /\ multipliers # {}
  BY <1>1, EvidenceOfReview
<1> HIDE DEF multipliers
<1>3. \E x \in multipliers : \A y \in multipliers : x >= y
  <2>0. \A y \in multipliers : y = 1 \/ y = 2
    BY <1>2
  <2>1. CASE 2 \in multipliers
    <3>1. \A y \in multipliers : 2 >= y
      BY <2>0
    <3>2. QED
      BY <2>1, <3>1
  <2>2. CASE 2 \notin multipliers
    <3>1. \A y \in multipliers : y = 1
      BY <2>0, <2>2
    <3>2. PICK x \in multipliers : TRUE
      BY <1>2
    <3>3. x = 1 /\ \A y \in multipliers : 1 >= y
      BY <3>1
    <3>4. QED
      BY <3>2, <3>3
  <2>3. QED
    BY <2>1, <2>2
<1>4. Max(multipliers) \in {1, 2}
  BY <1>2, <1>3 DEF Max
<1>5. WalletTrust[vote.by] \in StoredTrust
  BY <1>1, TrustAssumption
<1>6. PICK w, m : w = EffectiveWeight(WalletTrust[vote.by]) /\ m = Max(multipliers)
  OBVIOUS
<1>7. w \in Int /\ 0 <= w /\ w <= Cap /\ m \in {1, 2} /\ Cap \in Int
  BY <1>4, <1>5, <1>6, WeightOfTrust, TrustAssumption
<1>8. LegacyWeight(vote) = w * m
  BY <1>6 DEF LegacyWeight, multipliers
<1>9. w * m \in Int /\ 0 <= w * m /\ w * m <= 2 * Cap /\ (w = 0 => w * m = 0)
  <2>1. CASE m = 1
    BY <1>7, <2>1
  <2>2. CASE m = 2
    BY <1>7, <2>2
  <2>3. QED
    BY <1>7, <2>1, <2>2
<1>10. QED
  BY <1>6, <1>8, <1>9

\* There are as many votes of owners as owners with a weighted review, or less.
LEMMA CountOwnerVotes ==
    ASSUME NEW S \in SUBSET Review
    PROVE  /\ IsFiniteSet(OwnerVotes(S))
           /\ Cardinality(OwnerVotes(S)) <= Cardinality(HostedBy(S))
<1> DEFINE voters == {row.owner : row \in {x \in S : Weighted(x)}}
           f == [o \in voters |-> [by |-> o, rows |-> {row \in S : Weighted(row) /\ row.owner = o}]]
<1>1. voters \in SUBSET HostedBy(S)
  BY DEF Weighted, Review, HostedBy
<1>2. HostedBy(S) \in SUBSET Owner
  BY DEF HostedBy
<1>3. IsFiniteSet(HostedBy(S))
  BY <1>2, FS_Subset, TrustAssumption
<1>4. IsFiniteSet(voters) /\ Cardinality(voters) <= Cardinality(HostedBy(S))
  BY <1>1, <1>3, FS_Subset
<1>5. f \in Surjection(voters, OwnerVotes(S))
  <2>1. OwnerVotes(S) = {f[o] : o \in voters}
    BY DEF OwnerVotes
  <2>2. DOMAIN f = voters
    OBVIOUS
  <2> HIDE DEF voters
  <2>3. f \in [voters -> OwnerVotes(S)]
    BY <2>1
  <2> HIDE DEF f
  <2>4. \A vote \in OwnerVotes(S) : \E o \in voters : f[o] = vote
    BY <2>1
  <2>5. QED
    BY <2>3, <2>4 DEF Surjection
<1> HIDE DEF f, voters
<1>6. IsFiniteSet(OwnerVotes(S)) /\ Cardinality(OwnerVotes(S)) <= Cardinality(voters)
  BY <1>4, <1>5, FS_Surjection
<1>7. QED
  BY <1>3, <1>4, <1>6, FS_CardinalityType

\* There are as many votes of wallets as days with a review of old, or less.
LEMMA CountLegacyVotes ==
    ASSUME NEW S \in SUBSET Review, IsFiniteSet(S)
    PROVE  /\ IsFiniteSet(LegacyVotes(S)) /\ IsFiniteSet(LegacyDays(S))
           /\ Cardinality(LegacyVotes(S)) <= Cardinality(LegacyDays(S))
<1> DEFINE old == {x \in S : x.basis = "legacy"}
           voters == {<<row.wallet, row.day>> : row \in {x \in S : IsLegacyRow(x)}}
           f == [v \in voters |-> [by |-> v[1],
                                   rows |-> {row \in S : IsLegacyRow(row) /\ v = <<row.wallet, row.day>>}]]
           days == [row \in old |-> <<row.wallet, row.day>>]
<1>1. IsFiniteSet(LegacyDays(S))
  <2>1. IsFiniteSet(old)
    BY FS_Subset
  <2>2. days \in Surjection(old, LegacyDays(S))
    BY DEF Surjection, LegacyDays
  <2>3. QED
    BY <2>1, <2>2, FS_Surjection
<1>2. voters \in SUBSET LegacyDays(S)
  BY DEF IsLegacyRow, LegacyDays
<1>3. IsFiniteSet(voters) /\ Cardinality(voters) <= Cardinality(LegacyDays(S))
  BY <1>1, <1>2, FS_Subset
<1>4. f \in Surjection(voters, LegacyVotes(S))
  <2>1. LegacyVotes(S) = {f[v] : v \in voters}
    BY DEF LegacyVotes
  <2>2. DOMAIN f = voters
    OBVIOUS
  <2> HIDE DEF voters
  <2>3. f \in [voters -> LegacyVotes(S)]
    BY <2>1
  <2> HIDE DEF f
  <2>4. \A vote \in LegacyVotes(S) : \E v \in voters : f[v] = vote
    BY <2>1
  <2>5. QED
    BY <2>3, <2>4 DEF Surjection
<1> HIDE DEF f, voters
<1>5. IsFiniteSet(LegacyVotes(S)) /\ Cardinality(LegacyVotes(S)) <= Cardinality(voters)
  BY <1>3, <1>4, FS_Surjection
<1>6. QED
  BY <1>1, <1>3, <1>5, FS_CardinalityType

\* A greater number, so many times over, is a greater product.
LEMMA TimesMonotonic ==
    ASSUME NEW c \in Nat, NEW m \in Nat, NEW n \in Nat, m <= n
    PROVE  c * m <= c * n
<1>1. PICK d \in Nat : n = m + d
  <2>1. n - m \in Nat /\ n = m + (n - m)
    OBVIOUS
  <2>2. QED
    BY <2>1
<1>2. c * n = c * m + c * d
  BY <1>1
<1>3. c * d \in Nat /\ c * m \in Nat
  BY <1>1
<1>4. QED
  BY <1>2, <1>3

\* An owner adds at most the cap to a score, and a day of a wallet twice the cap.
LEMMA ScoreBounds ==
    ASSUME NEW S \in SUBSET Review, IsFiniteSet(S), NEW owners \in [Owner -> StoredTrust]
    PROVE  /\ ComputeScore(S, owners).hosted <= Cap * Cardinality(HostedBy(S))
           /\ ComputeScore(S, owners).legacy <= 2 * Cap * Cardinality(LegacyDays(S))
<1> DEFINE hosted == [vote \in OwnerVotes(S) |-> HostedWeight(vote, owners)]
           legacy == [vote \in LegacyVotes(S) |-> LegacyWeight(vote)]
<1>1. \A vote \in OwnerVotes(S) :
        hosted[vote] \in Int /\ 0 <= hosted[vote] /\ hosted[vote] <= Cap
  <2> TAKE vote \in OwnerVotes(S)
  <2>1. owners[vote.by] \in StoredTrust
    BY OwnerVoteRows
  <2>2. PICK w : w = EffectiveWeight(owners[vote.by])
    OBVIOUS
  <2>3. w \in Int /\ 0 <= w /\ w <= Cap
    BY <2>1, <2>2, WeightOfTrust
  <2>4. hosted[vote] = w
    BY <2>2 DEF HostedWeight
  <2>5. QED
    BY <2>3, <2>4
<1>2. \A vote \in LegacyVotes(S) :
        legacy[vote] \in Int /\ 0 <= legacy[vote] /\ legacy[vote] <= 2 * Cap
  BY WeightOfLegacyVote
<1>3. DOMAIN hosted = OwnerVotes(S) /\ DOMAIN legacy = LegacyVotes(S)
  OBVIOUS
<1>4. /\ ComputeScore(S, owners).hosted = SumFunction(hosted)
      /\ ComputeScore(S, owners).legacy = SumFunction(legacy)
  BY DEF ComputeScore, LegacyEvidence
<1> HIDE DEF hosted, legacy
<1>5. Cap \in Nat /\ 2 * Cap \in Nat
  BY TrustAssumption
<1>6. SumFunction(hosted) <= Cap * Cardinality(HostedBy(S))
  <2>1. IsFiniteSet(HostedBy(S))
    <3>1. HostedBy(S) \in SUBSET Owner
      BY DEF HostedBy
    <3>2. QED
      BY <3>1, FS_Subset, TrustAssumption
  <2>2. PICK m \in Nat, n \in Nat : m = Cardinality(OwnerVotes(S)) /\ n = Cardinality(HostedBy(S))
    BY <2>1, CountOwnerVotes, FS_CardinalityType
  <2>3. SumFunction(hosted) <= Cap * m
    BY <1>1, <1>3, <1>5, <2>2, CountOwnerVotes, SumBounds
  <2>4. Cap * m <= Cap * n
    BY <1>5, <2>2, CountOwnerVotes, TimesMonotonic
  <2>5. SumFunction(hosted) \in Int
    BY <1>1, <1>3, CountOwnerVotes, SumIsInt
  <2>6. Cap * m \in Int /\ Cap * n \in Int
    BY <1>5
  <2>7. QED
    BY <2>2, <2>3, <2>4, <2>5, <2>6
<1>7. SumFunction(legacy) <= 2 * Cap * Cardinality(LegacyDays(S))
  <2>1. PICK m \in Nat, n \in Nat : m = Cardinality(LegacyVotes(S)) /\ n = Cardinality(LegacyDays(S))
    BY CountLegacyVotes, FS_CardinalityType
  <2>2. PICK twice \in Nat : twice = 2 * Cap
    BY <1>5
  <2>3. SumFunction(legacy) <= twice * m
    BY <1>2, <1>3, <2>1, <2>2, CountLegacyVotes, SumBounds
  <2>4. twice * m <= twice * n
    BY <2>1, <2>2, CountLegacyVotes, TimesMonotonic
  <2>5. SumFunction(legacy) \in Int
    BY <1>2, <1>3, CountLegacyVotes, SumIsInt
  <2>6. twice * m \in Int /\ twice * n \in Int
    BY <2>2
  <2>7. QED
    BY <2>1, <2>2, <2>3, <2>4, <2>5, <2>6
<1>8. QED
  BY <1>4, <1>6, <1>7

\* When nobody who voted weighs anything, nobody leans either way.
LEMMA NoWeightNoLean ==
    ASSUME NEW S \in SUBSET Review, IsFiniteSet(S), NEW owners,
           \A vote \in OwnerVotes(S) : HostedWeight(vote, owners) = 0,
           \A vote \in LegacyVotes(S) : LegacyWeight(vote) = 0
    PROVE  ComputeScore(S, owners).lean = 0
<1> DEFINE hosted == [vote \in OwnerVotes(S) |-> HostedWeight(vote, owners) * MeanLean(vote.rows)]
           legacy == [vote \in LegacyVotes(S) |-> LegacyWeight(vote) * MeanLean(vote.rows)]
<1>1. \A vote \in OwnerVotes(S) : hosted[vote] = 0
  <2> TAKE vote \in OwnerVotes(S)
  <2>1. vote.rows \in SUBSET Review /\ IsFiniteSet(vote.rows) /\ vote.rows # {}
    BY OwnerVoteRows, FS_Subset
  <2>2. PICK mean \in Int : mean = MeanLean(vote.rows)
    BY <2>1, MeanIsInt
  <2>3. 0 * mean = 0
    BY <2>2
  <2>4. QED
    BY <2>2, <2>3
<1>2. \A vote \in LegacyVotes(S) : legacy[vote] = 0
  <2> TAKE vote \in LegacyVotes(S)
  <2>1. vote.rows \in SUBSET Review /\ IsFiniteSet(vote.rows) /\ vote.rows # {}
    BY LegacyVoteRows, FS_Subset
  <2>2. PICK mean \in Int : mean = MeanLean(vote.rows)
    BY <2>1, MeanIsInt
  <2>3. 0 * mean = 0
    BY <2>2
  <2>4. QED
    BY <2>2, <2>3
<1>3. DOMAIN hosted = OwnerVotes(S) /\ DOMAIN legacy = LegacyVotes(S)
  OBVIOUS
<1>4. ComputeScore(S, owners).lean = SumFunction(hosted) + SumFunction(legacy)
  BY DEF ComputeScore, Lean
<1> HIDE DEF hosted, legacy
<1>5. SumFunction(hosted) = 0 /\ SumFunction(legacy) = 0
  BY <1>1, <1>2, <1>3, CountOwnerVotes, CountLegacyVotes, SumOfZeros
<1>6. QED
  BY <1>4, <1>5

(***************************************************************************)
(* The replay.                                                             *)
(***************************************************************************)
Trail(S, start, n, g) ==
    g = [i \in 0..n |-> IF i = 0 THEN start ELSE AfterEvent(S, i, g[i - 1])]

\* There is a function that follows the replay up to a review.
LEMMA TrailExists ==
    ASSUME NEW S, NEW start, NEW n \in Nat
    PROVE  \E g : Trail(S, start, n, g)
<1> DEFINE Bad == {k \in Nat : ~\E g : Trail(S, start, k, g)}
<1>1. SUFFICES ASSUME Bad # {} PROVE FALSE
  OBVIOUS
<1>2. PICK m \in Bad : \A x \in Bad : m <= x
  BY <1>1, LeastNumber
<1>3. CASE m = 0
  <2> DEFINE g == [i \in 0..0 |-> start]
  <2>1. \A i \in 0..0 : i = 0
    OBVIOUS
  <2>2. Trail(S, start, 0, g)
    BY <2>1 DEF Trail
  <2>3. QED
    BY <1>2, <1>3, <2>2
<1>4. CASE m # 0
  <2>1. m - 1 \in Nat /\ m - 1 \notin Bad
    BY <1>2, <1>4
  <2>2. PICK h : Trail(S, start, m - 1, h)
    BY <2>1
  <2> DEFINE g == [i \in 0..m |-> IF i = 0 THEN start ELSE AfterEvent(S, i, h[i - 1])]
  <2>3. ASSUME NEW i \in 0..(m - 1) PROVE g[i] = h[i]
    <3>1. h[i] = IF i = 0 THEN start ELSE AfterEvent(S, i, h[i - 1])
      BY <2>2, Zenon DEF Trail
    <3>2. i \in 0..m
      BY <1>2
    <3>3. QED
      BY <3>1, <3>2
  <2>4. ASSUME NEW i \in 0..m, i # 0 PROVE i - 1 \in 0..(m - 1)
    BY <1>2, <2>4
  <2>5. ASSUME NEW i \in 0..m
        PROVE  g[i] = IF i = 0 THEN start ELSE AfterEvent(S, i, g[i - 1])
    <3>1. CASE i = 0
      BY <3>1
    <3>2. CASE i # 0
      <4>1. g[i - 1] = h[i - 1]
        BY <2>3, <2>4, <3>2
      <4>2. g[i] = AfterEvent(S, i, h[i - 1])
        BY <3>2
      <4> HIDE DEF g
      <4>3. QED
        BY <3>2, <4>1, <4>2
    <3>3. QED
      BY <3>1, <3>2
  <2>6. Trail(S, start, m, g)
    <3>1. g = [i \in 0..m |-> g[i]]
      OBVIOUS
    <3> HIDE DEF g
    <3>2. [i \in 0..m |-> g[i]] = [i \in 0..m |-> IF i = 0 THEN start ELSE AfterEvent(S, i, g[i - 1])]
      BY <2>5
    <3>3. QED
      BY <3>1, <3>2, Zenon DEF Trail
  <2>7. QED
    BY <1>2, <2>6
<1>5. QED
  BY <1>3, <1>4

\* What holds at the start and survives each event holds after the replay.
LEMMA ReplayStepByStep ==
    ASSUME NEW S, NEW Good, NEW start \in Good,
           \A owners \in Good : \A i \in 1..MaxReviewId : AfterEvent(S, i, owners) \in Good
    PROVE  ReplayFrom(S, start) \in Good
<1> DEFINE after == CHOOSE g : Trail(S, start, MaxReviewId, g)
<1>1. Trail(S, start, MaxReviewId, after)
  <2>1. \E g : Trail(S, start, MaxReviewId, g)
    BY TrailExists, TrustAssumption
  <2>2. QED
    BY <2>1
<1>2. ReplayFrom(S, start) = after[MaxReviewId]
  BY DEF ReplayFrom, Trail
<1> HIDE DEF after
<1>3. \A i \in 0..MaxReviewId : after[i] = IF i = 0 THEN start ELSE AfterEvent(S, i, after[i - 1])
  BY <1>1, Zenon DEF Trail
<1> DEFINE Bad == {i \in 0..MaxReviewId : after[i] \notin Good}
<1>4. CASE Bad = {}
  <2>1. MaxReviewId \in 0..MaxReviewId
    BY TrustAssumption
  <2>2. QED
    BY <1>2, <1>4, <2>1
<1>5. CASE Bad # {}
  <2>1. Bad \in SUBSET Nat
    OBVIOUS
  <2>2. PICK m \in Bad : \A x \in Bad : m <= x
    BY <1>5, <2>1, LeastNumber
  <2>3. m # 0
    BY <1>3, <2>2
  <2>4. m \in 1..MaxReviewId /\ m - 1 \in 0..MaxReviewId /\ ~ (m <= m - 1)
    BY <2>2, <2>3, TrustAssumption
  <2>5. after[m - 1] \in Good
    BY <2>2, <2>4
  <2>6. after[m] = AfterEvent(S, m, after[m - 1])
    BY <1>3, <2>2, <2>3
  <2>7. QED
    BY <2>2, <2>4, <2>5, <2>6
<1>6. QED
  BY <1>4, <1>5

\* A trust as reputation.py keeps it, in its bounds.
Bounded(t) == Floor <= t.raw /\ t.raw <= Cap

\* An event leaves trust in its bounds, and without a consensus at nothing.
LEMMA UpdateInBounds ==
    ASSUME NEW raw \in Int, NEW consensus, NEW rating
    PROVE  LET v == UpdatedRawTrust(raw, consensus, rating)
           IN  /\ v \in Int /\ Floor <= v /\ v <= Cap
               /\ raw = 0 /\ TrustDelta(consensus, rating) = 0 => v = 0
<1>1. PICK d : d = TrustDelta(consensus, rating)
  OBVIOUS
<1>2. d \in {0, Gain, -Loss}
  BY <1>1 DEF TrustDelta
<1>3. /\ Gain \in Int /\ Loss \in Int /\ Floor \in Int /\ Cap \in Int
      /\ Floor < 0 /\ 0 < Cap
  BY TrustAssumption
<1>4. d \in Int
  BY <1>2, <1>3
<1>5. PICK moved \in Int : moved = raw + d
  BY <1>4
<1>6. PICK raised \in Int : raised = Max({Floor, moved}) /\ Floor <= raised /\ (moved = 0 => raised = 0)
  BY <1>3, LeastAndGreatest
<1>7. PICK v \in Int : v = Min({Cap, raised}) /\ v <= Cap /\ Floor <= v /\ (raised = 0 => v = 0)
  BY <1>3, <1>6, LeastAndGreatest
<1>8. v = UpdatedRawTrust(raw, consensus, rating)
  BY <1>1, <1>5, <1>6, <1>7 DEF UpdatedRawTrust
<1>9. raw = 0 /\ d = 0 => moved = 0
  BY <1>5
<1>10. QED
  BY <1>1, <1>6, <1>7, <1>8, <1>9

\* What changes when only the number of an owner does.
LEMMA OnlyRawChanges ==
    ASSUME NEW t \in StoredTrust, NEW v \in Int
    PROVE  LET u == [t EXCEPT !.raw = v]
           IN  u \in StoredTrust /\ u.raw = v /\ u.seed = t.seed /\ u.slashed = t.slashed
BY DEF StoredTrust

\* What the event of an owner that is not pinned is about, and what it does.
Consensus(S, event, owners) == TrustConsensus(SeenBefore(S, event), owners, event.owner)
Rating(S, event) ==
    MeanLean({row \in S : Weighted(row) /\ row.service = event.service /\ row.owner = event.owner})
IsMove(S, event, owners, moved) ==
    /\ Weighted(event) /\ event.owner \in Owner /\ ~Pinned(owners[event.owner])
    /\ moved = [owners EXCEPT ![event.owner].raw =
                   UpdatedRawTrust(@, Consensus(S, event, owners), Rating(S, event))]

\* What an event does: nothing, or it moves the number of its owner.
LEMMA EventMovesItsOwner ==
    ASSUME NEW S \in SUBSET Review, NEW id, NEW owners \in [Owner -> StoredTrust],
           AfterEvent(S, id, owners) # owners
    PROVE  \E event \in S : IsMove(S, event, owners, AfterEvent(S, id, owners))
<1> DEFINE events == {row \in S : row.id = id /\ IsEvent(S, row)}
<1>1. events # {}
  BY DEF AfterEvent
<1>2. PICK event : event = CHOOSE e \in events : TRUE
  OBVIOUS
<1>3. event \in events
  BY <1>1, <1>2
<1>4. AfterEvent(S, id, owners) = Scored(S, event, owners)
  BY <1>1, <1>2 DEF AfterEvent
<1>5. Weighted(event) /\ event.owner \in Owner
  BY <1>3 DEF IsEvent, Weighted, Review
<1>6. ~Pinned(owners[event.owner])
  BY <1>4 DEF Scored
<1>7. IsMove(S, event, owners, Scored(S, event, owners))
  BY <1>5, <1>6 DEF Scored, IsMove, Consensus, Rating
<1>8. event \in S
  BY <1>3
<1>9. QED
  BY <1>4, <1>7, <1>8

\* A replay changes only numbers, never those of seeds and slashed owners.
SameStanding(t, u) ==
    /\ t.seed = u.seed /\ t.slashed = u.slashed
    /\ Pinned(u) => t = u
    /\ Bounded(u) => Bounded(t)

LEMMA EventKeepsStanding ==
    ASSUME NEW S \in SUBSET Review, NEW id, NEW owners \in [Owner -> StoredTrust]
    PROVE  /\ AfterEvent(S, id, owners) \in [Owner -> StoredTrust]
           /\ \A o \in Owner : SameStanding(AfterEvent(S, id, owners)[o], owners[o])
<1>1. CASE AfterEvent(S, id, owners) = owners
  BY <1>1 DEF SameStanding
<1>2. CASE AfterEvent(S, id, owners) # owners
  <2>0. PICK event \in S : IsMove(S, event, owners, AfterEvent(S, id, owners))
    BY <1>2, EventMovesItsOwner
  <2>1. /\ event.owner \in Owner /\ ~Pinned(owners[event.owner])
        /\ AfterEvent(S, id, owners) =
             [owners EXCEPT ![event.owner].raw =
                UpdatedRawTrust(@, Consensus(S, event, owners), Rating(S, event))]
    BY <2>0 DEF IsMove
  <2>2. PICK o \in Owner : o = event.owner
    BY <2>1
  <2>3. PICK t \in StoredTrust : t = owners[o]
    OBVIOUS
  <2>4. t.raw \in Int
    BY DEF StoredTrust
  <2>5. PICK v : v = UpdatedRawTrust(t.raw, Consensus(S, event, owners), Rating(S, event))
    OBVIOUS
  <2>6. v \in Int /\ Floor <= v /\ v <= Cap
    BY <2>4, <2>5, UpdateInBounds
  <2>7. PICK u : u = [t EXCEPT !.raw = v]
    OBVIOUS
  <2>8. u \in StoredTrust /\ u.raw = v /\ u.seed = t.seed /\ u.slashed = t.slashed
    BY <2>6, <2>7, OnlyRawChanges
  <2>9. AfterEvent(S, id, owners) = [owners EXCEPT ![o] = u]
    BY <2>1, <2>2, <2>3, <2>5, <2>7
  <2>10. /\ [owners EXCEPT ![o] = u] \in [Owner -> StoredTrust]
         /\ [owners EXCEPT ![o] = u][o] = u
         /\ \A x \in Owner : x # o => [owners EXCEPT ![o] = u][x] = owners[x]
    BY <2>8
  <2>11. SameStanding(u, owners[o])
    <3>1. Bounded(u)
      BY <2>6, <2>8 DEF Bounded
    <3>2. ~Pinned(owners[o])
      BY <2>1, <2>2
    <3>3. u.seed = owners[o].seed /\ u.slashed = owners[o].slashed
      BY <2>3, <2>8
    <3>4. QED
      BY <3>1, <3>2, <3>3 DEF SameStanding
  <2>12. \A x \in Owner : SameStanding(AfterEvent(S, id, owners)[x], owners[x])
    <3>1. \A x \in Owner : SameStanding(owners[x], owners[x])
      BY DEF SameStanding
    <3>2. QED
      BY <2>9, <2>10, <2>11, <3>1
  <2>13. QED
    BY <2>9, <2>10, <2>12
<1>3. QED
  BY <1>1, <1>2

\* Standing carries over from one event to the next.
LEMMA StandingTransitive ==
    ASSUME NEW t, NEW u, NEW v, SameStanding(t, u), SameStanding(u, v)
    PROVE  SameStanding(t, v)
BY DEF SameStanding, Pinned

LEMMA ReplayKeepsStanding ==
    ASSUME NEW S \in SUBSET Review, NEW start \in [Owner -> StoredTrust]
    PROVE  /\ ReplayFrom(S, start) \in [Owner -> StoredTrust]
           /\ \A o \in Owner : SameStanding(ReplayFrom(S, start)[o], start[o])
<1> DEFINE Good == {owners \in [Owner -> StoredTrust] :
                      \A o \in Owner : SameStanding(owners[o], start[o])}
<1>1. start \in Good
  BY DEF SameStanding
<1>2. ASSUME NEW owners \in Good, NEW i \in 1..MaxReviewId PROVE AfterEvent(S, i, owners) \in Good
  <2>1. owners \in [Owner -> StoredTrust] /\ \A o \in Owner : SameStanding(owners[o], start[o])
    OBVIOUS
  <2>2. /\ AfterEvent(S, i, owners) \in [Owner -> StoredTrust]
        /\ \A o \in Owner : SameStanding(AfterEvent(S, i, owners)[o], owners[o])
    BY <2>1, EventKeepsStanding
  <2>3. \A o \in Owner : SameStanding(AfterEvent(S, i, owners)[o], start[o])
    BY <2>1, <2>2, StandingTransitive
  <2>4. QED
    BY <2>2, <2>3
<1> HIDE DEF Good
<1>3. ReplayFrom(S, start) \in Good
  BY <1>1, <1>2, ReplayStepByStep
<1>4. QED
  BY <1>3 DEF Good

\* What a replay starts from.
StartOf(stored) == [o \in Owner |-> IF Pinned(stored[o]) THEN stored[o] ELSE [stored[o] EXCEPT !.raw = 0]]

LEMMA StartOfReplay ==
    ASSUME NEW stored \in [Owner -> StoredTrust]
    PROVE  /\ StartOf(stored) \in [Owner -> StoredTrust]
           /\ \A o \in Owner : /\ SameStanding(StartOf(stored)[o], stored[o])
                               /\ ~Pinned(stored[o]) => StartOf(stored)[o].raw = 0
<1>1. ASSUME NEW o \in Owner
      PROVE  /\ StartOf(stored)[o] \in StoredTrust
             /\ SameStanding(StartOf(stored)[o], stored[o])
             /\ ~Pinned(stored[o]) => StartOf(stored)[o].raw = 0
  <2>1. CASE Pinned(stored[o])
    <3>1. StartOf(stored)[o] = stored[o]
      BY <2>1 DEF StartOf
    <3>2. QED
      BY <2>1, <3>1 DEF SameStanding
  <2>2. CASE ~Pinned(stored[o])
    <3>1. StartOf(stored)[o] = [stored[o] EXCEPT !.raw = 0]
      BY <2>2 DEF StartOf
    <3>2. PICK u : u = [stored[o] EXCEPT !.raw = 0]
      OBVIOUS
    <3>3. stored[o] \in StoredTrust
      OBVIOUS
    <3>4. u \in StoredTrust /\ u.raw = 0 /\ u.seed = stored[o].seed /\ u.slashed = stored[o].slashed
      BY <3>2, <3>3, OnlyRawChanges
    <3>5. Bounded(u)
      BY <3>4, TrustAssumption DEF Bounded
    <3>6. SameStanding(u, stored[o])
      BY <2>2, <3>4, <3>5 DEF SameStanding
    <3>7. QED
      BY <3>1, <3>2, <3>4, <3>6
  <2>3. QED
    BY <2>1, <2>2
<1>2. StartOf(stored) = [o \in Owner |-> StartOf(stored)[o]]
  BY DEF StartOf
<1>3. QED
  BY <1>1, <1>2

\* A replay keeps who is a seed and who is slashed, and changes only numbers.
LEMMA ReplayKeepsTrust ==
    ASSUME NEW S \in SUBSET Review, NEW stored \in [Owner -> StoredTrust]
    PROVE  /\ Replay(S, stored) \in [Owner -> StoredTrust]
           /\ \A o \in Owner : SameStanding(Replay(S, stored)[o], stored[o])
<1>1. Replay(S, stored) = ReplayFrom(S, StartOf(stored))
  BY DEF Replay, StartOf
<1>2. PICK start \in [Owner -> StoredTrust] :
        start = StartOf(stored) /\ \A o \in Owner : SameStanding(start[o], stored[o])
  BY StartOfReplay
<1>3. /\ ReplayFrom(S, start) \in [Owner -> StoredTrust]
      /\ \A o \in Owner : SameStanding(ReplayFrom(S, start)[o], start[o])
  BY ReplayKeepsStanding
<1>4. \A o \in Owner : SameStanding(ReplayFrom(S, start)[o], stored[o])
  BY <1>2, <1>3, StandingTransitive
<1>5. QED
  BY <1>1, <1>2, <1>3, <1>4

(***************************************************************************)
(* Rings.                                                                  *)
(***************************************************************************)
\* Whatever the owners of G have reviewed, nobody else of weight has.
Alone(S, G) ==
    \A event, row \in S :
      /\ event.basis = "hosted" /\ event.owner \in G
      /\ row.service = event.service
      => ~Weighing(row) /\ (row.basis = "hosted" => row.owner \in G)
\* The same of the reviews that have weight today.
Secluded(S, G) ==
    \A event, row \in S :
      /\ Weighted(event) /\ event.owner \in G
      /\ row.service = event.service
      => ~Weighing(row) /\ (Weighted(row) => row.owner \in G)
\* Owners that count for nothing.
Weightless(t) == t.slashed \/ (~t.seed /\ t.raw = 0)

\* An event of a ring finds no consensus among the others.
LEMMA NoConsensusInRing ==
    ASSUME NEW S \in SUBSET Review, IsFiniteSet(S), NEW G \in SUBSET Owner, Secluded(S, G),
           NEW owners \in [Owner -> StoredTrust], \A o \in G : Weightless(owners[o]),
           NEW event \in S, Weighted(event), event.owner \in G
    PROVE  Consensus(S, event, owners) = 0
<1> DEFINE others == {row \in SeenBefore(S, event) : ~(Weighted(row) /\ row.owner = event.owner)}
<1>1. others \in SUBSET S /\ \A row \in others : row.service = event.service
  BY DEF SeenBefore, Of
<1>2. \A row \in others : ~Weighing(row) /\ (Weighted(row) => row.owner \in G)
  BY <1>1 DEF Secluded
<1>3. others \in SUBSET Review /\ IsFiniteSet(others)
  BY <1>1, FS_Subset
<1>4. Consensus(S, event, owners) = ComputeScore(others, owners).lean
  BY DEF Consensus, TrustConsensus
<1> HIDE DEF others
<1>5. ASSUME NEW vote \in OwnerVotes(others) PROVE HostedWeight(vote, owners) = 0
  <2>1. /\ vote.by \in Owner /\ vote.rows \in SUBSET others /\ vote.rows # {}
        /\ \A row \in vote.rows : Weighted(row) /\ row.owner = vote.by
    BY <1>3, OwnerVoteRows
  <2>2. PICK row \in vote.rows : TRUE
    BY <2>1
  <2>3. row \in others /\ Weighted(row) /\ row.owner = vote.by
    BY <2>1
  <2>4. vote.by \in G
    BY <1>2, <2>3
  <2>5. PICK t \in StoredTrust : t = owners[vote.by]
    BY <2>1
  <2>6. Weightless(t)
    BY <2>4, <2>5
  <2>7. EffectiveWeight(t) = 0
    BY <2>6, WeightOfTrust DEF Weightless
  <2>8. QED
    BY <2>5, <2>7 DEF HostedWeight
<1>6. ASSUME NEW vote \in LegacyVotes(others) PROVE LegacyWeight(vote) = 0
  <2>1. /\ vote.by \in Wallet /\ vote.rows \in SUBSET others /\ vote.rows # {}
        /\ \A row \in vote.rows : IsLegacyRow(row) /\ row.wallet = vote.by
    BY <1>3, LegacyVoteRows
  <2>2. PICK row \in vote.rows : TRUE
    BY <2>1
  <2>3. row \in others /\ IsLegacyRow(row) /\ row.wallet = vote.by
    BY <2>1
  <2>4. ~ (EffectiveWeight(WalletTrust[vote.by]) > 0)
    BY <1>2, <2>3 DEF Weighing
  <2>5. PICK t \in StoredTrust : t = WalletTrust[vote.by]
    BY <2>1, TrustAssumption
  <2>6. EffectiveWeight(t) = 0
    BY <2>4, <2>5, WeightOfTrust
  <2>7. QED
    BY <1>3, <2>5, <2>6, WeightOfLegacyVote
<1>7. QED
  BY <1>3, <1>4, <1>5, <1>6, NoWeightNoLean

\* Without a consensus an event moves nothing.
LEMMA NoConsensusNoMove ==
    ASSUME NEW rating \in Int
    PROVE  TrustDelta(0, rating) = 0
<1>1. 0 * rating = 0
  OBVIOUS
<1>2. QED
  BY <1>1 DEF TrustDelta

\* An event leaves a ring without weight.
LEMMA EventOfRing ==
    ASSUME NEW S \in SUBSET Review, IsFiniteSet(S), NEW G \in SUBSET Owner, Secluded(S, G),
           NEW owners \in [Owner -> StoredTrust], \A o \in G : Weightless(owners[o]), NEW id
    PROVE  \A o \in G : Weightless(AfterEvent(S, id, owners)[o])
<1>1. CASE AfterEvent(S, id, owners) = owners
  BY <1>1
<1>2. CASE AfterEvent(S, id, owners) # owners
  <2>1. PICK event \in S : IsMove(S, event, owners, AfterEvent(S, id, owners))
    BY <1>2, EventMovesItsOwner
  <2>2. /\ Weighted(event) /\ event.owner \in Owner /\ ~Pinned(owners[event.owner])
        /\ AfterEvent(S, id, owners) =
             [owners EXCEPT ![event.owner].raw =
                UpdatedRawTrust(@, Consensus(S, event, owners), Rating(S, event))]
    BY <2>1 DEF IsMove
  <2>3. PICK o \in Owner : o = event.owner
    BY <2>2
  <2>4. PICK t \in StoredTrust : t = owners[o]
    OBVIOUS
  <2>5. PICK v : v = UpdatedRawTrust(t.raw, Consensus(S, event, owners), Rating(S, event))
    OBVIOUS
  <2>6. AfterEvent(S, id, owners) = [owners EXCEPT ![o] = [t EXCEPT !.raw = v]]
    BY <2>2, <2>3, <2>4, <2>5
  <2>7. CASE o \notin G
    BY <2>6, <2>7
  <2>8. CASE o \in G
    <3>1. t.raw = 0 /\ ~t.slashed /\ ~t.seed
      BY <2>2, <2>3, <2>4, <2>8 DEF Weightless, Pinned
    <3>2. Consensus(S, event, owners) = 0
      BY <2>2, <2>3, <2>8, NoConsensusInRing
    <3>3. PICK rating \in Int : rating = Rating(S, event)
      <4> DEFINE votes == {row \in S : Weighted(row) /\ row.service = event.service
                                                      /\ row.owner = event.owner}
      <4>1. votes \in SUBSET Review /\ event \in votes /\ IsFiniteSet(votes)
        BY <2>2, FS_Subset
      <4>2. MeanLean(votes) \in Int
        BY <4>1, MeanIsInt
      <4>3. QED
        BY <4>2 DEF Rating
    <3>4. TrustDelta(Consensus(S, event, owners), Rating(S, event)) = 0
      BY <3>2, <3>3, NoConsensusNoMove
    <3>5. v = 0
      BY <2>5, <3>1, <3>4, UpdateInBounds
    <3>6. PICK u : u = [t EXCEPT !.raw = v]
      OBVIOUS
    <3>7. u.raw = 0 /\ u.seed = t.seed
      BY <3>5, <3>6, OnlyRawChanges
    <3>8. Weightless(u)
      BY <3>1, <3>7 DEF Weightless
    <3>9. AfterEvent(S, id, owners)[o] = u /\ \A x \in Owner : x # o => AfterEvent(S, id, owners)[x] = owners[x]
      BY <2>6, <3>6
    <3>10. QED
      BY <3>8, <3>9
  <2>9. QED
    BY <2>7, <2>8
<1>3. QED
  BY <1>1, <1>2

\* No replay gives a ring any trust.
LEMMA ReplayOfRing ==
    ASSUME NEW S \in SUBSET Review, IsFiniteSet(S), NEW G \in SUBSET Owner, Secluded(S, G),
           NEW stored \in [Owner -> StoredTrust], \A o \in G : ~stored[o].seed
    PROVE  \A o \in G : Weightless(Replay(S, stored)[o])
<1>1. Replay(S, stored) = ReplayFrom(S, StartOf(stored))
  BY DEF Replay, StartOf
<1>2. PICK start \in [Owner -> StoredTrust] :
        /\ start = StartOf(stored)
        /\ \A o \in Owner : SameStanding(start[o], stored[o]) /\ (~Pinned(stored[o]) => start[o].raw = 0)
  BY StartOfReplay
<1> DEFINE Good == {owners \in [Owner -> StoredTrust] : \A o \in G : Weightless(owners[o])}
<1>3. \A o \in G : Weightless(start[o])
  <2> TAKE o \in G
  <2>1. o \in Owner /\ ~stored[o].seed
    OBVIOUS
  <2>2. start[o].seed = stored[o].seed /\ start[o].slashed = stored[o].slashed
    BY <1>2, <2>1 DEF SameStanding
  <2>3. ~stored[o].slashed => start[o].raw = 0
    BY <1>2, <2>1 DEF Pinned
  <2>4. QED
    BY <2>1, <2>2, <2>3 DEF Weightless
<1>4. start \in Good
  BY <1>3
<1>5. ASSUME NEW owners \in Good, NEW i \in 1..MaxReviewId PROVE AfterEvent(S, i, owners) \in Good
  <2>1. owners \in [Owner -> StoredTrust] /\ \A o \in G : Weightless(owners[o])
    OBVIOUS
  <2>2. AfterEvent(S, i, owners) \in [Owner -> StoredTrust]
    BY <2>1, EventKeepsStanding
  <2>3. \A o \in G : Weightless(AfterEvent(S, i, owners)[o])
    BY <2>1, EventOfRing
  <2>4. QED
    BY <2>2, <2>3
<1> HIDE DEF Good
<1>6. ReplayFrom(S, start) \in Good
  BY <1>4, <1>5, ReplayStepByStep
<1>7. QED
  BY <1>1, <1>2, <1>6 DEF Good

(***************************************************************************)
(* The inductive invariant.                                                *)
(***************************************************************************)
\* Some rows of reviews, one an id.
IsTable(S) ==
    /\ S \in SUBSET Review /\ IsFiniteSet(S)
    /\ \A row, other \in S : row.id = other.id => row = other

\* The tables, whatever they say of one another.
TablesInv ==
    /\ scenario \in Scenario
    /\ IsTable(rows)
    /\ trust \in [Owner -> StoredTrust]
    /\ nextId \in Nat /\ \A row \in rows : row.id < nextId
    /\ deploys \in Nat /\ deploys < Len(scenario.lists)

\* What a transaction is about to write fits what is stored.
Outcome(t) == (rows \ t.drops) \cup t.adds
IsTransaction(t) ==
    /\ t.drops \in SUBSET rows
    /\ t.adds \in SUBSET Review /\ IsFiniteSet(t.adds) /\ \A new, other \in t.adds : new = other
    /\ \A new \in t.adds : \A row \in rows \ t.drops : new.id # row.id
    /\ \A new \in t.adds : new.id < nextId
    /\ t.services \in SUBSET Service
    /\ \A row \in t.drops \cup t.adds : row.service \in t.services
    /\ t.trust \in [Owner -> StoredTrust]
    /\ t.replays \in BOOLEAN
    /\ t.replays => t.adds = {} /\ t.services = Service

LockInv ==
    /\ DOMAIN tx = Process
    /\ \A p, q \in Process : tx[p] # None /\ tx[q] # None => p = q
    /\ \A p \in Process : tx[p] # None => IsTransaction(tx[p])

StoreInv == TablesInv /\ LockInv

\* Some scores of some services are those of one vote an owner and a day.
ScoresWithin(S, scores, services) ==
    \A s \in services :
      /\ scores[s].hosted <= Cap * Cardinality(HostedBy(Of(S, s)))
      /\ scores[s].legacy <= 2 * Cap * Cardinality(LegacyDays(Of(S, s)))
WeightInv ==
    /\ ScoresWithin(rows, score, Service)
    /\ \A p \in Process : tx[p] # None => ScoresWithin(Outcome(tx[p]), tx[p].score, tx[p].services)

\* IsRing, of any rows.
RingIn(S, G, owners) ==
    /\ \A o \in G : ~owners[o].seed
    /\ Alone(S, G)
RingInv ==
    \A p \in Process : tx[p] # None /\ tx[p].replays =>
      \A G \in SUBSET Owner : RingIn(rows, G, tx[p].trust) =>
        \A o \in G : Weightless(tx[p].trust[o])

\* With one list of seeds, and nothing to exclude: the stored trust is that of
\* the list, and a transaction writes what follows from the stored rows.
Quiet == Len(scenario.lists) = 1 /\ scenario.audited = {}
SeedsAre(owners, list) == \A o \in Owner : (owners[o].seed <=> o \in list) /\ (o \in list => owners[o].raw = Cap)
ExactTransaction(t) ==
    /\ t.trust = IF t.replays THEN Replay(Outcome(t), trust) ELSE trust
    /\ t.score = Scores(Outcome(t), t.trust)
ExactInv ==
    Quiet =>
      /\ Configured # {} => SeedsAre(trust, Configured)
      /\ score = Scores(rows, trust)
      /\ \A p \in Process : tx[p] # None => ExactTransaction(tx[p])

\* The trust of an owner stays in its bounds.
BoundsInv ==
    /\ \A o \in Owner : Bounded(trust[o])
    /\ \A p \in Process : tx[p] # None => \A o \in Owner : Bounded(tx[p].trust[o])

StateInv == StoreInv /\ WeightInv /\ RingInv /\ ExactInv /\ BoundsInv

(***************************************************************************)
(* What is true of any tables.                                             *)
(***************************************************************************)
\* A part of a table is one.
LEMMA PartOfTable ==
    ASSUME NEW S, IsTable(S), NEW T \in SUBSET S
    PROVE  IsTable(T)
BY FS_Subset DEF IsTable

\* A transaction leaves a table behind.
LEMMA OutcomeIsTable ==
    ASSUME IsTable(rows), NEW t, IsTransaction(t)
    PROVE  IsTable(Outcome(t))
<1>1. PICK kept : kept = rows \ t.drops
  OBVIOUS
<1>2. IsTable(kept)
  BY <1>1, PartOfTable
<1>3. PICK adds : adds = t.adds
  OBVIOUS
<1>4. /\ adds \in SUBSET Review /\ IsFiniteSet(adds)
      /\ \A new, other \in adds : new = other
      /\ \A new \in adds : \A row \in kept : new.id # row.id
  BY <1>1, <1>3 DEF IsTransaction
<1>5. kept \cup adds \in SUBSET Review
  BY <1>2, <1>4 DEF IsTable
<1>6. IsFiniteSet(kept \cup adds)
  BY <1>2, <1>4, FS_Union DEF IsTable
<1>7. ASSUME NEW row \in kept \cup adds, NEW other \in kept \cup adds, row.id = other.id
      PROVE  row = other
  <2>1. CASE row \in kept /\ other \in kept
    BY <1>2, <1>7, <2>1 DEF IsTable
  <2>2. CASE row \in adds /\ other \in adds
    BY <1>4, <2>2
  <2>3. CASE row \in kept /\ other \in adds
    BY <1>4, <1>7, <2>3
  <2>4. CASE row \in adds /\ other \in kept
    BY <1>4, <1>7, <2>4
  <2>5. QED
    BY <2>1, <2>2, <2>3, <2>4
<1>8. Outcome(t) = kept \cup adds
  BY <1>1, <1>3 DEF Outcome
<1>9. QED
  BY <1>5, <1>6, <1>7, <1>8 DEF IsTable

\* A transaction leaves the reviews of the services it does not write.
LEMMA OtherServicesKept ==
    ASSUME NEW t, IsTransaction(t), NEW s \in Service, ~(s \in t.services)
    PROVE  Of(Outcome(t), s) = Of(rows, s)
<1>1. \A row \in t.drops \cup t.adds : row.service # s
  BY DEF IsTransaction
<1>2. QED
  BY <1>1 DEF Of, Outcome

\* The scores of a table are within the votes it holds.
LEMMA ScoresOfTable ==
    ASSUME NEW S, IsTable(S), NEW owners \in [Owner -> StoredTrust], NEW services \in SUBSET Service
    PROVE  ScoresWithin(S, Scores(S, owners), services)
<1>1. ASSUME NEW s \in services
      PROVE  /\ Scores(S, owners)[s].hosted <= Cap * Cardinality(HostedBy(Of(S, s)))
             /\ Scores(S, owners)[s].legacy <= 2 * Cap * Cardinality(LegacyDays(Of(S, s)))
  <2>1. PICK T : T = Of(S, s)
    OBVIOUS
  <2>2. T \in SUBSET Review /\ IsFiniteSet(T)
    BY <2>1, FS_Subset DEF Of, IsTable
  <2>3. Scores(S, owners)[s] = ComputeScore(T, owners)
    BY <2>1 DEF Scores
  <2>4. QED
    BY <2>1, <2>2, <2>3, ScoreBounds
<1>2. QED
  BY <1>1 DEF ScoresWithin

\* A row of trust is what its parts are.
LEMMA TrustOfParts ==
    ASSUME NEW t \in StoredTrust, NEW u \in StoredTrust, t.seed = u.seed, t.slashed = u.slashed
    PROVE  t = [u EXCEPT !.raw = t.raw]
<1>1. PICK raw, seed, slashed : raw = t.raw /\ seed = t.seed /\ slashed = t.slashed
  OBVIOUS
<1>2. t = [raw |-> raw, seed |-> seed, slashed |-> slashed]
  BY <1>1 DEF StoredTrust
<1>3. PICK other : other = u.raw
  OBVIOUS
<1>4. u = [raw |-> other, seed |-> seed, slashed |-> slashed]
  BY <1>1, <1>3 DEF StoredTrust
<1>5. [u EXCEPT !.raw = raw] = [raw |-> raw, seed |-> seed, slashed |-> slashed]
  BY <1>4
<1>6. QED
  BY <1>1, <1>2, <1>5

\* What the configured list makes of an owner.
LEMMA SeedsOfList ==
    ASSUME NEW owners \in [Owner -> StoredTrust], NEW list \in SUBSET Owner
    PROVE  /\ Seeded(owners, list) \in [Owner -> StoredTrust]
           /\ SeedsAre(Seeded(owners, list), list)
           /\ \A o \in Owner : Bounded(owners[o]) => Bounded(Seeded(owners, list)[o])
           /\ SeedsAre(owners, list) => Seeded(owners, list) = owners
<1>1. ASSUME NEW o \in Owner
      PROVE  /\ Seeded(owners, list)[o] \in StoredTrust
             /\ (Seeded(owners, list)[o].seed <=> o \in list)
             /\ o \in list => Seeded(owners, list)[o].raw = Cap
             /\ Bounded(owners[o]) => Bounded(Seeded(owners, list)[o])
             /\ (owners[o].seed <=> o \in list) /\ (o \in list => owners[o].raw = Cap)
                  => Seeded(owners, list)[o] = owners[o]
  <2>1. PICK t \in StoredTrust : t = owners[o]
    OBVIOUS
  <2>2. PICK raw, seed, slashed : raw = t.raw /\ seed = t.seed /\ slashed = t.slashed
    OBVIOUS
  <2>3. /\ t = [raw |-> raw, seed |-> seed, slashed |-> slashed]
        /\ raw \in Int /\ seed \in BOOLEAN /\ slashed \in BOOLEAN
    BY <2>2 DEF StoredTrust
  <2>4. Cap \in Int /\ Floor <= Cap
    BY TrustAssumption
  <2>5. CASE o \in list
    <3>1. PICK u : u = [raw |-> Cap, seed |-> TRUE, slashed |-> slashed]
      OBVIOUS
    <3>2. slashed = owners[o].slashed
      BY <2>1, <2>2
    <3>3. Seeded(owners, list)[o] = u
      BY <2>5, <3>1, <3>2, Zenon DEF Seeded
    <3>4. u \in StoredTrust /\ u.raw = Cap /\ u.seed = TRUE
      BY <2>3, <2>4, <3>1 DEF StoredTrust
    <3>5. Bounded(u)
      BY <2>4, <3>4 DEF Bounded
    <3>6. seed = TRUE /\ raw = Cap => u = t
      BY <2>3, <3>1
    <3>7. (owners[o].seed <=> o \in list) /\ owners[o].raw = Cap => seed = TRUE /\ raw = Cap
      BY <2>1, <2>2, <2>3, <2>5
    <3>8. QED
      BY <2>1, <2>5, <3>3, <3>4, <3>5, <3>6, <3>7
  <2>6. CASE o \notin list
    <3>1. PICK u : u = [raw |-> raw, seed |-> FALSE, slashed |-> slashed]
      OBVIOUS
    <3>2. [t EXCEPT !.seed = FALSE] = u
      <4>1. PICK no : no = FALSE
        OBVIOUS
      <4>2. [t EXCEPT !.seed = no] = [raw |-> raw, seed |-> no, slashed |-> slashed]
        BY <2>3
      <4>3. QED
        BY <3>1, <4>1, <4>2, Zenon
    <3>3. Seeded(owners, list)[o] = u
      BY <2>1, <2>6, <3>2 DEF Seeded
    <3>4. u \in StoredTrust /\ u.raw = raw /\ u.seed = FALSE
      BY <2>3, <3>1 DEF StoredTrust
    <3>5. Bounded(t) => Bounded(u)
      BY <2>2, <3>4 DEF Bounded
    <3>6. seed = FALSE => u = t
      BY <2>3, <3>1
    <3>7. (owners[o].seed <=> o \in list) => seed = FALSE
      BY <2>1, <2>2, <2>3, <2>6
    <3>8. QED
      BY <2>1, <2>6, <3>3, <3>4, <3>5, <3>6, <3>7
  <2>7. QED
    BY <2>5, <2>6
<1>2. Seeded(owners, list) = [o \in Owner |-> Seeded(owners, list)[o]]
  BY DEF Seeded
<1>3. Seeded(owners, list) \in [Owner -> StoredTrust]
  BY <1>1, <1>2
<1>4. SeedsAre(owners, list) => Seeded(owners, list) = owners
  <2>1. PICK result \in [Owner -> StoredTrust] : result = Seeded(owners, list)
    BY <1>3
  <2>2. SeedsAre(owners, list) => \A o \in Owner : result[o] = owners[o]
    BY <1>1, <2>1 DEF SeedsAre
  <2>3. QED
    BY <2>1, <2>2
<1>5. QED
  BY <1>1, <1>3, <1>4 DEF SeedsAre

\* What the replay makes of seeds and bounds.
LEMMA SeedsAfterReplay ==
    ASSUME NEW owners \in [Owner -> StoredTrust], NEW after \in [Owner -> StoredTrust],
           \A o \in Owner : SameStanding(after[o], owners[o]), NEW list \in SUBSET Owner,
           SeedsAre(owners, list)
    PROVE  SeedsAre(after, list)
<1>1. ASSUME NEW o \in Owner PROVE (after[o].seed <=> o \in list) /\ (o \in list => after[o].raw = Cap)
  <2>1. after[o].seed = owners[o].seed /\ (owners[o].seed => after[o] = owners[o])
    BY DEF SameStanding, Pinned
  <2>2. (owners[o].seed <=> o \in list) /\ (o \in list => owners[o].raw = Cap)
    BY DEF SeedsAre
  <2>3. QED
    BY <2>1, <2>2
<1>2. QED
  BY <1>1 DEF SeedsAre

\* A transaction's trust keeps standings and bounds.
LEMMA TrustOfTransaction ==
    ASSUME TablesInv, NEW t, IsTransaction(t), ExactTransaction(t)
    PROVE  \A o \in Owner : SameStanding(t.trust[o], trust[o])
<1>1. Outcome(t) \in SUBSET Review
  BY OutcomeIsTable DEF TablesInv, IsTable
<1>2. CASE t.replays
  <2>1. t.trust = Replay(Outcome(t), trust)
    BY <1>2 DEF ExactTransaction
  <2>2. QED
    BY <1>1, <2>1, ReplayKeepsTrust DEF TablesInv
<1>3. CASE ~t.replays
  <2>1. t.trust = trust
    BY <1>3 DEF ExactTransaction
  <2>2. QED
    BY <2>1 DEF SameStanding
<1>4. QED
  BY <1>2, <1>3

(***************************************************************************)
(* Opening a transaction.                                                  *)
(***************************************************************************)
\* A process alone in the lock reads the tables and computes what it will write.
Opens(p, t) ==
    /\ Open(p, t) /\ UNCHANGED <<scenario, rows, trust, score, deploys>>
    /\ nextId' \in Nat /\ nextId <= nextId'
    /\ ExactTransaction(t)

LEMMA OpeningInv ==
    ASSUME StateInv, NEW p \in Process, NEW t, Opens(p, t), IsTransaction(t)'
    PROVE  StateInv'
<1>0. /\ TablesInv /\ LockInv
      /\ \A q \in Process : tx[q] = None
      /\ tx' = [tx EXCEPT ![p] = t]
      /\ scenario' = scenario /\ rows' = rows /\ trust' = trust /\ score' = score /\ deploys' = deploys
      /\ nextId' \in Nat /\ nextId <= nextId'
  BY DEF StateInv, StoreInv, Opens, Open, LockReviewWrites
<1>1. TablesInv'
  <2>1. \A row \in rows : row.id \in Nat /\ row.id < nextId
    BY <1>0, TrustAssumption DEF TablesInv, IsTable, Review
  <2>2. \A row \in rows : row.id < nextId'
    BY <1>0, <2>1 DEF TablesInv
  <2>3. IsTable(rows)'
    BY <1>0 DEF TablesInv, IsTable
  <2>4. QED
    BY <1>0, <2>2, <2>3 DEF TablesInv
<1>2. DOMAIN tx' = Process /\ tx'[p] = t /\ \A q \in Process : q # p => tx'[q] = None
  BY <1>0 DEF LockInv
<1>3. LockInv'
  BY <1>2 DEF LockInv
<1>4. /\ IsTable(rows) /\ trust \in [Owner -> StoredTrust]
      /\ t.trust \in [Owner -> StoredTrust] /\ t.services \in SUBSET Service
      /\ t.replays => t.adds = {}
  BY <1>0 DEF TablesInv, IsTransaction
<1>5. PICK after : after = Outcome(t)
  OBVIOUS
<1>6. Outcome(t)' = after
  BY <1>0, <1>5 DEF Outcome
<1>7. IsTable(after)
  <2>1. IsTable(Outcome(t))'
    <3>1. IsTable(rows)'
      BY <1>1 DEF TablesInv
    <3>2. PICK R : R = rows
      OBVIOUS
    <3>3. IsTable(R) /\ rows' = R
      BY <1>0, <1>4, <3>2
    <3>4. /\ t.drops \in SUBSET R
          /\ t.adds \in SUBSET Review /\ IsFiniteSet(t.adds) /\ \A new, other \in t.adds : new = other
          /\ \A new \in t.adds : \A row \in R \ t.drops : new.id # row.id
      BY <3>3 DEF IsTransaction
    <3>5. IsTable((R \ t.drops) \cup t.adds)
      <4>1. IsTable(R \ t.drops)
        BY <3>3, PartOfTable
      <4>2. IsFiniteSet((R \ t.drops) \cup t.adds)
        BY <3>4, <4>1, FS_Union DEF IsTable
      <4>3. QED
        BY <3>4, <4>1, <4>2 DEF IsTable
    <3>6. Outcome(t)' = (R \ t.drops) \cup t.adds
      BY <3>3 DEF Outcome
    <3>7. QED
      BY <3>5, <3>6
  <2>2. QED
    BY <1>6, <2>1
<1>8. t.trust = (IF t.replays THEN Replay(after, trust) ELSE trust) /\ t.score = Scores(after, t.trust)
  BY <1>5 DEF Opens, ExactTransaction
<1>9. WeightInv'
  <2>1. ScoresWithin(after, t.score, t.services)
    BY <1>4, <1>7, <1>8, ScoresOfTable
  <2>2. ScoresWithin(rows, score, Service)'
    BY <1>0 DEF StateInv, WeightInv, ScoresWithin
  <2>3. QED
    BY <1>2, <1>6, <2>1, <2>2 DEF WeightInv
<1>10. ASSUME t.replays, NEW G \in SUBSET Owner, RingIn(rows, G, t.trust)
       PROVE  \A o \in G : Weightless(t.trust[o])
  <2>1. t.trust = Replay(after, trust)
    BY <1>8, <1>10
  <2>2. after \in SUBSET rows
    BY <1>4, <1>5, <1>10 DEF Outcome
  <2>3. Secluded(after, G)
    BY <1>10, <2>2 DEF RingIn, Alone, Secluded, Weighted
  <2>4. \A o \in Owner : SameStanding(t.trust[o], trust[o])
    BY <1>4, <1>7, <2>1, ReplayKeepsTrust DEF IsTable
  <2>5. \A o \in G : ~trust[o].seed
    BY <1>10, <2>4 DEF RingIn, SameStanding
  <2>6. QED
    BY <1>4, <1>7, <2>1, <2>3, <2>5, ReplayOfRing DEF IsTable
<1>11. RingInv'
  BY <1>0, <1>2, <1>10 DEF RingInv
<1>12. ExactInv'
  <2>1. ExactTransaction(t)'
    BY <1>0, <1>6, <1>8 DEF ExactTransaction
  <2>2. Quiet' = Quiet /\ Configured' = Configured
    BY <1>0 DEF Quiet, Configured
  <2>3. SeedsAre(trust, Configured)' = SeedsAre(trust, Configured)
    BY <1>0, <2>2 DEF SeedsAre
  <2>4. \A q \in Process : tx'[q] # None => q = p
    BY <1>2
  <2>5. QED
    BY <1>0, <1>2, <2>1, <2>2, <2>3, <2>4 DEF StateInv, ExactInv
<1>13. BoundsInv'
  <2>1. \A o \in Owner : Bounded(trust[o])
    BY DEF StateInv, BoundsInv
  <2>2. \A o \in Owner : SameStanding(t.trust[o], trust[o])
    <3>1. CASE t.replays
      <4>1. t.trust = Replay(after, trust)
        BY <1>8, <3>1
      <4>2. QED
        BY <1>4, <1>7, <4>1, ReplayKeepsTrust DEF IsTable
    <3>2. CASE ~t.replays
      <4>1. t.trust = trust
        BY <1>8, <3>2
      <4>2. QED
        BY <4>1 DEF SameStanding
    <3>3. QED
      BY <3>1, <3>2
  <2>3. \A o \in Owner : Bounded(t.trust[o])
    BY <2>1, <2>2 DEF SameStanding
  <2>4. QED
    BY <1>0, <1>2, <2>1, <2>3 DEF BoundsInv
<1>14. QED
  BY <1>1, <1>3, <1>9, <1>11, <1>12, <1>13 DEF StateInv, StoreInv

\* A new review under a new id is well-formed.
LEMMA NewReview ==
    ASSUME NEW draft \in Review, NEW id \in 0..MaxReviewId
    PROVE  LET row == [draft EXCEPT !.id = id]
           IN  row \in Review /\ row.id = id /\ row.service = draft.service
BY DEF Review

\* review_service computes the scores with the review it adds.
LEMMA SubmitInv ==
    ASSUME StateInv, NEW draft \in scenario.drafts, Submit(draft)
    PROVE  StateInv'
<1>1. TablesInv
  BY DEF StateInv, StoreInv
<1>2. /\ scenario \in Scenario /\ IsTable(rows) /\ trust \in [Owner -> StoredTrust]
      /\ nextId \in Nat /\ \A row \in rows : row.id < nextId
  BY <1>1 DEF TablesInv
<1>3. draft \in Review
  BY <1>2, ScenarioAssumption
<1>4. nextId \in 0..MaxReviewId /\ nextId' = nextId + 1
  BY <1>2, TrustAssumption DEF Submit
<1>5. PICK new : new = [draft EXCEPT !.id = nextId]
  OBVIOUS
<1>6. new \in Review /\ new.id = nextId /\ new.service = draft.service
  BY <1>3, <1>4, <1>5, NewReview
<1>7. draft.service \in Service
  BY <1>3 DEF Review
<1>8. PICK t : t = Recomputing({new}, {}, draft.service)
  OBVIOUS
<1>9. /\ t.adds = {new} /\ t.drops = {} /\ t.services = {draft.service}
      /\ t.replays = FALSE /\ t.trust = trust
      /\ t.score = Scores((rows \ {}) \cup {new}, trust)
  BY <1>8 DEF Recomputing
<1>10. Outcome(t) = (rows \ {}) \cup {new}
  BY <1>9 DEF Outcome
<1>11. ExactTransaction(t)
  BY <1>9, <1>10 DEF ExactTransaction
<1>12. Open("request", t) /\ UNCHANGED <<scenario, rows, trust, score, deploys>>
  BY <1>5, <1>8 DEF Submit
<1>13. Opens("request", t)
  BY <1>2, <1>4, <1>11, <1>12 DEF Opens
<1>14. IsTransaction(t)'
  <2>1. rows' = rows
    BY <1>12
  <2>2. \A row \in rows : nextId # row.id
    BY <1>2
  <2>3. IsFiniteSet({new})
    BY FS_Singleton
  <2>4. new.id < nextId'
    BY <1>4, <1>6
  <2>5. t.replays \in BOOLEAN /\ ~t.replays
    BY <1>9
  <2>6. QED
    BY <1>2, <1>6, <1>7, <1>9, <2>1, <2>2, <2>3, <2>4, <2>5 DEF IsTransaction
<1>15. "request" \in Process
  BY DEF Process
<1>16. QED
  BY <1>13, <1>14, <1>15, OpeningInv

\* A transaction that replays the rows it leaves.
LEMMA ReplayingInv ==
    ASSUME StateInv, NEW p \in Process, NEW dropped, dropped \in SUBSET rows,
           Open(p, Replaying(dropped)), UNCHANGED <<scenario, rows, trust, score, nextId, deploys>>
    PROVE  StateInv'
<1>1. TablesInv
  BY DEF StateInv, StoreInv
<1>2. /\ scenario \in Scenario /\ IsTable(rows) /\ trust \in [Owner -> StoredTrust] /\ nextId \in Nat
  BY <1>1 DEF TablesInv
<1>3. PICK t : t = Replaying(dropped)
  OBVIOUS
<1>4. /\ t.adds = {} /\ t.drops = dropped /\ t.services = Service
      /\ t.replays = TRUE /\ t.trust = Replay(rows \ dropped, trust)
      /\ t.score = Scores(rows \ dropped, Replay(rows \ dropped, trust))
  BY <1>3 DEF Replaying
<1>5. Outcome(t) = rows \ dropped
  BY <1>4 DEF Outcome
<1>6. ExactTransaction(t)
  BY <1>4, <1>5 DEF ExactTransaction
<1>7. Opens(p, t)
  BY <1>2, <1>3, <1>6 DEF Opens
<1>8. t.trust \in [Owner -> StoredTrust]
  BY <1>2, <1>4, ReplayKeepsTrust DEF IsTable
<1>9. IsTransaction(t)'
  <2>1. rows' = rows
    OBVIOUS
  <2>2. \A row \in dropped : row.service \in Service
    BY <1>2 DEF IsTable, Review
  <2>3. t.replays \in BOOLEAN /\ t.replays
    BY <1>4
  <2>4. QED
    BY <1>4, <1>8, <2>1, <2>2, <2>3, FS_EmptySet DEF IsTransaction
<1>10. QED
  BY <1>7, <1>9, OpeningInv

\* run_payment_reverification replaces a review by itself with a better proof.
LEMMA UpgradeInv ==
    ASSUME StateInv, NEW row \in rows, Upgrade(row)
    PROVE  StateInv'
<1>1. TablesInv
  BY DEF StateInv, StoreInv
<1>2. /\ scenario \in Scenario /\ IsTable(rows) /\ trust \in [Owner -> StoredTrust]
      /\ nextId \in Nat /\ \A x \in rows : x.id < nextId
  BY <1>1 DEF TablesInv
<1>3. row \in Review
  BY <1>2 DEF IsTable
<1>4. PICK new : new = [row EXCEPT !.proof = 2]
  OBVIOUS
<1>5. new \in Review /\ new.id = row.id /\ new.service = row.service /\ row.service \in Service
  BY <1>3, <1>4 DEF Review
<1>6. PICK t : t = Recomputing({new}, {row}, row.service)
  OBVIOUS
<1>7. /\ t.adds = {new} /\ t.drops = {row} /\ t.services = {row.service}
      /\ t.replays = FALSE /\ t.trust = trust
      /\ t.score = Scores((rows \ {row}) \cup {new}, trust)
  BY <1>6 DEF Recomputing
<1>8. Outcome(t) = (rows \ {row}) \cup {new}
  BY <1>7 DEF Outcome
<1>9. ExactTransaction(t)
  BY <1>7, <1>8 DEF ExactTransaction
<1>10. Open("cron", t) /\ UNCHANGED <<scenario, rows, trust, score, nextId, deploys>>
  BY <1>4, <1>6 DEF Upgrade
<1>11. Opens("cron", t)
  BY <1>2, <1>9, <1>10 DEF Opens
<1>12. IsTransaction(t)'
  <2>1. rows' = rows /\ nextId' = nextId
    BY <1>10
  <2>2. \A x \in rows \ {row} : new.id # x.id
    BY <1>2, <1>5 DEF IsTable
  <2>3. IsFiniteSet({new})
    BY FS_Singleton
  <2>4. new.id < nextId'
    BY <1>2, <1>5, <2>1
  <2>5. t.replays \in BOOLEAN /\ ~t.replays
    BY <1>7
  <2>6. QED
    BY <1>2, <1>5, <1>7, <2>1, <2>2, <2>3, <2>4, <2>5 DEF IsTransaction
<1>13. "cron" \in Process
  BY DEF Process
<1>14. QED
  BY <1>11, <1>12, <1>13, OpeningInv

(***************************************************************************)
(* Closing a transaction.                                                  *)
(***************************************************************************)
\* What is stored fits a transaction that is no more.
LEMMA NoneOpenAfter ==
    ASSUME LockInv, NEW p \in Process, tx[p] # None, tx' = [tx EXCEPT ![p] = None]
    PROVE  DOMAIN tx' = Process /\ \A q \in Process : tx'[q] = None
<1>1. \A q \in Process : q # p => tx[q] = None
  BY DEF LockInv
<1>2. QED
  BY <1>1 DEF LockInv

LEMMA RollbackInv ==
    ASSUME StateInv, NEW p \in Process, Rollback(p)
    PROVE  StateInv'
<1>1. /\ TablesInv /\ LockInv /\ tx[p] # None /\ tx' = [tx EXCEPT ![p] = None]
      /\ scenario' = scenario /\ rows' = rows /\ trust' = trust /\ score' = score
      /\ nextId' = nextId /\ deploys' = deploys
  BY DEF StateInv, StoreInv, Rollback
<1>2. DOMAIN tx' = Process /\ \A q \in Process : tx'[q] = None
  BY <1>1, NoneOpenAfter
<1>3. TablesInv'
  BY <1>1 DEF TablesInv, IsTable
<1>4. LockInv'
  BY <1>2 DEF LockInv
<1>5. WeightInv'
  BY <1>1, <1>2 DEF StateInv, WeightInv, ScoresWithin
<1>6. RingInv'
  BY <1>2 DEF RingInv
<1>7. ExactInv'
  <2>1. Quiet' = Quiet /\ Configured' = Configured
    BY <1>1 DEF Quiet, Configured
  <2>2. SeedsAre(trust, Configured)' = SeedsAre(trust, Configured)
    BY <1>1, <2>1 DEF SeedsAre
  <2>3. QED
    BY <1>1, <1>2, <2>1, <2>2 DEF StateInv, ExactInv
<1>8. BoundsInv'
  BY <1>1, <1>2 DEF StateInv, BoundsInv
<1>9. QED
  BY <1>3, <1>4, <1>5, <1>6, <1>7, <1>8 DEF StateInv, StoreInv

\* The trust that a commit leaves.
CommittedTrust(t, owners) ==
    [o \in Owner |-> IF t.replays /\ ~Pinned(t.trust[o])
                     THEN [owners[o] EXCEPT !.raw = t.trust[o].raw] ELSE owners[o]]

LEMMA TrustOfCommit ==
    ASSUME NEW t, t.trust \in [Owner -> StoredTrust], NEW owners \in [Owner -> StoredTrust],
           \A o \in Owner : Bounded(owners[o]) /\ Bounded(t.trust[o])
    PROVE  /\ CommittedTrust(t, owners) \in [Owner -> StoredTrust]
           /\ \A o \in Owner : Bounded(CommittedTrust(t, owners)[o])
<1>1. ASSUME NEW o \in Owner
      PROVE  /\ CommittedTrust(t, owners)[o] \in StoredTrust
             /\ Bounded(CommittedTrust(t, owners)[o])
  <2>1. CASE t.replays /\ ~Pinned(t.trust[o])
    <3>1. PICK v : v = t.trust[o].raw
      OBVIOUS
    <3>2. v \in Int /\ Floor <= v /\ v <= Cap
      BY <3>1 DEF StoredTrust, Bounded
    <3>3. CommittedTrust(t, owners)[o] = [owners[o] EXCEPT !.raw = v]
      BY <2>1, <3>1 DEF CommittedTrust
    <3>4. owners[o] \in StoredTrust
      OBVIOUS
    <3>5. PICK u : u = [owners[o] EXCEPT !.raw = v]
      OBVIOUS
    <3>6. u \in StoredTrust /\ u.raw = v
      BY <3>2, <3>4, <3>5, OnlyRawChanges
    <3>7. Bounded(u)
      BY <3>2, <3>6 DEF Bounded
    <3>8. QED
      BY <3>3, <3>5, <3>6, <3>7
  <2>2. CASE ~(t.replays /\ ~Pinned(t.trust[o]))
    <3>1. CommittedTrust(t, owners)[o] = owners[o]
      BY <2>2 DEF CommittedTrust
    <3>2. QED
      BY <3>1
  <2>3. QED
    BY <2>1, <2>2
<1>2. CommittedTrust(t, owners) = [o \in Owner |-> CommittedTrust(t, owners)[o]]
  BY DEF CommittedTrust
<1>3. QED
  BY <1>1, <1>2

\* The trust of a transaction that fits the stored one is what its commit leaves.
LEMMA CommitOfExact ==
    ASSUME NEW t, t.trust \in [Owner -> StoredTrust], NEW owners \in [Owner -> StoredTrust],
           t.replays \in BOOLEAN,
           ~t.replays => t.trust = owners,
           \A o \in Owner : SameStanding(t.trust[o], owners[o])
    PROVE  CommittedTrust(t, owners) = t.trust
<1>1. ASSUME NEW o \in Owner PROVE CommittedTrust(t, owners)[o] = t.trust[o]
  <2>1. PICK u \in StoredTrust, v \in StoredTrust : u = t.trust[o] /\ v = owners[o]
    OBVIOUS
  <2>2. u.seed = v.seed /\ u.slashed = v.slashed /\ (Pinned(v) => u = v)
    BY <2>1 DEF SameStanding
  <2>3. CASE t.replays /\ ~Pinned(t.trust[o])
    <3>1. CommittedTrust(t, owners)[o] = [v EXCEPT !.raw = u.raw]
      BY <2>1, <2>3 DEF CommittedTrust
    <3>2. u = [v EXCEPT !.raw = u.raw]
      BY <2>2, TrustOfParts
    <3>3. QED
      BY <2>1, <3>1, <3>2
  <2>4. CASE t.replays /\ Pinned(t.trust[o])
    <3>1. CommittedTrust(t, owners)[o] = v
      BY <2>1, <2>4 DEF CommittedTrust
    <3>2. Pinned(v)
      BY <2>1, <2>2, <2>4 DEF Pinned
    <3>3. QED
      BY <2>1, <2>2, <3>1, <3>2
  <2>5. CASE ~t.replays
    <3>1. CommittedTrust(t, owners)[o] = v
      BY <2>1, <2>5 DEF CommittedTrust
    <3>2. QED
      BY <2>1, <2>5, <3>1
  <2>6. QED
    BY <2>3, <2>4, <2>5
<1>2. QED
  <2>1. PICK left \in [Owner -> StoredTrust] : left = t.trust
    OBVIOUS
  <2>2. PICK right : right = CommittedTrust(t, owners)
    OBVIOUS
  <2>3. right = [o \in Owner |-> right[o]] /\ left = [o \in Owner |-> left[o]]
    BY <2>2 DEF CommittedTrust
  <2>4. \A o \in Owner : right[o] = left[o]
    BY <1>1, <2>1, <2>2
  <2>5. right = left
    BY <2>3, <2>4
  <2>6. QED
    BY <2>1, <2>2, <2>5

LEMMA CommitInv ==
    ASSUME StateInv, NEW p \in Process, Commit(p)
    PROVE  StateInv'
<1>1. PICK t : t = tx[p]
  OBVIOUS
<1>2. /\ TablesInv /\ LockInv /\ tx[p] # None /\ tx' = [tx EXCEPT ![p] = None]
      /\ rows' = (rows \ t.drops) \cup t.adds
      /\ trust' = CommittedTrust(t, trust)
      /\ score' = [s \in Service |-> IF s \in t.services THEN t.score[s] ELSE score[s]]
      /\ scenario' = scenario /\ nextId' = nextId /\ deploys' = deploys
  BY <1>1 DEF StateInv, StoreInv, Commit, CommittedTrust
<1>3. DOMAIN tx' = Process /\ \A q \in Process : tx'[q] = None
  BY <1>2, NoneOpenAfter
<1>4. IsTransaction(t)
  BY <1>1, <1>2 DEF LockInv
<1>5. /\ scenario \in Scenario /\ IsTable(rows) /\ trust \in [Owner -> StoredTrust]
      /\ nextId \in Nat /\ \A row \in rows : row.id < nextId
  BY <1>2 DEF TablesInv
<1>6. PICK after : after = Outcome(t)
  OBVIOUS
<1>7. IsTable(after) /\ rows' = after
  BY <1>2, <1>4, <1>5, <1>6, OutcomeIsTable DEF Outcome
<1>8. /\ trust' \in [Owner -> StoredTrust]
      /\ \A o \in Owner : Bounded(trust'[o])
  <2>1. \A o \in Owner : Bounded(trust[o]) /\ Bounded(t.trust[o])
    BY <1>1, <1>2 DEF StateInv, BoundsInv
  <2>2. t.trust \in [Owner -> StoredTrust]
    BY <1>4 DEF IsTransaction
  <2>3. QED
    BY <1>2, <1>5, <2>1, <2>2, TrustOfCommit
<1>9. TablesInv'
  <2>1. \A row \in after : row.id < nextId
    BY <1>4, <1>5, <1>6 DEF Outcome, IsTransaction
  <2>2. IsTable(rows)'
    BY <1>7 DEF IsTable
  <2>3. QED
    BY <1>2, <1>5, <1>7, <1>8, <2>1, <2>2 DEF TablesInv
<1>10. LockInv'
  BY <1>3 DEF LockInv
<1>11. ASSUME NEW s \in Service, ~(s \in t.services) PROVE Of(after, s) = Of(rows, s)
  BY <1>4, <1>6, <1>11, OtherServicesKept
<1>12. WeightInv'
  <2>1. ScoresWithin(rows, score, Service) /\ ScoresWithin(after, t.score, t.services)
    BY <1>1, <1>2, <1>6 DEF StateInv, WeightInv
  <2>2. ASSUME NEW s \in Service
        PROVE  /\ score'[s].hosted <= Cap * Cardinality(HostedBy(Of(after, s)))
               /\ score'[s].legacy <= 2 * Cap * Cardinality(LegacyDays(Of(after, s)))
    <3>1. CASE s \in t.services
      <4>1. score'[s] = t.score[s]
        BY <1>2, <3>1
      <4>2. QED
        BY <2>1, <3>1, <4>1 DEF ScoresWithin
    <3>2. CASE ~(s \in t.services)
      <4>1. score'[s] = score[s]
        BY <1>2, <3>2
      <4>2. Of(after, s) = Of(rows, s)
        BY <1>11, <3>2
      <4>3. QED
        BY <2>1, <4>1, <4>2 DEF ScoresWithin
    <3>3. QED
      BY <3>1, <3>2
  <2>3. ScoresWithin(rows, score, Service)'
    BY <1>7, <2>2 DEF ScoresWithin
  <2>4. QED
    BY <1>3, <2>3 DEF WeightInv
<1>13. RingInv'
  BY <1>3 DEF RingInv
<1>14. ExactInv'
  <2>1. Quiet' = Quiet /\ Configured' = Configured
    BY <1>2 DEF Quiet, Configured
  <2>2. SUFFICES ASSUME Quiet
                 PROVE  /\ Configured # {} => SeedsAre(trust', Configured)
                        /\ score' = Scores(after, trust')
    <3>1. SeedsAre(trust, Configured)' <=> SeedsAre(trust', Configured)
      BY <2>1 DEF SeedsAre
    <3>2. Scores(rows, trust)' = Scores(after, trust')
      BY <1>7 DEF Scores, Of
    <3>3. QED
      BY <1>3, <2>1, <2>2, <3>1, <3>2 DEF ExactInv
  <2>3. /\ Configured # {} => SeedsAre(trust, Configured)
        /\ score = Scores(rows, trust)
        /\ ExactTransaction(t)
    BY <1>1, <1>2, <2>2 DEF StateInv, ExactInv
  <2>4. \A o \in Owner : SameStanding(t.trust[o], trust[o])
    BY <1>2, <1>4, <2>3, TrustOfTransaction
  <2>5. /\ t.trust \in [Owner -> StoredTrust] /\ t.replays \in BOOLEAN
        /\ t.replays => t.services = Service
    BY <1>4 DEF IsTransaction
  <2>6. ~t.replays => t.trust = trust
    BY <2>3 DEF ExactTransaction
  <2>7. trust' = t.trust
    BY <1>2, <1>5, <2>4, <2>5, <2>6, CommitOfExact
  <2>8. Configured # {} => SeedsAre(trust', Configured)
    <3>1. Configured \in SUBSET Owner
      BY <1>2, ScenarioAssumption DEF TablesInv, Configured
    <3>2. QED
      BY <1>5, <2>3, <2>4, <2>5, <2>7, <3>1, SeedsAfterReplay
  <2>9. t.score = Scores(after, t.trust)
    BY <1>6, <2>3 DEF ExactTransaction
  <2>10. ASSUME NEW s \in Service PROVE score'[s] = ComputeScore(Of(after, s), t.trust)
    <3>1. CASE s \in t.services
      BY <1>2, <2>9, <3>1 DEF Scores
    <3>2. CASE ~(s \in t.services)
      <4>1. t.trust = trust
        BY <2>5, <2>6, <3>2
      <4>2. score'[s] = ComputeScore(Of(rows, s), trust)
        BY <1>2, <2>3, <3>2 DEF Scores
      <4>3. Of(after, s) = Of(rows, s)
        BY <1>11, <3>2
      <4>4. QED
        BY <4>1, <4>2, <4>3
    <3>3. QED
      BY <3>1, <3>2
  <2>11. score' = Scores(after, t.trust)
    <3>1. score' = [s \in Service |-> score'[s]]
      BY <1>2
    <3>2. QED
      BY <2>10, <3>1 DEF Scores
  <2>12. QED
    BY <2>7, <2>8, <2>11
<1>15. BoundsInv'
  BY <1>3, <1>8 DEF BoundsInv
<1>16. QED
  BY <1>9, <1>10, <1>12, <1>13, <1>14, <1>15 DEF StateInv, StoreInv

(***************************************************************************)
(* The writers without the lock.                                           *)
(***************************************************************************)
LEMMA DeployInv ==
    ASSUME StateInv, Deploy
    PROVE  StateInv'
<1>1. /\ TablesInv /\ LockInv
      /\ deploys + 1 < Len(scenario.lists) /\ deploys' = deploys + 1
      /\ scenario' = scenario /\ rows' = rows /\ trust' = trust /\ score' = score
      /\ nextId' = nextId /\ tx' = tx
  BY DEF StateInv, StoreInv, Deploy
<1>2. TablesInv'
  BY <1>1 DEF TablesInv, IsTable
<1>3. LockInv'
  BY <1>1 DEF LockInv, IsTransaction
<1>4. WeightInv'
  <2>1. \A p \in Process : Outcome(tx[p])' = Outcome(tx[p])
    BY <1>1 DEF Outcome
  <2>2. QED
    BY <1>1, <2>1 DEF StateInv, WeightInv, ScoresWithin
<1>5. RingInv'
  BY <1>1 DEF StateInv, RingInv
<1>6. ExactInv'
  <2>1. ASSUME Quiet' PROVE FALSE
    <3>1. Len(scenario.lists) = 1 /\ deploys \in Nat
      BY <1>1, <2>1 DEF Quiet, TablesInv
    <3>2. QED
      BY <1>1, <3>1
  <2>2. QED
    BY <2>1 DEF ExactInv
<1>7. BoundsInv'
  BY <1>1 DEF StateInv, BoundsInv
<1>8. QED
  BY <1>2, <1>3, <1>4, <1>5, <1>6, <1>7 DEF StateInv, StoreInv

LEMMA SyncInv ==
    ASSUME StateInv, SyncSeedOwners
    PROVE  StateInv'
<1>1. /\ TablesInv /\ LockInv /\ Configured # {}
      /\ trust' = Seeded(trust, Configured)
      /\ scenario' = scenario /\ rows' = rows /\ score' = score
      /\ nextId' = nextId /\ deploys' = deploys /\ tx' = tx
  BY DEF StateInv, StoreInv, SyncSeedOwners
<1>2. Configured \in SUBSET Owner
  BY <1>1, ScenarioAssumption DEF TablesInv, Configured
<1>3. trust \in [Owner -> StoredTrust]
  BY <1>1 DEF TablesInv
<1>4. /\ trust' \in [Owner -> StoredTrust]
      /\ SeedsAre(trust, Configured) => trust' = trust
      /\ \A o \in Owner : Bounded(trust[o]) => Bounded(trust'[o])
  BY <1>1, <1>2, <1>3, SeedsOfList
<1>5. TablesInv'
  BY <1>1, <1>4 DEF TablesInv, IsTable
<1>6. LockInv'
  BY <1>1 DEF LockInv, IsTransaction
<1>7. WeightInv'
  <2>1. \A p \in Process : Outcome(tx[p])' = Outcome(tx[p])
    BY <1>1 DEF Outcome
  <2>2. QED
    BY <1>1, <2>1 DEF StateInv, WeightInv, ScoresWithin
<1>8. RingInv'
  BY <1>1 DEF StateInv, RingInv
<1>9. ExactInv'
  <2>1. Quiet' = Quiet /\ Configured' = Configured
    BY <1>1 DEF Quiet, Configured
  <2>2. SUFFICES ASSUME Quiet PROVE ExactInv'
    BY <2>1 DEF ExactInv
  <2>3. trust' = trust
    BY <1>1, <1>4, <2>2 DEF StateInv, ExactInv
  <2>4. \A p \in Process : ExactTransaction(tx[p])' = ExactTransaction(tx[p])
    BY <1>1, <2>3 DEF ExactTransaction, Outcome
  <2>5. SeedsAre(trust, Configured)' = SeedsAre(trust, Configured)
    BY <2>1, <2>3 DEF SeedsAre
  <2>6. QED
    BY <1>1, <2>1, <2>3, <2>4, <2>5 DEF StateInv, ExactInv
<1>10. BoundsInv'
  BY <1>1, <1>4 DEF StateInv, BoundsInv
<1>11. QED
  BY <1>5, <1>6, <1>7, <1>8, <1>9, <1>10 DEF StateInv, StoreInv

\* Marking a review as excluded changes nothing else.
Mark(row) == [row EXCEPT !.excluded = TRUE]
LEMMA MarkKeeps ==
    ASSUME NEW row \in Review
    PROVE  /\ Mark(row) \in Review /\ Mark(row).id = row.id /\ Mark(row).service = row.service
           /\ Mark(row).owner = row.owner /\ Mark(row).wallet = row.wallet
           /\ Mark(row).day = row.day /\ Mark(row).basis = row.basis
           /\ Mark(row).excluded = TRUE
<1>1. PICK yes \in BOOLEAN : yes = TRUE
  OBVIOUS
<1>2. PICK marked : marked = [row EXCEPT !.excluded = yes]
  OBVIOUS
<1>3. /\ marked \in Review /\ marked.id = row.id /\ marked.service = row.service
      /\ marked.owner = row.owner /\ marked.wallet = row.wallet
      /\ marked.day = row.day /\ marked.basis = row.basis /\ marked.excluded = yes
  BY <1>2 DEF Review
<1>4. Mark(row) = marked
  BY <1>1, <1>2, Zenon DEF Mark
<1>5. QED
  BY <1>1, <1>3, <1>4, Zenon

\* The same review, but for what excludes it and what it says.
SameReview(x, y) ==
    /\ x.id = y.id /\ x.service = y.service /\ x.owner = y.owner
    /\ x.wallet = y.wallet /\ x.day = y.day /\ x.basis = y.basis
SameReviews(S, T) ==
    /\ \A x \in S : \E y \in T : SameReview(x, y)
    /\ \A y \in T : \E x \in S : SameReview(x, y)

\* Votes and rings are the same in the same reviews.
LEMMA SameVotes ==
    ASSUME NEW S, NEW T, SameReviews(S, T), NEW s
    PROVE  HostedBy(Of(S, s)) = HostedBy(Of(T, s)) /\ LegacyDays(Of(S, s)) = LegacyDays(Of(T, s))
<1>1. \A x \in Of(S, s) : \E y \in Of(T, s) : SameReview(x, y)
  BY DEF SameReviews, SameReview, Of
<1>2. \A y \in Of(T, s) : \E x \in Of(S, s) : SameReview(x, y)
  BY DEF SameReviews, SameReview, Of
<1>3. PICK A, B : A = Of(S, s) /\ B = Of(T, s)
  OBVIOUS
<1>4. (\A x \in A : \E y \in B : SameReview(x, y)) /\ (\A y \in B : \E x \in A : SameReview(x, y))
  BY <1>1, <1>2, <1>3
<1>5. HostedBy(A) = HostedBy(B)
  BY <1>4 DEF HostedBy, SameReview
<1>6. LegacyDays(A) = LegacyDays(B)
  <2>1. ASSUME NEW d \in LegacyDays(A) PROVE d \in LegacyDays(B)
    <3>1. PICK x \in A : x.basis = "legacy" /\ d = <<x.wallet, x.day>>
      BY DEF LegacyDays
    <3>2. PICK y \in B : SameReview(x, y)
      BY <1>4
    <3>3. y.basis = "legacy" /\ d = <<y.wallet, y.day>>
      BY <3>1, <3>2 DEF SameReview
    <3>4. QED
      BY <3>3 DEF LegacyDays
  <2>2. ASSUME NEW d \in LegacyDays(B) PROVE d \in LegacyDays(A)
    <3>1. PICK y \in B : y.basis = "legacy" /\ d = <<y.wallet, y.day>>
      BY DEF LegacyDays
    <3>2. PICK x \in A : SameReview(x, y)
      BY <1>4
    <3>3. x.basis = "legacy" /\ d = <<x.wallet, x.day>>
      BY <3>1, <3>2 DEF SameReview
    <3>4. QED
      BY <3>3 DEF LegacyDays
  <2>3. QED
    BY <2>1, <2>2
<1>7. QED
  BY <1>3, <1>5, <1>6

LEMMA SameRings ==
    ASSUME NEW S, NEW T, SameReviews(S, T), NEW G, NEW owners, RingIn(S, G, owners)
    PROVE  RingIn(T, G, owners)
<1>1. ASSUME NEW event \in T, NEW row \in T, event.basis = "hosted", event.owner \in G,
             row.service = event.service
      PROVE  ~Weighing(row) /\ (row.basis = "hosted" => row.owner \in G)
  <2>1. PICK x \in S : SameReview(x, event)
    BY DEF SameReviews
  <2>2. PICK y \in S : SameReview(y, row)
    BY DEF SameReviews
  <2>3. x.basis = "hosted" /\ x.owner \in G /\ y.service = x.service
    BY <1>1, <2>1, <2>2 DEF SameReview
  <2>4. ~Weighing(y) /\ (y.basis = "hosted" => y.owner \in G)
    BY <2>3 DEF RingIn, Alone
  <2>5. QED
    BY <2>2, <2>4 DEF SameReview, Weighing, IsLegacyRow
<1>2. QED
  BY <1>1 DEF RingIn, Alone

\* Some reviews of a table, excluded: the same reviews, and a table.
Marked(S, planned) == (S \ planned) \cup {Mark(row) : row \in planned}

LEMMA MarkedTable ==
    ASSUME NEW S, IsTable(S), NEW planned \in SUBSET S
    PROVE  IsTable(Marked(S, planned)) /\ SameReviews(Marked(S, planned), S)
<1>0. S \in SUBSET Review /\ IsFiniteSet(S) /\ \A row, other \in S : row.id = other.id => row = other
  BY DEF IsTable
<1>1. \A row \in planned : Mark(row) \in Review /\ SameReview(Mark(row), row)
  BY <1>0, MarkKeeps DEF SameReview
<1>2. \A row \in S : SameReview(row, row)
  BY DEF SameReview
<1>3. \A x \in Marked(S, planned) : x \in Review /\ \E y \in S : SameReview(x, y) /\ (IF y \in planned THEN x = Mark(y) ELSE x = y)
  BY <1>0, <1>1, <1>2 DEF Marked
<1>4. \A y \in S : \E x \in Marked(S, planned) : SameReview(x, y)
  BY <1>1, <1>2 DEF Marked
<1>5. ASSUME NEW x \in Marked(S, planned), NEW z \in Marked(S, planned), x.id = z.id PROVE x = z
  <2>1. PICK y \in S : SameReview(x, y) /\ (IF y \in planned THEN x = Mark(y) ELSE x = y)
    BY <1>3
  <2>2. PICK w \in S : SameReview(z, w) /\ (IF w \in planned THEN z = Mark(w) ELSE z = w)
    BY <1>3
  <2>3. y.id = w.id
    BY <1>5, <2>1, <2>2 DEF SameReview
  <2>4. y = w
    BY <1>0, <2>3
  <2>5. QED
    BY <2>1, <2>2, <2>4
<1>6. IsFiniteSet(Marked(S, planned))
  <2> DEFINE image == {Mark(row) : row \in planned}
             f == [row \in planned |-> Mark(row)]
  <2>1. IsFiniteSet(planned) /\ IsFiniteSet(S \ planned)
    BY <1>0, FS_Subset
  <2>2. f \in Surjection(planned, image)
    BY DEF Surjection
  <2>3. IsFiniteSet(image)
    BY <2>1, <2>2, FS_Surjection
  <2>4. QED
    BY <2>1, <2>3, FS_Union DEF Marked
<1>7. QED
  BY <1>3, <1>4, <1>5, <1>6 DEF IsTable, SameReviews

\* A transaction that holds no row of those excluded keeps what it is about to write.
LEMMA MarkedOutcome ==
    ASSUME NEW S, IsTable(S), NEW planned \in SUBSET S, \A row \in planned : ~row.excluded,
           NEW drops \in SUBSET S, drops \cap planned = {}
    PROVE  /\ drops \in SUBSET Marked(S, planned)
           /\ Marked(S, planned) \ drops = Marked(S \ drops, planned)
<1>0. S \in SUBSET Review /\ \A row, other \in S : row.id = other.id => row = other
  BY DEF IsTable
<1>1. ASSUME NEW row \in planned PROVE Mark(row) \notin S
  <2>1. row \in S /\ row \in Review /\ Mark(row).id = row.id /\ Mark(row).excluded = TRUE /\ ~row.excluded
    BY <1>0, MarkKeeps
  <2>2. Mark(row) # row
    BY <2>1, Zenon
  <2>3. QED
    BY <1>0, <2>1, <2>2
<1>2. QED
  BY <1>1 DEF Marked

LEMMA ExcludeInv ==
    ASSUME StateInv, ExcludePlatformDefects
    PROVE  StateInv'
<1> DEFINE audited == {row \in rows : row.id \in scenario.audited}
<1>0. PICK planned, R :
        /\ planned = {row \in audited : ~row.excluded} /\ R = rows
  OBVIOUS
<1>1. /\ TablesInv /\ LockInv /\ planned # {}
      /\ ~\E p \in Process : Locks(tx[p], planned)
      /\ rows' = Marked(R, planned)
      /\ score' = [s \in Service |-> IF \E row \in planned : row.service = s
                                     THEN ComputeScore(Of(Marked(R, planned), s), trust) ELSE score[s]]
      /\ scenario' = scenario /\ trust' = trust /\ nextId' = nextId /\ deploys' = deploys /\ tx' = tx
  BY <1>0, Zenon DEF StateInv, StoreInv, ExcludePlatformDefects, Marked, Mark
<1>2. /\ scenario \in Scenario /\ IsTable(R) /\ trust \in [Owner -> StoredTrust]
      /\ nextId \in Nat /\ \A row \in R : row.id < nextId
      /\ deploys \in Nat /\ deploys < Len(scenario.lists)
  BY <1>0, <1>1 DEF TablesInv
<1>3. planned \in SUBSET R /\ \A row \in planned : ~row.excluded
  BY <1>0
<1>4. PICK marked : marked = Marked(R, planned)
  OBVIOUS
<1>5. IsTable(marked) /\ SameReviews(marked, R)
  BY <1>2, <1>3, <1>4, MarkedTable
<1>6. TablesInv'
  <2>1. \A row \in marked : row.id < nextId
    BY <1>2, <1>5 DEF SameReviews, SameReview
  <2>2. rows' = marked
    BY <1>1, <1>4
  <2>3. IsTable(rows)'
    BY <1>5, <2>2 DEF IsTable
  <2>4. QED
    BY <1>1, <1>2, <2>1, <2>2, <2>3 DEF TablesInv
<1>7. ASSUME NEW t, IsTransaction(t), ~Locks(t, planned), t # None
      PROVE  IsTransaction(t)' /\ SameReviews(Outcome(t)', Outcome(t))
  <2>1. t.drops \cap planned = {}
    BY <1>7 DEF Locks
  <2>2. /\ t.drops \in SUBSET R
        /\ t.adds \in SUBSET Review /\ IsFiniteSet(t.adds) /\ \A new, other \in t.adds : new = other
        /\ \A new \in t.adds : \A row \in R \ t.drops : new.id # row.id
        /\ \A new \in t.adds : new.id < nextId
    BY <1>0, <1>7 DEF IsTransaction
  <2>3. PICK drops, adds, kept : drops = t.drops /\ adds = t.adds /\ kept = R \ drops
    OBVIOUS
  <2>4. drops \in SUBSET marked /\ marked \ drops = Marked(kept, planned)
    BY <1>2, <1>3, <1>4, <2>1, <2>2, <2>3, MarkedOutcome
  <2>5. IsTable(kept) /\ planned \in SUBSET kept
    BY <1>2, <1>3, <2>1, <2>3, PartOfTable
  <2>6. SameReviews(Marked(kept, planned), kept)
    BY <2>5, MarkedTable
  <2>7. PICK left : left = marked \ drops
    OBVIOUS
  <2>8. SameReviews(left, kept)
    BY <2>4, <2>6, <2>7
  <2>9. rows' = marked
    BY <1>1, <1>4
  <2>10. Outcome(t)' = left \cup adds /\ Outcome(t) = kept \cup adds
    BY <1>0, <2>3, <2>7, <2>9 DEF Outcome
  <2>11. SameReviews(left \cup adds, kept \cup adds)
    <3>1. \A x \in adds : SameReview(x, x)
      BY DEF SameReview
    <3>2. QED
      BY <2>8, <3>1 DEF SameReviews
  <2>12. \A new \in adds : \A row \in left : new.id # row.id
    <3>1. \A new \in adds : \A row \in kept : new.id # row.id
      BY <2>2, <2>3
    <3>2. \A x \in left : \E y \in kept : x.id = y.id
      BY <2>8 DEF SameReviews, SameReview
    <3>3. QED
      BY <3>1, <3>2
  <2>13. IsTransaction(t)'
    <3>1. /\ t.drops \in SUBSET rows'
          /\ \A new \in t.adds : \A row \in rows' \ t.drops : new.id # row.id
          /\ \A new \in t.adds : new.id < nextId'
      BY <1>1, <2>2, <2>3, <2>4, <2>7, <2>9, <2>12
    <3>2. QED
      BY <1>7, <2>2, <3>1 DEF IsTransaction
  <2>14. QED
    BY <2>10, <2>11, <2>13
<1>8. ASSUME NEW p \in Process, tx[p] # None
      PROVE  IsTransaction(tx[p])' /\ SameReviews(Outcome(tx[p])', Outcome(tx[p]))
  <2>1. PICK t : t = tx[p]
    OBVIOUS
  <2>2. IsTransaction(t) /\ ~Locks(t, planned) /\ t # None /\ tx'[p] = t
    BY <1>1, <1>8, <2>1 DEF LockInv
  <2>3. IsTransaction(t)' /\ SameReviews(Outcome(t)', Outcome(t))
    BY <1>7, <2>2
  <2>4. IsTransaction(tx[p])' <=> IsTransaction(t)'
    BY <2>2 DEF IsTransaction
  <2>5. Outcome(tx[p])' = Outcome(t)' /\ Outcome(tx[p]) = Outcome(t)
    BY <2>1, <2>2 DEF Outcome
  <2>6. QED
    BY <2>3, <2>4, <2>5
<1>9. LockInv'
  BY <1>1, <1>8 DEF LockInv
<1>10. ScoresWithin(rows, score, Service)'
  <2>1. ASSUME NEW s \in Service
        PROVE  /\ score'[s].hosted <= Cap * Cardinality(HostedBy(Of(marked, s)))
               /\ score'[s].legacy <= 2 * Cap * Cardinality(LegacyDays(Of(marked, s)))
    <3>1. CASE \E row \in planned : row.service = s
      <4>1. ScoresWithin(marked, Scores(marked, trust), Service)
        BY <1>2, <1>5, ScoresOfTable
      <4>2. score'[s] = Scores(marked, trust)[s]
        BY <1>1, <1>4, <3>1 DEF Scores
      <4>3. QED
        BY <4>1, <4>2 DEF ScoresWithin
    <3>2. CASE ~\E row \in planned : row.service = s
      <4>1. score'[s] = score[s]
        BY <1>1, <3>2
      <4>2. ScoresWithin(R, score, Service)
        BY <1>0 DEF StateInv, WeightInv
      <4>3. HostedBy(Of(marked, s)) = HostedBy(Of(R, s)) /\ LegacyDays(Of(marked, s)) = LegacyDays(Of(R, s))
        BY <1>5, SameVotes
      <4>4. QED
        BY <4>1, <4>2, <4>3 DEF ScoresWithin
    <3>3. QED
      BY <3>1, <3>2
  <2>2. rows' = marked
    BY <1>1, <1>4
  <2>3. QED
    BY <2>1, <2>2 DEF ScoresWithin
<1>11. WeightInv'
  <2>1. ASSUME NEW p \in Process, tx[p] # None
        PROVE  ScoresWithin(Outcome(tx[p])', tx[p].score, tx[p].services)
    <3>1. PICK before, after, t : before = Outcome(tx[p]) /\ after = Outcome(tx[p])' /\ t = tx[p]
      OBVIOUS
    <3>2. SameReviews(after, before)
      BY <1>8, <2>1, <3>1
    <3>3. ScoresWithin(before, t.score, t.services)
      BY <2>1, <3>1 DEF StateInv, WeightInv
    <3>4. \A s : HostedBy(Of(after, s)) = HostedBy(Of(before, s)) /\ LegacyDays(Of(after, s)) = LegacyDays(Of(before, s))
      BY <3>2, SameVotes
    <3>5. ScoresWithin(after, t.score, t.services)
      BY <3>3, <3>4 DEF ScoresWithin
    <3>6. QED
      BY <3>1, <3>5
  <2>2. QED
    BY <1>1, <1>10, <2>1 DEF WeightInv
<1>12. RingInv'
  <2>1. \A G \in SUBSET Owner : \A owners : RingIn(marked, G, owners) => RingIn(R, G, owners)
    BY <1>5, SameRings
  <2>2. \A p \in Process : tx[p] # None /\ tx[p].replays =>
          \A G \in SUBSET Owner : RingIn(R, G, tx[p].trust) => \A o \in G : Weightless(tx[p].trust[o])
    BY <1>0 DEF StateInv, RingInv
  <2>3. \A p \in Process : tx[p] # None /\ tx[p].replays =>
          \A G \in SUBSET Owner : RingIn(marked, G, tx[p].trust) => \A o \in G : Weightless(tx[p].trust[o])
    BY <2>1, <2>2
  <2>4. rows' = marked /\ tx' = tx
    BY <1>1, <1>4
  <2>5. QED
    BY <2>3, <2>4 DEF RingInv
<1>13. ExactInv'
  <2>1. ASSUME Quiet PROVE FALSE
    <3>1. planned = {}
      BY <1>0, <2>1 DEF Quiet
    <3>2. QED
      BY <1>1, <3>1
  <2>2. Quiet' = Quiet
    BY <1>1 DEF Quiet
  <2>3. QED
    BY <2>1, <2>2 DEF ExactInv
<1>14. BoundsInv'
  BY <1>1 DEF StateInv, BoundsInv
<1>15. QED
  BY <1>6, <1>9, <1>11, <1>12, <1>13, <1>14 DEF StateInv, StoreInv

(***************************************************************************)
(* The start.                                                              *)
(***************************************************************************)
\* Nobody is trusted before the first replay.
LEMMA UnknownTrust ==
    /\ [o \in Owner |-> Unknown(o)] \in [Owner -> StoredTrust]
    /\ \A o \in Owner : Bounded(Unknown(o))
<1>1. ASSUME NEW o \in Owner PROVE Unknown(o) \in StoredTrust /\ Bounded(Unknown(o))
  <2>0. PICK slashed : slashed = (o \in Slashed)
    OBVIOUS
  <2>1. PICK no \in BOOLEAN : slashed \in BOOLEAN /\ slashed = (o \in Slashed) /\ no = FALSE
    <3>1. slashed \in BOOLEAN
      <4>1. (o \in Slashed) \in BOOLEAN
        OBVIOUS
      <4>2. QED
        BY <2>0, <4>1, Zenon
    <3>2. FALSE \in BOOLEAN
      OBVIOUS
    <3>3. QED
      BY <2>0, <3>1, <3>2, Zenon
  <2>2. PICK t : t = [raw |-> 0, seed |-> no, slashed |-> slashed]
    OBVIOUS
  <2>3. Unknown(o) = t
    BY <2>1, <2>2, Zenon DEF Unknown
  <2>4. t \in StoredTrust /\ t.raw = 0
    <3>1. slashed \in BOOLEAN /\ no \in BOOLEAN
      BY <2>1
    <3>2. QED
      BY <2>2, <3>1 DEF StoredTrust
  <2>5. Bounded(t)
    BY <2>4, TrustAssumption DEF Bounded
  <2>6. QED
    BY <2>3, <2>4, <2>5
<1>2. QED
  BY <1>1

LEMMA InitInv ==
    ASSUME Init
    PROVE  StateInv
<1> DEFINE list == scenario.lists[1]
<1>1. /\ scenario \in Scenario /\ rows = scenario.history
      /\ trust = Replay(rows, Seeded([o \in Owner |-> Unknown(o)], list))
      /\ score = Scores(rows, trust) /\ nextId = 1 + Cardinality(rows) /\ deploys = 0
      /\ tx = [p \in Process |-> None]
  BY DEF Init
<1>2. /\ scenario.history \subseteq Review /\ IsFiniteSet(scenario.history)
      /\ \A row \in scenario.history : row.id \in 1..Cardinality(scenario.history)
      /\ \A row, other \in scenario.history : row.id = other.id => row = other
      /\ scenario.lists \in Seq(SUBSET Owner) \ {<<>>}
  BY <1>1, ScenarioAssumption
<1>3. IsTable(rows)
  BY <1>1, <1>2 DEF IsTable
<1>4. nextId \in Nat /\ \A row \in rows : row.id < nextId
  BY <1>1, <1>2, FS_CardinalityType
<1>5. Len(scenario.lists) \in Nat /\ 0 < Len(scenario.lists) /\ list \in SUBSET Owner
  BY <1>2
<1>6. PICK unknown \in [Owner -> StoredTrust] :
        unknown = [o \in Owner |-> Unknown(o)] /\ \A o \in Owner : Bounded(unknown[o])
  BY UnknownTrust
<1>7. PICK pinned \in [Owner -> StoredTrust] :
        /\ pinned = Seeded(unknown, list)
        /\ SeedsAre(pinned, list) /\ \A o \in Owner : Bounded(pinned[o])
  BY <1>5, <1>6, SeedsOfList
<1>8. trust = Replay(rows, pinned)
  BY <1>1, <1>6, <1>7
<1>9. trust \in [Owner -> StoredTrust] /\ \A o \in Owner : SameStanding(trust[o], pinned[o])
  BY <1>3, <1>8, ReplayKeepsTrust DEF IsTable
<1>10. SeedsAre(trust, list)
  BY <1>5, <1>7, <1>9, SeedsAfterReplay
<1>11. \A p \in Process : tx[p] = None
  BY <1>1
<1>12. TablesInv
  BY <1>1, <1>3, <1>4, <1>5, <1>9 DEF TablesInv
<1>13. LockInv
  BY <1>1, <1>11 DEF LockInv
<1>14. WeightInv
  BY <1>1, <1>3, <1>9, <1>11, ScoresOfTable DEF WeightInv
<1>15. RingInv
  BY <1>11 DEF RingInv
<1>16. ExactInv
  <2>1. Configured = list
    BY <1>1 DEF Configured
  <2>2. QED
    BY <1>1, <1>10, <1>11, <2>1 DEF ExactInv
<1>17. BoundsInv
  BY <1>7, <1>9, <1>11 DEF BoundsInv, SameStanding
<1>18. QED
  BY <1>12, <1>13, <1>14, <1>15, <1>16, <1>17 DEF StateInv, StoreInv

(***************************************************************************)
(* The tables and the transactions stay consistent with one another: every *)
(* step of a request, of the cron, of a deployment and of the script keeps *)
(* the invariant that the properties below follow from.                    *)
(***************************************************************************)
THEOREM StateInvariant == Spec => []StateInv
<1>1. Init => StateInv
  BY InitInv
<1>2. ASSUME StateInv, [Next]_vars PROVE StateInv'
  <2>1. ASSUME NEW draft \in scenario.drafts, Submit(draft) PROVE StateInv'
    BY <1>2, <2>1, SubmitInv
  <2>2. ASSUME NEW row \in rows, DeleteMyReview(row) PROVE StateInv'
    <3>1. "request" \in Process /\ {row} \in SUBSET rows
      BY DEF Process
    <3>2. /\ Open("request", Replaying({row}))
          /\ UNCHANGED <<scenario, rows, trust, score, nextId, deploys>>
      BY <2>2 DEF DeleteMyReview
    <3>3. PICK dropped : dropped = {row}
      OBVIOUS
    <3>4. Open("request", Replaying(dropped)) /\ dropped \in SUBSET rows
      BY <3>1, <3>2, <3>3
    <3>5. QED
      BY <1>2, <3>1, <3>2, <3>4, ReplayingInv
  <2>3. ASSUME NEW row \in rows, Upgrade(row) PROVE StateInv'
    BY <1>2, <2>3, UpgradeInv
  <2>4. ASSUME Sweep PROVE StateInv'
    <3>1. "cron" \in Process
      BY DEF Process
    <3>2. QED
      BY <1>2, <2>4, <3>1, ReplayingInv DEF Sweep
  <2>5. ASSUME NEW p \in Process, Commit(p) PROVE StateInv'
    BY <1>2, <2>5, CommitInv
  <2>6. ASSUME NEW p \in Process, Rollback(p) PROVE StateInv'
    BY <1>2, <2>6, RollbackInv
  <2>7. CASE Deploy
    BY <1>2, <2>7, DeployInv
  <2>8. CASE SyncSeedOwners
    BY <1>2, <2>8, SyncInv
  <2>9. CASE ExcludePlatformDefects
    BY <1>2, <2>9, ExcludeInv
  <2>10. CASE UNCHANGED vars
    <3>1. UNCHANGED <<scenario, rows, trust, score, nextId, deploys, tx>>
      BY <2>10 DEF vars
    <3>2. \A p \in Process : Outcome(tx[p])' = Outcome(tx[p])
      BY <3>1 DEF Outcome
    <3>3. TablesInv' /\ LockInv'
      BY <1>2, <3>1 DEF StateInv, StoreInv, TablesInv, LockInv, IsTable, IsTransaction
    <3>4. WeightInv' /\ RingInv' /\ BoundsInv'
      BY <1>2, <3>1, <3>2 DEF StateInv, WeightInv, ScoresWithin, RingInv, BoundsInv
    <3>5. ExactInv'
      BY <1>2, <3>1, <3>2 DEF StateInv, ExactInv, Quiet, Configured, SeedsAre, ExactTransaction
    <3>6. QED
      BY <3>3, <3>4, <3>5 DEF StateInv, StoreInv
  <2>11. QED
    BY <1>2, <2>1, <2>2, <2>3, <2>4, <2>5, <2>6, <2>7, <2>8, <2>9, <2>10 DEF Next
<1>3. QED
  BY <1>1, <1>2, PTL DEF Spec

(***************************************************************************)
(* No submission, deletion, upgrade, sweep, seed change or exclusion       *)
(* stores more weight than one vote an owner and twice the cap for a day   *)
(* of a wallet, however many reviews, agents and wallets there are.        *)
(***************************************************************************)
THEOREM OneVote == Spec => []OneVotePerOwner
<1>1. StateInv => OneVotePerOwner
  <2>1. ASSUME NEW s PROVE HostedBy(Of(rows, s)) = {o \in Owner : Of(Hosted(o), s) # {}}
    BY DEF HostedBy, Of, Hosted
  <2>2. ASSUME NEW s
        PROVE LegacyDays(Of(rows, s)) =
                {<<row.wallet, row.day>> : row \in {x \in Of(rows, s) : x.basis = "legacy"}}
    BY DEF LegacyDays
  <2>3. QED
    BY <2>1, <2>2 DEF StateInv, WeightInv, ScoresWithin, OneVotePerOwner
<1>2. QED
  BY <1>1, StateInvariant, PTL

(***************************************************************************)
(* Whatever owners without a seed review among themselves, and however     *)
(* they agree, a deletion or a sweep computes no trust for them: not from  *)
(* their own reviews, not from wallets that weigh nothing.                 *)
(***************************************************************************)
THEOREM RingsEarnNothing == Spec => []NoRingEarnsTrust
<1>1. ASSUME NEW G \in SUBSET Owner, NEW owners, IsRing(G, owners) PROVE RingIn(rows, G, owners)
  <2>1. ASSUME NEW event \in rows, NEW row \in rows, event.basis = "hosted", event.owner \in G,
               row.service = event.service
        PROVE  ~Weighing(row) /\ (row.basis = "hosted" => row.owner \in G)
    <3>1. event \in UNION {Hosted(o) : o \in G}
      BY <2>1 DEF Hosted
    <3>2. row.service \in ReviewedBy(G)
      BY <2>1, <3>1 DEF ReviewedBy
    <3>3. QED
      BY <1>1, <3>2 DEF IsRing
  <2>2. \A o \in G : ~owners[o].seed
    BY <1>1 DEF IsRing
  <2>3. QED
    BY <2>1, <2>2 DEF RingIn, Alone
<1>2. StateInv => NoRingEarnsTrust
  BY <1>1 DEF StateInv, RingInv, Weightless, NoRingEarnsTrust
<1>3. QED
  BY <1>2, StateInvariant, PTL

(***************************************************************************)
(* As long as the seeds stay and nothing is excluded, the stored scores    *)
(* are those of the stored reviews under the stored trust, after every     *)
(* commit and every rollback.                                              *)
(***************************************************************************)
THEOREM StoredScoresExact == Spec => []ScoresExact
<1>1. StateInv => ScoresExact
  BY DEF StateInv, ExactInv, Quiet, ScoresExact
<1>2. QED
  BY <1>1, StateInvariant, PTL

(***************************************************************************)
(* Raw trust lives between its floor and its cap: no sequence of events,   *)
(* replays, seed changes and demotions takes the number of an owner out.   *)
(***************************************************************************)
THEOREM TrustInBounds == Spec => [](\A o \in Owner : Floor <= trust[o].raw /\ trust[o].raw <= Cap)
<1>1. StateInv => \A o \in Owner : Floor <= trust[o].raw /\ trust[o].raw <= Cap
  BY DEF StateInv, BoundsInv, Bounded
<1>2. QED
  BY <1>1, StateInvariant, PTL

(***************************************************************************)
(* What every score that is ever stored is: that of some reviews.          *)
(***************************************************************************)
\* The quotient of a number within c times the divisor is within c.
LEMMA QuotientWithin ==
    ASSUME NEW n \in Int, NEW d \in Int, d > 0, NEW c \in Int, -(c * d) <= n, n <= c * d
    PROVE  -c <= n \div d /\ n \div d <= c
<1>1. PICK q \in Int : q = n \div d
  BY Z3
<1>2. d * q <= n /\ n < d * q + d
  BY <1>1
<1>3. ASSUME NEW x \in Int, NEW y \in Int, x <= y PROVE d * x <= d * y
  <2>1. PICK k \in Nat : y = x + k
    <3>1. y - x \in Nat /\ y = x + (y - x)
      BY <1>3
    <3>2. QED
      BY <3>1
  <2>2. d * y = d * x + d * k /\ d * k \in Nat /\ d * x \in Int
    BY <2>1
  <2>3. QED
    BY <2>2
<1>4. PICK u \in Int, v \in Int : u = d * q /\ v = c * d
  BY <1>1
<1>5. q <= c
  <2>1. SUFFICES ASSUME c + 1 <= q PROVE FALSE
    BY <1>1
  <2>2. d * (c + 1) <= u
    BY <1>1, <1>3, <1>4, <2>1
  <2>3. d * (c + 1) = v + d
    BY <1>4
  <2>4. QED
    BY <1>2, <1>4, <2>2, <2>3
<1>6. -c <= q
  <2>1. SUFFICES ASSUME q + 1 <= -c PROVE FALSE
    BY <1>1
  <2>2. d * (q + 1) <= d * (-c)
    BY <1>1, <1>3, <2>1
  <2>3. d * (q + 1) = u + d /\ d * (-c) = -v
    BY <1>1, <1>4
  <2>4. QED
    BY <1>2, <1>4, <2>2, <2>3
<1>7. QED
  BY <1>1, <1>5, <1>6

\* The mean of ratings from 1 to 5 is from 1 to 5.
LEMMA MeanWithin ==
    ASSUME NEW S \in SUBSET Review, IsFiniteSet(S), S # {}
    PROVE  MeanLean(S) \in Int /\ -(2 * Scale) <= MeanLean(S) /\ MeanLean(S) <= 2 * Scale
<1> DEFINE leans == [row \in S |-> Scale * ProofMultiplier(row) * (row.rating - 3)]
           evidence == [row \in S |-> ProofMultiplier(row)]
<1>1. PICK c \in Int : c = 2 * Scale
  BY TrustAssumption
<1>2. \A row \in S : /\ leans[row] \in Int /\ evidence[row] \in Int
                     /\ -(c * evidence[row]) <= leans[row] /\ leans[row] <= c * evidence[row]
                     /\ 1 <= evidence[row] /\ evidence[row] <= 2
  <2> TAKE row \in S
  <2>1. PICK m \in {1, 2}, r \in 1..5 : m = ProofMultiplier(row) /\ r = row.rating
    BY EvidenceOfReview DEF Review
  <2>2. leans[row] = Scale * m * (r - 3) /\ evidence[row] = m
    BY <2>1
  <2>3. Scale \in Int /\ Scale > 0
    BY TrustAssumption
  <2>4. /\ Scale * m * (r - 3) \in Int
        /\ -(c * m) <= Scale * m * (r - 3) /\ Scale * m * (r - 3) <= c * m
    <3>1. r = 1 \/ r = 2 \/ r = 3 \/ r = 4 \/ r = 5
      BY <2>1
    <3>2. CASE m = 1
      BY <1>1, <2>3, <3>1, <3>2
    <3>3. CASE m = 2
      BY <1>1, <2>3, <3>1, <3>3
    <3>4. QED
      BY <3>2, <3>3
  <2>5. QED
    BY <2>1, <2>2, <2>4
<1>3. DOMAIN leans = S /\ DOMAIN evidence = S
  OBVIOUS
<1> HIDE DEF leans, evidence
<1>4. PICK n, d : n = SumFunction(leans) /\ d = SumFunction(evidence)
  OBVIOUS
<1>5. n \in Int /\ d \in Int
  BY <1>2, <1>3, <1>4, SumIsInt
<1>6. -(c * d) <= n /\ n <= c * d
  BY <1>2, <1>3, <1>4, SumWithin
<1>7. d > 0
  <2>1. PICK k \in Nat : k = Cardinality(S) /\ k > 0
    BY FS_CardinalityType, FS_EmptySet
  <2>2. 1 * k <= d
    BY <1>2, <1>3, <1>4, <2>1, SumBounds
  <2>3. QED
    BY <1>5, <2>1, <2>2
<1>8. -c <= n \div d /\ n \div d <= c
  BY <1>5, <1>6, <1>7, QuotientWithin
<1>9. MeanLean(S) = n \div d
  BY <1>4 DEF MeanLean, leans, evidence
<1>10. MeanLean(S) \in Int
  BY MeanIsInt
<1>11. QED
  BY <1>1, <1>8, <1>9, <1>10

\* A weight times something within c is within c times the weight.
LEMMA ProductWithin ==
    ASSUME NEW w \in Nat, NEW m \in Int, NEW c \in Int, -c <= m, m <= c
    PROVE  w * m \in Int /\ -(c * w) <= w * m /\ w * m <= c * w
<1>1. PICK k \in Nat, j \in Nat : c = m + k /\ m = j - c
  <2>1. c - m \in Nat /\ m + c \in Nat /\ c = m + (c - m) /\ m = (m + c) - c
    OBVIOUS
  <2>2. QED
    BY <2>1
<1>2. w * c = w * m + w * k /\ w * m = w * j - w * c
  BY <1>1
<1>3. w * k \in Nat /\ w * j \in Nat /\ w * c \in Int /\ w * m \in Int /\ c * w = w * c
  BY <1>1
<1>4. QED
  BY <1>2, <1>3

\* A score leans no further than ratings from 1 to 5 of its weight allow.
Within(r) ==
    /\ r.hosted \in Nat /\ r.legacy \in Nat /\ r.lean \in Int
    /\ -(2 * Scale * (r.hosted + r.legacy)) <= r.lean
    /\ r.lean <= 2 * Scale * (r.hosted + r.legacy)

LEMMA LeanWithin ==
    ASSUME NEW S \in SUBSET Review, IsFiniteSet(S), NEW owners \in [Owner -> StoredTrust]
    PROVE  Within(ComputeScore(S, owners))
<1> DEFINE hostedLean == [vote \in OwnerVotes(S) |-> HostedWeight(vote, owners) * MeanLean(vote.rows)]
           hosted == [vote \in OwnerVotes(S) |-> HostedWeight(vote, owners)]
           legacyLean == [vote \in LegacyVotes(S) |-> LegacyWeight(vote) * MeanLean(vote.rows)]
           legacy == [vote \in LegacyVotes(S) |-> LegacyWeight(vote)]
<1>1. PICK c \in Int : c = 2 * Scale
  BY TrustAssumption
<1>2. \A vote \in OwnerVotes(S) :
        /\ hosted[vote] \in Int /\ hosted[vote] >= 0 /\ hosted[vote] <= Cap
        /\ hostedLean[vote] \in Int
        /\ -(c * hosted[vote]) <= hostedLean[vote] /\ hostedLean[vote] <= c * hosted[vote]
  <2> TAKE vote \in OwnerVotes(S)
  <2>1. /\ vote.by \in Owner /\ vote.rows \in SUBSET Review
        /\ IsFiniteSet(vote.rows) /\ vote.rows # {}
    BY OwnerVoteRows, FS_Subset
  <2>2. PICK m \in Int : m = MeanLean(vote.rows) /\ -c <= m /\ m <= c
    BY <1>1, <2>1, MeanWithin
  <2>3. PICK w : w = EffectiveWeight(owners[vote.by])
    OBVIOUS
  <2>4. w \in Int /\ 0 <= w /\ w <= Cap
    BY <2>1, <2>3, WeightOfTrust
  <2>5. w * m \in Int /\ -(c * w) <= w * m /\ w * m <= c * w
    BY <2>2, <2>4, ProductWithin
  <2>6. hosted[vote] = w /\ hostedLean[vote] = w * m
    BY <2>2, <2>3 DEF HostedWeight
  <2>7. QED
    BY <2>4, <2>5, <2>6
<1>3. \A vote \in LegacyVotes(S) :
        /\ legacy[vote] \in Int /\ legacy[vote] >= 0 /\ legacy[vote] <= 2 * Cap
        /\ legacyLean[vote] \in Int
        /\ -(c * legacy[vote]) <= legacyLean[vote] /\ legacyLean[vote] <= c * legacy[vote]
  <2> TAKE vote \in LegacyVotes(S)
  <2>1. vote.rows \in SUBSET Review /\ IsFiniteSet(vote.rows) /\ vote.rows # {}
    BY LegacyVoteRows, FS_Subset
  <2>2. PICK m \in Int : m = MeanLean(vote.rows) /\ -c <= m /\ m <= c
    BY <1>1, <2>1, MeanWithin
  <2>3. PICK w : w = LegacyWeight(vote)
    OBVIOUS
  <2>4. w \in Int /\ 0 <= w /\ w <= 2 * Cap
    BY <2>3, WeightOfLegacyVote
  <2>5. w * m \in Int /\ -(c * w) <= w * m /\ w * m <= c * w
    BY <2>2, <2>4, ProductWithin
  <2>6. legacy[vote] = w /\ legacyLean[vote] = w * m
    BY <2>2, <2>3
  <2>7. QED
    BY <2>4, <2>5, <2>6
<1>4. /\ DOMAIN hosted = OwnerVotes(S) /\ DOMAIN hostedLean = OwnerVotes(S)
      /\ DOMAIN legacy = LegacyVotes(S) /\ DOMAIN legacyLean = LegacyVotes(S)
  OBVIOUS
<1>5. /\ ComputeScore(S, owners).hosted = SumFunction(hosted)
      /\ ComputeScore(S, owners).legacy = SumFunction(legacy)
      /\ ComputeScore(S, owners).lean = SumFunction(hostedLean) + SumFunction(legacyLean)
  BY DEF ComputeScore, LegacyEvidence, Lean
<1> HIDE DEF hosted, hostedLean, legacy, legacyLean
<1>6. PICK h, hl, l, ll : /\ h = SumFunction(hosted) /\ hl = SumFunction(hostedLean)
                          /\ l = SumFunction(legacy) /\ ll = SumFunction(legacyLean)
  OBVIOUS
<1>7. h \in Int /\ hl \in Int /\ l \in Int /\ ll \in Int
  BY <1>2, <1>3, <1>4, <1>6, CountOwnerVotes, CountLegacyVotes, SumIsInt
<1>8. -(c * h) <= hl /\ hl <= c * h
  BY <1>2, <1>4, <1>6, CountOwnerVotes, SumWithin
<1>9. -(c * l) <= ll /\ ll <= c * l
  BY <1>3, <1>4, <1>6, CountLegacyVotes, SumWithin
<1>10. h >= 0 /\ l >= 0
  <2>1. PICK m \in Nat, n \in Nat : m = Cardinality(OwnerVotes(S)) /\ n = Cardinality(LegacyVotes(S))
    BY CountOwnerVotes, CountLegacyVotes, FS_CardinalityType
  <2>2. Cap \in Int /\ 2 * Cap \in Int
    BY TrustAssumption
  <2>3. 0 * m <= h
    BY <1>2, <1>4, <1>6, <2>1, <2>2, CountOwnerVotes, SumBounds
  <2>4. 0 * n <= l
    BY <1>3, <1>4, <1>6, <2>1, <2>2, CountLegacyVotes, SumBounds
  <2>5. QED
    BY <1>7, <2>1, <2>3, <2>4
<1>11. c * (h + l) = c * h + c * l /\ c * h \in Int /\ c * l \in Int
  BY <1>7
<1>12. -(c * (h + l)) <= hl + ll /\ hl + ll <= c * (h + l) /\ hl + ll \in Int
  BY <1>7, <1>8, <1>9, <1>11
<1>13. QED
  BY <1>1, <1>5, <1>6, <1>7, <1>10, <1>12 DEF Within

\* When every owner and wallet is weightless, so is every score.
LEMMA NoWeightNoScore ==
    ASSUME NEW S \in SUBSET Review, IsFiniteSet(S), NEW owners \in [Owner -> StoredTrust],
           \A o \in Owner : Weightless(owners[o]),
           \A w \in Wallet : EffectiveWeight(WalletTrust[w]) = 0
    PROVE  LET r == ComputeScore(S, owners) IN r.hosted = 0 /\ r.legacy = 0 /\ r.lean = 0
<1> DEFINE hosted == [vote \in OwnerVotes(S) |-> HostedWeight(vote, owners)]
           legacy == [vote \in LegacyVotes(S) |-> LegacyWeight(vote)]
<1>1. \A vote \in OwnerVotes(S) : HostedWeight(vote, owners) = 0
  <2> TAKE vote \in OwnerVotes(S)
  <2>1. PICK t \in StoredTrust : t = owners[vote.by] /\ Weightless(t)
    BY OwnerVoteRows
  <2>2. QED
    BY <2>1, WeightOfTrust DEF Weightless, HostedWeight
<1>2. \A vote \in LegacyVotes(S) : LegacyWeight(vote) = 0
  BY LegacyVoteRows, WeightOfLegacyVote
<1>3. \A vote \in OwnerVotes(S) : hosted[vote] = 0
  BY <1>1
<1>4. \A vote \in LegacyVotes(S) : legacy[vote] = 0
  BY <1>2
<1>5. DOMAIN hosted = OwnerVotes(S) /\ DOMAIN legacy = LegacyVotes(S)
  OBVIOUS
<1>6. /\ ComputeScore(S, owners).hosted = SumFunction(hosted)
      /\ ComputeScore(S, owners).legacy = SumFunction(legacy)
  BY DEF ComputeScore, LegacyEvidence
<1> HIDE DEF hosted, legacy
<1>7. SumFunction(hosted) = 0 /\ SumFunction(legacy) = 0
  BY <1>3, <1>4, <1>5, CountOwnerVotes, CountLegacyVotes, SumOfZeros
<1>8. ComputeScore(S, owners).lean = 0
  BY <1>1, <1>2, NoWeightNoLean
<1>9. QED
  BY <1>6, <1>7, <1>8

\* No list names a seed, and no wallet of old has weight.
Seedless(lists) ==
    /\ \A i \in 1..Len(lists) : lists[i] = {}
    /\ \A w \in Wallet : EffectiveWeight(WalletTrust[w]) = 0
\* The trust there can be under some lists of seeds.
Possible(lists) ==
    {owners \in [Owner -> StoredTrust] :
       Seedless(lists) => \A o \in Owner : ~owners[o].seed /\ Weightless(owners[o])}
\* The scores there can be.
IsScore(r, lists) ==
    \E S \in SUBSET Review : IsFiniteSet(S) /\ \E owners \in Possible(lists) : r = ComputeScore(S, owners)
AreScores(scores, lists) == \A s \in Service : IsScore(scores[s], lists)

OriginInv ==
    /\ trust \in Possible(scenario.lists) /\ AreScores(score, scenario.lists)
    /\ \A p \in Process : tx[p] # None =>
         tx[p].trust \in Possible(scenario.lists) /\ AreScores(tx[p].score, scenario.lists)

\* What some reviews and some trust there can be make of the services.
LEMMA ScoresAreScores ==
    ASSUME NEW lists, NEW S, S \in SUBSET Review, IsFiniteSet(S), NEW owners \in Possible(lists)
    PROVE  AreScores(Scores(S, owners), lists)
<1>1. ASSUME NEW s \in Service PROVE IsScore(Scores(S, owners)[s], lists)
  <2>1. Of(S, s) \in SUBSET Review /\ IsFiniteSet(Of(S, s))
    BY FS_Subset DEF Of
  <2>2. Scores(S, owners)[s] = ComputeScore(Of(S, s), owners)
    BY DEF Scores
  <2>3. QED
    BY <2>1, <2>2 DEF IsScore
<1>2. QED
  BY <1>1 DEF AreScores

\* A replay makes no trust out of nothing.
LEMMA ReplayPossible ==
    ASSUME NEW lists, NEW S, S \in SUBSET Review, IsFiniteSet(S), NEW stored \in [Owner -> StoredTrust],
           Seedless(lists) => \A o \in Owner : ~stored[o].seed
    PROVE  Replay(S, stored) \in Possible(lists)
<1>1. Replay(S, stored) \in [Owner -> StoredTrust] /\ \A o \in Owner : SameStanding(Replay(S, stored)[o], stored[o])
  BY ReplayKeepsTrust
<1>2. ASSUME Seedless(lists)
      PROVE  \A o \in Owner : ~Replay(S, stored)[o].seed /\ Weightless(Replay(S, stored)[o])
  <2>1. \A o \in Owner : ~stored[o].seed
    BY <1>2
  <2>2. ASSUME NEW row \in S PROVE ~Weighing(row)
    <3>1. row \in Review
      OBVIOUS
    <3>2. IsLegacyRow(row) => row.wallet \in Wallet
      BY <3>1 DEF IsLegacyRow, Review
    <3>3. IsLegacyRow(row) => EffectiveWeight(WalletTrust[row.wallet]) = 0
      BY <1>2, <3>2 DEF Seedless
    <3>4. QED
      BY <3>3 DEF Weighing
  <2>3. ASSUME NEW row \in S, Weighted(row) PROVE row.owner \in Owner
    BY <2>3 DEF Weighted, Review
  <2>4. Secluded(S, Owner)
    BY <2>2, <2>3 DEF Secluded
  <2>5. \A o \in Owner : Weightless(Replay(S, stored)[o])
    BY <2>1, <2>4, ReplayOfRing
  <2>6. QED
    BY <1>1, <2>1, <2>5 DEF SameStanding
<1>3. QED
  BY <1>1, <1>2 DEF Possible

\* A transaction that opens has read what there can be.
LEMMA OpeningOrigin ==
    ASSUME OriginInv, StateInv, StateInv', NEW p \in Process, NEW t, Open(p, t), ExactTransaction(t),
           UNCHANGED <<scenario, rows, trust, score>>
    PROVE  OriginInv'
<1>1. PICK lists : lists = scenario.lists
  OBVIOUS
<1>2. /\ tx' = [tx EXCEPT ![p] = t] /\ \A q \in Process : tx[q] = None
      /\ DOMAIN tx = Process
  BY DEF Open, LockReviewWrites, StateInv, StoreInv, LockInv
<1>3. tx'[p] = t /\ \A q \in Process : q # p => tx'[q] = None
  BY <1>2
<1>0. CASE t = None
  BY <1>0, <1>1, <1>3 DEF OriginInv
<1> SUFFICES ASSUME t # None PROVE OriginInv'
  BY <1>0
<1>4. IsTransaction(t)'
  BY <1>3 DEF StateInv, StoreInv, LockInv
<1>5. IsTable(rows) /\ trust \in [Owner -> StoredTrust]
  BY DEF StateInv, StoreInv, TablesInv
<1>6. Outcome(t) \in SUBSET Review /\ IsFiniteSet(Outcome(t))
  <2>1. t.adds \in SUBSET Review /\ IsFiniteSet(t.adds)
    BY <1>4 DEF IsTransaction
  <2>2. rows \ t.drops \in SUBSET Review /\ IsFiniteSet(rows \ t.drops)
    BY <1>5, FS_Subset DEF IsTable
  <2>3. QED
    BY <2>1, <2>2, FS_Union DEF Outcome
<1>7. trust \in Possible(lists) /\ AreScores(score, lists)
  BY <1>1 DEF OriginInv
<1>8. t.trust \in Possible(lists)
  <2>1. CASE t.replays
    <3>1. t.trust = Replay(Outcome(t), trust)
      BY <2>1 DEF ExactTransaction
    <3>2. Seedless(lists) => \A o \in Owner : ~trust[o].seed
      BY <1>7 DEF Possible
    <3>3. QED
      BY <1>5, <1>6, <3>1, <3>2, ReplayPossible
  <2>2. CASE ~t.replays
    BY <1>7, <2>2 DEF ExactTransaction
  <2>3. QED
    BY <2>1, <2>2
<1>9. AreScores(t.score, lists)
  BY <1>6, <1>8, ScoresAreScores DEF ExactTransaction
<1>10. scenario'.lists = lists /\ trust' = trust /\ score' = score
  BY <1>1
<1>11. QED
  BY <1>3, <1>7, <1>8, <1>9, <1>10 DEF OriginInv

\* What the transactions of a request and of the cron have computed.
LEMMA ComputedExactly ==
    ASSUME NEW adds, NEW drops, NEW s
    PROVE  ExactTransaction(Recomputing(adds, drops, s)) /\ ExactTransaction(Replaying(drops))
<1>1. PICK t : t = Recomputing(adds, drops, s)
  OBVIOUS
<1>2. t.adds = adds /\ t.drops = drops /\ t.replays = FALSE /\ t.trust = trust
      /\ t.score = Scores((rows \ drops) \cup adds, trust)
  BY <1>1 DEF Recomputing
<1>3. ExactTransaction(t)
  BY <1>2 DEF ExactTransaction, Outcome
<1>4. PICK u : u = Replaying(drops)
  OBVIOUS
<1>5. u.adds = {} /\ u.drops = drops /\ u.replays = TRUE /\ u.trust = Replay(rows \ drops, trust)
      /\ u.score = Scores(rows \ drops, Replay(rows \ drops, trust))
  BY <1>4 DEF Replaying
<1>6. Outcome(u) = rows \ drops
  BY <1>5 DEF Outcome
<1>7. ExactTransaction(u)
  BY <1>5, <1>6 DEF ExactTransaction
<1>8. QED
  BY <1>1, <1>3, <1>4, <1>7

\* The commit of what there can be leaves what there can be.
LEMMA CommitOrigin ==
    ASSUME OriginInv, StateInv, NEW p \in Process, Commit(p)
    PROVE  OriginInv'
<1>1. PICK lists, t : lists = scenario.lists /\ t = tx[p]
  OBVIOUS
<1>2. /\ LockInv /\ tx[p] # None /\ tx' = [tx EXCEPT ![p] = None]
      /\ trust' = CommittedTrust(t, trust)
      /\ score' = [s \in Service |-> IF s \in t.services THEN t.score[s] ELSE score[s]]
      /\ scenario' = scenario
  BY <1>1 DEF StateInv, StoreInv, Commit, CommittedTrust
<1>3. \A q \in Process : tx'[q] = None
  BY <1>2, NoneOpenAfter
<1>4. /\ trust \in Possible(lists) /\ AreScores(score, lists)
      /\ t.trust \in Possible(lists) /\ AreScores(t.score, lists)
  BY <1>1, <1>2 DEF OriginInv
<1>5. trust' \in [Owner -> StoredTrust]
  <2>1. trust \in [Owner -> StoredTrust] /\ t.trust \in [Owner -> StoredTrust]
    BY <1>4 DEF Possible
  <2>2. \A o \in Owner : Bounded(trust[o]) /\ Bounded(t.trust[o])
    BY <1>1, <1>2 DEF StateInv, BoundsInv
  <2>3. QED
    BY <1>2, <2>1, <2>2, TrustOfCommit
<1>6. ASSUME Seedless(lists), NEW o \in Owner PROVE ~trust'[o].seed /\ Weightless(trust'[o])
  <2>1. PICK u \in StoredTrust, v \in StoredTrust :
          /\ u = t.trust[o] /\ Weightless(u) /\ ~u.seed
          /\ v = trust[o] /\ Weightless(v) /\ ~v.seed
    BY <1>4, <1>6 DEF Possible
  <2>2. CASE t.replays /\ ~Pinned(u)
    <3>1. u.raw = 0
      BY <2>1, <2>2 DEF Weightless, Pinned
    <3>2. PICK new : new = [v EXCEPT !.raw = 0]
      OBVIOUS
    <3>3. new.raw = 0 /\ new.seed = v.seed
      BY <3>2, OnlyRawChanges
    <3>4. trust'[o] = new
      BY <1>2, <2>1, <2>2, <3>1, <3>2 DEF CommittedTrust
    <3>5. QED
      BY <2>1, <3>3, <3>4 DEF Weightless
  <2>3. CASE ~(t.replays /\ ~Pinned(u))
    <3>1. trust'[o] = v
      BY <1>2, <2>1, <2>3 DEF CommittedTrust
    <3>2. QED
      BY <2>1, <3>1
  <2>4. QED
    BY <2>2, <2>3
<1>7. trust' \in Possible(lists)
  BY <1>5, <1>6 DEF Possible
<1>8. ASSUME NEW s \in Service PROVE IsScore(score'[s], lists)
  <2>1. score'[s] = t.score[s] \/ score'[s] = score[s]
    BY <1>2
  <2>2. QED
    BY <1>4, <2>1 DEF AreScores
<1>9. AreScores(score', lists)
  BY <1>8 DEF AreScores
<1>10. scenario'.lists = lists
  BY <1>1, <1>2
<1>11. QED
  BY <1>3, <1>7, <1>9, <1>10 DEF OriginInv

\* The sync of the seeds leaves what there can be: without a list it does nothing.
LEMMA SyncOrigin ==
    ASSUME OriginInv, StateInv, StateInv', SyncSeedOwners
    PROVE  OriginInv'
<1>1. PICK lists : lists = scenario.lists
  OBVIOUS
<1>2. /\ Configured # {} /\ scenario' = scenario /\ score' = score /\ tx' = tx
      /\ scenario \in Scenario /\ deploys \in Nat /\ deploys < Len(lists)
  BY <1>1 DEF SyncSeedOwners, StateInv, StoreInv, TablesInv
<1>3. ~Seedless(lists)
  <2>1. lists \in Seq(SUBSET Owner)
    BY <1>1, <1>2, ScenarioAssumption
  <2>2. 1 + deploys \in 1..Len(lists)
    BY <1>2, <2>1
  <2>3. Configured = lists[1 + deploys]
    BY <1>1 DEF Configured
  <2>4. QED
    BY <1>2, <2>2, <2>3 DEF Seedless
<1>4. trust' \in [Owner -> StoredTrust]
  BY DEF StateInv, StoreInv, TablesInv
<1>5. trust' \in Possible(lists)
  BY <1>3, <1>4 DEF Possible
<1>6. scenario'.lists = lists
  BY <1>1, <1>2
<1>7. QED
  BY <1>1, <1>2, <1>5, <1>6 DEF OriginInv

\* The script computes scores of the reviews it leaves, under the stored trust.
LEMMA ExcludeOrigin ==
    ASSUME OriginInv, StateInv', ExcludePlatformDefects
    PROVE  OriginInv'
<1>1. PICK lists : lists = scenario.lists
  OBVIOUS
<1>2. scenario' = scenario /\ trust' = trust /\ tx' = tx
  BY DEF ExcludePlatformDefects
<1>3. ASSUME NEW s \in Service PROVE score'[s] = ComputeScore(Of(rows', s), trust) \/ score'[s] = score[s]
  BY Zenon DEF ExcludePlatformDefects
<1>4. rows' \in SUBSET Review /\ IsFiniteSet(rows')
  BY DEF StateInv, StoreInv, TablesInv, IsTable
<1>5. trust \in Possible(lists) /\ AreScores(score, lists)
  BY <1>1 DEF OriginInv
<1>6. ASSUME NEW s \in Service PROVE IsScore(score'[s], lists)
  <2>1. CASE score'[s] = ComputeScore(Of(rows', s), trust)
    <3>1. Of(rows', s) \in SUBSET Review /\ IsFiniteSet(Of(rows', s))
      BY <1>4, FS_Subset DEF Of
    <3>2. QED
      BY <1>5, <2>1, <3>1 DEF IsScore
  <2>2. CASE score'[s] = score[s]
    BY <1>5, <2>2 DEF AreScores
  <2>3. QED
    BY <1>3, <2>1, <2>2
<1>7. AreScores(score', lists) /\ scenario'.lists = lists
  BY <1>1, <1>2, <1>6 DEF AreScores
<1>8. QED
  BY <1>1, <1>2, <1>5, <1>7 DEF OriginInv

LEMMA InitOrigin ==
    ASSUME Init, StateInv
    PROVE  OriginInv
<1>1. PICK lists : lists = scenario.lists
  OBVIOUS
<1>2. /\ scenario \in Scenario /\ IsTable(rows)
      /\ trust = Replay(rows, Seeded([o \in Owner |-> Unknown(o)], lists[1]))
      /\ score = Scores(rows, trust) /\ tx = [p \in Process |-> None]
  BY <1>1 DEF Init, StateInv, StoreInv, TablesInv
<1>3. lists \in Seq(SUBSET Owner) \ {<<>>}
  BY <1>1, <1>2, ScenarioAssumption
<1>4. 1 \in 1..Len(lists) /\ lists[1] \in SUBSET Owner
  BY <1>3
<1>5. PICK unknown \in [Owner -> StoredTrust] :
        unknown = [o \in Owner |-> Unknown(o)] /\ \A o \in Owner : Bounded(unknown[o])
  BY UnknownTrust
<1>6. PICK pinned \in [Owner -> StoredTrust] :
        pinned = Seeded(unknown, lists[1]) /\ SeedsAre(pinned, lists[1])
  BY <1>4, <1>5, SeedsOfList
<1>7. Seedless(lists) => \A o \in Owner : ~pinned[o].seed
  BY <1>4, <1>6 DEF Seedless, SeedsAre
<1>8. trust \in Possible(lists)
  BY <1>2, <1>5, <1>6, <1>7, ReplayPossible DEF IsTable
<1>9. AreScores(score, lists)
  BY <1>2, <1>8, ScoresAreScores DEF IsTable
<1>10. QED
  BY <1>1, <1>2, <1>8, <1>9 DEF OriginInv

LEMMA OriginStep ==
    ASSUME OriginInv, StateInv, StateInv', [Next]_vars
    PROVE  OriginInv'
<1>1. ASSUME NEW draft \in scenario.drafts, Submit(draft) PROVE OriginInv'
  <2>1. PICK row : row = [draft EXCEPT !.id = nextId]
    OBVIOUS
  <2>2. /\ Open("request", Recomputing({row}, {}, draft.service))
        /\ UNCHANGED <<scenario, rows, trust, score>>
    BY <1>1, <2>1 DEF Submit
  <2>3. "request" \in Process
    BY DEF Process
  <2>4. QED
    BY <2>2, <2>3, ComputedExactly, OpeningOrigin
<1>2. ASSUME NEW row \in rows, DeleteMyReview(row) PROVE OriginInv'
  <2>1. "request" \in Process
    BY DEF Process
  <2>2. QED
    BY <1>2, <2>1, ComputedExactly, OpeningOrigin DEF DeleteMyReview
<1>3. ASSUME NEW row \in rows, Upgrade(row) PROVE OriginInv'
  <2>1. PICK new : new = [row EXCEPT !.proof = 2]
    OBVIOUS
  <2>2. /\ Open("cron", Recomputing({new}, {row}, row.service))
        /\ UNCHANGED <<scenario, rows, trust, score>>
    BY <1>3, <2>1 DEF Upgrade
  <2>3. "cron" \in Process
    BY DEF Process
  <2>4. QED
    BY <2>2, <2>3, ComputedExactly, OpeningOrigin
<1>4. CASE Sweep
  <2>1. "cron" \in Process
    BY DEF Process
  <2>2. QED
    BY <1>4, <2>1, ComputedExactly, OpeningOrigin DEF Sweep
<1>5. ASSUME NEW p \in Process, Commit(p) PROVE OriginInv'
  BY <1>5, CommitOrigin
<1>6. ASSUME NEW p \in Process, Rollback(p) PROVE OriginInv'
  <2>1. /\ scenario' = scenario /\ trust' = trust /\ score' = score
        /\ \A q \in Process : tx'[q] = None
    BY <1>6, NoneOpenAfter DEF Rollback, StateInv, StoreInv
  <2>2. QED
    BY <2>1 DEF OriginInv
<1>7. CASE Deploy
  BY <1>7 DEF Deploy, OriginInv
<1>8. CASE SyncSeedOwners
  BY <1>8, SyncOrigin
<1>9. CASE ExcludePlatformDefects
  BY <1>9, ExcludeOrigin
<1>10. CASE UNCHANGED vars
  BY <1>10 DEF vars, OriginInv
<1>11. QED
  BY <1>1, <1>2, <1>3, <1>4, <1>5, <1>6, <1>7, <1>8, <1>9, <1>10 DEF Next

(***************************************************************************)
(* Every stored score, and every score about to be written, is the score   *)
(* of some reviews under trust there can be.                               *)
(***************************************************************************)
LEMMA EveryScoreIsOfReviews == Spec => []OriginInv
<1>1. Init => OriginInv
  BY InitInv, InitOrigin
<1>2. OriginInv /\ StateInv /\ StateInv' /\ [Next]_vars => OriginInv'
  BY OriginStep
<1>3. QED
  BY <1>1, <1>2, StateInvariant, PTL DEF Spec

(***************************************************************************)
(* The lean of a score, its weighted sum of ratings above 3, stays within  *)
(* what ratings from 1 to 5 of its weight allow, so that the published     *)
(* score is between 1 and 5, through votes of two eras, exclusions and     *)
(* scores of which only some were recomputed.                              *)
(***************************************************************************)
THEOREM ScoresWithinRatings == Spec => [](\A s \in Service : Within(score[s]))
<1>1. ASSUME OriginInv, NEW s \in Service PROVE Within(score[s])
  <2>1. PICK S \in SUBSET Review :
          IsFiniteSet(S) /\ \E owners \in Possible(scenario.lists) : score[s] = ComputeScore(S, owners)
    BY <1>1 DEF OriginInv, AreScores, IsScore
  <2>2. PICK owners \in Possible(scenario.lists) : score[s] = ComputeScore(S, owners)
    BY <2>1
  <2>3. owners \in [Owner -> StoredTrust]
    BY DEF Possible
  <2>4. Within(ComputeScore(S, owners))
    BY <2>1, <2>3, LeanWithin
  <2>5. QED
    BY <2>2, <2>4
<1>2. OriginInv => \A s \in Service : Within(score[s])
  BY <1>1
<1>3. QED
  BY <1>2, EveryScoreIsOfReviews, PTL

(***************************************************************************)
(* Without a seed nothing is ever weighted: if no list names an owner and  *)
(* no wallet of old has weight, then no submission, replay or exclusion    *)
(* gives any owner weight, or any service a score away from the prior.     *)
(***************************************************************************)
THEOREM NothingWithoutSeeds ==
    Spec => [](Seedless(scenario.lists) =>
                 /\ \A o \in Owner : EffectiveWeight(trust[o]) = 0
                 /\ \A s \in Service : score[s].hosted = 0 /\ score[s].legacy = 0 /\ score[s].lean = 0)
<1>1. ASSUME OriginInv, Seedless(scenario.lists), NEW o \in Owner PROVE EffectiveWeight(trust[o]) = 0
  <2>1. PICK t \in StoredTrust : t = trust[o] /\ Weightless(t)
    BY <1>1 DEF OriginInv, Possible
  <2>2. QED
    BY <2>1, WeightOfTrust DEF Weightless
<1>2. ASSUME OriginInv, Seedless(scenario.lists), NEW s \in Service
      PROVE  score[s].hosted = 0 /\ score[s].legacy = 0 /\ score[s].lean = 0
  <2>1. PICK S \in SUBSET Review :
          IsFiniteSet(S) /\ \E owners \in Possible(scenario.lists) : score[s] = ComputeScore(S, owners)
    BY <1>2 DEF OriginInv, AreScores, IsScore
  <2>2. PICK owners \in Possible(scenario.lists) : score[s] = ComputeScore(S, owners)
    BY <2>1
  <2>3. owners \in [Owner -> StoredTrust] /\ \A o \in Owner : Weightless(owners[o])
    BY <1>2 DEF Possible
  <2>4. \A w \in Wallet : EffectiveWeight(WalletTrust[w]) = 0
    BY <1>2 DEF Seedless
  <2>5. QED
    BY <2>1, <2>2, <2>3, <2>4, NoWeightNoScore
<1>3. OriginInv => (Seedless(scenario.lists) =>
                     /\ \A o \in Owner : EffectiveWeight(trust[o]) = 0
                     /\ \A s \in Service : score[s].hosted = 0 /\ score[s].legacy = 0 /\ score[s].lean = 0)
  BY <1>1, <1>2
<1>4. QED
  BY <1>3, EveryScoreIsOfReviews, PTL

(***************************************************************************)
(* Repair.                                                                 *)
(***************************************************************************)
\* A replay starts from nothing: whether it has run before makes no difference.
LEMMA ReplayTwice ==
    ASSUME NEW S \in SUBSET Review, NEW stored \in [Owner -> StoredTrust]
    PROVE  Replay(S, Replay(S, stored)) = Replay(S, stored)
<1>1. PICK after \in [Owner -> StoredTrust] :
        after = Replay(S, stored) /\ \A o \in Owner : SameStanding(after[o], stored[o])
  BY ReplayKeepsTrust
<1>2. ASSUME NEW o \in Owner PROVE StartOf(after)[o] = StartOf(stored)[o]
  <2>1. PICK u \in StoredTrust, v \in StoredTrust : u = after[o] /\ v = stored[o]
    OBVIOUS
  <2>2. u.seed = v.seed /\ u.slashed = v.slashed /\ (Pinned(v) => u = v) /\ (Pinned(u) <=> Pinned(v))
    BY <1>1, <2>1 DEF SameStanding, Pinned
  <2>3. CASE Pinned(v)
    BY <2>1, <2>2, <2>3 DEF StartOf
  <2>4. CASE ~Pinned(v)
    <3>1. StartOf(after)[o] = [u EXCEPT !.raw = 0] /\ StartOf(stored)[o] = [v EXCEPT !.raw = 0]
      BY <2>1, <2>2, <2>4 DEF StartOf
    <3>2. PICK x : x = [u EXCEPT !.raw = 0]
      OBVIOUS
    <3>3. PICK y : y = [v EXCEPT !.raw = 0]
      OBVIOUS
    <3>4. x \in StoredTrust /\ x.raw = 0 /\ x.seed = u.seed /\ x.slashed = u.slashed
      BY <3>2, OnlyRawChanges
    <3>5. y \in StoredTrust /\ y.raw = 0 /\ y.seed = v.seed /\ y.slashed = v.slashed
      BY <3>3, OnlyRawChanges
    <3>6. x = [y EXCEPT !.raw = 0]
      BY <2>2, <3>4, <3>5, TrustOfParts
    <3>7. y = [y EXCEPT !.raw = 0]
      BY <3>5, TrustOfParts
    <3>8. QED
      BY <3>1, <3>2, <3>3, <3>6, <3>7
  <2>5. QED
    BY <2>3, <2>4
<1>3. StartOf(after) = StartOf(stored)
  <2>1. PICK x, y : x = StartOf(after) /\ y = StartOf(stored)
    OBVIOUS
  <2>2. x = [o \in Owner |-> x[o]] /\ y = [o \in Owner |-> y[o]]
    BY <2>1 DEF StartOf
  <2>3. \A o \in Owner : x[o] = y[o]
    BY <1>2, <2>1
  <2>4. x = y
    BY <2>2, <2>3
  <2>5. QED
    BY <2>1, <2>4
<1>4. Replay(S, after) = ReplayFrom(S, StartOf(after)) /\ Replay(S, stored) = ReplayFrom(S, StartOf(stored))
  BY DEF Replay, StartOf
<1>5. QED
  BY <1>1, <1>3, <1>4

(***************************************************************************)
(* One replay repairs everything: a deletion or a sweep that commits what  *)
(* still follows from the stored rows and trust leaves the trust and every *)
(* score as a further replay of the stored reviews would compute them, and *)
(* the seeds as they were, whatever was stored before.                     *)
(***************************************************************************)
THEOREM ReplaysRepair ==
    Spec => [][\A p \in Process :
                 Commit(p) /\ tx[p].replays /\ ExactTransaction(tx[p]) =>
                   /\ trust' = Replay(rows', trust') /\ score' = Scores(rows', trust')
                   /\ SeedsOf(trust') = SeedsOf(trust)]_vars
<1>1. ASSUME StateInv, NEW p \in Process, Commit(p), tx[p].replays, ExactTransaction(tx[p])
      PROVE  /\ trust' = Replay(rows', trust') /\ score' = Scores(rows', trust')
             /\ SeedsOf(trust') = SeedsOf(trust)
  <2>1. PICK t, after : t = tx[p] /\ after = Outcome(t)
    OBVIOUS
  <2>2. /\ LockInv /\ tx[p] # None /\ IsTable(rows) /\ trust \in [Owner -> StoredTrust]
        /\ rows' = (rows \ t.drops) \cup t.adds
        /\ trust' = CommittedTrust(t, trust)
        /\ score' = [s \in Service |-> IF s \in t.services THEN t.score[s] ELSE score[s]]
    BY <1>1, <2>1 DEF StateInv, StoreInv, TablesInv, Commit, CommittedTrust
  <2>3. IsTransaction(t) /\ t.replays /\ ExactTransaction(t)
    BY <1>1, <2>1, <2>2 DEF LockInv
  <2>4. rows' = after /\ after \in SUBSET Review
    BY <2>1, <2>2, <2>3, OutcomeIsTable DEF Outcome, IsTable
  <2>5. t.trust = Replay(after, trust) /\ t.score = Scores(after, t.trust)
    BY <2>1, <2>3 DEF ExactTransaction
  <2>6. /\ t.trust \in [Owner -> StoredTrust]
        /\ \A o \in Owner : SameStanding(t.trust[o], trust[o])
    BY <2>2, <2>4, <2>5, ReplayKeepsTrust
  <2>7. t.replays \in BOOLEAN /\ t.services = Service
    BY <2>3 DEF IsTransaction
  <2>8. trust' = t.trust
    BY <2>2, <2>3, <2>6, <2>7, CommitOfExact
  <2>9. Replay(after, t.trust) = t.trust
    BY <2>2, <2>4, <2>5, ReplayTwice
  <2>10. score' = Scores(after, t.trust)
    BY <2>2, <2>5, <2>7 DEF Scores
  <2>11. SeedsOf(t.trust) = SeedsOf(trust)
    BY <2>6 DEF SeedsOf, SameStanding
  <2>12. QED
    BY <2>4, <2>8, <2>9, <2>10, <2>11
<1>2. StateInv => [\A p \in Process :
                     Commit(p) /\ tx[p].replays /\ ExactTransaction(tx[p]) =>
                       /\ trust' = Replay(rows', trust') /\ score' = Scores(rows', trust')
                       /\ SeedsOf(trust') = SeedsOf(trust)]_vars
  BY <1>1
<1>3. QED
  BY <1>2, StateInvariant, PTL

=============================================================================
