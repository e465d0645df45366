------------------------------ MODULE Extrema ------------------------------
(***************************************************************************)
(* Min and Max of a non-empty set of natural numbers below a bound, which  *)
(* the community modules define by CHOOSE, induction up to a bound, which  *)
(* the minimum gives, and folds over 1..n, which the community modules     *)
(* define over the subsets of 1..n: they exist, and they are the last of   *)
(* the states that their steps pass through.                               *)
(***************************************************************************)
EXTENDS Naturals, FiniteSetsExt, FiniteSetTheorems, WellFoundedInduction, TLAPS

\* Of the intervals 0..n with n in S one is minimal for inclusion.
LEMMA MinOfBounded ==
  ASSUME NEW b \in Nat, NEW S \in SUBSET (0..b), S # {}
  PROVE  Min(S) \in S /\ \A y \in S : Min(S) <= y
<1> DEFINE T == {0..n : n \in S}
           R == StrictSubsetOrdering(0..b)
<1>1. IsWellFoundedOn(R, FiniteSubsetsOf(0..b))
  BY FS_StrictSubsetOrderingWellFounded
<1>2. T \subseteq FiniteSubsetsOf(0..b)
  <2>1. SUFFICES ASSUME NEW n \in S PROVE 0..n \in FiniteSubsetsOf(0..b)
    OBVIOUS
  <2>2. IsFiniteSet(0..n)
    BY FS_Interval
  <2>3. 0..n \subseteq 0..b
    OBVIOUS
  <2> QED
    BY <2>2, <2>3 DEF FiniteSubsetsOf
<1>3. T # {}
  OBVIOUS
<1>4. PICK x \in T : \A y \in T : ~ (<<y, x>> \in R)
  <2> HIDE DEF T, R
  <2> QED BY <1>1, <1>2, <1>3, WFMin
<1>5. PICK m \in S : x = 0..m
  BY <1>4
<1>6. \A n \in S : m <= n
  <2>1. SUFFICES ASSUME NEW n \in S, n < m PROVE FALSE
    OBVIOUS
  <2>2. 0..n \subseteq 0..m /\ 0..n # 0..m
    <3>1. m \in 0..m /\ m \notin 0..n
      BY <2>1
    <3> QED BY <2>1, <3>1
  <2>3. 0..n \in T
   OBVIOUS
  <2>4. 0..n \in SUBSET (0..b) /\ x \in SUBSET (0..b)
    BY <1>5
  <2> QED
    BY <2>2, <2>3, <2>4, <1>4, <1>5 DEF StrictSubsetOrdering
<1> QED
  BY <1>6 DEF Min

\* The maximum of S is b minus the minimum of the distances to b.
LEMMA MaxOfBounded ==
  ASSUME NEW b \in Nat, NEW S \in SUBSET (0..b), S # {}
  PROVE  Max(S) \in S /\ \A y \in S : y <= Max(S)
<1> DEFINE D == {b - y : y \in S}
           m == Min(D)
<1>1. D \in SUBSET (0..b) /\ D # {}
  <2>1. \A y \in S : y \in 0..b /\ b - y \in 0..b
    OBVIOUS
  <2>2. \A d \in D : d \in 0..b
    BY <2>1
  <2>3. PICK y \in S : TRUE
    OBVIOUS
  <2>4. b - y \in D
    OBVIOUS
  <2> HIDE DEF D
  <2> QED
    BY <2>2, <2>4
<1>2. m \in D /\ \A y \in D : m <= y
  <2> HIDE DEF D
  <2> QED
    BY <1>1, MinOfBounded
<1>3. PICK x \in S : m = b - x
  BY <1>2
<1>4. \A y \in S : x >= y
  <2>1. SUFFICES ASSUME NEW y \in S PROVE x >= y
    OBVIOUS
  <2>2. b - y \in D
    OBVIOUS
  <2>3. b - x <= b - y
    BY <1>2, <1>3, <2>2
  <2> QED
    BY <2>3
<1> QED
  BY <1>4 DEF Max

-----------------------------------------------------------------------------
(* Induction and folds *)

\* Induction up to a bound, by the least number that is not in K.
LEMMA UpTo ==
  ASSUME NEW n \in Nat, NEW K \in SUBSET (0..n), 0 \in K,
         \A m \in 0..n : m \in K /\ m < n => m + 1 \in K
  PROVE  K = 0..n
<1> SUFFICES ASSUME (0..n) \ K # {} PROVE FALSE
  OBVIOUS
<1>1. PICK S : S = (0..n) \ K
  OBVIOUS
<1>2. S \in SUBSET (0..n) /\ S # {}
  BY <1>1
<1>3. Min(S) \in S /\ \A y \in S : Min(S) <= y
  BY <1>2, MinOfBounded
<1>4. PICK m \in S : \A y \in S : m <= y
  BY <1>3
<1>5. m \in Nat /\ m # 0 /\ m <= n /\ m \notin K
  BY <1>1, <1>4
<1>6. m - 1 \in 0..n /\ m - 1 < n /\ m - 1 \notin S
  BY <1>4, <1>5
<1> QED
  BY <1>1, <1>5, <1>6

\* A fold over 1..n by the function step, which the community modules define over
\* all subsets of 1..n.
IsFold(f, n, base, step) ==
    f = [s \in SUBSET (1..n) |->
            IF s = {} THEN base ELSE step[Max(s)][f[s \ {Max(s)}]]]

LEMMA MaxFacts ==
  ASSUME NEW n \in Nat, NEW s \in SUBSET (1..n), s # {}
  PROVE  Max(s) \in s /\ \A y \in s : y <= Max(s)
<1>1. s \in SUBSET (0..n)
  OBVIOUS
<1> QED
  BY <1>1, MaxOfBounded

LEMMA MaxIs ==
  ASSUME NEW n \in Nat, NEW s \in SUBSET (1..n), NEW m \in s, \A y \in s : y <= m
  PROVE  Max(s) = m
<1>1. Max(s) \in s /\ \A y \in s : y <= Max(s)
  BY MaxFacts
<1>2. PICK x \in s : x = Max(s) /\ \A y \in s : y <= x
  BY <1>1
<1>3. x \in Nat /\ m \in Nat /\ x <= m /\ m <= x
  BY <1>2
<1>4. x = m
  BY <1>3
<1> QED
  BY <1>2, <1>4

LEMMA FoldExists ==
  ASSUME NEW n \in Nat, NEW St, NEW base \in St, NEW step \in [1..n -> [St -> St]]
  PROVE  \E f \in [SUBSET (1..n) -> St] : IsFold(f, n, base, step)
<1> DEFINE K == {m \in 0..n : \E f \in [SUBSET (1..m) -> St] : IsFold(f, m, base, step)}
<1>1. 0 \in K
  <2>1. PICK f : f = [s \in SUBSET (1..0) |-> base]
    OBVIOUS
  <2>2. \A s \in SUBSET (1..0) : s = {}
    OBVIOUS
  <2>3. f \in [SUBSET (1..0) -> St]
    BY <2>1
  <2>4. IsFold(f, 0, base, step)
    BY <2>1, <2>2 DEF IsFold
  <2>5. 0 \in 0..n
    OBVIOUS
  <2> QED
    BY <2>3, <2>4, <2>5
<1>2. ASSUME NEW m \in 0..n, m \in K, m < n PROVE m + 1 \in K
  <2>1. PICK g \in [SUBSET (1..m) -> St] : IsFold(g, m, base, step)
    BY <1>2
  <2>2. PICK f : f = [s \in SUBSET (1..(m + 1)) |->
                         IF m + 1 \in s THEN step[m + 1][g[s \ {m + 1}]] ELSE g[s]]
    OBVIOUS
  <2>3. ASSUME NEW s \in SUBSET (1..(m + 1))
        PROVE  /\ f[s] \in St
               /\ f[s] = IF s = {} THEN base ELSE step[Max(s)][f[s \ {Max(s)}]]
    <3>1. CASE m + 1 \in s
      <4>1. Max(s) = m + 1
        <5>1. m + 1 \in Nat /\ \A y \in s : y <= m + 1
          BY <2>3
        <5> QED
          BY <2>3, <3>1, <5>1, MaxIs
      <4>2. s \ {m + 1} \in SUBSET (1..m)
        BY <2>3
      <4>3. f[s \ {m + 1}] = g[s \ {m + 1}] /\ g[s \ {m + 1}] \in St
        BY <2>1, <2>2, <4>2
      <4>4. f[s] = step[m + 1][g[s \ {m + 1}]]
        BY <2>2, <3>1
      <4>5. m + 1 \in 1..n
        BY <1>2
      <4> QED
        BY <3>1, <4>1, <4>3, <4>4, <4>5
    <3>2. CASE m + 1 \notin s
      <4>1. s \in SUBSET (1..m)
        BY <2>3, <3>2
      <4>2. f[s] = g[s] /\ g[s] \in St
        BY <2>1, <2>2, <3>2, <4>1
      <4>3. g[s] = IF s = {} THEN base ELSE step[Max(s)][g[s \ {Max(s)}]]
        BY <2>1, <4>1 DEF IsFold
      <4>4. s # {} => f[s \ {Max(s)}] = g[s \ {Max(s)}]
        <5>1. s \ {Max(s)} \in SUBSET (1..m) /\ s \ {Max(s)} \in SUBSET (1..(m + 1))
              /\ m + 1 \notin s \ {Max(s)}
          BY <3>2, <4>1
        <5> QED
          BY <2>2, <5>1
      <4> QED
        BY <4>2, <4>3, <4>4
    <3> QED
      BY <3>1, <3>2
  <2>4. f \in [SUBSET (1..(m + 1)) -> St]
    BY <2>2, <2>3
  <2>5. IsFold(f, m + 1, base, step)
    BY <2>3, <2>4 DEF IsFold
  <2>6. m + 1 \in 0..n
    BY <1>2
  <2> QED
    BY <2>4, <2>5, <2>6
<1>3. n \in K
  <2>1. K \in SUBSET (0..n)
    OBVIOUS
  <2> HIDE DEF K
  <2>2. K = 0..n
    BY <1>1, <1>2, <2>1, UpTo
  <2> QED
    BY <2>2
<1> QED
  BY <1>3

\* The states a fold passes through.
IsTrace(st, n, base, step) ==
    st[0] = base /\ \A i \in 1..n : st[i] = step[i][st[i - 1]]

LEMMA FoldTrace ==
  ASSUME NEW n \in Nat, NEW base, NEW step, NEW f, IsFold(f, n, base, step),
         NEW m \in 1..n
  PROVE  f[1..m] = step[m][f[1..(m - 1)]]
<1>1. 1..m \in SUBSET (1..n) /\ m \in 1..m /\ \A y \in 1..m : y <= m
  OBVIOUS
<1>2. Max(1..m) = m
  BY <1>1, MaxIs
<1>3. (1..m) \ {m} = 1..(m - 1)
  OBVIOUS
<1> QED
  BY <1>1, <1>2, <1>3 DEF IsFold

LEMMA TraceOfFold ==
  ASSUME NEW n \in Nat, NEW base, NEW step, NEW f, IsFold(f, n, base, step),
         NEW st, st = [m \in 0..n |-> f[1..m]]
  PROVE  IsTrace(st, n, base, step)
<1>1. st[0] = base
  <2>1. 0 \in 0..n /\ 1..0 = {} /\ {} \in SUBSET (1..n)
    OBVIOUS
  <2>2. f[{}] = base
    BY <2>1 DEF IsFold
  <2> QED
    BY <2>1, <2>2
<1>2. ASSUME NEW i \in 1..n PROVE st[i] = step[i][st[i - 1]]
  <2>1. f[1..i] = step[i][f[1..(i - 1)]]
    BY FoldTrace
  <2>2. i \in 0..n /\ i - 1 \in 0..n
    OBVIOUS
  <2>3. st[i] = f[1..i] /\ st[i - 1] = f[1..(i - 1)]
    BY <2>2
  <2> QED
    BY <2>1, <2>3
<1> QED
  BY <1>1, <1>2 DEF IsTrace

LEMMA TraceExists ==
  ASSUME NEW n \in Nat, NEW St, NEW base \in St, NEW step \in [1..n -> [St -> St]]
  PROVE  \E st \in [0..n -> St] : IsTrace(st, n, base, step)
<1>1. PICK f \in [SUBSET (1..n) -> St] : IsFold(f, n, base, step)
  BY FoldExists
<1>2. PICK st : st = [m \in 0..n |-> f[1..m]]
  OBVIOUS
<1>3. \A m \in 0..n : 1..m \in SUBSET (1..n)
  OBVIOUS
<1>4. st \in [0..n -> St]
  BY <1>1, <1>2, <1>3
<1>5. IsTrace(st, n, base, step)
  BY <1>1, <1>2, TraceOfFold
<1> QED
  BY <1>4, <1>5

LEMMA FoldIsTrace ==
  ASSUME NEW n \in Nat, NEW base, NEW step, NEW f, IsFold(f, n, base, step),
         NEW st, IsTrace(st, n, base, step)
  PROVE  f[1..n] = st[n]
<1> DEFINE K == {m \in 0..n : f[1..m] = st[m]}
<1>1. 0 \in K
  BY DEF IsFold, IsTrace
<1>2. ASSUME NEW m \in 0..n, m \in K, m < n PROVE m + 1 \in K
  <2>1. m + 1 \in 1..n /\ (m + 1) - 1 = m
    BY <1>2
  <2>2. f[1..(m + 1)] = step[m + 1][f[1..m]]
    BY <2>1, FoldTrace
  <2> QED
    BY <1>2, <2>1, <2>2 DEF IsTrace
<1>3. K \in SUBSET (0..n)
  OBVIOUS
<1>4. K = 0..n
  <2> HIDE DEF K
  <2> QED
    BY <1>1, <1>2, <1>3, UpTo
<1> QED
  BY <1>4

\* A function that folds by step whenever what it folded before is a state is the
\* fold by step.
LEMMA FoldStays ==
  ASSUME NEW n \in Nat, NEW St, NEW base \in St, NEW step \in [1..n -> [St -> St]],
         NEW g, g = [s \in SUBSET (1..n) |-> g[s]], g[{}] = base,
         \A s \in SUBSET (1..n) : s # {} /\ g[s \ {Max(s)}] \in St =>
            g[s] = step[Max(s)][g[s \ {Max(s)}]]
  PROVE  IsFold(g, n, base, step)
<1> DEFINE K == {m \in 0..n : \A s \in SUBSET (1..m) : g[s] \in St}
<1>1. 0 \in K
  <2>1. \A s \in SUBSET (1..0) : s = {}
    OBVIOUS
  <2>2. 0 \in 0..n
    OBVIOUS
  <2> QED
    BY <2>1, <2>2
<1>2. ASSUME NEW m \in 0..n, m \in K, m < n PROVE m + 1 \in K
  <2>1. \A s \in SUBSET (1..m) : g[s] \in St
    BY <1>2
  <2>2. ASSUME NEW s \in SUBSET (1..(m + 1)) PROVE g[s] \in St
    <3>1. CASE s = {}
      BY <3>1
    <3>2. CASE s # {}
      <4>1. s \in SUBSET (1..n) /\ m + 1 \in Nat
        BY <1>2
      <4>2. Max(s) \in s /\ \A y \in s : y <= Max(s)
        BY <3>2, <4>1, MaxFacts
      <4>3. PICK x \in s : x = Max(s) /\ \A y \in s : y <= x
        BY <4>2
      <4>4. x \in 1..n /\ s \ {x} \in SUBSET (1..m)
        <5>1. ASSUME NEW y \in s \ {x} PROVE y \in 1..m
          <6>1. y \in 1..(m + 1) /\ x \in 1..(m + 1) /\ y <= x /\ y # x
            BY <4>3
          <6> QED
            BY <6>1
        <5> QED
          BY <4>1, <5>1
      <4>5. g[s \ {x}] \in St
        BY <2>1, <4>4
      <4>6. g[s] = step[x][g[s \ {x}]]
        BY <3>2, <4>1, <4>3, <4>5
      <4> QED
        BY <4>4, <4>5, <4>6
    <3> QED
      BY <3>1, <3>2
  <2>3. m + 1 \in 0..n
    BY <1>2
  <2> QED
    BY <2>2, <2>3
<1>3. K \in SUBSET (0..n)
  OBVIOUS
<1>4. n \in K
  <2> HIDE DEF K
  <2>1. K = 0..n
    BY <1>1, <1>2, <1>3, UpTo
  <2> QED
    BY <2>1
<1>5. \A s \in SUBSET (1..n) : g[s] \in St
  BY <1>4
<1>6. ASSUME NEW s \in SUBSET (1..n)
      PROVE  g[s] = IF s = {} THEN base ELSE step[Max(s)][g[s \ {Max(s)}]]
  <2>1. s \ {Max(s)} \in SUBSET (1..n)
    OBVIOUS
  <2> QED
    BY <1>5, <2>1
<1>7. [s \in SUBSET (1..n) |-> g[s]]
      = [s \in SUBSET (1..n) |-> IF s = {} THEN base ELSE step[Max(s)][g[s \ {Max(s)}]]]
  BY <1>6
<1> QED
  BY <1>7 DEF IsFold
=============================================================================
