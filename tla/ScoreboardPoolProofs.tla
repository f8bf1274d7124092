------------------------ MODULE ScoreboardPoolProofs ------------------------
(* Theorems about ScoreboardPool, for every value of its constants.         *)
EXTENDS ScoreboardPool, FiniteSetTheorems, WellFoundedInduction, TLAPS

Holders == {p \in Boards : pc[p] = "rows"}

\* No connection is lost or invented, whichever way a request ends.
PoolConserved ==
    /\ pc \in [Boards -> Steps]
    /\ free \in Int
    /\ free + Cardinality(Holders) = PoolSize

LEMMA HoldersFinite ==
    /\ IsFiniteSet(Holders) /\ Cardinality(Holders) \in Nat
    /\ Cardinality(Holders) <= Cardinality(Boards)
BY BoardAssumption, FS_Subset, FS_CardinalityType DEF Holders

LEMMA InitPool == Init => PoolConserved
<1> SUFFICES ASSUME Init PROVE PoolConserved
  OBVIOUS
<1>1. Holders = {}
  BY DEF Init, Holders
<1>2. Cardinality(Holders) = 0
  BY <1>1, FS_EmptySet
<1> QED
  BY <1>2, BoardAssumption DEF Init, PoolConserved, Steps

\* A step that opens no rows and closes none.
LEMMA KeepConnections ==
    ASSUME PoolConserved, NEW p \in Boards, NEW from, NEW to \in Steps,
           Goto(p, from, to), from # "rows", to # "rows", free' = free
    PROVE  PoolConserved'
<1>1. pc' \in [Boards -> Steps] /\ Holders' = Holders
  BY DEF PoolConserved, Goto, Holders
<1> QED
  BY <1>1 DEF PoolConserved

\* The two ways in which a request ends.
LEMMA ReleaseConnection ==
    ASSUME PoolConserved, NEW p \in Boards, Return(p),
           free' = IF pc[p] = "rows" THEN free + 1 ELSE free
    PROVE  PoolConserved'
<1>1. pc' \in [Boards -> Steps] /\ Holders' = Holders \ {p}
  BY DEF PoolConserved, Return, Holders, Steps
<1>2. Cardinality(Holders \ {p}) =
        IF p \in Holders THEN Cardinality(Holders) - 1 ELSE Cardinality(Holders)
  BY HoldersFinite, FS_RemoveElement
<1>3. p \in Holders <=> pc[p] = "rows"
  BY DEF Holders
<1> QED
  BY <1>1, <1>2, <1>3, HoldersFinite, BoardAssumption DEF PoolConserved

LEMMA NextPool == PoolConserved /\ [Next]_vars => PoolConserved'
<1> SUFFICES ASSUME PoolConserved, [Next]_vars PROVE PoolConserved'
  OBVIOUS
<1>1. ASSUME NEW p \in Boards, Scoreboard(p) PROVE PoolConserved'
  BY <1>1, KeepConnections DEF Scoreboard, Steps
<1>2. ASSUME NEW p \in Boards, ContestPhase(p) PROVE PoolConserved'
  BY <1>2, KeepConnections DEF ContestPhase, Steps
<1>3. ASSUME NEW p \in Boards, ListScoreboard(p) PROVE PoolConserved'
  <2>1. pc' \in [Boards -> Steps] /\ Holders' = Holders \cup {p} /\ p \notin Holders
    BY <1>3 DEF PoolConserved, ListScoreboard, Goto, Holders, Steps
  <2>2. Cardinality(Holders \cup {p}) = Cardinality(Holders) + 1
    BY <2>1, HoldersFinite, FS_AddElement
  <2> QED
    BY <1>3, <2>1, <2>2, HoldersFinite, BoardAssumption DEF PoolConserved, ListScoreboard
<1>4. ASSUME NEW p \in Boards, ListScoreboardSolves(p) PROVE PoolConserved'
  BY <1>4 DEF ListScoreboardSolves, PoolConserved, Holders
<1>5. ASSUME NEW p \in Boards, Reply(p) PROVE PoolConserved'
  BY <1>5, ReleaseConnection DEF Reply
<1>6. ASSUME NEW p \in Boards, Fails(p) PROVE PoolConserved'
  BY <1>6, ReleaseConnection DEF Fails
<1>7. ASSUME UNCHANGED <<free, pc>> PROVE PoolConserved'
  BY <1>7 DEF PoolConserved, Holders
<1>8. CASE UNCHANGED vars
  BY <1>8, <1>7 DEF vars
<1> QED
  BY <1>1, <1>2, <1>3, <1>4, <1>5, <1>6, <1>7, <1>8
  DEF Next, Continue, CreateSolve, UpdateChallenge, UpdateUser

\* A connection is free whenever fewer boards are requested at once than the
\* pool of store.Open has connections: ListScoreboard never waits for ever
\* for the second connection, whatever fails.
THEOREM ConnectionLeft == Spec => []PoolNeverExhausted
<1>1. PoolConserved => PoolNeverExhausted
  BY HoldersFinite, BoardAssumption, FS_CardinalityType DEF PoolConserved, PoolNeverExhausted
<1> QED
  BY <1>1, InitPool, NextPool, PTL DEF Spec

-----------------------------------------------------------------------------
(* Maxima and sums.  The library's induction theorems take an operator; what *)
(* follows takes the set of the numbers that have the property instead.      *)

LEMMA Least ==
    ASSUME NEW S, S \subseteq Nat, S # {}
    PROVE  \E x \in S : \A y \in S : x <= y
<1>1. IsWellFoundedOn(OpToRel(<, Nat), Nat)
  BY NatLessThanWellFounded
<1>2. PICK x \in S : \A y \in S : ~ (<<y, x>> \in OpToRel(<, Nat))
  BY <1>1, WFMin, Zenon
<1>3. \A y \in S : ~ (y < x)
  BY <1>2, Zenon DEF OpToRel
<1> HIDE <1>2
<1> QED
  BY <1>3, x \in Nat

LEMMA Induction ==
    ASSUME NEW n \in Nat, NEW S, 0 \in S,
           \A i \in 0..n : i < n /\ i \in S => i + 1 \in S
    PROVE  0..n \subseteq S
<1> SUFFICES ASSUME (0..n) \ S # {} PROVE FALSE
  OBVIOUS
<1>1. PICK x \in (0..n) \ S : \A y \in (0..n) \ S : x <= y
  BY Least, (0..n) \ S \subseteq Nat
<1>2. x # 0 /\ x - 1 \in 0..n /\ x - 1 < n
  BY <1>1
<1>3. x - 1 \in S
  BY <1>1, <1>2
<1> QED
  BY <1>1, <1>2, <1>3

LEMMA RangeHasMax ==
    ASSUME NEW n \in Nat, NEW f \in [0..n -> Int]
    PROVE  \E m \in 0..n : \A i \in 0..n : f[m] >= f[i]
<1> DEFINE Good == {k \in 0..n : \E m \in 0..k : \A i \in 0..k : f[m] >= f[i]}
<1>1. 0 \in Good
  <2>1. 0..0 = {0} /\ f[0] \in Int
    OBVIOUS
  <2> QED
    BY <2>1
<1>2. ASSUME NEW k \in 0..n, k < n, k \in Good PROVE k + 1 \in Good
  <2>1. PICK m \in 0..k : \A i \in 0..k : f[m] >= f[i]
    BY <1>2
  <2>2. /\ k + 1 \in 0..n /\ f[k + 1] \in Int /\ f[m] \in Int
        /\ 0..(k + 1) = (0..k) \cup {k + 1}
    BY <1>2
  <2>3. \A i \in 0..k : f[i] \in Int
    BY <1>2
  <2>4. CASE f[m] >= f[k + 1]
    BY <2>1, <2>2, <2>4
  <2>5. CASE f[k + 1] > f[m]
    <3>1. \A i \in 0..(k + 1) : f[k + 1] >= f[i]
      BY <2>1, <2>2, <2>3, <2>5
    <3> QED
      BY <2>2, <3>1
  <2> QED
    BY <2>2, <2>4, <2>5
<1>3. 0..n \subseteq Good
  <2> HIDE DEF Good
  <2> QED
    BY <1>1, <1>2, Induction
<1>4. n \in Good
  <2> HIDE DEF Good
  <2> QED
    BY <1>3, n \in 0..n
<1> QED
  BY <1>4, Zenon

Sums(value, n) ==
    {g \in [0..n -> Int] : g[0] = 0 /\ \A i \in 1..n : g[i] = g[i - 1] + value[i]}

LEMMA SumsExist ==
    ASSUME NEW n \in Nat, NEW value \in [1..n -> Int]
    PROVE  Sums(value, n) # {}
<1> DEFINE Good == {k \in 0..n : Sums(value, k) # {}}
<1>1. 0 \in Good
  <2>1. [i \in 0..0 |-> 0] \in Sums(value, 0)
    BY DEF Sums
  <2> QED
    BY <2>1
<1>2. ASSUME NEW k \in 0..n, k < n, k \in Good PROVE k + 1 \in Good
  <2>1. PICK g : g \in Sums(value, k)
    BY <1>2
  <2> DEFINE h == [i \in 0..(k + 1) |-> IF i = k + 1 THEN g[k] + value[k + 1] ELSE g[i]]
  <2>2. g \in [0..k -> Int] /\ g[0] = 0 /\ \A i \in 1..k : g[i] = g[i - 1] + value[i]
    BY <2>1 DEF Sums
  <2>3. k \in Nat /\ value[k + 1] \in Int /\ g[k] \in Int
    BY <2>2, <1>2
  <2>4. h \in [0..(k + 1) -> Int]
    BY <2>2, <2>3
  <2>5. h[0] = 0
    BY <2>2, <2>3
  <2>6. ASSUME NEW i \in 1..(k + 1) PROVE h[i] = h[i - 1] + value[i]
    <3>1. CASE i = k + 1
      BY <3>1, <2>3
    <3>2. CASE i \in 1..k
      BY <3>2, <2>2, <2>3
    <3> QED
      BY <3>1, <3>2, <2>3
  <2>7. h \in Sums(value, k + 1)
    <3> HIDE DEF h
    <3> QED
      BY <2>4, <2>5, <2>6 DEF Sums
  <2> QED
    BY <2>7, <1>2
<1>3. 0..n \subseteq Good
  <2> HIDE DEF Good
  <2> QED
    BY <1>1, <1>2, Induction
<1> QED
  BY <1>3

\* The recursive function of Sum is one of the partial sums.
LEMMA SumIs ==
    ASSUME NEW n \in Nat, NEW value \in [1..n -> Int]
    PROVE  \E g \in Sums(value, n) : Sum(value, n) = g[n]
<1> DEFINE Rule(g) == [i \in 0..n |-> IF i = 0 THEN 0 ELSE g[i - 1] + value[i]]
           sum == CHOOSE g : g = Rule(g)
<1>1. PICK f : f \in Sums(value, n)
  BY SumsExist
<1>2. f = Rule(f)
  BY <1>1 DEF Sums
<1>3. sum = Rule(sum)
  <2> HIDE DEF Rule
  <2> QED
    BY <1>2
<1>4. Sum(value, n) = sum[n]
  BY DEF Sum
<1> HIDE DEF sum
<1>5. sum[0] = 0 /\ \A i \in 1..n : sum[i] = sum[i - 1] + value[i]
  BY <1>3
<1> DEFINE Good == {i \in 0..n : sum[i] \in Int}
<1>6. 0 \in Good
  BY <1>5
<1>7. ASSUME NEW i \in 0..n, i < n, i \in Good PROVE i + 1 \in Good
  BY <1>5, <1>7
<1>8. 0..n \subseteq Good
  <2> HIDE DEF Good
  <2> QED
    BY <1>6, <1>7, Induction
<1>9. sum \in [0..n -> Int]
  BY <1>3, <1>8
<1> QED
  BY <1>4, <1>5, <1>9 DEF Sums

LEMMA SumInt ==
    ASSUME NEW n \in Nat, NEW value \in [1..n -> Int]
    PROVE  Sum(value, n) \in Int
BY SumIs DEF Sums

\* Values that are added behind change nothing if they are zero.
LEMMA SumPadded ==
    ASSUME NEW n \in Nat, NEW value \in [1..n -> Int],
           NEW m \in Nat, NEW more \in [1..m -> Int],
           n <= m, \A i \in 1..n : more[i] = value[i], \A i \in 1..m : i > n => more[i] = 0
    PROVE  Sum(more, m) = Sum(value, n)
<1>1. PICK g \in Sums(value, n) : Sum(value, n) = g[n]
  BY SumIs
<1>2. PICK h \in Sums(more, m) : Sum(more, m) = h[m]
  BY SumIs
<1> DEFINE Good == {i \in 0..m : h[i] = IF i <= n THEN g[i] ELSE g[n]}
<1>3. 0 \in Good
  BY <1>1, <1>2 DEF Sums
<1>4. ASSUME NEW i \in 0..m, i < m, i \in Good PROVE i + 1 \in Good
  <2>1. i + 1 \in 1..m /\ h[i + 1] = h[i] + more[i + 1] /\ h[i] \in Int /\ g[n] \in Int
    BY <1>1, <1>2, <1>4 DEF Sums
  <2>2. CASE i < n
    <3>1. i + 1 \in 1..n /\ g[i + 1] = g[i] + value[i + 1]
      BY <1>1, <2>2 DEF Sums
    <3> QED
      BY <1>4, <2>1, <2>2, <3>1
  <2>3. CASE i >= n
    BY <1>4, <2>1, <2>3
  <2> QED
    BY <2>2, <2>3
<1>5. 0..m \subseteq Good
  <2> HIDE DEF Good
  <2> QED
    BY <1>3, <1>4, Induction
<1> QED
  BY <1>1, <1>2, <1>5

LEMMA SumGrows ==
    ASSUME NEW n \in Nat, NEW value \in [1..n -> Int], NEW more \in [1..n -> Int],
           \A i \in 1..n : value[i] <= more[i]
    PROVE  Sum(value, n) <= Sum(more, n)
<1>1. PICK g \in Sums(value, n) : Sum(value, n) = g[n]
  BY SumIs
<1>2. PICK h \in Sums(more, n) : Sum(more, n) = h[n]
  BY SumIs
<1> DEFINE Good == {i \in 0..n : g[i] <= h[i]}
<1>3. 0 \in Good
  BY <1>1, <1>2 DEF Sums
<1>4. ASSUME NEW i \in 0..n, i < n, i \in Good PROVE i + 1 \in Good
  BY <1>1, <1>2, <1>4 DEF Sums
<1>5. 0..n \subseteq Good
  <2> HIDE DEF Good
  <2> QED
    BY <1>3, <1>4, Induction
<1> QED
  BY <1>1, <1>2, <1>5

-----------------------------------------------------------------------------
(* The scores.                                                              *)

TotalOf(s, rows) == Sum([n \in DOMAIN s |-> IF n \in rows THEN s[n].points ELSE 0], Len(s))

LEMMA Valued ==
    ASSUME NEW s \in Seq(Solve), NEW rows
    PROVE  \E v \in [1..Len(s) -> Int] :
             /\ TotalOf(s, rows) = Sum(v, Len(s))
             /\ \A n \in 1..Len(s) : v[n] = IF n \in rows THEN s[n].points ELSE 0
<1> DEFINE v == [n \in DOMAIN s |-> IF n \in rows THEN s[n].points ELSE 0]
<1>1. ASSUME NEW n \in 1..Len(s) PROVE s[n].points \in Int
  <2>1. s[n] \in Solve
    OBVIOUS
  <2>2. \A x \in Points : x \in Int
    BY BoardAssumption
  <2> QED
    BY <2>1, <2>2 DEF Solve
<1>2. DOMAIN s = 1..Len(s)
  OBVIOUS
<1>3. v \in [1..Len(s) -> Int]
  BY <1>1, <1>2
<1>4. \A n \in 1..Len(s) : v[n] = IF n \in rows THEN s[n].points ELSE 0
  BY <1>2
<1>5. TotalOf(s, rows) = Sum(v, Len(s))
  BY DEF TotalOf
<1> HIDE DEF v
<1> QED
  BY <1>3, <1>4, <1>5

LEMMA TotalInt ==
    ASSUME solves \in Seq(Solve), NEW rows
    PROVE  Total(rows) \in Int
<1>1. PICK v \in [1..Len(solves) -> Int] : TotalOf(solves, rows) = Sum(v, Len(solves))
  BY Valued, SMTT(30)
<1>2. Total(rows) = TotalOf(solves, rows)
  BY DEF Total, TotalOf
<1> QED
  BY <1>1, <1>2, SumInt, Len(solves) \in Nat

LEMMA NoRows ==
    ASSUME solves \in Seq(Solve)
    PROVE  Total({}) = 0
<1>1. PICK v \in [1..Len(solves) -> Int] :
        /\ TotalOf(solves, {}) = Sum(v, Len(solves))
        /\ \A n \in 1..Len(solves) : v[n] = IF n \in {} THEN solves[n].points ELSE 0
  BY Valued, SMTT(30)
<1>2. PICK none \in [1..0 -> Int] : TRUE
  <2>1. [i \in 1..0 |-> 0] \in [1..0 -> Int]
    OBVIOUS
  <2> QED
    BY <2>1
<1>3. Len(solves) \in Nat /\ \A n \in 1..Len(solves) : v[n] = 0
  BY <1>1
<1>4. Sum(v, Len(solves)) = Sum(none, 0)
  <2>1. 0 \in Nat /\ 0 <= Len(solves) /\ \A i \in 1..0 : v[i] = none[i]
    BY <1>3
  <2>2. PICK z \in Nat : z = 0
    OBVIOUS
  <2>3. Sum(v, Len(solves)) = Sum(none, z)
    BY <1>3, <2>1, <2>2, SumPadded
  <2> QED
    BY <2>2, <2>3
<1>5. Sum(none, 0) = 0
  BY SumIs DEF Sums
<1>6. Total({}) = TotalOf(solves, {})
  BY DEF Total, TotalOf
<1> QED
  BY <1>1, <1>4, <1>5, <1>6

\* Nobody deletes a solve or changes one.
Grown ==
    /\ solves \in Seq(Solve) /\ solves' \in Seq(Solve)
    /\ Len(solves) <= Len(solves')
    /\ \A i \in 1..Len(solves) : solves'[i] = solves[i]

LEMMA TotalKept ==
    ASSUME Grown, NEW rows \in SUBSET (1..Len(solves))
    PROVE  Total(rows)' = Total(rows)
<1>1. PICK v \in [1..Len(solves) -> Int] :
        /\ TotalOf(solves, rows) = Sum(v, Len(solves))
        /\ \A n \in 1..Len(solves) : v[n] = IF n \in rows THEN solves[n].points ELSE 0
  BY Valued, SMTT(30) DEF Grown
<1>2. PICK w \in [1..Len(solves') -> Int] :
        /\ TotalOf(solves', rows) = Sum(w, Len(solves'))
        /\ \A n \in 1..Len(solves') : w[n] = IF n \in rows THEN solves'[n].points ELSE 0
  BY Valued, SMTT(30) DEF Grown
<1>3. Len(solves) \in Nat /\ Len(solves') \in Nat /\ Len(solves) <= Len(solves')
  BY DEF Grown
<1>4. \A n \in 1..Len(solves) : w[n] = v[n]
  BY <1>1, <1>2, <1>3 DEF Grown
<1>5. \A n \in 1..Len(solves') : n > Len(solves) => w[n] = 0
  BY <1>2, <1>3
<1>6. Sum(w, Len(solves')) = Sum(v, Len(solves))
  BY <1>3, <1>4, <1>5, SumPadded
<1>7. Total(rows) = TotalOf(solves, rows) /\ Total(rows)' = TotalOf(solves', rows)
  BY DEF Total, TotalOf
<1> QED
  BY <1>1, <1>2, <1>6, <1>7

LEMMA TotalGrows ==
    ASSUME solves \in Seq(Solve), NEW rows, NEW more
    PROVE  /\ rows \subseteq more
           /\ \A n \in DOMAIN solves : n \in more => solves[n].points >= 0
           => Total(rows) <= Total(more)
<1>1. PICK v \in [1..Len(solves) -> Int] :
        /\ TotalOf(solves, rows) = Sum(v, Len(solves))
        /\ \A n \in 1..Len(solves) : v[n] = IF n \in rows THEN solves[n].points ELSE 0
  BY Valued, SMTT(30)
<1>2. PICK w \in [1..Len(solves) -> Int] :
        /\ TotalOf(solves, more) = Sum(w, Len(solves))
        /\ \A n \in 1..Len(solves) : w[n] = IF n \in more THEN solves[n].points ELSE 0
  BY Valued, SMTT(30)
<1> SUFFICES ASSUME rows \subseteq more,
                    \A n \in DOMAIN solves : n \in more => solves[n].points >= 0
             PROVE  Total(rows) <= Total(more)
  OBVIOUS
<1>3. ASSUME NEW n \in 1..Len(solves) PROVE v[n] <= w[n]
  <2>1. v[n] \in Int /\ w[n] \in Int /\ (n \in more => w[n] >= 0)
    BY <1>2
  <2> QED
    BY <1>1, <1>2, <2>1
<1>4. Sum(v, Len(solves)) <= Sum(w, Len(solves))
  BY <1>3, SumGrows, Len(solves) \in Nat
<1>5. Total(rows) = TotalOf(solves, rows) /\ Total(more) = TotalOf(solves, more)
  BY DEF Total, TotalOf
<1> QED
  BY <1>1, <1>2, <1>4, <1>5

\* The score of a user after the first n rows of the table.
ScoreAt(u, n) == Total(Solved(u, n))

LEMMA ScoreIsLatest ==
    ASSUME solves \in Seq(Solve), NEW u
    PROVE  /\ SolvesOf(u) = Solved(u, Len(solves))
           /\ Score(u) = ScoreAt(u, Len(solves))
<1>1. SolvesOf(u) = Solved(u, Len(solves))
  BY DEF SolvesOf, Solved
<1> QED
  BY <1>1 DEF Score, ScoreAt

LEMMA ScoreAtInt ==
    ASSUME solves \in Seq(Solve), NEW u, NEW n
    PROVE  ScoreAt(u, n) \in Int
<1>1. PICK rows : rows = Solved(u, n)
  OBVIOUS
<1> QED
  BY <1>1, TotalInt DEF ScoreAt

LEMMA ScoreAtFirst ==
    ASSUME solves \in Seq(Solve), NEW u
    PROVE  ScoreAt(u, 0) = 0
<1>1. Solved(u, 0) = {}
  BY DEF Solved
<1> QED
  BY <1>1, NoRows DEF ScoreAt

\* The past does not change.
LEMMA ScoreAtKept ==
    ASSUME Grown, NEW u, NEW n \in 0..Len(solves)
    PROVE  Solved(u, n)' = Solved(u, n) /\ ScoreAt(u, n)' = ScoreAt(u, n)
<1>1. Solved(u, n)' = Solved(u, n)
  BY DEF Grown, Solved
<1>2. PICK rows \in SUBSET (1..Len(solves)) : rows = Solved(u, n)
  <2>1. Solved(u, n) \subseteq 1..n /\ n \in Nat /\ Len(solves) \in Nat /\ n <= Len(solves)
    BY DEF Grown, Solved
  <2>2. Solved(u, n) \subseteq 1..Len(solves)
    BY <2>1
  <2> QED
    BY <2>2
<1>3. Total(rows)' = Total(rows)
  BY TotalKept
<1> QED
  BY <1>1, <1>2, <1>3 DEF ScoreAt

LEMMA ScoreAtGrows ==
    ASSUME solves \in Seq(Solve), NEW u, ~ Penalized(u), NEW k \in Nat, NEW n \in Nat, k <= n
    PROVE  ScoreAt(u, k) <= ScoreAt(u, n)
<1>1. PICK rows, more : rows = Solved(u, k) /\ more = Solved(u, n)
  OBVIOUS
<1>2. rows \subseteq more
  BY <1>1 DEF Solved
<1>3. ASSUME NEW m \in DOMAIN solves, m \in more PROVE solves[m].points >= 0
  <2>1. solves[m].user = u
    BY <1>1, <1>3 DEF Solved
  <2>2. solves[m] \in Solve /\ \A x \in Points : x \in Int
    BY BoardAssumption
  <2>3. solves[m].points \in Int /\ ~ (solves[m].points < 0)
    BY <2>1, <2>2 DEF Solve, Penalized
  <2> QED
    BY <2>3
<1> QED
  BY <1>1, <1>2, <1>3, TotalGrows DEF ScoreAt

-----------------------------------------------------------------------------
(* The requests.                                                            *)

Item  == [user : Users, score : Int, solves : SUBSET Nat]
Local == [todo : Seq(Row), items : Seq(Item), before : 0..MaxSolves, seen : [Users -> Int]]

\* The user had this score after the first n rows of the table or before.
Earned(u, score, n) == \E k \in 0..n : score = ScoreAt(u, k)

Explained(item, asked) ==
    /\ item.score = ScoreAt(item.user, asked)
    /\ \E read \in asked..Len(solves) : item.solves = Solved(item.user, read)

\* The rows that a request has still to answer and those that it has answered
\* are of one moment since it began; what was shown before is of an earlier one.
Request(l) ==
    /\ l.before <= Len(solves)
    /\ \A u \in Users : Earned(u, l.seen[u], l.before)
    /\ \E asked \in l.before..Len(solves) :
         /\ \A i \in DOMAIN l.todo : l.todo[i].score = ScoreAt(l.todo[i].user, asked)
         /\ \A i \in DOMAIN l.items : Explained(l.items[i], asked)

Tables ==
    /\ free \in Nat /\ pc \in [Boards -> Steps]
    /\ listed \in SUBSET Users
    /\ points \in [Chals -> Points]
    /\ solves \in Seq(Solve) /\ Len(solves) <= MaxSolves

\* The properties alone are not inductive: a board that is asked for now shows
\* as much as an earlier answer because both show scores that the user had
\* after so many rows of the table, and the rows that there were stay.
IInv ==
    /\ Tables
    /\ loc \in [Boards -> Local]
    /\ seen \in [Users -> Int]
    /\ \A u \in Users : Earned(u, seen[u], Len(solves))
    /\ \A p \in Boards : Request(loc[p]) /\ (pc[p] # "rows" => loc[p].items = <<>>)

LEMMA NoLocRequest ==
    ASSUME solves \in Seq(Solve)
    PROVE  NoLoc \in Local /\ Request(NoLoc) /\ NoLoc.items = <<>>
<1>1. NoLoc \in Local
  BY BoardAssumption DEF NoLoc, Local
<1>2. \A u \in Users : Earned(u, 0, 0)
  BY ScoreAtFirst DEF Earned
<1>3. 0 \in 0..Len(solves)
  OBVIOUS
<1> QED
  BY <1>1, <1>2, <1>3 DEF NoLoc, Request

LEMMA InitScores == Init => IInv
<1> SUFFICES ASSUME Init PROVE IInv
  OBVIOUS
<1>1. Tables
  BY BoardAssumption DEF Init, Tables, Steps
<1>2. NoLoc \in Local /\ Request(NoLoc) /\ NoLoc.items = <<>>
  BY <1>1, NoLocRequest DEF Tables
<1>3. \A u \in Users : Earned(u, 0, Len(solves))
  BY <1>1, ScoreAtFirst DEF Earned, Tables
<1> QED
  BY <1>1, <1>2, <1>3 DEF Init, IInv

LEMMA EarnedKept ==
    ASSUME Grown, NEW u, NEW score, NEW n \in Nat, n <= Len(solves),
           NEW m \in Nat, n <= m, Earned(u, score, n)
    PROVE  Earned(u, score, m)'
<1>1. PICK k \in 0..n : score = ScoreAt(u, k)
  BY DEF Earned
<1>2. k \in 0..Len(solves) /\ k \in 0..m
  BY DEF Grown
<1>3. ScoreAt(u, k)' = ScoreAt(u, k)
  BY <1>2, ScoreAtKept
<1> QED
  BY <1>1, <1>2, <1>3 DEF Earned

LEMMA ExplainedKept ==
    ASSUME Grown, NEW item, NEW asked \in 0..Len(solves), Explained(item, asked)
    PROVE  Explained(item, asked)'
<1>1. PICK read \in asked..Len(solves) : item.solves = Solved(item.user, read)
  BY DEF Explained
<1>2. read \in 0..Len(solves) /\ read \in asked..Len(solves')
  BY DEF Grown
<1>3. PICK u : u = item.user
  OBVIOUS
<1>4. Solved(u, read)' = Solved(u, read) /\ ScoreAt(u, asked)' = ScoreAt(u, asked)
  BY <1>2, ScoreAtKept
<1> QED
  BY <1>1, <1>2, <1>3, <1>4 DEF Explained

LEMMA RequestKept ==
    ASSUME Grown, NEW l \in Local, Request(l)
    PROVE  Request(l)'
<1>1. l.before \in Nat /\ l.before <= Len(solves) /\ l.before <= Len(solves')
  BY BoardAssumption DEF Local, Request, Grown
<1>2. ASSUME NEW u \in Users PROVE Earned(u, l.seen[u], l.before)'
  <2>1. PICK score : score = l.seen[u]
    OBVIOUS
  <2>2. Earned(u, score, l.before)
    BY <2>1 DEF Request
  <2> QED
    BY <1>1, <2>1, <2>2, EarnedKept
<1>3. PICK asked \in l.before..Len(solves) :
        /\ \A i \in DOMAIN l.todo : l.todo[i].score = ScoreAt(l.todo[i].user, asked)
        /\ \A i \in DOMAIN l.items : Explained(l.items[i], asked)
  BY DEF Request
<1>4. asked \in 0..Len(solves) /\ asked \in l.before..Len(solves')
  BY <1>1 DEF Grown
<1>5. ASSUME NEW i \in DOMAIN l.todo
      PROVE  l.todo[i].score = ScoreAt(l.todo[i].user, asked)'
  <2>1. PICK u : u = l.todo[i].user
    OBVIOUS
  <2>2. ScoreAt(u, asked)' = ScoreAt(u, asked)
    BY <1>4, ScoreAtKept
  <2> QED
    BY <1>3, <2>1, <2>2
<1>6. ASSUME NEW i \in DOMAIN l.items PROVE Explained(l.items[i], asked)'
  <2>1. PICK item : item = l.items[i]
    OBVIOUS
  <2> QED
    BY <1>3, <1>4, <2>1, ExplainedKept
<1> QED
  BY <1>1, <1>2, <1>4, <1>5, <1>6 DEF Request

LEMMA SeenKept ==
    ASSUME IInv, Grown, seen' = seen
    PROVE  (\A u \in Users : Earned(u, seen[u], Len(solves)))'
<1>1. ASSUME NEW u \in Users PROVE Earned(u, seen[u], Len(solves))'
  <2>1. PICK k \in 0..Len(solves) : seen[u] = ScoreAt(u, k)
    BY DEF IInv, Earned
  <2>2. k \in 0..Len(solves') /\ ScoreAt(u, k)' = ScoreAt(u, k)
    BY ScoreAtKept DEF Grown
  <2>3. seen'[u] = ScoreAt(u, k)'
    BY <2>1, <2>2
  <2> QED
    BY <2>2, <2>3 DEF Earned
<1> QED
  BY <1>1

\* A step of goroutine p: what the others have read stays true.
LEMMA StepOf ==
    ASSUME IInv, Tables', Grown, NEW p \in Boards, NEW l \in Local, Request(l)',
           NEW step, pc' = [pc EXCEPT ![p] = step], step # "rows" => l.items = <<>>,
           loc' = [loc EXCEPT ![p] = l], seen' \in [Users -> Int],
           (\A u \in Users : Earned(u, seen[u], Len(solves)))'
    PROVE  IInv'
<1>1. loc' \in [Boards -> Local]
  BY DEF IInv
<1>2. ASSUME NEW q \in Boards
      PROVE  Request(loc[q])' /\ (pc'[q] # "rows" => loc'[q].items = <<>>)
  <2>1. PICK k \in Local : k = loc[q]
    BY DEF IInv
  <2>2. Request(k)'
    BY <2>1, RequestKept DEF IInv
  <2>3. loc'[q] = IF q = p THEN l ELSE k
    BY <2>1 DEF IInv
  <2>4. pc'[q] = IF q = p THEN step ELSE pc[q]
    BY DEF IInv, Tables
  <2>5. pc[q] # "rows" => k.items = <<>>
    BY <2>1 DEF IInv
  <2> QED
    BY <2>2, <2>3, <2>4, <2>5
<1> QED
  BY <1>1, <1>2 DEF IInv

\* A step of the tables, or of a goroutine that reads nothing.
LEMMA StepOfTables ==
    ASSUME IInv, Tables', Grown, UNCHANGED <<loc, seen>>,
           \A q \in Boards : pc'[q] # "rows" => pc[q] # "rows"
    PROVE  IInv'
<1>1. ASSUME NEW q \in Boards PROVE Request(loc[q])'
  <2>1. PICK k \in Local : k = loc[q]
    BY DEF IInv
  <2>2. Request(k)'
    BY <2>1, RequestKept DEF IInv
  <2> QED
    BY <2>1, <2>2
<1>2. (\A u \in Users : Earned(u, seen[u], Len(solves)))'
  BY SeenKept
<1> QED
  BY <1>1, <1>2 DEF IInv

LEMMA SameTables ==
    ASSUME Tables, UNCHANGED tables
    PROVE  Grown /\ (free' \in Nat /\ pc' \in [Boards -> Steps] => Tables')
BY DEF Tables, tables, Grown

LEMMA ScoreboardScores == ASSUME IInv, NEW p \in Boards, Scoreboard(p) PROVE IInv'
<1> DEFINE begun == [NoLoc EXCEPT !.before = Len(solves)]
           l == [begun EXCEPT !.seen = seen]
<1>1. /\ UNCHANGED tables /\ free' = free /\ seen' = seen
      /\ loc' = [loc EXCEPT ![p] = l] /\ pc' = [pc EXCEPT ![p] = "phase"]
  BY DEF Scoreboard, Goto
<1>2. pc' \in [Boards -> Steps]
  BY <1>1 DEF IInv, Tables, Steps
<1>3. Tables' /\ Grown
  BY <1>1, <1>2, SameTables DEF IInv, Tables
<1>4. l \in Local
  <2>1. l = [todo |-> <<>>, items |-> <<>>, before |-> Len(solves), seen |-> seen]
    <3>1. begun = [todo |-> <<>>, items |-> <<>>, before |-> Len(solves), seen |-> [u \in Users |-> 0]]
      BY DEF NoLoc
    <3> HIDE DEF begun
    <3> QED
      BY <3>1
  <2>2. Len(solves) \in 0..MaxSolves /\ seen \in [Users -> Int]
    BY BoardAssumption DEF IInv, Tables
  <2> HIDE DEF l
  <2> QED
    BY <2>1, <2>2 DEF Local
<1>5. PICK k \in Local : k = l /\ k.todo = <<>> /\ k.items = <<>> /\ k.before = Len(solves) /\ k.seen = seen
  BY <1>4 DEF NoLoc
<1>6. Len(solves) \in Nat
  BY DEF IInv, Tables
<1>7. Request(k)
  <2>1. \A u \in Users : Earned(u, k.seen[u], k.before)
    BY <1>5 DEF IInv
  <2> QED
    BY <1>5, <1>6, <2>1 DEF Request
<1>8. Request(k)'
  BY <1>3, <1>7, RequestKept
<1>9. (\A u \in Users : Earned(u, seen[u], Len(solves)))'
  BY <1>1, <1>3, SeenKept
<1>10. loc' = [loc EXCEPT ![p] = k] /\ seen' \in [Users -> Int]
  BY <1>1, <1>5 DEF IInv
<1> HIDE DEF l
<1> QED
  BY <1>1, <1>3, <1>5, <1>8, <1>9, <1>10, StepOf

LEMMA BoardRows ==
    ASSUME Tables, NEW rows \in BoardQuery
    PROVE  /\ rows \in Seq(Row)
           /\ \A i \in DOMAIN rows : rows[i].score = ScoreAt(rows[i].user, Len(solves))
<1>1. Cardinality(listed) \in Nat
  BY BoardAssumption, FS_Subset, FS_CardinalityType DEF Tables
<1>2. PICK order \in [1..Cardinality(listed) -> listed] : rows = Board(order)
  BY DEF BoardQuery
<1>3. \A i \in 1..Cardinality(listed) :
        /\ order[i] \in Users /\ Score(order[i]) \in Int
        /\ Score(order[i]) = ScoreAt(order[i], Len(solves))
  BY <1>2, ScoreIsLatest, ScoreAtInt DEF Tables
<1>4. rows \in [1..Cardinality(listed) -> Row]
  BY <1>2, <1>3 DEF Board, Row
<1>5. ASSUME NEW i \in DOMAIN rows PROVE rows[i].score = ScoreAt(rows[i].user, Len(solves))
  BY <1>2, <1>3, <1>5 DEF Board
<1> QED
  BY <1>1, <1>4, <1>5

\* A goroutine changes what it has still to read, or what it has read.
LEMMA WithTodo ==
    ASSUME NEW k \in Local, NEW rows \in Seq(Row)
    PROVE  \E l \in Local : /\ l = [k EXCEPT !.todo = rows] /\ l.todo = rows
                            /\ l.items = k.items /\ l.before = k.before /\ l.seen = k.seen
<1> DEFINE l == [k EXCEPT !.todo = rows]
<1>1. l = [todo |-> rows, items |-> k.items, before |-> k.before, seen |-> k.seen]
  BY SMTT(60) DEF Local
<1>2. l \in Local
  BY <1>1 DEF Local
<1> QED
  BY <1>1, <1>2

LEMMA WithItems ==
    ASSUME NEW k \in Local, NEW more \in Seq(Item)
    PROVE  \E l \in Local : /\ l = [k EXCEPT !.items = more] /\ l.items = more
                            /\ l.todo = k.todo /\ l.before = k.before /\ l.seen = k.seen
<1> DEFINE l == [k EXCEPT !.items = more]
<1>1. l = [todo |-> k.todo, items |-> more, before |-> k.before, seen |-> k.seen]
  BY SMTT(60) DEF Local
<1>2. l \in Local
  BY <1>1 DEF Local
<1> QED
  BY <1>1, <1>2

LEMMA ListScoreboardScores == ASSUME IInv, NEW p \in Boards, ListScoreboard(p) PROVE IInv'
<1>1. PICK rows \in BoardQuery : loc' = [loc EXCEPT ![p].todo = rows]
  BY DEF ListScoreboard
<1>2. /\ UNCHANGED tables /\ seen' = seen /\ free' = free - 1 /\ free > 0
      /\ pc[p] = "board" /\ pc' = [pc EXCEPT ![p] = "rows"]
  BY DEF ListScoreboard, Goto
<1>3. pc' \in [Boards -> Steps]
  BY <1>2 DEF IInv, Tables, Steps
<1>4. Tables' /\ Grown
  BY <1>2, <1>3, SameTables DEF IInv, Tables
<1>5. PICK k \in Local : k = loc[p] /\ Request(k) /\ k.items = <<>>
  BY <1>2 DEF IInv
<1>6. /\ rows \in Seq(Row)
      /\ \A i \in DOMAIN rows : rows[i].score = ScoreAt(rows[i].user, Len(solves))
  BY BoardRows DEF IInv
<1>7. PICK l \in Local : /\ l = [k EXCEPT !.todo = rows] /\ l.todo = rows
                         /\ l.items = k.items /\ l.before = k.before /\ l.seen = k.seen
  BY <1>6, WithTodo
<1>8. loc' = [loc EXCEPT ![p] = l]
  BY <1>1, <1>5, <1>7
<1>9. Request(l)
  <2>1. Len(solves) \in l.before..Len(solves)
    BY <1>5, <1>7, BoardAssumption DEF Request, Local, IInv, Tables
  <2>2. l.before <= Len(solves) /\ \A u \in Users : Earned(u, l.seen[u], l.before)
    BY <1>5, <1>7 DEF Request
  <2>3. \A i \in DOMAIN l.items : Explained(l.items[i], Len(solves))
    BY <1>5, <1>7
  <2> QED
    BY <1>6, <1>7, <2>1, <2>2, <2>3 DEF Request
<1>10. Request(l)'
  BY <1>4, <1>9, RequestKept
<1>11. (\A u \in Users : Earned(u, seen[u], Len(solves)))'
  BY <1>2, <1>4, SeenKept
<1>12. seen' \in [Users -> Int]
  BY <1>2 DEF IInv
<1> QED
  BY <1>2, <1>4, <1>8, <1>10, <1>11, <1>12, StepOf

LEMMA ListScoreboardSolvesScores ==
    ASSUME IInv, NEW p \in Boards, ListScoreboardSolves(p)
    PROVE  IInv'
<1>1. PICK k \in Local : k = loc[p] /\ Request(k)
  BY DEF IInv
<1>2. /\ UNCHANGED tables /\ seen' = seen /\ free' = free /\ k.todo # <<>>
      /\ pc[p] = "rows" /\ pc' = [pc EXCEPT ![p] = "rows"]
  BY <1>1 DEF ListScoreboardSolves, IInv, Tables
<1>3. PICK row \in Row : row = Head(k.todo) /\ row = k.todo[1] /\ 1 \in DOMAIN k.todo
  BY <1>1, <1>2 DEF Local
<1>4. PICK item : item = [user |-> row.user, score |-> row.score, solves |-> SolvesOf(row.user)]
  OBVIOUS
<1>5. item \in Item /\ item.user = row.user /\ item.score = row.score /\ item.solves = SolvesOf(row.user)
  <2>1. SolvesOf(row.user) \in SUBSET Nat
    BY DEF IInv, Tables, SolvesOf
  <2> QED
    BY <1>4, <2>1 DEF Row, Item
<1>6. PICK less \in Local :
        /\ less = [k EXCEPT !.todo = Tail(k.todo)] /\ less.todo = Tail(k.todo)
        /\ less.items = k.items /\ less.before = k.before /\ less.seen = k.seen
  <2>1. Tail(k.todo) \in Seq(Row)
    BY <1>2 DEF Local
  <2> QED
    BY <2>1, WithTodo
<1>7. PICK l \in Local :
        /\ l = [less EXCEPT !.items = Append(k.items, item)]
        /\ l.items = Append(k.items, item)
        /\ l.todo = less.todo /\ l.before = less.before /\ l.seen = less.seen
  <2>1. Append(k.items, item) \in Seq(Item)
    BY <1>5 DEF Local
  <2> QED
    BY <2>1, WithItems
<1>8. loc' = [loc EXCEPT ![p] = l]
  <2>1. loc' = [loc EXCEPT ![p] = [k EXCEPT !.todo = Tail(k.todo), !.items = Append(k.items, item)]]
    BY <1>1, <1>3, <1>4 DEF ListScoreboardSolves
  <2>2. l = [k EXCEPT !.todo = Tail(k.todo), !.items = Append(k.items, item)]
    BY <1>6, <1>7
  <2> QED
    BY <2>1, <2>2
<1>9. PICK asked \in l.before..Len(solves) :
        /\ \A i \in DOMAIN k.todo : k.todo[i].score = ScoreAt(k.todo[i].user, asked)
        /\ \A i \in DOMAIN k.items : Explained(k.items[i], asked)
  BY <1>1, <1>6, <1>7 DEF Request
<1>10. Explained(item, asked)
  <2>1. item.score = ScoreAt(item.user, asked)
    BY <1>3, <1>5, <1>9
  <2>2. item.solves = Solved(item.user, Len(solves))
    BY <1>5, ScoreIsLatest DEF IInv, Tables
  <2>3. Len(solves) \in asked..Len(solves)
    BY <1>9, BoardAssumption DEF IInv, Tables, Local
  <2> QED
    BY <2>1, <2>2, <2>3 DEF Explained
<1>11. ASSUME NEW i \in DOMAIN l.todo
       PROVE  l.todo[i].score = ScoreAt(l.todo[i].user, asked)
  <2>1. i + 1 \in DOMAIN k.todo /\ l.todo[i] = k.todo[i + 1]
    BY <1>2, <1>6, <1>7 DEF Local
  <2> QED
    BY <1>9, <2>1
<1>12. ASSUME NEW i \in DOMAIN l.items PROVE Explained(l.items[i], asked)
  <2>1. l.items[i] = item \/ (i \in DOMAIN k.items /\ l.items[i] = k.items[i])
    <3>1. PICK read \in Seq(Item) : read = k.items
      BY DEF Local
    <3>2. l.items = Append(read, item)
      BY <1>7, <3>1
    <3> QED
      BY <3>1, <3>2, <1>12
  <2> QED
    BY <2>1, <1>9, <1>10
<1>13. Request(l)
  BY <1>1, <1>6, <1>7, <1>9, <1>11, <1>12 DEF Request
<1>14. Tables' /\ Grown
  BY <1>2, SameTables DEF IInv, Tables, ListScoreboardSolves
<1>15. Request(l)'
  BY <1>13, <1>14, RequestKept
<1>16. (\A u \in Users : Earned(u, seen[u], Len(solves)))'
  BY <1>2, <1>14, SeenKept
<1>17. seen' \in [Users -> Int]
  BY <1>2 DEF IInv
<1> QED
  BY <1>2, <1>8, <1>14, <1>15, <1>16, <1>17, StepOf

LEMMA ReturnScores ==
    ASSUME IInv, NEW p \in Boards, Return(p), free' \in Nat, seen' \in [Users -> Int],
           \A u \in Users : Earned(u, seen'[u], Len(solves))
    PROVE  IInv'
<1>1. /\ UNCHANGED tables /\ loc' = [loc EXCEPT ![p] = NoLoc]
      /\ pc' = [pc EXCEPT ![p] = "idle"] /\ pc' \in [Boards -> Steps]
  BY DEF IInv, Tables, Return, Steps
<1>2. Tables' /\ Grown
  BY <1>1, SameTables DEF IInv
<1>3. PICK l \in Local : l = NoLoc /\ Request(l) /\ l.items = <<>>
  BY NoLocRequest DEF IInv, Tables
<1>4. Request(l)'
  BY <1>2, <1>3, RequestKept
<1>5. ASSUME NEW u \in Users PROVE Earned(u, seen[u], Len(solves))'
  <2>1. PICK k \in 0..Len(solves) : seen'[u] = ScoreAt(u, k)
    BY DEF Earned
  <2>2. k \in 0..Len(solves') /\ ScoreAt(u, k)' = ScoreAt(u, k)
    BY <1>2, ScoreAtKept DEF Grown
  <2>3. seen'[u] = ScoreAt(u, k)'
    BY <2>1, <2>2
  <2> QED
    BY <2>2, <2>3 DEF Earned
<1>6. loc' = [loc EXCEPT ![p] = l]
  BY <1>1, <1>3
<1> QED
  BY <1>1, <1>2, <1>3, <1>4, <1>5, <1>6, StepOf

LEMMA ReplyScores == ASSUME IInv, NEW p \in Boards, Reply(p) PROVE IInv'
<1>1. PICK k \in Local : k = loc[p] /\ Request(k)
  BY DEF IInv
<1> DEFINE Shows(u) == {seen[u]} \cup {item.score : item \in {i \in Range(k.items) : i.user = u}}
<1>2. seen' = [u \in Users |-> Max(Shows(u))]
  BY <1>1 DEF Reply
<1>3. ASSUME NEW u \in Users
      PROVE  Max(Shows(u)) \in Int /\ Earned(u, Max(Shows(u)), Len(solves))
  <2>1. seen[u] \in Int /\ Earned(u, seen[u], Len(solves))
    BY DEF IInv
  <2>2. ASSUME NEW item \in Range(k.items), item.user = u
        PROVE  item.score \in Int /\ Earned(u, item.score, Len(solves))
    <3>1. PICK i \in DOMAIN k.items : item = k.items[i]
      BY <2>2 DEF Range
    <3>2. item \in Item
      BY <3>1 DEF Local
    <3>3. PICK asked \in k.before..Len(solves) : item.score = ScoreAt(u, asked)
      BY <1>1, <2>2, <3>1 DEF Request, Explained
    <3>4. asked \in 0..Len(solves)
      BY BoardAssumption DEF Local, IInv, Tables
    <3> QED
      BY <3>2, <3>3, <3>4 DEF Item, Earned
  <2>3. \A x \in Shows(u) : x \in Int /\ Earned(u, x, Len(solves))
    BY <2>1, <2>2
  <2>4. \E x \in Shows(u) : \A y \in Shows(u) : x >= y
    <3> DEFINE Shown(i) == i # 0 /\ k.items[i].user = u
               f == [i \in 0..Len(k.items) |-> IF Shown(i) THEN k.items[i].score ELSE seen[u]]
    <3>1. Len(k.items) \in Nat /\ DOMAIN k.items = 1..Len(k.items)
      BY DEF Local
    <3>2. \A i \in 0..Len(k.items) : f[i] \in Shows(u)
      BY <3>1 DEF Range
    <3>3. ASSUME NEW y \in Shows(u) PROVE \E i \in 0..Len(k.items) : f[i] = y
      <4>1. CASE y = seen[u]
        BY <4>1, <3>1, f[0] = seen[u]
      <4>2. CASE y # seen[u]
        <5>1. PICK item \in Range(k.items) : item.user = u /\ y = item.score
          BY <4>2
        <5>2. PICK i \in DOMAIN k.items : item = k.items[i]
          BY <5>1 DEF Range
        <5> QED
          BY <3>1, <5>1, <5>2
      <4> QED
        BY <4>1, <4>2
    <3>4. f \in [0..Len(k.items) -> Int]
      BY <2>3, <3>2
    <3> HIDE DEF f
    <3>5. PICK m \in 0..Len(k.items) : \A i \in 0..Len(k.items) : f[m] >= f[i]
      BY <3>1, <3>4, RangeHasMax
    <3> HIDE DEF Shows
    <3> QED
      BY <3>2, <3>3, <3>5
  <2> HIDE DEF Shows
  <2>5. Max(Shows(u)) \in Shows(u)
    BY <2>4 DEF Max
  <2> QED
    BY <2>3, <2>5
<1> HIDE DEF Shows
<1>4. seen' \in [Users -> Int] /\ \A u \in Users : Earned(u, seen'[u], Len(solves))
  BY <1>2, <1>3
<1>5. Return(p) /\ free' \in Nat
  BY DEF Reply, IInv, Tables
<1> QED
  BY <1>4, <1>5, ReturnScores

LEMMA CreateSolveScores ==
    ASSUME IInv, NEW u \in Users, NEW c \in Chals, CreateSolve(u, c)
    PROVE  IInv'
<1>1. PICK s \in Solve : solves' = Append(solves, s)
  BY DEF CreateSolve, IInv, Tables, Solve
<1>2. Grown /\ Len(solves') = Len(solves) + 1
  BY <1>1 DEF Grown, IInv, Tables
<1>3. Tables'
  BY <1>2, BoardAssumption DEF CreateSolve, IInv, Tables, Grown
<1> QED
  BY <1>2, <1>3, StepOfTables DEF CreateSolve

LEMMA NextScores == IInv /\ [Next]_vars => IInv'
<1> SUFFICES ASSUME IInv, [Next]_vars PROVE IInv'
  OBVIOUS
<1>1. ASSUME UNCHANGED <<solves, loc, seen>>, free' = free, pc' \in [Boards -> Steps],
             \A q \in Boards : pc'[q] # "rows" => pc[q] # "rows",
             listed' \subseteq Users, points' \in [Chals -> Points]
      PROVE  IInv'
  BY <1>1, StepOfTables DEF IInv, Tables, Grown
<1>2. ASSUME NEW p \in Boards, ContestPhase(p) PROVE IInv'
  BY <1>2, <1>1 DEF ContestPhase, Goto, tables, IInv, Tables, Steps
<1>3. ASSUME NEW p \in Boards, Fails(p) PROVE IInv'
  <2>1. Return(p) /\ free' \in Nat /\ seen' = seen
    BY <1>3 DEF Fails, IInv, Tables
  <2> QED
    BY <2>1, ReturnScores DEF IInv
<1>4. ASSUME NEW c \in Chals, NEW value \in Points, UpdateChallenge(c, value) PROVE IInv'
  BY <1>4, <1>1 DEF UpdateChallenge, IInv, Tables
<1>5. ASSUME NEW u \in Users, UpdateUser(u) PROVE IInv'
  BY <1>5, <1>1 DEF UpdateUser, IInv, Tables
<1>6. CASE UNCHANGED vars
  BY <1>6, <1>1 DEF vars, IInv, Tables
<1> QED
  BY <1>2, <1>3, <1>4, <1>5, <1>6, ScoreboardScores, ListScoreboardScores,
     ListScoreboardSolvesScores, ReplyScores, CreateSolveScores
  DEF Next, Continue

\* Whatever is solved, requested, answered or fails, and whatever points are
\* awarded: every score that was shown, and every row on its way to an answer,
\* is one that the user had at some moment, and no past moment changes.
THEOREM Invariance == Spec => []IInv
BY InitScores, NextScores, PTL DEF Spec

\* Every row and every solve that a request has read is one of the tables.
THEOREM Typed == Spec => []TypeOK
<1>1. IInv /\ PoolConserved => TypeOK
  <2> SUFFICES ASSUME IInv, PoolConserved PROVE TypeOK
    OBVIOUS
  <2>1. free \in 0..PoolSize
    BY HoldersFinite, BoardAssumption DEF PoolConserved, IInv, Tables
  <2>2. ASSUME NEW p \in Boards
        PROVE  loc[p].items \in Seq([user : Users, score : Int, solves : SUBSET DOMAIN solves])
    <3>1. PICK k \in Local : k = loc[p] /\ Request(k)
      BY DEF IInv
    <3>2. k.items \in Seq(Item) /\ solves \in Seq(Solve)
      BY DEF Local, IInv, Tables
    <3>3. ASSUME NEW i \in DOMAIN k.items
          PROVE  k.items[i] \in [user : Users, score : Int, solves : SUBSET DOMAIN solves]
      <4>1. PICK item \in Item : item = k.items[i]
        BY <3>2
      <4>2. PICK asked \in k.before..Len(solves) : Explained(item, asked)
        BY <3>1, <4>1 DEF Request
      <4>3. PICK read \in asked..Len(solves) : item.solves = Solved(item.user, read)
        BY <4>2 DEF Explained
      <4>4. item.solves \subseteq DOMAIN solves
        BY <3>2, <4>3, BoardAssumption DEF Solved, Local
      <4> QED
        BY <4>1, <4>4 DEF Item
    <3> DEFINE Kind == [user : Users, score : Int, solves : SUBSET DOMAIN solves]
    <3>4. k.items \in Seq(Kind)
      <4> HIDE DEF Kind
      <4>1. Len(k.items) \in Nat /\ k.items \in [1..Len(k.items) -> Kind]
        BY <3>2, <3>3 DEF Kind
      <4> QED
        BY <4>1
    <3> QED
      BY <3>1, <3>4
  <2> QED
    BY <2>1, <2>2 DEF IInv, Tables, Local, TypeOK
<1> QED
  BY <1>1, Invariance, InitPool, NextPool, PTL DEF Spec

\* The scores of a board are those of one moment since its request began, and
\* the solves of each entry those of that moment or a later one, for points of
\* either sign: what two statements without a transaction leave open is only
\* which solves an entry lists beyond its score.
THEOREM SolvesExplained == Spec => []SolvesExplainScore
<1>1. IInv => SolvesExplainScore
  BY DEF IInv, Request, Explained, ScoreAt, SolvesExplainScore
<1> QED
  BY <1>1, Invariance, PTL

\* A board that is requested after an answer never shows a lower score of a
\* user to whom no negative points were awarded, whatever the challenges are
\* worth in between.
THEOREM ScoresKept == Spec => []ScoresNeverDrop
<1>1. IInv => ScoresNeverDrop
  <2> SUFFICES ASSUME IInv, NEW p \in Boards, NEW i \in DOMAIN loc[p].items,
                      ~ Penalized(loc[p].items[i].user)
               PROVE  loc[p].items[i].score >= loc[p].seen[loc[p].items[i].user]
    BY DEF ScoresNeverDrop
  <2>1. PICK k \in Local : k = loc[p] /\ Request(k)
    BY DEF IInv
  <2>2. PICK item \in Item : item = k.items[i] /\ ~ Penalized(item.user)
    BY <2>1 DEF Local
  <2>3. PICK asked \in k.before..Len(solves) : item.score = ScoreAt(item.user, asked)
    BY <2>1, <2>2 DEF Request, Explained
  <2>4. item.user \in Users /\ k.before \in Nat /\ solves \in Seq(Solve)
    BY BoardAssumption DEF Item, Local, IInv, Tables
  <2>5. PICK n \in 0..k.before : k.seen[item.user] = ScoreAt(item.user, n)
    BY <2>1, <2>4 DEF Request, Earned
  <2>6. n \in Nat /\ asked \in Nat /\ n <= asked
    BY <2>3, <2>4, <2>5
  <2>7. ScoreAt(item.user, n) <= ScoreAt(item.user, asked)
    BY <2>2, <2>4, <2>6, ScoreAtGrows
  <2>8. ScoreAt(item.user, n) \in Int /\ ScoreAt(item.user, asked) \in Int
    BY <2>4, ScoreAtInt
  <2>9. k.items[i].score >= k.seen[k.items[i].user]
    BY <2>2, <2>3, <2>5, <2>7, <2>8
  <2> QED
    BY <2>1, <2>9
<1> QED
  BY <1>1, Invariance, PTL

=============================================================================
