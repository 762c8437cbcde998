------------------------- MODULE ScoreWorkerProofs -------------------------
(***************************************************************************)
(* OnlyFaultsLoseScores, VotedCategoriesMatch and type correctness for     *)
(* every set of videos, users, workers and every number of faults and      *)
(* votes.  What the sums of the weights are does not matter to the first   *)
(* two: TotalWeight, GroupSums and MaxScore are used as they stand.        *)
(*                                                                         *)
(* The refinement of ChannelWorker, where it does matter: with SumTheorems *)
(* the score of a video with votes is shown to be from 1 to 100.           *)
(***************************************************************************)
EXTENDS ScoreRefinement, SumTheorems, TLAPS

(* The steps of Next, each with its parameters. *)
LEMMA NextCases ==
  ASSUME NEW P, [Next]_vars,
         UNCHANGED vars => P,
         ASSUME NEW v \in Videos, NEW u \in Users,
                NEW b \in Categories \cup {NoVote}, CommitVote(v, u, b) PROVE P,
         ASSUME NEW w \in Workers, NEW v \in Videos, Receive(w, v) PROVE P,
         ASSUME NEW w \in Workers, StartFlush(w) PROVE P,
         ASSUME NEW w \in Workers, NEW v \in Videos, ReadTotal(w, v) PROVE P,
         ASSUME NEW w \in Workers, ReadGroups(w) PROVE P,
         ASSUME NEW w \in Workers, WriteScore(w) PROVE P,
         ASSUME NEW w \in Workers, Reconnect(w) PROVE P,
         ASSUME NEW w \in Workers, RecalculateFails(w) PROVE P,
         ASSUME NEW w \in Workers, ListenFails(w) PROVE P,
         ASSUME NEW w \in Workers, GoesDeaf(w) PROVE P,
         ASSUME NEW w \in Workers, Stop(w) PROVE P
  PROVE  P
BY Zenon DEF Next, Work, Fail

LEMMA WeightIsSum == ASSUME NEW S PROVE WeightOf(S) = Sum(Weight, S)
BY Zenon DEF WeightOf, Sum, MapThenSumSet, MapThenFoldSet

LEMMA NoWeight == WeightOf({}) = 0
BY WeightIsSum, SumEmpty

LEMMA WeightsAreNatural ==
  ASSUME NEW S \in SUBSET Users
  PROVE  WeightOf(S) \in Nat
BY WeightIsSum, SumNat, WeightAssumption, FinitenessAssumption

(* The largest of finitely many naturals is one of them. *)
LEMMA LargestValue ==
  ASSUME NEW S, IsFiniteSet(S), NEW f \in [S -> Nat]
  PROVE  LET values == {0} \cup {f[x] : x \in S}
         IN  Max(values) \in values /\ \A n \in values : Max(values) >= n
<1> DEFINE values(T) == {0} \cup {f[x] : x \in T}
           G == {T \in SUBSET S : \E m \in values(T) : \A n \in values(T) : m >= n}
<1>1. ASSUME NEW T \in SUBSET S, \A U \in SUBSET T : U # T => U \in G PROVE T \in G
  <2>1. CASE T = {}
    <3>1. values(T) = {0}
      BY <2>1
    <3> QED BY <3>1
  <2>2. CASE T # {}
    <3>1. PICK x \in T : TRUE
      BY <2>2
    <3>2. T \ {x} \in G
      BY <1>1
    <3>3. PICK m \in values(T \ {x}) : \A n \in values(T \ {x}) : m >= n
      BY <3>2
    <3>4. values(T) = values(T \ {x}) \cup {f[x]} /\ f[x] \in Nat
      OBVIOUS
    <3>5. values(T \ {x}) \subseteq Nat
      OBVIOUS
    <3> HIDE DEF values
    <3>6. CASE m >= f[x]
      BY <3>3, <3>4, <3>6
    <3>7. CASE ~(m >= f[x])
      <4>1. \A n \in values(T) : f[x] >= n
        BY <3>3, <3>4, <3>5, <3>7
      <4> QED BY <3>4, <4>1
    <3> QED BY <3>6, <3>7
  <2> QED BY <2>1, <2>2
<1> HIDE DEF G
<1>2. SUBSET S \subseteq G
  BY <1>1, SubsetInduction
<1>3. \E m \in values(S) : \A n \in values(S) : m >= n
  BY <1>2 DEF G
<1>4. values(S) \subseteq Nat
  OBVIOUS
<1> HIDE DEF values
<1>5. Max(values(S)) \in values(S) /\ \A n \in values(S) : Max(values(S)) >= n
  BY <1>3, <1>4 DEF Max
<1> QED BY <1>5 DEF values

LEMMA PercentIsNatural ==
  ASSUME NEW n \in Nat, NEW total \in Nat, total # 0
  PROVE  Percent(n, total) \in Nat
BY DEF Percent

(* Before the first vote every score is right and nothing is being read. *)
LEMMA InitInv == ASSUME Init PROVE Inv
  <1>1. Shape
    BY DEF Init, Shape
  <1>2. ReadsRepeated
    BY DEF Init, ReadsRepeated
  <1>3. ASSUME NEW v \in Videos PROVE ~Stale(v)
    <2>1. {u \in Users : ballots[v][u] # NoVote} = {}
      BY DEF Init
    <2>2. TotalWeight(ballots[v]) = 0
      BY <2>1, NoWeight DEF TotalWeight
    <2>. QED
      BY <2>2 DEF Init, Stale, ScoreOf
  <1>4. VotedCategoriesMatch
    BY DEF Init, VotedCategoriesMatch
  <1>. QED
    BY <1>1, <1>2, <1>3, <1>4 DEF Inv, OnlyFaultsLoseScores

(* The score WriteScore writes is right if what it read is up to date. *)
LEMMA WrittenScore ==
  ASSUME Shape, NEW w \in Workers, WriteScore(w), UpToDate(w)
  PROVE  score'[job[w].video] = ScoreOf(ballots[job[w].video])
  <1>. DEFINE v == job[w].video
             b == ballots[v]
  <1>1. job[w] # NoJob
    BY DEF WriteScore, NoJob
  <1>2. v \in Videos
    BY <1>1 DEF Shape
  <1>3. score'[v] = IF job[w].total = 0 THEN 0 ELSE MaxScore(job[w].sums, job[w].total)
    BY <1>2 DEF WriteScore, Shape
  <1>. QED
    BY <1>3 DEF UpToDate, WriteScore, ScoreOf

(* The records and sets keep their shape. *)
LEMMA NextShape == ASSUME Shape, [Next]_vars PROVE Shape'
  <1>1. CASE UNCHANGED vars
    BY <1>1 DEF Shape, vars, tables, queues
  <1>2. ASSUME NEW v \in Videos, NEW u \in Users, NEW b \in Categories \cup {NoVote}, CommitVote(v, u, b) PROVE Shape'
    BY <1>2 DEF CommitVote, Shape, tables, NoJob
  <1>3. ASSUME NEW w \in Workers, NEW v \in Videos, Receive(w, v) PROVE Shape'
    BY <1>3 DEF Receive, Shape, tables, NoJob
  <1>4. ASSUME NEW w \in Workers, StartFlush(w) PROVE Shape'
    BY <1>4 DEF StartFlush, Shape, tables, NoJob
  <1>5. ASSUME NEW w \in Workers, NEW v \in Videos, ReadTotal(w, v) PROVE Shape'
    BY <1>5 DEF ReadTotal, Shape, tables, NoJob
  <1>6. ASSUME NEW w \in Workers, ReadGroups(w) PROVE Shape'
    BY <1>6 DEF ReadGroups, Shape, tables, NoJob
  <1>7. ASSUME NEW w \in Workers, WriteScore(w) PROVE Shape'
    BY <1>7 DEF WriteScore, Shape, tables, NoJob
  <1>8. ASSUME NEW w \in Workers, Reconnect(w) PROVE Shape'
    BY <1>8 DEF Reconnect, Shape, tables, NoJob
  <1>9. ASSUME NEW w \in Workers, RecalculateFails(w) PROVE Shape'
    BY <1>9 DEF RecalculateFails, Shape, tables, NoJob
  <1>10. ASSUME NEW w \in Workers, ListenFails(w) PROVE Shape'
    BY <1>10 DEF ListenFails, Shape, tables, NoJob
  <1>11. ASSUME NEW w \in Workers, GoesDeaf(w) PROVE Shape'
    BY <1>11 DEF GoesDeaf, Shape, tables, NoJob
  <1>12. ASSUME NEW w \in Workers, Stop(w) PROVE Shape'
    BY <1>12 DEF Stop, Shape, tables, NoJob
  <1>. QED
    BY ONLY Zenon, [Next]_vars, NextCases, <1>1, <1>2, <1>3, <1>4, <1>5, <1>6, <1>7, <1>8, <1>9,
       <1>10, <1>11, <1>12

(* A read that is overtaken by a vote is due again, or lost to a fault. *)
LEMMA NextReads == ASSUME Shape, ReadsRepeated, [Next]_vars PROVE ReadsRepeated'
  <1>1. CASE UNCHANGED vars
    BY <1>1 DEF ReadsRepeated, UpToDate, vars, tables, queues
  <1>2. ASSUME NEW v \in Videos, NEW u \in Users, NEW b \in Categories \cup {NoVote}, CommitVote(v, u, b) PROVE ReadsRepeated'
    <2>. SUFFICES ASSUME NEW w \in Workers, job[w] # NoJob
                  PROVE  \/ UpToDate(w)'
                         \/ job[w].video \in inbox'[w] \cup pending[w] \cup lost'
      BY <1>2 DEF CommitVote, ReadsRepeated
    <2>1. CASE job[w].video # v
      BY <1>2, <2>1 DEF CommitVote, Shape, ReadsRepeated, UpToDate
    <2>2. CASE job[w].video = v
      BY <1>2, <2>2, Zenon DEF CommitVote, Heard, Reading
    <2>. QED
      BY <2>1, <2>2
  <1>3. ASSUME NEW w \in Workers, NEW v \in Videos, Receive(w, v) PROVE ReadsRepeated'
    BY <1>3 DEF Receive, Shape, ReadsRepeated, UpToDate, tables, NoJob
  <1>4. ASSUME NEW w \in Workers, StartFlush(w) PROVE ReadsRepeated'
    BY <1>4 DEF StartFlush, Shape, ReadsRepeated, UpToDate, tables, NoJob
  <1>5. ASSUME NEW w \in Workers, NEW v \in Videos, ReadTotal(w, v) PROVE ReadsRepeated'
    BY <1>5 DEF ReadTotal, Shape, ReadsRepeated, UpToDate, tables, NoJob
  <1>6. ASSUME NEW w \in Workers, ReadGroups(w) PROVE ReadsRepeated'
    BY <1>6 DEF ReadGroups, Shape, ReadsRepeated, UpToDate, tables, NoJob
  <1>7. ASSUME NEW w \in Workers, WriteScore(w) PROVE ReadsRepeated'
    BY <1>7 DEF WriteScore, Shape, ReadsRepeated, UpToDate, tables, NoJob
  <1>8. ASSUME NEW w \in Workers, Reconnect(w) PROVE ReadsRepeated'
    BY <1>8 DEF Reconnect, Shape, ReadsRepeated, UpToDate, tables, NoJob
  <1>9. ASSUME NEW w \in Workers, RecalculateFails(w) PROVE ReadsRepeated'
    BY <1>9 DEF RecalculateFails, Shape, ReadsRepeated, UpToDate, tables, NoJob
  <1>10. ASSUME NEW w \in Workers, ListenFails(w) PROVE ReadsRepeated'
    BY <1>10 DEF ListenFails, Shape, ReadsRepeated, UpToDate, tables, NoJob
  <1>11. ASSUME NEW w \in Workers, GoesDeaf(w) PROVE ReadsRepeated'
    BY <1>11 DEF GoesDeaf, Shape, ReadsRepeated, UpToDate, tables, NoJob
  <1>12. ASSUME NEW w \in Workers, Stop(w) PROVE ReadsRepeated'
    BY <1>12 DEF Stop, Shape, ReadsRepeated, UpToDate, tables, NoJob
  <1>. QED
    BY ONLY Zenon, [Next]_vars, NextCases, <1>1, <1>2, <1>3, <1>4, <1>5, <1>6, <1>7, <1>8, <1>9,
       <1>10, <1>11, <1>12

(* A stale score stays due until a fault loses it or an up-to-date read *)
(* replaces it.                                                         *)
LEMMA NextScores == ASSUME Inv, [Next]_vars PROVE OnlyFaultsLoseScores'
  <1>. USE DEF Inv
  <1>1. CASE UNCHANGED vars
    BY <1>1 DEF OnlyFaultsLoseScores, Stale, Due, vars, tables, queues
  <1>2. ASSUME NEW v \in Videos, NEW u \in Users, NEW b \in Categories \cup {NoVote}, CommitVote(v, u, b) PROVE OnlyFaultsLoseScores'
    <2>. SUFFICES ASSUME NEW x \in Videos, Stale(x)'
                  PROVE  x \in lost' \/ \E w \in Workers : x \in Due(w)'
      BY Zenon DEF OnlyFaultsLoseScores
    <2>1. CASE x # v
      <3>1. Stale(x)
        BY <1>2, <2>1 DEF CommitVote, Stale, Shape
      <3>2. x \in lost => x \in lost'
        BY <1>2, <2>1 DEF CommitVote
      <3>3. \A w \in Workers : Due(w) \subseteq Due(w)'
        BY <1>2 DEF CommitVote, Due, Shape
      <3>. QED
        BY <3>1, <3>2, <3>3 DEF OnlyFaultsLoseScores
    <2>2. CASE x = v /\ Heard(v)
      <3>1. PICK w \in Workers : link[w] = "up"
        BY <2>2 DEF Heard
      <3>2. v \in Due(w)'
        BY <1>2, <3>1 DEF CommitVote, Due
      <3>. QED
        BY <2>2, <3>2
    <2>3. CASE x = v /\ ~Heard(v)
      BY <1>2, <2>3 DEF CommitVote
    <2>. QED
      BY <2>1, <2>2, <2>3
  <1>3. ASSUME NEW w \in Workers, NEW v \in Videos, Receive(w, v) PROVE OnlyFaultsLoseScores'
    BY <1>3 DEF Receive, Shape, OnlyFaultsLoseScores, Stale, Due, tables, NoJob
  <1>4. ASSUME NEW w \in Workers, StartFlush(w) PROVE OnlyFaultsLoseScores'
    BY <1>4 DEF StartFlush, Shape, OnlyFaultsLoseScores, Stale, Due, tables, NoJob
  <1>5. ASSUME NEW w \in Workers, NEW v \in Videos, ReadTotal(w, v) PROVE OnlyFaultsLoseScores'
    BY <1>5 DEF ReadTotal, Shape, OnlyFaultsLoseScores, Stale, Due, tables, NoJob
  <1>6. ASSUME NEW w \in Workers, ReadGroups(w) PROVE OnlyFaultsLoseScores'
    BY <1>6 DEF ReadGroups, Shape, OnlyFaultsLoseScores, Stale, Due, tables, NoJob
  <1>7. ASSUME NEW w \in Workers, WriteScore(w) PROVE OnlyFaultsLoseScores'
    <2>. SUFFICES ASSUME NEW x \in Videos, Stale(x)'
                  PROVE  x \in lost' \/ \E k \in Workers : x \in Due(k)'
      BY Zenon DEF OnlyFaultsLoseScores
    <2>. DEFINE v == job[w].video
    <2>1. job[w] # NoJob /\ v \in Videos
      BY <1>7 DEF WriteScore, NoJob, Shape
    <2>2. CASE x # v
      <3>1. Stale(x)
        BY <1>7, <2>1, <2>2 DEF WriteScore, Stale, Shape
      <3>2. \A k \in Workers : x \in Due(k) => x \in Due(k)'
        BY <1>7, <2>2 DEF WriteScore, Due, Shape
      <3>3. lost' = lost
        BY <1>7 DEF WriteScore
      <3>. QED
        BY <3>1, <3>2, <3>3 DEF OnlyFaultsLoseScores
    <2>3. CASE x = v /\ UpToDate(w)
      <3>1. score'[x] = ScoreOf(ballots[x])
        BY <1>7, <2>3, WrittenScore
      <3>2. ballots' = ballots
        BY <1>7 DEF WriteScore
      <3>. QED
        BY <3>1, <3>2 DEF Stale
    <2>4. CASE x = v /\ ~UpToDate(w)
      <3>1. v \in inbox[w] \cup pending[w] \cup lost
        BY <2>1, <2>4 DEF ReadsRepeated
      <3>. QED
        BY <1>7, <2>4, <3>1 DEF WriteScore, Due
    <2>. QED
      BY <2>2, <2>3, <2>4
  <1>8. ASSUME NEW w \in Workers, Reconnect(w) PROVE OnlyFaultsLoseScores'
    BY <1>8 DEF Reconnect, Shape, OnlyFaultsLoseScores, Stale, Due, tables, NoJob
  <1>9. ASSUME NEW w \in Workers, RecalculateFails(w) PROVE OnlyFaultsLoseScores'
    BY <1>9 DEF RecalculateFails, Shape, OnlyFaultsLoseScores, Stale, Due, tables, NoJob
  <1>10. ASSUME NEW w \in Workers, ListenFails(w) PROVE OnlyFaultsLoseScores'
    BY <1>10 DEF ListenFails, Shape, OnlyFaultsLoseScores, Stale, Due, tables, NoJob
  <1>11. ASSUME NEW w \in Workers, GoesDeaf(w) PROVE OnlyFaultsLoseScores'
    BY <1>11 DEF GoesDeaf, Shape, OnlyFaultsLoseScores, Stale, Due, tables, NoJob
  <1>12. ASSUME NEW w \in Workers, Stop(w) PROVE OnlyFaultsLoseScores'
    BY <1>12 DEF Stop, Shape, OnlyFaultsLoseScores, Stale, Due, tables, NoJob
  <1>. QED
    BY ONLY Zenon, [Next]_vars, NextCases, <1>1, <1>2, <1>3, <1>4, <1>5, <1>6, <1>7, <1>8, <1>9,
       <1>10, <1>11, <1>12

(* The weighted_score WriteScore writes for a category that has votes is *)
(* right if what it read is up to date.                                  *)
LEMMA WrittenCategory ==
  ASSUME Shape, NEW w \in Workers, WriteScore(w), UpToDate(w),
         NEW u \in Users, ballots[job[w].video][u] # NoVote
  PROVE  LET v == job[w].video
             c == ballots[v][u]
         IN  weighted'[v][c] = CategoryScore(ballots[v], c)
  <1>. DEFINE v == job[w].video
             b == ballots[v]
             c == b[u]
             total == job[w].total
  <1>1. v \in Videos
    BY DEF WriteScore, NoJob, Shape
  <1>2. c \in Categories
    BY <1>1 DEF Shape
  <1>3. c \in Voted(b)
    BY <1>2 DEF Voted
  <1>4. weighted'[v][c] = CASE total = 0 -> 0
                            [] total # 0 /\ c \in DOMAIN job[w].sums
                               -> Percent(job[w].sums[c], total)
                            [] OTHER -> weighted[v][c]
    BY <1>1, <1>2 DEF WriteScore, Shape
  <1>5. CASE total = 0
    BY <1>4, <1>5 DEF UpToDate, CategoryScore
  <1>6. CASE total # 0
    <2>1. c \in DOMAIN job[w].sums /\ job[w].sums[c] = WeightSum(b, c)
      BY <1>3, <1>6 DEF WriteScore, UpToDate, GroupSums
    <2>2. weighted'[v][c] = Percent(WeightSum(b, c), total)
      BY <1>4, <1>6, <2>1
    <2>. QED
      BY <1>6, <2>2 DEF UpToDate, CategoryScore
  <1>. QED
    BY <1>5, <1>6

(* The weighted scores stay right, or their video stays due or lost. *)
LEMMA NextCategories == ASSUME Inv, [Next]_vars PROVE VotedCategoriesMatch'
  <1>. USE DEF Inv
  <1>1. CASE UNCHANGED vars
    BY <1>1 DEF VotedCategoriesMatch, Due, vars, tables, queues
  <1>2. ASSUME NEW v \in Videos, NEW u \in Users, NEW b \in Categories \cup {NoVote}, CommitVote(v, u, b) PROVE VotedCategoriesMatch'
    <2>. SUFFICES ASSUME NEW x \in Videos, x \notin lost', \A w \in Workers : x \notin Due(w)',
                         NEW y \in Users, ballots'[x][y] # NoVote
                  PROVE  weighted'[x][ballots'[x][y]] = CategoryScore(ballots'[x], ballots'[x][y])
      BY Zenon DEF VotedCategoriesMatch
    <2>1. x # v
      BY <1>2, Zenon DEF CommitVote, Heard, Due
    <2>2. x \notin lost /\ \A w \in Workers : x \notin Due(w)
      BY <1>2, <2>1 DEF CommitVote, Due
    <2>3. ballots'[x] = ballots[x] /\ weighted' = weighted
      BY <1>2, <2>1 DEF CommitVote, Shape
    <2>. QED
      BY <2>2, <2>3 DEF VotedCategoriesMatch
  <1>3. ASSUME NEW w \in Workers, NEW v \in Videos, Receive(w, v) PROVE VotedCategoriesMatch'
    BY <1>3 DEF Receive, Shape, VotedCategoriesMatch, Due, tables
  <1>4. ASSUME NEW w \in Workers, StartFlush(w) PROVE VotedCategoriesMatch'
    BY <1>4 DEF StartFlush, Shape, VotedCategoriesMatch, Due, tables
  <1>5. ASSUME NEW w \in Workers, NEW v \in Videos, ReadTotal(w, v) PROVE VotedCategoriesMatch'
    BY <1>5 DEF ReadTotal, Shape, VotedCategoriesMatch, Due, tables
  <1>6. ASSUME NEW w \in Workers, ReadGroups(w) PROVE VotedCategoriesMatch'
    BY <1>6 DEF ReadGroups, Shape, VotedCategoriesMatch, Due, tables
  <1>7. ASSUME NEW w \in Workers, WriteScore(w) PROVE VotedCategoriesMatch'
    <2>. SUFFICES ASSUME NEW x \in Videos, x \notin lost', \A k \in Workers : x \notin Due(k)',
                         NEW y \in Users, ballots'[x][y] # NoVote
                  PROVE  weighted'[x][ballots'[x][y]] = CategoryScore(ballots'[x], ballots'[x][y])
      BY Zenon DEF VotedCategoriesMatch
    <2>. DEFINE v == job[w].video
    <2>1. job[w] # NoJob /\ v \in Videos
      BY <1>7 DEF WriteScore, NoJob, Shape
    <2>2. ballots' = ballots /\ lost' = lost
      BY <1>7 DEF WriteScore, tables
    <2>3. CASE x # v
      <3>1. weighted'[x] = weighted[x]
        BY <1>7, <2>1, <2>3 DEF WriteScore, Shape
      <3>2. \A k \in Workers : x \notin Due(k)
        BY <1>7, <2>3 DEF WriteScore, Due, Shape
      <3>. QED
        BY <2>2, <3>1, <3>2 DEF VotedCategoriesMatch
    <2>4. CASE x = v
      <3>1. v \notin inbox[w] \cup pending[w] \cup lost
        BY <1>7, <2>2, <2>4 DEF WriteScore, Due
      <3>2. UpToDate(w)
        BY <2>1, <3>1 DEF ReadsRepeated
      <3>. QED
        BY <1>7, <2>2, <2>4, <3>2, WrittenCategory
    <2>. QED
      BY <2>3, <2>4
  <1>8. ASSUME NEW w \in Workers, Reconnect(w) PROVE VotedCategoriesMatch'
    BY <1>8 DEF Reconnect, Shape, VotedCategoriesMatch, Due, tables
  <1>9. ASSUME NEW w \in Workers, RecalculateFails(w) PROVE VotedCategoriesMatch'
    BY <1>9 DEF RecalculateFails, Shape, VotedCategoriesMatch, Due, tables
  <1>10. ASSUME NEW w \in Workers, ListenFails(w) PROVE VotedCategoriesMatch'
    BY <1>10 DEF ListenFails, Shape, VotedCategoriesMatch, Due, tables
  <1>11. ASSUME NEW w \in Workers, GoesDeaf(w) PROVE VotedCategoriesMatch'
    BY <1>11 DEF GoesDeaf, Shape, VotedCategoriesMatch, Due, tables
  <1>12. ASSUME NEW w \in Workers, Stop(w) PROVE VotedCategoriesMatch'
    BY <1>12 DEF Stop, Shape, VotedCategoriesMatch, Due, tables
  <1>. QED
    BY ONLY Zenon, [Next]_vars, NextCases, <1>1, <1>2, <1>3, <1>4, <1>5, <1>6, <1>7, <1>8, <1>9,
       <1>10, <1>11, <1>12

(***************************************************************************)
(* The inductive invariant of the score workers.                           *)
(***************************************************************************)
THEOREM Invariance == Spec => []Inv
  <1>1. Init => Inv
    BY InitInv
  <1>2. Inv /\ [Next]_vars => Inv'
    BY NextShape, NextReads, NextScores, NextCategories DEF Inv
  <1>. QED
    BY <1>1, <1>2, PTL DEF Spec

-----------------------------------------------------------------------------
(* What a recalculation reads are weights of votes, ... *)
LEMMA SomeWeight == ASSUME NEW S \in SUBSET Users PROVE WeightOf(S) \in Weights
BY DEF Weights

LEMMA WeightsNatural == Weights \subseteq Nat
BY WeightsAreNatural DEF Weights

LEMMA ReadsAreWeights ==
  ASSUME NEW b
  PROVE  /\ TotalWeight(b) \in Weights
         /\ DOMAIN GroupSums(b) \subseteq Categories
         /\ \A c \in DOMAIN GroupSums(b) : GroupSums(b)[c] \in Weights
BY SomeWeight DEF TotalWeight, GroupSums, Voted, WeightSum

(* ... and what it writes is a share of one weight in another. *)
LEMMA PercentIsShare ==
  ASSUME NEW n \in Weights, NEW total \in Weights, total # 0
  PROVE  Percent(n, total) \in Shares
BY DEF Shares

LEMMA MaxScoreIs ==
  ASSUME NEW sums, DOMAIN sums \subseteq Categories,
         \A c \in DOMAIN sums : sums[c] \in Weights,
         NEW total \in Weights, total # 0
  PROVE  LET percents == {Percent(sums[c], total) : c \in DOMAIN sums}
         IN  /\ MaxScore(sums, total) \in {0} \cup percents
             /\ \A n \in {0} \cup percents : MaxScore(sums, total) >= n
<1> DEFINE f == [c \in DOMAIN sums |-> Percent(sums[c], total)]
<1>1. f \in [DOMAIN sums -> Nat]
  BY PercentIsNatural, WeightsNatural
<1>2. IsFiniteSet(DOMAIN sums)
  BY FinitenessAssumption, FS_Subset
<1>3. {f[c] : c \in DOMAIN sums} = {Percent(sums[c], total) : c \in DOMAIN sums}
  OBVIOUS
<1> HIDE DEF f
<1>4. LET values == {0} \cup {f[c] : c \in DOMAIN sums}
      IN  Max(values) \in values /\ \A n \in values : Max(values) >= n
  BY <1>1, <1>2, LargestValue
<1> QED BY <1>3, <1>4 DEF MaxScore

LEMMA MaxScoreIsShare ==
  ASSUME NEW sums, DOMAIN sums \subseteq Categories,
         \A c \in DOMAIN sums : sums[c] \in Weights,
         NEW total \in Weights, total # 0
  PROVE  MaxScore(sums, total) \in Shares
<1>1. MaxScore(sums, total) \in {0} \cup {Percent(sums[c], total) : c \in DOMAIN sums}
  BY MaxScoreIs
<1>2. 0 \in Shares
  BY DEF Shares
<1> QED BY <1>1, <1>2, PercentIsShare

LEMMA InitType == Init => TypeOK
<1>1. 0 \in Shares
  BY DEF Shares
<1> QED BY <1>1, BoundsAssumption DEF Init, TypeOK, Job

LEMMA WriteType ==
  ASSUME TypeOK, Shape, NEW w \in Workers, WriteScore(w)
  PROVE  TypeOK'
<1> DEFINE v == job[w].video
           total == job[w].total
           sums == job[w].sums
<1>1. /\ v \in Videos /\ total \in Weights /\ DOMAIN sums \subseteq Categories
      /\ \A c \in DOMAIN sums : sums[c] \in Weights
  <2>1. job[w].stage = "write" /\ batch[w] \in SUBSET Videos /\ Job(w)
    BY DEF WriteScore, TypeOK
  <2> QED BY <2>1 DEF Job, NoJob
<1>2. 0 \in Shares
  BY DEF Shares
<1>3. score' \in [Videos -> Shares]
  <2>1. (IF total = 0 THEN 0 ELSE MaxScore(sums, total)) \in Shares
    BY <1>1, <1>2, MaxScoreIsShare
  <2> QED BY <2>1 DEF WriteScore, TypeOK
<1>4. ASSUME NEW c \in Categories
      PROVE  (CASE total = 0        -> 0
                [] total # 0 /\ c \in DOMAIN sums
                   -> Percent(sums[c], total)
                [] OTHER            -> weighted[v][c]) \in Shares
  BY <1>1, <1>2, PercentIsShare DEF TypeOK
<1>5. weighted' \in [Videos -> [Categories -> Shares]]
  BY <1>4 DEF WriteScore, TypeOK
<1>6. batch' \in [Workers -> SUBSET Videos]
  BY DEF WriteScore, TypeOK
<1>7. ASSUME NEW k \in Workers PROVE Job(k)'
  BY DEF WriteScore, TypeOK, Shape, Job
<1> QED BY <1>3, <1>5, <1>6, <1>7 DEF WriteScore, TypeOK

LEMMA NextType == ASSUME TypeOK, Shape, [Next]_vars PROVE TypeOK'
  <1>1. CASE UNCHANGED vars
    BY <1>1 DEF TypeOK, Job, vars, tables, queues
  <1>2. ASSUME NEW v \in Videos, NEW u \in Users, NEW b \in Categories \cup {NoVote}, CommitVote(v, u, b) PROVE TypeOK'
    BY <1>2, BoundsAssumption DEF CommitVote, TypeOK, Job
  <1>3. ASSUME NEW w \in Workers, NEW v \in Videos, Receive(w, v) PROVE TypeOK'
    BY <1>3 DEF Receive, TypeOK, Job, tables
  <1>4. ASSUME NEW w \in Workers, StartFlush(w) PROVE TypeOK'
    BY <1>4 DEF StartFlush, TypeOK, Job, NoJob, tables
  <1>5. ASSUME NEW w \in Workers, NEW v \in Videos, ReadTotal(w, v) PROVE TypeOK'
    BY <1>5, ReadsAreWeights DEF ReadTotal, TypeOK, Shape, Job, tables
  <1>6. ASSUME NEW w \in Workers, ReadGroups(w) PROVE TypeOK'
    BY <1>6, ReadsAreWeights DEF ReadGroups, TypeOK, Shape, Job, NoJob, tables
  <1>7. ASSUME NEW w \in Workers, WriteScore(w) PROVE TypeOK'
    BY <1>7, WriteType
  <1>8. ASSUME NEW w \in Workers, Reconnect(w) PROVE TypeOK'
    BY <1>8 DEF Reconnect, TypeOK, Job, tables
  <1>9. ASSUME NEW w \in Workers, RecalculateFails(w) PROVE TypeOK'
    BY <1>9, BoundsAssumption DEF RecalculateFails, Fault, TypeOK, Shape, Job, tables
  <1>10. ASSUME NEW w \in Workers, ListenFails(w) PROVE TypeOK'
    BY <1>10, BoundsAssumption DEF ListenFails, Fault, TypeOK, Shape, Job, tables
  <1>11. ASSUME NEW w \in Workers, GoesDeaf(w) PROVE TypeOK'
    BY <1>11, BoundsAssumption DEF GoesDeaf, Fault, TypeOK, Job, tables
  <1>12. ASSUME NEW w \in Workers, Stop(w) PROVE TypeOK'
    BY <1>12, BoundsAssumption DEF Stop, Fault, TypeOK, Shape, Job, tables
  <1>. QED
    BY ONLY Zenon, [Next]_vars, NextCases, <1>1, <1>2, <1>3, <1>4, <1>5, <1>6, <1>7, <1>8, <1>9,
       <1>10, <1>11, <1>12

(***************************************************************************)
(* Scores and weighted scores are natural numbers, and a job is about a    *)
(* video of its worker's batch.                                            *)
(***************************************************************************)
THEOREM TypeCorrect == Spec => []TypeOK
  <1>1. Inv => Shape
    BY DEF Inv
  <1>2. TypeOK /\ Shape /\ [Next]_vars => TypeOK'
    BY NextType
  <1>. QED
    BY Invariance, InitType, <1>1, <1>2, PTL DEF Spec

(***************************************************************************)
(* Whatever the interleaving of votes, listeners and flushes, and whatever *)
(* fails: a score that disagrees with the votes is due at some worker or   *)
(* was lost to a fault.                                                    *)
(***************************************************************************)
THEOREM StaleScoresAreDue == Spec => []OnlyFaultsLoseScores
  <1>1. Inv => OnlyFaultsLoseScores
    BY DEF Inv
  <1>. QED
    BY Invariance, <1>1, PTL

(***************************************************************************)
(* Two snapshots, one for the total and one for the groups, give each      *)
(* category that has votes its share of them, unless the video is due or   *)
(* lost.                                                                   *)
(***************************************************************************)
THEOREM VotedCategoriesAreRight == Spec => []VotedCategoriesMatch
  <1>1. Inv => VotedCategoriesMatch
    BY DEF Inv
  <1>. QED
    BY Invariance, <1>1, PTL

-----------------------------------------------------------------------------
(***************************************************************************)
(* What a score from all votes is: 0 without votes, and with votes the     *)
(* largest share, of which there is one for every category voted for, so   *)
(* that it cannot be less than the hundredth part.                         *)
(***************************************************************************)
LEMMA PercentBounds ==
  ASSUME NEW total \in Nat \ {0}, NEW n \in 0..total
  PROVE  /\ Percent(n, total) \in 0..100
         /\ Percent(n, total) = 0 => 100 * n <= total - 1
<1> DEFINE q == (100 * n) \div total
           r == (100 * n) % total
<1>1. 100 * n \in Nat /\ q \in Int /\ r \in 0..(total - 1) /\ 100 * n = total * q + r
  OBVIOUS
<1> HIDE DEF q, r
<1>2. q <= 100
  <2>1. CASE q >= 101
    <3>1. total * q >= total * 101
      BY <1>1, <2>1
    <3> QED BY <1>1, <3>1
  <2> QED BY <1>1, <2>1
<1>3. q >= 0
  <2>1. CASE q <= -1
    <3>1. total * q <= total * (-1)
      BY <1>1, <2>1
    <3> QED BY <1>1, <3>1
  <2> QED BY <1>1, <2>1
<1>4. q = 0 => 100 * n <= total - 1
  BY <1>1
<1> QED BY <1>1, <1>2, <1>3, <1>4 DEF Percent, q

(* Some weight is what a set with one user at least has. *)
LEMMA PositiveTotal ==
  ASSUME PositiveWeights, NEW S \in SUBSET Users, NEW u \in S
  PROVE  WeightOf(S) \in Nat \ {0}
<1>1. WeightOf(S) = Weight[u] + WeightOf(S \ {u})
  BY WeightIsSum, SumRemove, WeightAssumption, FinitenessAssumption
<1>2. WeightOf(S) \in Nat /\ WeightOf(S \ {u}) \in Nat /\ Weight[u] \in Nat
  BY WeightsAreNatural, WeightAssumption
<1> QED BY <1>1, <1>2 DEF PositiveWeights

LEMMA LighterPart ==
  ASSUME NEW S \in SUBSET Users, NEW T \in SUBSET S
  PROVE  WeightOf(T) <= WeightOf(S)
<1>1. Sum(Weight, T) <= Sum(Weight, S)
  <2>1. \A x \in T : Weight[x] # 0 => x \in S /\ Weight[x] <= Weight[x]
    BY WeightAssumption
  <2>2. IsFiniteSet(Users) /\ Weight \in [Users -> Nat]
    BY WeightAssumption, FinitenessAssumption
  <2> QED BY <2>1, <2>2, SumAtMost
<1> QED BY <1>1, WeightIsSum

LEMMA OneMore ==
  ASSUME NEW m \in Nat, NEW n \in Nat
  PROVE  m * n \in Nat /\ (m + 1) * n = m * n + n
OBVIOUS

(* If every category has less than the hundredth part of total, all of     *)
(* them together have too little.                                          *)
LEMMA SmallShares ==
  ASSUME NEW b, NEW total \in Nat \ {0},
         \A c \in Categories : 100 * WeightSum(b, c) <= total - 1
  PROVE  \A C \in SUBSET Categories :
           100 * WeightOf({u \in Users : b[u] \in C}) <= Cardinality(C) * (total - 1)
<1> DEFINE of(C) == {u \in Users : b[u] \in C}
           G == {C \in SUBSET Categories : 100 * WeightOf(of(C)) <= Cardinality(C) * (total - 1)}
<1>1. ASSUME NEW C \in SUBSET Categories, \A D \in SUBSET C : D # C => D \in G
      PROVE  C \in G
  <2>1. IsFiniteSet(C)
    BY FS_Subset, FinitenessAssumption
  <2>2. CASE C = {}
    <3>1. of(C) = {} /\ Cardinality(C) = 0
      BY <2>2, FS_EmptySet
    <3>2. WeightOf(of(C)) = 0
      BY <3>1, NoWeight
    <3>3. Cardinality(C) * (total - 1) = 0
      <4>1. \A n \in Int : 0 * n = 0
        OBVIOUS
      <4> QED BY <3>1, <4>1
    <3> QED BY <3>2, <3>3
  <2>3. CASE C # {}
    <3>1. PICK c \in C : TRUE
      BY <2>3
    <3> DEFINE D == C \ {c}
               rest == Cardinality(D)
               x == WeightOf(of(C))
               y == WeightOf(of(D))
               z == WeightSum(b, c)
    <3>2. D \in G
      BY <1>1
    <3>3. IsFiniteSet(D) /\ Cardinality(C) = rest + 1 /\ rest \in Nat
      <4>1. /\ IsFiniteSet(D) /\ Cardinality(D) = Cardinality(C) - 1
            /\ Cardinality(C) \in Nat /\ Cardinality(D) \in Nat
        BY <2>1, <3>1, FS_RemoveElement, FS_CardinalityType
      <4> QED BY <4>1
    <3>4. of(C) = {u \in Users : b[u] = c} \cup of(D)
      OBVIOUS
    <3>5. x <= z + y
      <4>1. Sum(Weight, of(C)) <= Sum(Weight, {u \in Users : b[u] = c}) + Sum(Weight, of(D))
        BY <3>4, SumUnion, WeightAssumption, FinitenessAssumption
      <4> QED BY <4>1, WeightIsSum DEF WeightSum
    <3>6. x \in Nat /\ y \in Nat /\ z \in Nat
      BY WeightsAreNatural DEF WeightSum
    <3>7. 100 * y <= rest * (total - 1) /\ 100 * z <= total - 1
      BY <3>2
    <3>8. /\ rest * (total - 1) \in Nat
          /\ (rest + 1) * (total - 1) = rest * (total - 1) + (total - 1)
      <4>1. total - 1 \in Nat
        OBVIOUS
      <4> HIDE DEF rest
      <4> QED BY <3>3, <4>1, OneMore
    <3> HIDE DEF x, y, z, rest, D
    <3>9. 100 * x <= (rest + 1) * (total - 1)
      BY <3>5, <3>6, <3>7, <3>8
    <3> QED BY <3>3, <3>9 DEF x
  <2> QED BY <2>2, <2>3
<1> HIDE DEF G
<1>2. SUBSET Categories \subseteq G
  BY <1>1, SubsetInduction, FinitenessAssumption
<1> QED BY <1>2 DEF G

LEMMA CountedScore ==
  ASSUME PositiveWeights, FewCategories,
         NEW b \in [Users -> Categories \cup {NoVote}]
  PROVE  ScoreOf(b) \in IF \E u \in Users : b[u] # NoVote THEN Shares \cap 1..100 ELSE {0}
<1> DEFINE voters == {u \in Users : b[u] # NoVote}
           total == WeightOf(voters)
           sums == GroupSums(b)
           percents == {Percent(sums[c], total) : c \in DOMAIN sums}
<1>1. CASE voters = {}
  <2>1. TotalWeight(b) = 0
    BY <1>1, NoWeight DEF TotalWeight
  <2> QED BY <1>1, <2>1 DEF ScoreOf
<1>2. CASE voters # {}
  <2>1. total \in Nat \ {0} /\ total \in Weights
    BY <1>2, PositiveTotal, SomeWeight
  <2>2. ScoreOf(b) = MaxScore(sums, total)
    BY <2>1 DEF ScoreOf, TotalWeight
  <2>3. DOMAIN sums \subseteq Categories /\ \A c \in DOMAIN sums : sums[c] \in Weights
    BY ReadsAreWeights
  <2>4. /\ ScoreOf(b) \in {0} \cup percents
        /\ \A n \in percents : ScoreOf(b) >= n
    BY <2>1, <2>2, <2>3, MaxScoreIs
  <2>5. ASSUME NEW c \in Categories PROVE WeightSum(b, c) \in 0..total
    <3>1. {u \in Users : b[u] = c} \in SUBSET voters /\ voters \in SUBSET Users
      BY NoVoteAssumption
    <3> QED BY <2>1, <3>1, LighterPart, WeightsAreNatural DEF WeightSum
  <2>6. ASSUME NEW c \in DOMAIN sums
        PROVE  /\ sums[c] = WeightSum(b, c)
               /\ Percent(sums[c], total) \in 0..100
               /\ Percent(sums[c], total) = 0 => 100 * WeightSum(b, c) <= total - 1
               /\ ScoreOf(b) >= Percent(sums[c], total)
    <3>1. sums[c] = WeightSum(b, c)
      BY DEF GroupSums
    <3>2. ScoreOf(b) >= Percent(sums[c], total)
      BY <2>4
    <3> HIDE DEF sums, total
    <3> QED BY <2>1, <2>3, <2>5, <3>1, <3>2, PercentBounds
  <2> HIDE DEF sums, total
  <2>7. ScoreOf(b) \in 0..100
    BY <2>4, <2>6
  <2>8. ScoreOf(b) # 0
    <3>1. SUFFICES ASSUME ScoreOf(b) = 0 PROVE FALSE
      OBVIOUS
    <3>2. ASSUME NEW c \in DOMAIN sums PROVE 100 * WeightSum(b, c) <= total - 1
      BY <2>6, <3>1
    <3>3. ASSUME NEW c \in Categories PROVE 100 * WeightSum(b, c) <= total - 1
      <4>1. CASE c \in DOMAIN sums
        BY <3>2, <4>1
      <4>2. CASE c \notin DOMAIN sums
        <5>1. {u \in Users : b[u] = c} = {}
          BY <4>2 DEF sums, GroupSums, Voted
        <5>2. WeightSum(b, c) = 0
          BY <5>1, NoWeight DEF WeightSum
        <5> QED BY <2>1, <5>2
      <4> QED BY <4>1, <4>2
    <3> DEFINE k == Cardinality(Categories)
    <3>4. {u \in Users : b[u] \in Categories} = voters
      BY NoVoteAssumption
    <3>5. 100 * WeightOf({u \in Users : b[u] \in Categories}) <= k * (total - 1)
      BY <2>1, <3>3, SmallShares
    <3>6. 100 * total <= k * (total - 1)
      BY <3>4, <3>5 DEF total
    <3>7. k \in 0..100
      <4>1. k \in Nat
        BY FS_CardinalityType, FinitenessAssumption
      <4>2. k <= 100
        BY DEF FewCategories
      <4> HIDE DEF k
      <4> QED BY <4>1, <4>2
    <3> HIDE DEF k
    <3>8. k * (total - 1) <= 100 * (total - 1)
      BY <2>1, <3>7
    <3> QED BY <2>1, <3>6, <3>7, <3>8
  <2>9. ScoreOf(b) \in Shares
    BY <2>1, <2>2, <2>3, MaxScoreIsShare
  <2> QED BY <1>2, <2>7, <2>8, <2>9
<1> QED BY <1>1, <1>2

-----------------------------------------------------------------------------
(***************************************************************************)
(* The refinement of ChannelWorker, step by step.                          *)
(***************************************************************************)
(* OldScores of the mapping are naturals, as ChannelWorker assumes. *)
LEMMA SharesAreNatural == Shares \subseteq Nat
BY WeightsNatural, PercentIsNatural DEF Shares

LEMMA InitChannel == Init => Channel!Init
<1> SUFFICES ASSUME Init PROVE Channel!Init
  OBVIOUS
<1>1. HasVotes = [v \in Videos |-> FALSE]
  BY DEF Init, HasVotes
<1>2. Uncounted = {}
  BY DEF Init, Uncounted, Due
<1>3. score = [v \in Videos |-> 0] /\ votes = 0
  BY DEF Init
<1>4. NoRow = [exists |-> FALSE, locked |-> FALSE, auto |-> FALSE, stats |-> Channel!NoStats]
  BY DEF NoRow, Channel!NoStats
<1> QED BY <1>1, <1>2, <1>3, <1>4 DEF Channel!Init

(* What changes neither votes nor scores nor what is to be counted. *)
Unseen == UNCHANGED <<ballots, score, votes>> /\ Uncounted' = Uncounted

LEMMA UnseenStutters == Unseen => UNCHANGED Channel!vars
BY DEF Unseen, Channel!vars, HasVotes, NoRow

(* A vote makes its video due. *)
LEMMA CommitVotes ==
  ASSUME Shape, NEW v \in Videos, NEW u \in Users, NEW b \in Categories \cup {NoVote},
         CommitVote(v, u, b)
  PROVE  Channel!Next
<1> DEFINE has == HasVotes'[v]
<1>1. has \in BOOLEAN /\ HasVotes' = [HasVotes EXCEPT ![v] = has]
  BY DEF CommitVote, Shape, HasVotes
<1>2. has \/ HasVotes[v]
  <2>1. CASE b = NoVote
    BY <2>1 DEF CommitVote, HasVotes
  <2>2. CASE b # NoVote
    BY <2>2 DEF CommitVote, Shape, HasVotes
  <2> QED BY <2>1, <2>2
<1>3. Uncounted' = Uncounted \cup {v}
  <2>1. v \in Uncounted'
    BY Zenon DEF CommitVote, Heard, Uncounted, Due
  <2>2. ASSUME NEW x \in Videos, x # v PROVE x \in Uncounted' <=> x \in Uncounted
    BY <2>2 DEF CommitVote, Uncounted, Due
  <2> QED BY <2>1, <2>2 DEF Uncounted
<1>4. votes < MaxVotes /\ votes' = votes + 1 /\ score' = score /\ NoRow' = NoRow
  BY DEF CommitVote, NoRow
<1>5. Channel!Vote(v, has)
  BY <1>1, <1>2, <1>3, <1>4 DEF Channel!Vote
<1> QED BY <1>1, <1>5 DEF Channel!Next

(* A recalculation writes some share, and the one of all votes if it       *)
(* leaves its video neither due nor lost.                                  *)
LEMMA WriteScores ==
  ASSUME PositiveWeights, FewCategories, Inv, TypeOK, NEW w \in Workers, WriteScore(w)
  PROVE  Channel!Next
<1> DEFINE v == job[w].video
           s == score'[v]
<1>1. job[w] # NoJob /\ v \in batch[w] /\ v \in Videos
  BY DEF WriteScore, NoJob, Inv, Shape
<1>2. score' = [score EXCEPT ![v] = s] /\ s \in Shares
  <2>1. score' \in [Videos -> Shares]
    BY WriteType DEF TypeOK, Inv
  <2>2. \A x \in Videos : x # v => score'[x] = score[x]
    BY DEF WriteScore, TypeOK
  <2> QED BY <1>1, <2>1, <2>2 DEF TypeOK
<1>3. HasVotes' = HasVotes /\ NoRow' = NoRow /\ votes' = votes
  BY DEF WriteScore, HasVotes, NoRow
<1>4. v \in Uncounted /\ Uncounted' \in {Uncounted, Uncounted \ {v}}
  <2>1. v \in Uncounted
    BY <1>1 DEF Uncounted, Due
  <2>2. ASSUME NEW x \in Videos, x # v PROVE x \in Uncounted' <=> x \in Uncounted
    BY <2>2 DEF WriteScore, Uncounted, Due, Inv, Shape
  <2> QED BY <2>1, <2>2 DEF Uncounted
<1>5. CASE v \in Uncounted'
  <2>1. Uncounted' = Uncounted
    BY <1>4, <1>5
  <2>2. Channel!RecalculateOld(v, s)
    BY <1>2, <1>3, <1>4, <2>1 DEF Channel!RecalculateOld
  <2> QED BY <1>1, <1>2, <2>2 DEF Channel!Next, Channel!Scores
<1>6. CASE v \notin Uncounted'
  <2>1. v \notin inbox[w] \cup pending[w] \cup lost
    BY <1>1, <1>6 DEF WriteScore, Uncounted, Due
  <2>2. s = ScoreOf(ballots[v])
    BY <1>1, <2>1, WrittenScore DEF Inv, ReadsRepeated
  <2>3. s \in IF HasVotes[v] THEN Shares \cap 1..100 ELSE {0}
    <3>1. ballots[v] \in [Users -> Categories \cup {NoVote}]
      BY <1>1 DEF Inv, Shape
    <3> QED BY <1>1, <2>2, <3>1, CountedScore DEF HasVotes
  <2>4. Uncounted' = Uncounted \ {v}
    BY <1>4, <1>6
  <2>5. Channel!Recalculate(v, s)
    BY <1>2, <1>3, <1>4, <2>3, <2>4 DEF Channel!Recalculate
  <2> QED BY <1>1, <1>2, <2>5 DEF Channel!Next, Channel!Scores
<1> QED BY <1>5, <1>6

LEMMA NextChannel ==
  ASSUME PositiveWeights, FewCategories, Inv, TypeOK, [Next]_vars
  PROVE  [Channel!Next]_Channel!vars
  <1>. DEFINE P == Channel!Next \/ Unseen
  <1>1. ASSUME UNCHANGED vars PROVE P
    BY <1>1 DEF Unseen, Uncounted, Due, vars, tables, queues
  <1>2. ASSUME NEW v \in Videos, NEW u \in Users, NEW b \in Categories \cup {NoVote}, CommitVote(v, u, b) PROVE P
    BY <1>2, CommitVotes DEF Inv
  <1>3. ASSUME NEW w \in Workers, NEW v \in Videos, Receive(w, v) PROVE P
    BY <1>3 DEF Receive, Inv, Shape, Unseen, Uncounted, Due, tables
  <1>4. ASSUME NEW w \in Workers, StartFlush(w) PROVE P
    BY <1>4 DEF StartFlush, Inv, Shape, Unseen, Uncounted, Due, tables
  <1>5. ASSUME NEW w \in Workers, NEW v \in Videos, ReadTotal(w, v) PROVE P
    BY <1>5 DEF ReadTotal, Unseen, Uncounted, Due, tables
  <1>6. ASSUME NEW w \in Workers, ReadGroups(w) PROVE P
    BY <1>6 DEF ReadGroups, Unseen, Uncounted, Due, tables
  <1>7. ASSUME NEW w \in Workers, WriteScore(w) PROVE P
    BY <1>7, WriteScores
  <1>8. ASSUME NEW w \in Workers, Reconnect(w) PROVE P
    BY <1>8 DEF Reconnect, Unseen, Uncounted, Due, tables
  <1>9. ASSUME NEW w \in Workers, RecalculateFails(w) PROVE P
    BY <1>9 DEF RecalculateFails, Inv, Shape, Unseen, Uncounted, Due, tables
  <1>10. ASSUME NEW w \in Workers, ListenFails(w) PROVE P
    BY <1>10 DEF ListenFails, Inv, Shape, Unseen, Uncounted, Due, tables
  <1>11. ASSUME NEW w \in Workers, GoesDeaf(w) PROVE P
    BY <1>11 DEF GoesDeaf, Inv, Shape, Unseen, Uncounted, Due, tables
  <1>12. ASSUME NEW w \in Workers, Stop(w) PROVE P
    BY <1>12 DEF Stop, Inv, Shape, Unseen, Uncounted, Due, tables
  <1>13. P
    BY ONLY Zenon, [Next]_vars, NextCases, <1>1, <1>2, <1>3, <1>4, <1>5, <1>6, <1>7, <1>8, <1>9,
       <1>10, <1>11, <1>12
  <1>. QED
    BY <1>13, UnseenStutters

(***************************************************************************)
(* However many workers forget, fail and overwrite each other: to a        *)
(* channel's worker they are the score workers it assumes.                 *)
(***************************************************************************)
THEOREM WorkersImplementChannel ==
  ASSUME PositiveWeights, FewCategories
  PROVE  Spec => ImplementsChannel
<1>1. Init => Channel!Init
  BY InitChannel
<1>2. Inv /\ TypeOK /\ [Next]_vars => [Channel!Next]_Channel!vars
  BY NextChannel
<1> QED BY Invariance, TypeCorrect, <1>1, <1>2, PTL DEF Spec, ImplementsChannel, Channel!Spec

(***************************************************************************)
(* A score is a percentage once the votes are counted: the shares above a  *)
(* hundred that a vote between the two reads makes are still due or lost.  *)
(***************************************************************************)
THEOREM CountedScores ==
  ASSUME PositiveWeights, FewCategories
  PROVE  Spec => []CountedScoresInRange
<1>1. Inv => CountedScoresInRange
  <2>1. SUFFICES ASSUME Inv, NEW v \in Videos, v \notin Uncounted
                 PROVE  score[v] \in IF HasVotes[v] THEN 1..100 ELSE {0}
    BY DEF CountedScoresInRange
  <2>2. score[v] = ScoreOf(ballots[v])
    BY <2>1 DEF Inv, OnlyFaultsLoseScores, Stale, Uncounted
  <2>3. ballots[v] \in [Users -> Categories \cup {NoVote}]
    BY <2>1 DEF Inv, Shape
  <2> QED BY <2>1, <2>2, <2>3, CountedScore DEF HasVotes
<1> QED BY <1>1, Invariance, PTL
=============================================================================
