------------------------ MODULE ChannelWorkerProofs -------------------------
(***************************************************************************)
(* Votes decide over preliminary scores, for any number of videos, workers *)
(* and votes.  The step that matters is PresetVideos: a video it scores    *)
(* has no votes, so whether its old votes are counted or due, the          *)
(* preliminary score is one it may have.                                   *)
(*                                                                         *)
(* And type correctness: whatever votes, score workers and ticks write     *)
(* between a worker's statements, it writes statistics of one moment, a    *)
(* score only if enough videos were tracked then, and to a row that        *)
(* exists.                                                                 *)
(***************************************************************************)
EXTENDS ChannelWorker, SumTheorems, TLAPS

(* What VotesDecide needs of the state: the tables are total.               *)
Inv == /\ voted \in [Videos -> BOOLEAN]
       /\ DOMAIN score = Videos
       /\ due \subseteq Videos
       /\ VotesDecide

LEMMA InitInv == Init => Inv
  BY DEF Init, Inv, VotesDecide

(* A vote makes its video due and leaves the others alone. *)
LEMMA VoteInv ==
  ASSUME Inv, NEW v \in Videos, NEW has \in BOOLEAN, Vote(v, has)
  PROVE  Inv'
<1>1. voted' \in [Videos -> BOOLEAN] /\ due' \subseteq Videos /\ DOMAIN score' = Videos
  BY DEF Inv, Vote
<1>2. ASSUME NEW u \in Videos, u \notin due'
      PROVE  score'[u] \in IF voted'[u] THEN VoteScores ELSE {0, Preliminary}
  <2>1. u # v /\ u \notin due
    BY <1>2 DEF Vote
  <2>2. voted'[u] = voted[u] /\ score'[u] = score[u]
    BY <2>1 DEF Inv, Vote
  <2> QED BY <2>1, <2>2 DEF Inv, VotesDecide
<1> QED BY <1>1, <1>2 DEF Inv, VotesDecide

(* A recalculation writes a score from the votes, or leaves the video due. *)
LEMMA RecalculateInv ==
  ASSUME Inv, NEW v \in Videos, NEW s \in Scores,
         Recalculate(v, s) \/ RecalculateOld(v, s)
  PROVE  Inv'
<1>1. voted' \in [Videos -> BOOLEAN] /\ due' \subseteq Videos /\ DOMAIN score' = Videos
  BY DEF Inv, Recalculate, RecalculateOld
<1>2. ASSUME NEW u \in Videos, u \notin due'
      PROVE  score'[u] \in IF voted'[u] THEN VoteScores ELSE {0, Preliminary}
  <2>1. CASE u = v
    <3>1. Recalculate(v, s)
      BY <1>2, <2>1 DEF RecalculateOld
    <3> QED BY <2>1, <3>1 DEF Inv, Recalculate
  <2>2. CASE u # v
    <3>1. score'[u] = score[u] /\ voted'[u] = voted[u] /\ u \notin due
      BY <1>2, <2>2 DEF Inv, Recalculate, RecalculateOld
    <3> QED BY <3>1 DEF Inv, VotesDecide
  <2> QED BY <2>1, <2>2
<1> QED BY <1>1, <1>2 DEF Inv, VotesDecide

(* The channel worker writes a video's score only where there are no votes. *)
LEMMA PresetInv ==
  ASSUME Inv, NEW w \in Workers, PresetVideos(w)
  PROVE  Inv'
<1>1. voted' \in [Videos -> BOOLEAN] /\ due' \subseteq Videos /\ DOMAIN score' = Videos
  BY DEF Inv, PresetVideos
<1>2. ASSUME NEW u \in Videos, u \notin due'
      PROVE  score'[u] \in IF voted'[u] THEN VoteScores ELSE {0, Preliminary}
  <2>1. voted'[u] = voted[u] /\ u \notin due
    BY <1>2 DEF PresetVideos
  <2>2. CASE ~voted[u] /\ score[u] = 0
    BY <2>1, <2>2 DEF PresetVideos
  <2>3. CASE ~(~voted[u] /\ score[u] = 0)
    <3>1. score'[u] = score[u]
      BY <2>3 DEF PresetVideos
    <3> QED BY <2>1, <3>1 DEF Inv, VotesDecide
  <2> QED BY <2>2, <2>3
<1> QED BY <1>1, <1>2 DEF Inv, VotesDecide

LEMMA NextInv == Inv /\ [Next]_vars => Inv'
<1> SUFFICES ASSUME Inv, [Next]_vars PROVE Inv'
  OBVIOUS
<1>1. ASSUME NEW v \in Videos, NEW has \in BOOLEAN, Vote(v, has) PROVE Inv'
  BY <1>1, VoteInv
<1>2. ASSUME NEW v \in Videos, NEW s \in Scores,
             Recalculate(v, s) \/ RecalculateOld(v, s)
      PROVE  Inv'
  BY <1>2, RecalculateInv
<1>3. ASSUME NEW w \in Workers, PresetVideos(w) PROVE Inv'
  BY <1>3, PresetInv
<1>4. CASE UNCHANGED <<voted, score, due>>
  BY <1>4 DEF Inv, VotesDecide
<1>5. ASSUME NEW w \in Workers, Work(w) \/ CutShort(w), ~PresetVideos(w)
      PROVE  UNCHANGED <<voted, score, due>>
  BY <1>5 DEF Work, Tick, ReadStats, EnsureChannel, ReadLock, UpdateChannel, CutShort
<1>6. CASE ChangeLock \/ UNCHANGED vars
  BY <1>4, <1>6 DEF ChangeLock, vars
<1> QED BY <1>1, <1>2, <1>3, <1>4, <1>5, <1>6 DEF Next

(* The tables stay total and VotesDecide inductive: RecalculateVideoScore *)
(* and the preliminary UPDATE write disjoint sets of settled videos.      *)
THEOREM Invariance == Spec => []Inv
  BY InitInv, NextInv, PTL DEF Spec

(* A video whose votes are counted has a score from its votes, one without *)
(* votes 0 or the preliminary score of the channel worker's UPDATE.        *)
THEOREM CommunityDecides == Spec => []VotesDecide
<1>1. Inv => VotesDecide
  BY DEF Inv
<1> QED BY <1>1, Invariance, PTL

-----------------------------------------------------------------------------
Channels == [exists : BOOLEAN, locked : BOOLEAN, auto : BOOLEAN, stats : AllStats]
Jobs     == [stage : {"idle", "stats", "insert", "lock", "update", "preset"},
             stats : AllStats, flag : BOOLEAN]

(* Statistics give a score only if enough videos are tracked. *)
Scored(stats) == stats.score > 0 => stats.tracked >= MinTracked

(* TypeOK with the shape of the records, and what the statistics a worker *)
(* is going to write promise.                                             *)
TypeInv ==
  /\ voted \in [Videos -> BOOLEAN]
  /\ score \in [Videos -> Scores]
  /\ due \subseteq Videos
  /\ channel \in Channels
  /\ Scored(channel.stats) /\ (channel.stats.score > 0 => channel.exists)
  /\ job \in [Workers -> Jobs]
  /\ \A w \in Workers :
       /\ Scored(job[w].stats)
       /\ job[w].stage \in {"lock", "update", "preset"} => channel.exists
       /\ job[w].flag => job[w].stats.flagged >= MinFlagged
  /\ changes \in 0..MaxChanges /\ faults \in 0..MaxFaults

LEMMA CardinalityBound ==
  ASSUME NEW S \in SUBSET Videos
  PROVE  Cardinality(S) \in 0..Cardinality(Videos)
<1>1. IsFiniteSet(S) /\ Cardinality(S) <= Cardinality(Videos)
  BY FS_Subset, FinitenessAssumption
<1>2. Cardinality(S) \in Nat /\ Cardinality(Videos) \in Nat
  BY <1>1, FS_CardinalityType, FinitenessAssumption
<1> QED BY <1>1, <1>2

LEMMA HundredthsIsNatural ==
  ASSUME NEW n \in Nat, NEW d \in Nat \ {0}
  PROVE  Hundredths(n, d) \in Nat
<1>1. 200 * n + d \in Nat /\ 2 * d \in Nat \ {0}
  OBVIOUS
<1> QED BY <1>1 DEF Hundredths

(* What the statistics query returns. *)
LEMMA StatsType ==
  ASSUME TypeInv
  PROVE  Stats \in AllStats /\ Scored(Stats)
<1> DEFINE sum == MapThenSumSet(LAMBDA v : score[v], Flagged)
<1>1. Tracked \in SUBSET Videos /\ Flagged \in SUBSET Videos
  BY DEF Tracked, Flagged
<1>2. /\ Cardinality(Tracked) \in 0..Cardinality(Videos)
      /\ Cardinality(Flagged) \in 0..Cardinality(Videos)
      /\ Cardinality(Videos) \in Nat
  BY <1>1, CardinalityBound, FS_CardinalityType, FinitenessAssumption
<1>3. sum = Sum(score, Flagged)
  BY Zenon DEF Sum, MapThenSumSet, MapThenFoldSet
<1>4. score \in [Videos -> Nat]
  <2>1. Scores \subseteq Nat
    BY ScoresAssumption DEF Scores
  <2> QED BY <2>1 DEF TypeInv
<1> HIDE DEF sum
<1>5. sum \in Nat
  BY <1>1, <1>3, <1>4, SumNat, FinitenessAssumption
<1>6. /\ ChannelScore \in Nat
      /\ ChannelScore > 0 => Cardinality(Tracked) >= MinTracked
  <2>1. CASE Cardinality(Tracked) >= MinTracked
    <3>1. Cardinality(Tracked) \in Nat \ {0}
      BY <1>2, <2>1, ThresholdsAssumption
    <3>2. ChannelScore = Hundredths(sum, Cardinality(Tracked))
      BY <2>1 DEF ChannelScore, sum
    <3> QED BY <1>5, <2>1, <3>1, <3>2, HundredthsIsNatural
  <2>2. CASE ~(Cardinality(Tracked) >= MinTracked)
    BY <2>2 DEF ChannelScore
  <2> QED BY <2>1, <2>2
<1> QED BY <1>2, <1>6 DEF Stats, AllStats, Scored

LEMMA NoStatsType == NoStats \in AllStats /\ Scored(NoStats)
<1>1. Cardinality(Videos) \in Nat
  BY FS_CardinalityType, FinitenessAssumption
<1> QED BY <1>1 DEF NoStats, AllStats, Scored

(* A worker with nothing in hand, and one with preliminary scores to give. *)
LEMMA IdleJob ==
  Idle \in Jobs /\ Idle.stage = "idle" /\ ~Idle.flag /\ Idle.stats = NoStats
<1> DEFINE idle == [stage |-> "idle", stats |-> NoStats, flag |-> FALSE]
<1>1. idle \in Jobs /\ idle.stage = "idle" /\ ~idle.flag /\ idle.stats = NoStats
  BY NoStatsType DEF Jobs
<1> QED BY <1>1 DEF Idle

LEMMA PresetJob ==
  /\ [Idle EXCEPT !.stage = "preset"] \in Jobs
  /\ ~[Idle EXCEPT !.stage = "preset"].flag
  /\ [Idle EXCEPT !.stage = "preset"].stats = NoStats
BY IdleJob DEF Jobs

LEMMA InitType == ASSUME Init PROVE TypeInv
<1>1. channel \in Channels /\ channel.stats = NoStats
  BY NoStatsType DEF Init, Channels
<1>2. job \in [Workers -> Jobs] /\ \A w \in Workers : job[w] = Idle
  BY IdleJob DEF Init
<1>3. NoStats.score = 0
  BY DEF NoStats
<1> QED BY <1>1, <1>2, <1>3, NoStatsType, IdleJob, BoundsAssumption
  DEF Init, TypeInv, Scores

(* Votes, recalculations and moderators. *)
LEMMA OthersType ==
  ASSUME TypeInv, [Next]_vars
  PROVE  /\ \A v \in Videos, has \in BOOLEAN : Vote(v, has) => TypeInv'
         /\ \A v \in Videos, s \in Scores :
              Recalculate(v, s) \/ RecalculateOld(v, s) => TypeInv'
         /\ ChangeLock => TypeInv'
<1>1. ASSUME NEW v \in Videos, NEW has \in BOOLEAN, Vote(v, has) PROVE TypeInv'
  BY <1>1, BoundsAssumption DEF Vote, TypeInv
<1>2. ASSUME NEW v \in Videos, NEW s \in Scores,
             Recalculate(v, s) \/ RecalculateOld(v, s)
      PROVE  TypeInv'
  BY <1>2 DEF Recalculate, RecalculateOld, TypeInv, Scores
<1>3. CASE ChangeLock
  <2>1. channel' \in Channels /\ channel'.stats = channel.stats /\ channel'.exists = channel.exists
    BY <1>3 DEF ChangeLock, TypeInv, Channels
  <2> QED BY <1>3, <2>1, BoundsAssumption DEF ChangeLock, TypeInv
<1> QED BY <1>1, <1>2, <1>3

(* The statements of a worker. *)
LEMMA WorkType ==
  ASSUME TypeInv, NEW w \in Workers, Work(w) \/ CutShort(w)
  PROVE  TypeInv'
<1>1. CASE Tick(w)
  BY <1>1 DEF Tick, Stage, TypeInv, Jobs
<1>2. CASE ReadStats(w)
  <2>1. job' = [job EXCEPT ![w] = [job[w] EXCEPT !.stage = "insert", !.stats = Stats]]
    BY <1>2 DEF ReadStats
  <2> QED BY <1>2, <2>1, StatsType DEF ReadStats, Stage, TypeInv, Jobs
<1>3. CASE EnsureChannel(w)
  BY <1>3 DEF EnsureChannel, Stage, TypeInv, Jobs, Channels
<1>4. CASE ReadLock(w)
  BY ZenonT(60), <1>4 DEF ReadLock, Stage, TypeInv, Jobs, ShouldAutoFlag
<1>5. CASE UpdateChannel(w)
  <2>1. /\ channel' \in Channels
        /\ channel'.stats = job[w].stats /\ channel'.exists = channel.exists
        /\ channel.exists
    BY <1>5 DEF UpdateChannel, Stage, TypeInv, Channels, Jobs
  <2>2. \A k \in Workers : k # w => job'[k] = job[k]
    BY <1>5 DEF UpdateChannel, TypeInv
  <2>3. job'[w] \in {Idle, [Idle EXCEPT !.stage = "preset"]}
    BY <1>5 DEF UpdateChannel, TypeInv
  <2>4. job' \in [Workers -> Jobs]
    BY <1>5, IdleJob, PresetJob DEF UpdateChannel, TypeInv
  <2>5. Scored(job'[w].stats) /\ ~job'[w].flag /\ channel'.exists
    BY <2>1, <2>3, IdleJob, PresetJob, NoStatsType
  <2> QED BY <1>5, <2>1, <2>2, <2>4, <2>5 DEF UpdateChannel, TypeInv
<1>6. CASE PresetVideos(w)
  BY <1>6, IdleJob, NoStatsType DEF PresetVideos, TypeInv, Scores
<1>7. CASE CutShort(w)
  BY <1>7, IdleJob, NoStatsType, BoundsAssumption DEF CutShort, TypeInv
<1> QED BY <1>1, <1>2, <1>3, <1>4, <1>5, <1>6, <1>7 DEF Work

LEMMA NextType == TypeInv /\ [Next]_vars => TypeInv'
<1> SUFFICES ASSUME TypeInv, [Next]_vars PROVE TypeInv'
  OBVIOUS
<1>1. CASE UNCHANGED vars
  BY <1>1 DEF TypeInv, vars
<1>2. CASE Next
  BY <1>2, OthersType, WorkType, Zenon DEF Next
<1> QED BY <1>1, <1>2

(***************************************************************************)
(* What a worker holds between two statements and what the row shows are   *)
(* statistics of the channel; a score was given only to enough videos, a   *)
(* flag only for enough flagged ones.                                      *)
(***************************************************************************)
THEOREM TypeCorrect == Spec => []TypeOK
<1>1. TypeInv => TypeOK
  BY DEF TypeInv, TypeOK, Channels, Jobs, Scored
<1> QED BY InitType, NextType, <1>1, PTL DEF Spec
=============================================================================
