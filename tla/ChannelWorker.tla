--------------------------- MODULE ChannelWorker ----------------------------
(***************************************************************************)
(* One channel, re-scored every 15 minutes by the worker of each backend:  *)
(* statistics of its videos, the channel's row, the lock flag, the update  *)
(* and the preliminary score are statements of their own, in no            *)
(* transaction, while votes, score workers and moderators write the same   *)
(* rows.                                                                   *)
(*                                                                         *)
(* channel_worker.go and channel_worker.py.                                *)
(***************************************************************************)
EXTENDS Integers, FiniteSets, FiniteSetsExt

CONSTANTS Videos,        \* the channel's videos
          Workers,       \* the channel workers
          VoteScores,    \* scores a video with votes may get, in percent
          OldScores,     \* scores from votes read too early: also 0, or above 100
          FlaggedFrom,   \* a video is flagged from this score on (50)
          MinTracked,    \* videos with votes a score takes (3)
          MinFlagged,    \* flagged videos the auto-flag takes (20)
          FlagScore,     \* channel score the auto-flag takes, in percent (80)
          Preliminary,   \* score of new videos of a flagged channel (60)
          MaxChanges,    \* bound on votes and on changes of the lock
          MaxFaults      \* bound on recalculations cut short

ASSUME ScoresAssumption ==
  VoteScores \subseteq 1..100 /\ OldScores \subseteq Nat /\ Preliminary \in 1..100
ASSUME ThresholdsAssumption ==
  /\ FlaggedFrom \in 1..100 /\ FlagScore \in 1..100
  /\ MinTracked \in Nat \ {0} /\ MinFlagged \in Nat \ {0}
ASSUME FinitenessAssumption == IsFiniteSet(Videos)
ASSUME BoundsAssumption == MaxChanges \in Nat /\ MaxFaults \in Nat

VARIABLES voted,      \* voted[v]: videos.total_votes > 0
          score,      \* score[v]: videos.score, in percent
          due,        \* videos whose votes the score workers have yet to count
          channel,    \* the row in channels
          job,        \* job[w]: the statement worker w runs next, what it knows
          changes,    \* votes and lock changes so far
          faults      \* recalculations cut short so far

vars == <<voted, score, due, channel, job, changes, faults>>

-----------------------------------------------------------------------------
Scores  == VoteScores \cup OldScores \cup {0, Preliminary}

Tracked == {v \in Videos : voted[v]}
Flagged == {v \in Videos : score[v] >= FlaggedFrom}

(* Round to 2 decimal places: n/d percent, in hundredths of a percent. *)
Hundredths(n, d) == (200 * n + d) \div (2 * d)

(* The score a channel gets: (flagged / tracked) * average of the flagged, *)
(* which is the sum of the flagged over the number of the tracked.         *)
ChannelScore == IF Cardinality(Tracked) >= MinTracked
                  THEN Hundredths(MapThenSumSet(LAMBDA v : score[v], Flagged),
                                  Cardinality(Tracked))
                  ELSE 0

Stats == [flagged |-> Cardinality(Flagged), tracked |-> Cardinality(Tracked),
          score |-> ChannelScore]
NoStats == [flagged |-> 0, tracked |-> 0, score |-> 0]

ShouldAutoFlag(stats, locked) ==
  stats.score >= 100 * FlagScore /\ stats.flagged >= MinFlagged /\ ~locked

Idle == [stage |-> "idle", stats |-> NoStats, flag |-> FALSE]

AllStats == [flagged : 0..Cardinality(Videos), tracked : 0..Cardinality(Videos),
             score : Nat]

TypeOK ==
  /\ voted \in [Videos -> BOOLEAN]
  /\ score \in [Videos -> Scores]
  /\ due \subseteq Videos
  /\ channel.exists \in BOOLEAN /\ channel.locked \in BOOLEAN /\ channel.auto \in BOOLEAN
  /\ channel.stats \in AllStats
  /\ channel.stats.score > 0 => channel.exists /\ channel.stats.tracked >= MinTracked
  /\ \A w \in Workers :
       /\ job[w].stage \in {"idle", "stats", "insert", "lock", "update", "preset"}
       /\ job[w].stats \in AllStats /\ job[w].flag \in BOOLEAN
       /\ job[w].stage \in {"lock", "update", "preset"} => channel.exists
       /\ job[w].flag => job[w].stats.flagged >= MinFlagged
  /\ changes \in 0..MaxChanges /\ faults \in 0..MaxFaults

Init ==
  /\ voted = [v \in Videos |-> FALSE]
  /\ score = [v \in Videos |-> 0]
  /\ due = {}
  /\ channel = [exists |-> FALSE, locked |-> FALSE, auto |-> FALSE, stats |-> NoStats]
  /\ job = [w \in Workers |-> Idle]
  /\ changes = 0
  /\ faults = 0

-----------------------------------------------------------------------------
(* A vote or a deletion commits (VoteLedger) and notifies the score workers. *)
Vote(v, has) ==
  /\ changes < MaxChanges /\ changes' = changes + 1
  /\ has \/ voted[v]
  /\ voted' = [voted EXCEPT ![v] = has]
  /\ due' = due \cup {v}
  /\ UNCHANGED <<score, channel, job, faults>>

(* Mutant of Recalculate: a score from votes only ever raises a video. *)
RecalculateUp(v, s) ==
  /\ v \in due
  /\ s \in IF voted[v] THEN VoteScores ELSE {0}
  /\ score' = [score EXCEPT ![v] = IF s > @ THEN s ELSE @]
  /\ due' = due \ {v}
  /\ UNCHANGED <<voted, channel, job, changes, faults>>

(* RecalculateVideoScore with all votes so far (ScoreWorker). *)
Recalculate(v, s) ==
  /\ v \in due
  /\ s \in IF voted[v] THEN VoteScores ELSE {0}
  /\ score' = [score EXCEPT ![v] = s]
  /\ due' = due \ {v}
  /\ UNCHANGED <<voted, channel, job, changes, faults>>

(* One that read before the last vote, or partly: the video stays due. *)
RecalculateOld(v, s) ==
  /\ v \in due
  /\ s \in OldScores
  /\ score' = [score EXCEPT ![v] = s]
  /\ UNCHANGED <<voted, due, channel, job, changes, faults>>

(* A moderator locks or unlocks the channel; no code of the backends does. *)
ChangeLock ==
  /\ changes < MaxChanges /\ changes' = changes + 1
  /\ channel.exists
  /\ channel' = [channel EXCEPT !.locked = ~@]
  /\ UNCHANGED <<voted, score, due, job, faults>>

-----------------------------------------------------------------------------
Stage(w, stage) == job[w].stage = stage

(* recalculateAll, tick: only channels with a voted video are looked at. *)
Tick(w) ==
  /\ Stage(w, "idle") /\ Tracked # {}
  /\ job' = [job EXCEPT ![w].stage = "stats"]
  /\ UNCHANGED <<voted, score, due, channel, changes, faults>>

(* Mutant of ReadStats: the row is taken to exist. *)
ReadStatsOnly(w) ==
  /\ Stage(w, "stats")
  /\ job' = [job EXCEPT ![w].stage = "lock", ![w].stats = Stats]
  /\ UNCHANGED <<voted, score, due, channel, changes, faults>>

(* The statistics: one statement, the state of one moment. *)
ReadStats(w) ==
  /\ Stage(w, "stats")
  /\ job' = [job EXCEPT ![w].stage = "insert", ![w].stats = Stats]
  /\ UNCHANGED <<voted, score, due, channel, changes, faults>>

(* INSERT INTO channels ... ON CONFLICT DO NOTHING *)
EnsureChannel(w) ==
  /\ Stage(w, "insert")
  /\ channel' = [channel EXCEPT !.exists = TRUE]
  /\ job' = [job EXCEPT ![w].stage = "lock"]
  /\ UNCHANGED <<voted, score, due, changes, faults>>

(* Mutant of ReadLock: a channel that is flagged already stays flagged. *)
ReadLockOnce(w) ==
  /\ Stage(w, "lock")
  /\ job' = [job EXCEPT ![w].stage = "update",
       ![w].flag = ShouldAutoFlag(job[w].stats, channel.locked /\ ~channel.auto)]
  /\ UNCHANGED <<voted, score, due, channel, changes, faults>>

(* SELECT locked, and shouldAutoFlag is decided. *)
ReadLock(w) ==
  /\ Stage(w, "lock")
  /\ job' = [job EXCEPT ![w].stage = "update",
                        ![w].flag = ShouldAutoFlag(job[w].stats, channel.locked)]
  /\ UNCHANGED <<voted, score, due, channel, changes, faults>>

(* Mutant of UpdateChannel: preliminary scores on the first flagging only. *)
UpdateChannelOnce(w) ==
  /\ Stage(w, "update")
  /\ channel' = [channel EXCEPT !.auto = job[w].flag, !.stats = job[w].stats]
  /\ job' = [job EXCEPT ![w] = IF job[w].flag /\ ~channel.auto
                                 THEN [Idle EXCEPT !.stage = "preset"] ELSE Idle]
  /\ UNCHANGED <<voted, score, due, changes, faults>>

(* UPDATE channels, with the lock flag as it was read. *)
UpdateChannel(w) ==
  /\ Stage(w, "update")
  /\ channel' = [channel EXCEPT !.auto = job[w].flag, !.stats = job[w].stats]
  /\ job' = [job EXCEPT ![w] = IF job[w].flag
                                 THEN [Idle EXCEPT !.stage = "preset"] ELSE Idle]
  /\ UNCHANGED <<voted, score, due, changes, faults>>

(* UPDATE videos SET score = 60 WHERE total_votes = 0 AND score = 0 *)
PresetVideos(w) ==
  /\ Stage(w, "preset")
  /\ score' = [v \in Videos |-> IF ~voted[v] /\ score[v] = 0 THEN Preliminary ELSE score[v]]
  /\ job' = [job EXCEPT ![w] = Idle]
  /\ UNCHANGED <<voted, due, channel, changes, faults>>

(* A statement fails and the tick goes on to other channels, or the process *)
(* ends: what was committed stays, the rest waits for another tick.         *)
CutShort(w) ==
  /\ job[w] # Idle
  /\ faults < MaxFaults /\ faults' = faults + 1
  /\ job' = [job EXCEPT ![w] = Idle]
  /\ UNCHANGED <<voted, score, due, channel, changes>>

Work(w) == \/ Tick(w) \/ ReadStats(w) \/ EnsureChannel(w) \/ ReadLock(w)
           \/ UpdateChannel(w) \/ PresetVideos(w)

Next == \/ \E v \in Videos : \/ \E has \in BOOLEAN : Vote(v, has)
                             \/ \E s \in Scores :
                                  Recalculate(v, s) \/ RecalculateOld(v, s)
        \/ ChangeLock
        \/ \E w \in Workers : Work(w) \/ CutShort(w)

Spec == Init /\ [][Next]_vars

(* The tickers go on and the score workers count what is due; nobody votes, *)
(* locks or fails because he must.                                          *)
FairSpec ==
  /\ Spec
  /\ \A w \in Workers : WF_vars(Work(w))
  /\ \A v \in Videos : WF_vars(\E s \in Scores : Recalculate(v, s))

-----------------------------------------------------------------------------
(***************************************************************************)
(* Community votes decide ("This preliminary score can be overridden by    *)
(* community votes in either direction"): a video whose votes are counted  *)
(* has a score from them, and one without votes has 0 or the preliminary   *)
(* one, however the two kinds of workers write it.                         *)
(***************************************************************************)
VotesDecide ==
  \A v \in Videos : v \notin due =>
    score[v] \in IF voted[v] THEN VoteScores ELSE {0, Preliminary}

(***************************************************************************)
(* Once votes and the lock stay, the channel's row is what its videos and  *)
(* its lock say: ticks of two backends that overwrite each other's older   *)
(* statistics, a lock set between two statements and the preliminary       *)
(* scores the worker itself gives do not keep it wrong.  A channel that    *)
(* has lost its last vote is left as it was: no tick looks at it.          *)
(***************************************************************************)
Agrees == /\ channel.stats = Stats
          /\ channel.auto = ShouldAutoFlag(Stats, channel.locked)

ChannelSettles == <>[](Tracked # {} => Agrees)

(***************************************************************************)
(* New videos of a flagged channel get the preliminary score, also those   *)
(* that come after it was flagged, and when a tick ended between the flag  *)
(* and the videos.                                                         *)
(***************************************************************************)
NewVideosScored ==
  <>[](channel.auto /\ Tracked # {} => \A v \in Videos : voted[v] \/ score[v] # 0)
=============================================================================
