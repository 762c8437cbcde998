---------------------------- MODULE ScoreWorker -----------------------------
(***************************************************************************)
(* Deferred score recalculation: a committed vote change notifies the      *)
(* LISTENing workers (one in the Go backend, one in the Python backend),   *)
(* which collect video ids, swap the collection out on a timer and         *)
(* recalculate each video in a READ COMMITTED transaction.                 *)
(*                                                                         *)
(* score_worker.go, score_svc.go, score_worker.py, score_service.py and    *)
(* the vote_changes trigger of migration 003.                              *)
(***************************************************************************)
EXTENDS Integers, FiniteSets, FiniteSetsExt

CONSTANTS Videos, Users, Categories,
          NoVote,      \* no row in votes
          Weight,      \* Weight[u]: trust weight of u's votes
          Workers,     \* the score workers
          GoWorkers,   \* those of them that run in the Go backend
          Faults,      \* kinds of fault that may occur, see below
          MaxFaults,   \* bound on faults
          MaxVotes     \* bound on vote changes

ASSUME NoVoteAssumption    == NoVote \notin Categories
ASSUME WeightAssumption    == Weight \in [Users -> Nat]
ASSUME FinitenessAssumption == IsFiniteSet(Users) /\ IsFiniteSet(Categories)
ASSUME FaultsAssumption    == Faults \subseteq {"recalculate", "listen", "stop"}
ASSUME BoundsAssumption    == MaxFaults \in Nat /\ MaxVotes \in Nat

VARIABLES ballots,     \* ballots[v][u]: committed votes
          score,       \* score[v]: videos.score, in percent
          weighted,    \* weighted[v][c]: video_categories.weighted_score
          inbox,       \* inbox[w]: notifications sent to w, not yet received
          pending,     \* pending[w]: ids collected for the next batch
          batch,       \* batch[w]: ids of the running flush not dealt with yet
          job,         \* job[w]: recalculation w has under way
          link,        \* link[w]: state of w's LISTEN connection
          lost,        \* history: videos a fault made the workers forget
          faults,      \* faults so far
          votes        \* vote changes so far

tables == <<ballots, score, weighted>>
queues == <<inbox, pending, batch, job, link>>
vars   == <<tables, queues, lost, faults, votes>>

-----------------------------------------------------------------------------
(***************************************************************************)
(* RecalculateVideoScore as a function of the votes.                       *)
(***************************************************************************)
WeightOf(S)       == MapThenSumSet(LAMBDA u : Weight[u], S)
TotalWeight(b)    == WeightOf({u \in Users : b[u] # NoVote})
WeightSum(b, c)   == WeightOf({u \in Users : b[u] = c})
Voted(b)          == {c \in Categories : \E u \in Users : b[u] = c}
GroupSums(b)      == [c \in Voted(b) |-> WeightSum(b, c)]

Percent(n, total) == (100 * n) \div total

(* max over the categories read, starting from 0. *)
MaxScore(sums, total) ==
  Max({0} \cup {Percent(sums[c], total) : c \in DOMAIN sums})

ScoreOf(b) == IF TotalWeight(b) = 0
                THEN 0 ELSE MaxScore(GroupSums(b), TotalWeight(b))

(* The weighted_score a category should have. *)
CategoryScore(b, c) == IF TotalWeight(b) = 0
                         THEN 0 ELSE Percent(WeightSum(b, c), TotalWeight(b))

(* What a recalculation may write.  A group that is read after the total   *)
(* may outweigh it.                                                        *)
Weights == {WeightOf(S) : S \in SUBSET Users}
Shares  == {0} \cup {Percent(n, total) : n \in Weights, total \in Weights \ {0}}

NoJob == [stage |-> "none"]

Job(w) == \/ job[w] = NoJob
          \/ /\ job[w].video \in batch[w]
             /\ job[w].total \in Weights
             /\ \/ job[w].stage = "groups"
                \/ /\ job[w].stage = "write"
                   /\ DOMAIN job[w].sums \subseteq Categories
                   /\ \A c \in DOMAIN job[w].sums : job[w].sums[c] \in Weights

TypeOK ==
  /\ ballots \in [Videos -> [Users -> Categories \cup {NoVote}]]
  /\ score \in [Videos -> Shares]
  /\ weighted \in [Videos -> [Categories -> Shares]]
  /\ inbox \in [Workers -> SUBSET Videos]
  /\ pending \in [Workers -> SUBSET Videos]
  /\ batch \in [Workers -> SUBSET Videos]
  /\ \A w \in Workers : Job(w)
  /\ link \in [Workers -> {"up", "down", "deaf"}]
  /\ lost \subseteq Videos
  /\ faults \in 0..MaxFaults
  /\ votes \in 0..MaxVotes

Init ==
  /\ ballots = [v \in Videos |-> [u \in Users |-> NoVote]]
  /\ score = [v \in Videos |-> 0]
  /\ weighted = [v \in Videos |-> [c \in Categories |-> 0]]
  /\ inbox = [w \in Workers |-> {}]
  /\ pending = [w \in Workers |-> {}]
  /\ batch = [w \in Workers |-> {}]
  /\ job = [w \in Workers |-> NoJob]
  /\ link = [w \in Workers |-> "up"]
  /\ lost = {}
  /\ faults = 0
  /\ votes = 0

-----------------------------------------------------------------------------
(***************************************************************************)
(* A vote transaction commits: SubmitVote (trigger vote_inserted) or, with *)
(* b = NoVote, DeleteVote (explicit pg_notify).  PostgreSQL delivers the   *)
(* notification at commit, to the sessions that LISTEN at that moment.     *)
(*                                                                         *)
(* A vote that reaches a worker makes good what faults lost of its video,  *)
(* unless a worker that cannot hear it has read the votes already.         *)
(***************************************************************************)
Reading(w, v) == job[w] # NoJob /\ job[w].video = v

Heard(v) == /\ \E w \in Workers : link[w] = "up"
            /\ \A w \in Workers : Reading(w, v) => link[w] = "up"

(* Mutant of CommitVote: a deletion, which no trigger covers, is not notified. *)
SilentDelete(v, u, b) ==
  /\ votes < MaxVotes
  /\ b = NoVote => ballots[v][u] # NoVote
  /\ ballots' = [ballots EXCEPT ![v][u] = b]
  /\ inbox' = [w \in Workers |-> IF link[w] = "up" /\ b # NoVote
                                   THEN inbox[w] \cup {v} ELSE inbox[w]]
  /\ lost' = IF Heard(v) THEN lost \ {v} ELSE lost \cup {v}
  /\ votes' = votes + 1
  /\ UNCHANGED <<score, weighted, pending, batch, job, link, faults>>

CommitVote(v, u, b) ==
  /\ votes < MaxVotes
  /\ b = NoVote => ballots[v][u] # NoVote
  /\ ballots' = [ballots EXCEPT ![v][u] = b]
  /\ inbox' = [w \in Workers |-> IF link[w] = "up" THEN inbox[w] \cup {v} ELSE inbox[w]]
  /\ lost' = IF Heard(v) THEN lost \ {v} ELSE lost \cup {v}
  /\ votes' = votes + 1
  /\ UNCHANGED <<score, weighted, pending, batch, job, link, faults>>

(* listenLoop, _on_notification: the id joins the pending set. *)
Receive(w, v) ==
  /\ v \in inbox[w]
  /\ inbox' = [inbox EXCEPT ![w] = @ \ {v}]
  /\ pending' = [pending EXCEPT ![w] = @ \cup {v}]
  /\ UNCHANGED <<tables, batch, job, link, lost, faults, votes>>

(* The ticker fires: flush swaps the pending set for an empty one. *)
StartFlush(w) ==
  /\ batch[w] = {} /\ pending[w] # {}
  /\ batch' = [batch EXCEPT ![w] = pending[w]]
  /\ pending' = [pending EXCEPT ![w] = {}]
  /\ UNCHANGED <<tables, inbox, job, link, lost, faults, votes>>

(* SELECT SUM(trust_weight): the first statement, with its own snapshot.   *)
(* Without votes there is nothing more to read.                            *)
ReadTotal(w, v) ==
  LET total == TotalWeight(ballots[v]) IN
  /\ job[w] = NoJob /\ v \in batch[w]
  /\ job' = [job EXCEPT ![w] =
       IF total = 0
         THEN [stage |-> "write", video |-> v, total |-> 0, sums |-> <<>>]
         ELSE [stage |-> "groups", video |-> v, total |-> total]]
  /\ UNCHANGED <<tables, inbox, pending, batch, link, lost, faults, votes>>

(* SELECT category, SUM(trust_weight) GROUP BY category: a later snapshot. *)
ReadGroups(w) ==
  /\ job[w].stage = "groups"
  /\ job' = [job EXCEPT ![w] =
       [stage |-> "write", video |-> job[w].video, total |-> job[w].total,
        sums |-> GroupSums(ballots[job[w].video])]]
  /\ UNCHANGED <<tables, inbox, pending, batch, link, lost, faults, votes>>

(* Mutant of WriteScore: the id leaves the pending set when it is written. *)
WriteAndForget(w) ==
  LET v == job[w].video
      total == job[w].total
  IN /\ job[w].stage = "write"
     /\ score' = [score EXCEPT ![v] = IF total = 0 THEN 0 ELSE MaxScore(job[w].sums, total)]
     /\ pending' = [pending EXCEPT ![w] = @ \ {v}]
     /\ batch' = [batch EXCEPT ![w] = @ \ {v}]
     /\ job' = [job EXCEPT ![w] = NoJob]
     /\ UNCHANGED <<ballots, weighted, inbox, link, lost, faults, votes>>

(* Mutant of WriteScore: a video without votes keeps its score. *)
WriteScoreOfVotes(w) ==
  LET v == job[w].video
      total == job[w].total
  IN /\ job[w].stage = "write"
     /\ score' = [score EXCEPT ![v] = IF total = 0 THEN @ ELSE MaxScore(job[w].sums, total)]
     /\ batch' = [batch EXCEPT ![w] = @ \ {v}]
     /\ job' = [job EXCEPT ![w] = NoJob]
     /\ UNCHANGED <<ballots, weighted, inbox, pending, link, lost, faults, votes>>

(* Mutant of WriteScore: a category that has a weighted_score keeps it. *)
WriteScoreOnce(w) ==
  LET v == job[w].video
      sums == job[w].sums
      total == job[w].total
  IN /\ job[w].stage = "write"
     /\ score' = [score EXCEPT ![v] = IF total = 0 THEN 0 ELSE MaxScore(sums, total)]
     /\ weighted' = [weighted EXCEPT ![v] =
          [c \in Categories |-> IF total # 0 /\ c \in DOMAIN sums /\ @[c] = 0
                                  THEN Percent(sums[c], total) ELSE @[c]]]
     /\ batch' = [batch EXCEPT ![w] = @ \ {v}]
     /\ job' = [job EXCEPT ![w] = NoJob]
     /\ UNCHANGED <<ballots, inbox, pending, link, lost, faults, votes>>

(* The UPDATEs and the commit.  Only categories that still have votes get  *)
(* a new weighted_score, unless no votes are left at all.                  *)
WriteScore(w) ==
  LET v == job[w].video
      sums == job[w].sums
      total == job[w].total
  IN /\ job[w].stage = "write"
     /\ score' = [score EXCEPT ![v] = IF total = 0 THEN 0 ELSE MaxScore(sums, total)]
     /\ weighted' = [weighted EXCEPT ![v] =
          [c \in Categories |-> CASE total = 0        -> 0
                                  [] total # 0 /\ c \in DOMAIN sums
                                     -> Percent(sums[c], total)
                                  [] OTHER            -> @[c]]]
     /\ batch' = [batch EXCEPT ![w] = @ \ {v}]
     /\ job' = [job EXCEPT ![w] = NoJob]
     /\ UNCHANGED <<ballots, inbox, pending, link, lost, faults, votes>>

-----------------------------------------------------------------------------
Fault(kind) == kind \in Faults /\ faults < MaxFaults /\ faults' = faults + 1

(* Mutant of RecalculateFails: the failed transaction is not rolled back. *)
RecalculateHangs(w) ==
  /\ job[w] # NoJob
  /\ Fault("recalculate")
  /\ batch' = [batch EXCEPT ![w] = @ \ {job[w].video}]
  /\ lost' = lost \cup {job[w].video}
  /\ UNCHANGED <<tables, inbox, pending, job, link, votes>>

(* The transaction fails (lost connection, deadlock with a vote, timeout): *)
(* the error is logged and the loop goes on to the next id.                *)
RecalculateFails(w) ==
  /\ job[w] # NoJob
  /\ Fault("recalculate")
  /\ batch' = [batch EXCEPT ![w] = @ \ {job[w].video}]
  /\ job' = [job EXCEPT ![w] = NoJob]
  /\ lost' = lost \cup {job[w].video}
  /\ UNCHANGED <<tables, inbox, pending, link, votes>>

(***************************************************************************)
(* Go: WaitForNotification returns an error and the deferred flushCancel   *)
(* fails what the running flush has left.  flushLoop then takes what is    *)
(* pending with a context of its own, unless its select picks a tick that  *)
(* is due as well and flushes with the cancelled one.                      *)
(***************************************************************************)
ListenFails(w) ==
  /\ w \in GoWorkers /\ link[w] = "up"
  /\ Fault("listen")
  /\ \E final \in {pending[w], {}} :
       /\ batch' = [batch EXCEPT ![w] = final]
       /\ lost' = lost \cup ((inbox[w] \cup pending[w] \cup batch[w]) \ final)
  /\ link' = [link EXCEPT ![w] = "down"]
  /\ inbox' = [inbox EXCEPT ![w] = {}]
  /\ pending' = [pending EXCEPT ![w] = {}]
  /\ job' = [job EXCEPT ![w] = NoJob]
  /\ UNCHANGED <<tables, votes>>

(* Python: nothing awaits the connection, so the loop runs on and no       *)
(* longer hears anything.                                                  *)
GoesDeaf(w) ==
  /\ w \notin GoWorkers /\ link[w] = "up"
  /\ Fault("listen")
  /\ link' = [link EXCEPT ![w] = "deaf"]
  /\ inbox' = [inbox EXCEPT ![w] = {}]
  /\ lost' = lost \cup inbox[w]
  /\ UNCHANGED <<tables, pending, batch, job, votes>>

(***************************************************************************)
(* The process ends.  It keeps nothing: a crash loses it all, Python's     *)
(* shutdown cancels the task without a flush, and Go's main closes the     *)
(* pool without waiting for the final flush.                               *)
(***************************************************************************)
Stop(w) ==
  /\ Fault("stop")
  /\ link' = [link EXCEPT ![w] = "down"]
  /\ inbox' = [inbox EXCEPT ![w] = {}]
  /\ pending' = [pending EXCEPT ![w] = {}]
  /\ batch' = [batch EXCEPT ![w] = {}]
  /\ job' = [job EXCEPT ![w] = NoJob]
  /\ lost' = lost \cup inbox[w] \cup pending[w] \cup batch[w]
  /\ UNCHANGED <<tables, votes>>

(* The process starts again, or Go's Start calls listenLoop once more. *)
Reconnect(w) ==
  /\ link[w] = "down"
  /\ link' = [link EXCEPT ![w] = "up"]
  /\ UNCHANGED <<tables, inbox, pending, batch, job, lost, faults, votes>>

Work(w) == \/ \E v \in Videos : Receive(w, v) \/ ReadTotal(w, v)
           \/ StartFlush(w) \/ ReadGroups(w) \/ WriteScore(w) \/ Reconnect(w)

Fail(w) == RecalculateFails(w) \/ ListenFails(w) \/ GoesDeaf(w) \/ Stop(w)

Next == \/ \E v \in Videos, u \in Users, b \in Categories \cup {NoVote} :
             CommitVote(v, u, b)
        \/ \E w \in Workers : Work(w) \/ Fail(w)

Spec == Init /\ [][Next]_vars

(***************************************************************************)
(* As long as a worker has something to do, some worker does something;    *)
(* nobody has to vote and nothing has to fail.  The code gives more, each  *)
(* listener and each ticker keeps running, but this is enough: a vote      *)
(* makes only so much work.                                                *)
(***************************************************************************)
FairSpec == Spec /\ WF_vars(\E w \in Workers : Work(w))

-----------------------------------------------------------------------------
Due(w)   == inbox[w] \cup pending[w] \cup batch[w]
Stale(v) == score[v] # ScoreOf(ballots[v])

(***************************************************************************)
(* A score that does not match the votes is due at some worker, or faults  *)
(* made the workers forget the video and no vote on it has been heard      *)
(* since: the swap of the pending set, a vote between the two reads, and a *)
(* worker overwriting another's fresher result lose nothing.               *)
(***************************************************************************)
OnlyFaultsLoseScores ==
  \A v \in Videos : Stale(v) => v \in lost \/ \E w \in Workers : v \in Due(w)

(***************************************************************************)
(* Where nothing is due or lost, each category that has votes shows its    *)
(* share of them ("For each category C: C_score = ..."), although it comes *)
(* from another query than the total.  A category whose last vote has      *)
(* moved away keeps what it had.                                           *)
(***************************************************************************)
VotedCategoriesMatch ==
  \A v \in Videos :
    \/ v \in lost
    \/ \E w \in Workers : v \in Due(w)
    \/ \A u \in Users : ballots[v][u] # NoVote =>
         weighted[v][ballots[v][u]] = CategoryScore(ballots[v], ballots[v][u])

(***************************************************************************)
(* Once votes and faults stop, every score settles on what the votes say,  *)
(* but for the videos a fault made the workers forget: workers overwriting *)
(* each other and flushes cut short by a lost connection do not delay it   *)
(* for ever.                                                               *)
(***************************************************************************)
RememberedScoresConverge == <>[](\A v \in Videos : Stale(v) => v \in lost)

-----------------------------------------------------------------------------
(***************************************************************************)
(* The inductive invariant behind OnlyFaultsLoseScores and                 *)
(* VotedCategoriesMatch.                                                   *)
(***************************************************************************)
Shape ==
  /\ ballots \in [Videos -> [Users -> Categories \cup {NoVote}]]
  /\ DOMAIN score = Videos
  /\ DOMAIN weighted = Videos
  /\ inbox \in [Workers -> SUBSET Videos]
  /\ pending \in [Workers -> SUBSET Videos]
  /\ batch \in [Workers -> SUBSET Videos]
  /\ DOMAIN job = Workers
  /\ DOMAIN link = Workers
  /\ \A w \in Workers : job[w] # NoJob => /\ job[w].video \in batch[w]
                                          /\ job[w].stage \in {"groups", "write"}

(* What w has read of a video is what the votes say now. *)
UpToDate(w) ==
  LET b == ballots[job[w].video] IN
  /\ job[w].total = TotalWeight(b)
  /\ job[w].stage = "write" /\ job[w].total # 0 => job[w].sums = GroupSums(b)

(* A recalculation that read older votes is going to be repeated. *)
ReadsRepeated ==
  \A w \in Workers : job[w] # NoJob =>
    \/ UpToDate(w)
    \/ job[w].video \in inbox[w] \cup pending[w] \cup lost

Inv == Shape /\ ReadsRepeated /\ OnlyFaultsLoseScores /\ VotedCategoriesMatch
=============================================================================
