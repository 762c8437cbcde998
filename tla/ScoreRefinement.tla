-------------------------- MODULE ScoreRefinement ---------------------------
(***************************************************************************)
(* What ChannelWorker assumes of the score workers is what they do.  There *)
(* a video with votes to be counted is due, a recalculation that leaves it *)
(* due writes anything, and one that settles it writes a score from all of *)
(* its votes; here that is the work of several workers that forget, fail   *)
(* and overwrite each other.                                               *)
(***************************************************************************)
EXTENDS ScoreWorker

(* Videos with votes no worker has counted: one has them in hand or before *)
(* it, or a fault made the workers forget them.                            *)
Uncounted == {v \in Videos : v \in lost \/ \E w \in Workers : v \in Due(w)}

HasVotes == [v \in Videos |-> \E u \in Users : ballots[v][u] # NoVote]

(* ScoreWorker has no channels: the row is as before the first tick. *)
NoRow == [exists |-> FALSE, locked |-> FALSE, auto |-> FALSE,
          stats |-> [flagged |-> 0, tracked |-> 0, score |-> 0]]

Channel == INSTANCE ChannelWorker WITH
  voted <- HasVotes, due <- Uncounted, channel <- NoRow, job <- [w \in {} |-> w],
  changes <- votes, faults <- 0,
  Workers <- {}, VoteScores <- Shares \cap 1..100, OldScores <- Shares,
  MaxChanges <- MaxVotes, MaxFaults <- 0,
  FlaggedFrom <- 50, MinTracked <- 3, MinFlagged <- 20, FlagScore <- 80, Preliminary <- 60

(***************************************************************************)
(* Every step of the score workers is one of ChannelWorker's or a stutter: *)
(* a write after which nothing is due of a video, and nothing lost, is of  *)
(* a percentage from 1 to 100 if it has votes and of 0 if it has none.     *)
(***************************************************************************)
ImplementsChannel == Channel!Spec

(***************************************************************************)
(* So is the score that is found: a video without votes has 0, one with    *)
(* votes a percentage, once they are counted.                              *)
(***************************************************************************)
CountedScoresInRange ==
  \A v \in Videos : v \notin Uncounted =>
    score[v] \in IF HasVotes[v] THEN 1..100 ELSE {0}

-----------------------------------------------------------------------------
(* What both take: votes weigh something (trust_score is 0.3 by default,   *)
(* and nothing stores another), and there are few enough categories for    *)
(* the largest share to be one percent (the code has five).                *)
PositiveWeights == \A u \in Users : Weight[u] > 0
FewCategories   == Cardinality(Categories) <= 100
=============================================================================
