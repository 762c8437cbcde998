--------------------------- MODULE MCScoreWorker ----------------------------
(***************************************************************************)
(* Instances of ScoreWorker for TLC: the users' votes weigh the same, as   *)
(* they do with the default trust_score.                                   *)
(***************************************************************************)
EXTENDS ScoreRefinement

EqualWeights == [u \in Users |-> 3]     \* trust_score 0.3, in tenths
=============================================================================
