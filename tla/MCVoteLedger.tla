---------------------------- MODULE MCVoteLedger ----------------------------
(***************************************************************************)
(* An instance of VoteLedgerSerial for TLC: two users, of whom the first   *)
(* has two handlers and may have two requests in flight at once.           *)
(***************************************************************************)
EXTENDS VoteLedgerSerial, TLC

CONSTANTS u1, u2, p1, p2, p3

TwoHandlersOfOne == p1 :> u1 @@ p2 :> u1 @@ p3 :> u2
=============================================================================
