-------------------------- MODULE VoteLedgerSerial --------------------------
(***************************************************************************)
(* VoteLedger with a history variable.  What the tables promise when the   *)
(* requests of each user come one after the other is stated up to the      *)
(* first time that they do not, and raced remembers that time.             *)
(***************************************************************************)
EXTENDS VoteLedger

VARIABLE raced  \* history: two requests of one user have been in flight at once

serialVars == <<vars, raced>>

Racing == \E p, q \in Procs : /\ p # q /\ UserOf[p] = UserOf[q]
                              /\ pc[p] # "idle" /\ pc[q] # "idle"

SerialInit == Init /\ raced = FALSE
SerialNext == Next /\ raced' = (raced \/ Racing')

SerialSpec == SerialInit /\ [][SerialNext]_serialVars /\ Fairness

(***************************************************************************)
(* Every vote on file is counted in its category, as long as no user has   *)
(* had two requests at once: DecOld and DecCount take back only what the   *)
(* same user's vote had added.                                             *)
(***************************************************************************)
CountCoversSerialVotes == raced \/ CountCoversVotes

(***************************************************************************)
(* The transactions of SubmitVote and DeleteVote implement the book of one *)
(* vote per user, with a total that is exact ("adjusts counters            *)
(* atomically"), as long as no user has had two requests at once.          *)
(***************************************************************************)
ImplementsVoteBook == Book!Init /\ [][raced' \/ Book!Next]_<<vote, total>>
-----------------------------------------------------------------------------
(***************************************************************************)
(* The inductive invariant behind both.                                    *)
(***************************************************************************)
(* total_votes is the number of vote rows. *)
TotalExact == \A v \in Videos : total[v] = Cardinality(Voters(v))

(* What p has read is still what is on file, and what it has written to    *)
(* the counters is what the change of that vote calls for.                 *)
SerialFootprint(p) ==
  LET v == tx[p].video
      u == UserOf[p]
  IN /\ pc[p] \notin {"idle", "ensureVideo", "readVote"} => tx[p].seen = vote[v][u]
     /\ pc[p] \in {"ensureVideo", "readVote"} => \A c \in Categories : tx[p].count[c] = 0
     /\ pc[p] \in {"incCount", "touch", "commitSubmit"}
          => tx[p].total = IF tx[p].seen = NoVote THEN 1 ELSE 0
     /\ pc[p] \in {"touch", "commitSubmit"} => tx[p].count[tx[p].category] = 1
     /\ pc[p] \in {"decTotal", "decCount", "commitDelete"}
          => VoteRow(v, u) \in tx[p].held
     /\ pc[p] \in {"decCount", "commitDelete"} => tx[p].total = -1
     /\ \A c \in Categories : tx[p].count[c] = -1 => c = tx[p].seen

SerialTables == /\ ~ Racing
                /\ TotalExact
                /\ CountCoversVotes
                /\ \A p \in Procs : SerialFootprint(p)

SerialInv == Inv /\ (raced \/ SerialTables)
=============================================================================
