------------------------------ MODULE VoteBook ------------------------------
(***************************************************************************)
(* What the vote API promises, without transactions: every (video, user)   *)
(* pair holds at most one vote, a vote may be changed or withdrawn, and    *)
(* videos.total_votes counts the pairs that hold one.  VoteLedger is shown *)
(* to implement this book for as long as no two requests of one user are   *)
(* in flight together.                                                     *)
(***************************************************************************)
EXTENDS Integers

CONSTANTS Videos,      \* video ids
          Users,       \* hashed user ids
          Categories,  \* the five AI categories of ValidCategories
          NoVote       \* the (video, user) pair has no row in votes

VARIABLES vote,        \* vote[v][u]: category the user filed, or NoVote
          total        \* total[v]: videos.total_votes

bookVars == <<vote, total>>

Empty == [v \in Videos |-> [u \in Users |-> NoVote]]

Init == /\ vote = Empty
        /\ total = [v \in Videos |-> 0]

(* POST /api/votes: file a vote, or change the category of the one filed. *)
Submit(v, u, c) ==
  /\ vote' = [vote EXCEPT ![v][u] = c]
  /\ total' = IF vote[v][u] = NoVote
                THEN [total EXCEPT ![v] = @ + 1] ELSE total

(* DELETE /api/votes: withdraw a vote that exists. *)
Withdraw(v, u) ==
  /\ vote[v][u] # NoVote
  /\ vote' = [vote EXCEPT ![v][u] = NoVote]
  /\ total' = [total EXCEPT ![v] = @ - 1]

Next == \E v \in Videos, u \in Users :
          \/ \E c \in Categories : Submit(v, u, c)
          \/ Withdraw(v, u)

Spec == Init /\ [][Next]_bookVars
=============================================================================
