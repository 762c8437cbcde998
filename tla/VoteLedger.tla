----------------------------- MODULE VoteLedger -----------------------------
(***************************************************************************)
(* The vote transactions of both backends (vote_repo.go, vote_service.py)  *)
(* against PostgreSQL under READ COMMITTED, one action per SQL statement.  *)
(*                                                                         *)
(* vote, total, count and videos are the committed tables.  A transaction  *)
(* keeps what it has written in tx[p] until it commits: a row it wrote is  *)
(* in tx[p].held, the lock that makes every other writer of the row wait.  *)
(* The Go and the Python code issue the same statements in the same order, *)
(* so a process stands for a request handler of either backend.            *)
(***************************************************************************)
EXTENDS Integers, FiniteSets

CONSTANTS Videos,      \* video ids
          Users,       \* hashed user ids
          Categories,  \* the five AI categories of ValidCategories
          NoVote,      \* no row in votes for a (video, user) pair
          Procs,       \* request handlers
          MaxConns,    \* connections of the pool, one per open transaction
          UserOf,      \* UserOf[p]: the user whose requests p serves
          MaxCount     \* bound on video_categories.vote_count

ASSUME NoVoteAssumption   == NoVote \notin Categories
ASSUME UsersAssumption    == IsFiniteSet(Users)
ASSUME UserOfAssumption   == UserOf \in [Procs -> Users]
ASSUME MaxCountAssumption == MaxCount \in Nat

VARIABLES videos,      \* rows of videos
          vote,        \* vote[v][u]: votes.category, or NoVote
          total,       \* total[v]: videos.total_votes
          count,       \* count[v][c]: video_categories.vote_count, 0 if no row
          pc,          \* pc[p]: the statement p executes next
          tx           \* tx[p]: request and uncommitted writes of p

tables == <<videos, vote, total, count>>
vars   == <<videos, vote, total, count, pc, tx>>

SubmitSteps == {"ensureVideo", "readVote", "upsertVote", "incTotal", "decOld",
                "incCount", "touch", "commitSubmit"}
DeleteSteps == {"removeVote", "decTotal", "decCount", "commitDelete"}

Filed == Categories \cup {NoVote}

(***************************************************************************)
(* Rows that a transaction can lock.                                       *)
(***************************************************************************)
UserRow(u)        == <<"users", u>>
VideoRow(v)       == <<"videos", v>>
VoteRow(v, u)     == <<"votes", v, u>>
CategoryRow(v, c) == <<"video_categories", v, c>>

Rows == {UserRow(u) : u \in Users} \cup {VideoRow(v) : v \in Videos}
        \cup {VoteRow(v, u) : v \in Videos, u \in Users}
        \cup {CategoryRow(v, c) : v \in Videos, c \in Categories}

Transaction == [video    : Videos,
                category : Filed,                 \* requested category
                seen     : Filed,                 \* category the SELECT returned
                total    : {-1, 0, 1},            \* written to total_votes
                count    : [Categories -> {-1, 0, 1}],  \* to vote_count
                held     : SUBSET Rows]           \* rows inserted or updated

NoTransaction(v) == [video |-> v, category |-> NoVote, seen |-> NoVote, total |-> 0,
                     count |-> [c \in Categories |-> 0], held |-> {}]

TypeOK ==
  /\ videos \subseteq Videos
  /\ vote \in [Videos -> [Users -> Filed]]
  /\ total \in [Videos -> Nat]
  /\ count \in [Videos -> [Categories -> Nat]]
  /\ pc \in [Procs -> {"idle"} \cup SubmitSteps \cup DeleteSteps]
  /\ tx \in [Procs -> Transaction]

Init ==
  /\ videos = {}
  /\ vote = [v \in Videos |-> [u \in Users |-> NoVote]]
  /\ total = [v \in Videos |-> 0]
  /\ count = [v \in Videos |-> [c \in Categories |-> 0]]
  /\ pc = [p \in Procs |-> "idle"]
  /\ \E v \in Videos : tx = [p \in Procs |-> NoTransaction(v)]

-----------------------------------------------------------------------------
(***************************************************************************)
(* PostgreSQL: a row written by an open transaction can be written by no   *)
(* other until that one ends.                                              *)
(***************************************************************************)
Free(p, row) == \A q \in Procs \ {p} : row \notin tx[q].held

Holding(p, row) == [tx[p] EXCEPT !.held = @ \cup {row}]

(* Statement after statement: p's transaction becomes t, step comes next. *)
Advance(p, t, step) ==
  /\ tx' = [tx EXCEPT ![p] = t]
  /\ pc' = [pc EXCEPT ![p] = step]
  /\ UNCHANGED tables

-----------------------------------------------------------------------------
(* r.pool.Begin waits for a connection of the pool. *)
Begin(p) == pc[p] = "idle" /\ Cardinality({q \in Procs : pc[q] # "idle"}) < MaxConns

(* Mutant of UpsertUser: ON CONFLICT DO NOTHING, the users row is not locked. *)
InsertUser(p, v, c) ==
  /\ Begin(p)
  /\ \A k \in Categories : count[v][k] < MaxCount
  /\ Advance(p, [NoTransaction(v) EXCEPT !.category = c], "ensureVideo")

(***************************************************************************)
(* SubmitVote.  The first statement upserts the user and sets last_active, *)
(* so it locks the users row: submissions of one user are serialized.      *)
(***************************************************************************)
UpsertUser(p, v, c) ==
  /\ Begin(p)
  /\ \A k \in Categories : count[v][k] < MaxCount
  /\ Free(p, UserRow(UserOf[p]))
  /\ Advance(p, [NoTransaction(v) EXCEPT !.category = c,
                                         !.held = {UserRow(UserOf[p])}],
             "ensureVideo")

(***************************************************************************)
(* INSERT INTO videos ... ON CONFLICT DO NOTHING waits for any transaction *)
(* that has written the row, then inserts it unless it is there.           *)
(***************************************************************************)
EnsureVideo(p) ==
  /\ pc[p] = "ensureVideo"
  /\ Free(p, VideoRow(tx[p].video))
  /\ Advance(p, IF tx[p].video \in videos
                   THEN tx[p] ELSE Holding(p, VideoRow(tx[p].video)),
             "readVote")

(* SELECT category FROM votes: a plain read of the committed row, no lock. *)
ReadVote(p) ==
  /\ pc[p] = "readVote"
  /\ Advance(p, [tx[p] EXCEPT !.seen = vote[tx[p].video][UserOf[p]]],
             "upsertVote")

(***************************************************************************)
(* INSERT INTO votes ... ON CONFLICT DO UPDATE.  The counters it leads to  *)
(* are chosen by what ReadVote saw, not by what this statement did.        *)
(***************************************************************************)
UpsertVote(p) ==
  LET row == VoteRow(tx[p].video, UserOf[p]) IN
  /\ pc[p] = "upsertVote"
  /\ Free(p, row)
  /\ Advance(p, Holding(p, row),
             CASE tx[p].seen = NoVote         -> "incTotal"
               [] tx[p].seen = tx[p].category -> "incCount"
               [] OTHER                       -> "decOld")

IncTotal(p) ==
  LET row == VideoRow(tx[p].video) IN
  /\ pc[p] = "incTotal"
  /\ Free(p, row)
  /\ Advance(p, [Holding(p, row) EXCEPT !.total = 1], "incCount")

(***************************************************************************)
(* UPDATE video_categories SET vote_count = vote_count - 1 ... AND         *)
(* vote_count > 0.  A row whose committed count is 0 does not match and is *)
(* not waited for; any other is locked first and matched again.            *)
(***************************************************************************)
DecrementSeen(p, step) ==
  LET c   == tx[p].seen
      row == CategoryRow(tx[p].video, c)
  IN \/ /\ count[tx[p].video][c] = 0
        /\ Advance(p, tx[p], step)
     \/ /\ count[tx[p].video][c] > 0
        /\ Free(p, row)
        /\ Advance(p, [Holding(p, row) EXCEPT !.count[c] = -1], step)

(* Mutant of DecOld: a changed vote is taken from one category, added to none. *)
DecOldOnly(p) == pc[p] = "decOld" /\ DecrementSeen(p, "touch")

DecOld(p) == pc[p] = "decOld" /\ DecrementSeen(p, "incCount")

(* Runs for every submission, also one that repeats the category on file. *)
IncCount(p) ==
  LET row == CategoryRow(tx[p].video, tx[p].category) IN
  /\ pc[p] = "incCount"
  /\ Free(p, row)
  /\ Advance(p, [Holding(p, row) EXCEPT !.count[tx[p].category] = 1], "touch")

(* UPDATE videos SET last_updated: the timestamp is left out, the lock is not. *)
Touch(p) ==
  LET row == VideoRow(tx[p].video) IN
  /\ pc[p] = "touch"
  /\ Free(p, row)
  /\ Advance(p, Holding(p, row), "commitSubmit")

-----------------------------------------------------------------------------
(***************************************************************************)
(* DeleteVote.  It takes no lock on the user.  A vote that is not there is *)
(* answered with 404 before anything is written, so it is not a step.      *)
(***************************************************************************)
ReadForDelete(p, v) ==
  /\ Begin(p)
  /\ vote[v][UserOf[p]] # NoVote
  /\ Advance(p, [NoTransaction(v) EXCEPT !.seen = vote[v][UserOf[p]]],
             "removeVote")

(* DELETE FROM votes: how many rows went is not looked at. *)
RemoveVote(p) ==
  LET row == VoteRow(tx[p].video, UserOf[p]) IN
  /\ pc[p] = "removeVote"
  /\ \/ /\ vote[tx[p].video][UserOf[p]] = NoVote
        /\ Advance(p, tx[p], "decTotal")
     \/ /\ vote[tx[p].video][UserOf[p]] # NoVote
        /\ Free(p, row)
        /\ Advance(p, Holding(p, row), "decTotal")

(* Mutant of DecTotal: no AND total_votes > 0. *)
DecTotalUnguarded(p) ==
  LET row == VideoRow(tx[p].video) IN
  /\ pc[p] = "decTotal"
  /\ Free(p, row)
  /\ Advance(p, [Holding(p, row) EXCEPT !.total = -1], "decCount")

(* Mutant of DecTotal: total_votes is left as it is. *)
DecTotalMissing(p) == pc[p] = "decTotal" /\ Advance(p, tx[p], "decCount")

(* UPDATE videos SET total_votes = total_votes - 1 ... AND total_votes > 0. *)
DecTotal(p) ==
  LET row == VideoRow(tx[p].video) IN
  /\ pc[p] = "decTotal"
  /\ \/ /\ total[tx[p].video] = 0
        /\ Advance(p, tx[p], "decCount")
     \/ /\ total[tx[p].video] > 0
        /\ Free(p, row)
        /\ Advance(p, [Holding(p, row) EXCEPT !.total = -1], "decCount")

DecCount(p) == pc[p] = "decCount" /\ DecrementSeen(p, "commitDelete")

-----------------------------------------------------------------------------
(* Mutant of Commit: DeleteVote returns without ending its transaction. *)
CommitSubmitOnly(p) ==
  LET v == tx[p].video
      u == UserOf[p]
  IN /\ pc[p] = "commitSubmit"
     /\ videos' = videos \cup {v}
     /\ vote' = [vote EXCEPT ![v][u] = tx[p].category]
     /\ total' = [total EXCEPT ![v] = @ + tx[p].total]
     /\ count' = [count EXCEPT ![v] = [c \in Categories |-> @[c] + tx[p].count[c]]]
     /\ tx' = [tx EXCEPT ![p] = NoTransaction(v)]
     /\ pc' = [pc EXCEPT ![p] = "idle"]

(* tx.Commit: the written rows replace the committed ones, the locks go. *)
Commit(p) ==
  LET v == tx[p].video
      u == UserOf[p]
  IN /\ pc[p] \in {"commitSubmit", "commitDelete"}
     /\ videos' = IF VideoRow(v) \in tx[p].held THEN videos \cup {v} ELSE videos
     /\ vote' = IF VoteRow(v, u) \in tx[p].held
                  THEN [vote EXCEPT ![v][u] = tx[p].category] ELSE vote
     /\ total' = [total EXCEPT ![v] = @ + tx[p].total]
     /\ count' = [count EXCEPT ![v] = [c \in Categories |-> @[c] + tx[p].count[c]]]
     /\ tx' = [tx EXCEPT ![p] = NoTransaction(v)]
     /\ pc' = [pc EXCEPT ![p] = "idle"]

(* tx.Rollback: nothing of the transaction remains. *)
Rollback(p) == Advance(p, NoTransaction(tx[p].video), "idle")

(* A statement fails, or the connection or the backend dies. *)
RequestFails(p) == pc[p] # "idle" /\ Rollback(p)

(***************************************************************************)
(* The row the next statement of p waits for, if another holds it.         *)
(***************************************************************************)
Wanted(p) ==
  LET v == tx[p].video IN
  CASE pc[p] \in {"ensureVideo", "incTotal", "touch"} -> {VideoRow(v)}
    [] pc[p] = "upsertVote" -> {VoteRow(v, UserOf[p])}
    [] pc[p] = "removeVote" -> IF vote[v][UserOf[p]] = NoVote
                                 THEN {} ELSE {VoteRow(v, UserOf[p])}
    [] pc[p] = "decTotal"   -> IF total[v] = 0 THEN {} ELSE {VideoRow(v)}
    [] pc[p] = "incCount"   -> {CategoryRow(v, tx[p].category)}
    [] pc[p] \in {"decOld", "decCount"} ->
         IF count[v][tx[p].seen] = 0 THEN {} ELSE {CategoryRow(v, tx[p].seen)}
    [] OTHER -> {}

WaitsFor(p, q) == p # q /\ Wanted(p) \cap tx[q].held # {}

(* A cycle of waiting transactions: each waits for one, is waited for by one. *)
InCycle(p) ==
  \E S \in SUBSET Procs :
     /\ p \in S
     /\ \A q \in S : /\ \E r \in S : WaitsFor(q, r)
                     /\ \E r \in S : WaitsFor(r, q)

(* PostgreSQL's deadlock detector fails one transaction of the cycle. *)
DeadlockVictim(p) == InCycle(p) /\ Rollback(p)

Submit(p) ==
  \/ EnsureVideo(p) \/ ReadVote(p) \/ UpsertVote(p) \/ IncTotal(p)
  \/ DecOld(p) \/ IncCount(p) \/ Touch(p)

Delete(p) == RemoveVote(p) \/ DecTotal(p) \/ DecCount(p)

(* The transaction p has open goes on by one statement. *)
Statement(p) == Submit(p) \/ Delete(p) \/ Commit(p)

Request(p) == \E v \in Videos : \/ \E c \in Categories : UpsertUser(p, v, c)
                                \/ ReadForDelete(p, v)

Next == \E p \in Procs :
          Request(p) \/ Statement(p) \/ RequestFails(p) \/ DeadlockVictim(p)

Spec == Init /\ [][Next]_vars

(***************************************************************************)
(* A transaction that can go on does: handlers run on their own goroutine  *)
(* or task, and PostgreSQL grants a row to its waiters in turn (strong     *)
(* fairness) and breaks every cycle after deadlock_timeout.  Nobody has to *)
(* send a request.                                                         *)
(***************************************************************************)
Fairness == \A p \in Procs : SF_vars(Statement(p)) /\ WF_vars(DeadlockVictim(p))

FairSpec == Spec /\ Fairness

-----------------------------------------------------------------------------
Voters(v)        == {u \in Users : vote[v][u] # NoVote}
VotersFor(v, c)  == {u \in Users : vote[v][u] = c}

(***************************************************************************)
(* total_votes never exceeds the number of vote rows of the video, however *)
(* submissions and deletions of the same users interleave: IncTotal runs   *)
(* only for a vote that no earlier submission counted.                     *)
(***************************************************************************)
NoOvercount == \A v \in Videos : total[v] <= Cardinality(Voters(v))

(***************************************************************************)
(* Every vote on file is counted in its category: DecOld and DecCount take *)
(* back only what the same user's vote had added.                          *)
(***************************************************************************)
CountCoversVotes ==
  \A v \in Videos, c \in Categories : count[v][c] >= Cardinality(VotersFor(v, c))

(***************************************************************************)
(* Every transaction ends, with a commit or a rollback, although vote      *)
(* changes, new votes and deletions lock the same rows in different orders.*)
(***************************************************************************)
RequestsEnd == \A p \in Procs : []<>(pc[p] = "idle")

(***************************************************************************)
(* The one-vote-per-user book the committed tables stand for.              *)
(***************************************************************************)
Book == INSTANCE VoteBook WITH vote <- vote, total <- total
-----------------------------------------------------------------------------
(***************************************************************************)
(* The inductive invariant behind NoOvercount.                             *)
(***************************************************************************)
(* No row is written by two open transactions. *)
LockExclusion ==
  \A p, q \in Procs : p # q => tx[p].held \cap tx[q].held = {}

(* What a submission in flight rests on: the user row it locked keeps what *)
(* ReadVote saw true when it saw no vote.                                  *)
SubmitFootprint(p) ==
  LET v == tx[p].video
      u == UserOf[p]
  IN pc[p] \in SubmitSteps =>
       /\ tx[p].category \in Categories
       /\ UserRow(u) \in tx[p].held
       /\ tx[p].total \in {0, 1}
       /\ pc[p] \in {"ensureVideo", "readVote", "upsertVote", "incTotal"}
            => tx[p].total = 0
       /\ pc[p] = "decOld" => tx[p].seen \in Categories
       /\ pc[p] = "incTotal" => tx[p].seen = NoVote
       /\ tx[p].total = 1 => tx[p].seen = NoVote
       /\ pc[p] \notin {"ensureVideo", "readVote"} /\ tx[p].seen = NoVote
            => vote[v][u] = NoVote
       /\ pc[p] \notin {"ensureVideo", "readVote", "upsertVote"}
            => VoteRow(v, u) \in tx[p].held

(* What a deletion in flight rests on: the vote it has removed, if it did, *)
(* is still on file, since it holds the row.                               *)
DeleteFootprint(p) ==
  LET v == tx[p].video
      u == UserOf[p]
  IN pc[p] \in DeleteSteps =>
       /\ tx[p].category = NoVote
       /\ tx[p].seen \in Categories
       /\ tx[p].total \in {-1, 0}
       /\ pc[p] \in {"removeVote", "decTotal"} => tx[p].total = 0
       /\ VoteRow(v, u) \in tx[p].held => vote[v][u] # NoVote

(* A counter that will change is locked, and one that will go down is not 0. *)
CounterFootprint(p) ==
  LET v == tx[p].video IN
  /\ pc[p] = "idle" => tx[p].held = {} /\ tx[p].total = 0
  /\ tx[p].total # 0 => VideoRow(v) \in tx[p].held
  /\ tx[p].total = -1 => total[v] > 0
  /\ \A c \in Categories :
       /\ tx[p].count[c] # 0 => CategoryRow(v, c) \in tx[p].held
       /\ tx[p].count[c] = -1 => count[v][c] > 0

Footprints == \A p \in Procs : /\ SubmitFootprint(p)
                               /\ DeleteFootprint(p)
                               /\ CounterFootprint(p)

(* Deletions that have removed a vote and found total_votes at 0 already. *)
Skips(p, v) == /\ pc[p] \in {"decCount", "commitDelete"}
               /\ tx[p].video = v
               /\ tx[p].total = 0
               /\ VoteRow(v, UserOf[p]) \in tx[p].held

Skipped(v) == {u \in Users : \E p \in Procs : UserOf[p] = u /\ Skips(p, v)}

(* total_votes is covered by the votes no deletion is about to drop unpaid. *)
Covered == \A v \in Videos : total[v] <= Cardinality(Voters(v) \ Skipped(v))

(***************************************************************************)
(* The invariant that is inductive: it carries NoOvercount across steps in *)
(* which other transactions are half done.                                 *)
(***************************************************************************)
Inv == TypeOK /\ LockExclusion /\ Footprints /\ Covered
=============================================================================
